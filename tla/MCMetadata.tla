------------------------------- MODULE MCMetadata -------------------------------
(***************************************************************************)
(* Values of the constants for TLC.                                        *)
(***************************************************************************)
EXTENDS MetadataProperties

MCNames == {"db", "typo"}

\* The safety package's SQL side is not used here.
NoTexts  == {}
NoParsed == [t \in {} |-> << >>]

MCDefaults(mode) ==
  [ permission_mode |-> mode,
    limits |-> [l \in Limit |-> 1],
    allow_multiple_statements |-> FALSE, block_destructive_sql |-> TRUE ]

MCConfig(mode, type, read_only, full, catalog, schema, unset) ==
  [ defaults |-> MCDefaults(mode),
    connections |->
      [ db |-> [ type |-> type, read_only |-> read_only,
                 allow_full_permissions |-> full ] ],
    home  |-> [n \in MCNames |-> [catalog |-> catalog, schema |-> schema]],
    unset |-> [n \in MCNames |-> unset] ]

MCRequest(tool, name, mode, catalog, schema) ==
  [ tool |-> tool, connection_name |-> name, permission_mode |-> mode,
    catalog |-> catalog, schema |-> schema ]

\* Every backend, with and without a catalog and schema of its own, the catalog
\* "system" included; and one backend under every policy and missing secret.
MCConfigs ==
  { MCConfig("readonly", type, TRUE, FALSE, catalog, schema, "nothing")
      : type \in {"sqlserver", "snowflake", "databricks"},
        catalog \in {None, "main", "system"}, schema \in {None, "main"} }
  \cup
  { MCConfig(mode, "snowflake", read_only, full, "main", None, unset)
      : mode \in PermissionMode, read_only \in BOOLEAN, full \in BOOLEAN,
        unset \in {"nothing", "password", "other"} }

MCRequests ==
  { MCRequest(tool, "db", None, None, None)
      : tool \in {"list_connections", "test_connection", "list_schemas",
                  "list_tables"} }
  \cup
  { MCRequest("list_tables", "db", "full", "", None),
    MCRequest("list_tables", "typo", None, None, None),
    MCRequest("describe_table", "db", "full", "main", "main"),
    MCRequest("describe_table", "db", None, None, "main"),
    MCRequest("describe_table", "db", None, None, "") }

MCRows   == {0, 2}
MCErrors == { Raw({}), Raw({"QUERY_BLOCKED", "CONNECTION_FAILED"}) }

\* One fault-free call to SQL Server.
SqlServerConfigs ==
  { MCConfig("readonly", "sqlserver", TRUE, FALSE, None, None, "nothing") }
TableRequests ==
  { MCRequest("list_tables", "db", None, catalog, schema)
      : catalog \in {None, "main"}, schema \in {None, "main"} }
NoErrors == {}
==============================================================================
