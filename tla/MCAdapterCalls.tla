----------------------------- MODULE MCAdapterCalls -----------------------------
(***************************************************************************)
(* Values of the constants for TLC.                                        *)
(***************************************************************************)
EXTENDS AdapterProperties

MCNames == {"db"}

\* Snowflake's refs: account, user, password, warehouse, role.
SqlServer  == [type |-> "sqlserver", refs |-> << "A" >>]
Snowflake  == [type |-> "snowflake", refs |-> << "A", "A", "B", "A", None >>]
Databricks == [type |-> "databricks", refs |-> << "A", "A", "B" >>]

MCConnections == {SqlServer, Snowflake, Databricks}

File(state, connections) == [state |-> state, connections |-> connections]
NoConnections == [n \in {} |-> SqlServer]

\* A file per backend, an empty one, and every kind of file that cannot be used.
MCFiles ==
  { File("valid", [db |-> c]) : c \in MCConnections }
  \cup { File(state, NoConnections) : state \in FileState }

\* Everything set; the password or token set to nothing; nothing but that.
MCEnvironments ==
  { [A |-> "set", B |-> "set"], [A |-> "set", B |-> "empty"],
    [A |-> "absent", B |-> "set"] }

Signature(params, positional, required, kwargs, makes) ==
  [ params |-> params, positional |-> positional, required |-> required,
    kwargs |-> kwargs, makes |-> makes ]

KeywordsOnly == Signature(<< "config", "secrets", "connection_name" >>, 0, 3, FALSE, "adapter")
Anything     == Signature(<< >>, 0, 0, TRUE, "adapter")
Positional   == Signature(<< "cfg", "sec" >>, 2, 2, FALSE, "adapter")
GivesClass   == Signature(<< >>, 0, 0, TRUE, "class")
GivesObject  == Signature(<< "config" >>, 1, 1, TRUE, "other")

\* The classes of the adapter modules; factories of the tests (keywords only,
\* or anything at all) and one that takes its arguments by position; factories
\* that return the class, and one that returns no adapter.
MCFactories ==
  { [t \in {} |-> Anything],
    [sqlserver |-> KeywordsOnly, snowflake |-> Anything, databricks |-> Positional],
    [sqlserver |-> GivesClass, snowflake |-> GivesObject, databricks |-> GivesClass] }

\* A KeyError of a constructor has no words, so this one is told from it.
MCErrors == { Raw({"CONNECTION_FAILED"}) }
==============================================================================
