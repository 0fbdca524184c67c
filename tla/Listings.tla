-------------------------------- MODULE Listings --------------------------------
(***************************************************************************)
(* What list_schemas, list_tables and describe_table say about a database  *)
(* that other sessions change meanwhile: the conditions of the adapters'   *)
(* statements, the conversion of rows to SchemaInfo, TableInfo and         *)
(* TableDescription, and the state the database is in at each statement.   *)
(*                                                                         *)
(* MetadataTools has the steps of a call, its connections and its errors,  *)
(* and counts rows; here a call is only its statements, and the rows are   *)
(* there.                                                                  *)
(***************************************************************************)
EXTENDS Naturals, Sequences, MetadataSources

CONSTANTS Objects,     \* the tables and views there may be
          Worlds,      \* the databases under study
          Setups,      \* connections: backend, configuration, session
          Requests,    \* the requests callers may send
          MaxChanges   \* bound: changes to the database during a call

Kind    == {"table", "external", "view", "materialized_view"}
Object  == [ catalog : STRING, schema : STRING, name : STRING, kind : Kind,
             columns : SUBSET STRING, keys : SUBSET STRING ]
Request == [ tool : {"list_schemas", "list_tables", "describe_table"},
             catalog : STRING \cup {None}, schema : STRING \cup {None},
             table : STRING \cup {None}, include_views : BOOLEAN ]

Place(o) == << o.catalog, o.schema >>

\* A database: its schemas by catalog, and objects in them that have a name
\* each.
IsWorld(w) ==
  /\ w \in [schemas : SUBSET (STRING \X STRING), objects : SUBSET Objects]
  /\ \A o \in w.objects : Place(o) \in w.schemas
  /\ \A o, p \in w.objects : Place(o) = Place(p) /\ o.name = p.name => o = p

\* home: the catalog and schema the connection is configured with; session: the
\* ones the backend puts it in.
IsSetup(s) ==
  /\ DOMAIN s = {"type", "home", "session"}
  /\ s.type \in {"sqlserver", "snowflake", "databricks"}
  /\ s.home \in [catalog : STRING \cup {None}, schema : STRING \cup {None}]
  /\ s.session \in [catalog : STRING, schema : STRING]

ASSUME ListingsAssumption ==
  /\ Objects \subseteq Object
  /\ \A o \in Objects : o.keys \subseteq o.columns
  /\ \A w \in Worlds : IsWorld(w)
  /\ \A s \in Setups : IsSetup(s)
  /\ Requests \subseteq Request
  /\ \A r \in Requests : r.tool = "describe_table" => r.schema # None /\ r.table # None
  /\ None \notin STRING
  /\ MaxChanges \in Nat

VARIABLES
  setup,    \* the connection; never changes
  world,    \* the database
  changes,  \* how often it was changed during the call
  moments,  \* history: the databases there were since the call began, in order
  request,  \* the call in progress
  stage,    \* idle, asking, returned or failed
  todo,     \* what is still to be asked, each with the sources to ask
  pending,  \* schemas SHOW TABLES is still to be asked for
  answer,   \* what the rows were made into so far
  asked     \* history: the sources that answered

vars == << setup, world, changes, moments, request, stage, todo, pending, answer, asked >>

\* The databases there were during the call, whenever.
seen == { moments[i] : i \in DOMAIN moments }

------------------------------------------------------------------------------
\* External: what the backends call their objects, as sets of words.
type_name(backend, kind) ==
  CASE kind = "view" -> {"VIEW"}
    [] kind = "materialized_view" ->
         IF backend = "sqlserver" THEN {"VIEW"} ELSE {"MATERIALIZED", "VIEW"}
    [] kind = "table" ->
         IF backend = "databricks" THEN {"MANAGED"} ELSE {"BASE", "TABLE"}
    [] kind = "external" ->
         CASE backend = "databricks" -> {"EXTERNAL"}
           [] backend = "snowflake"  -> {"EXTERNAL", "TABLE"}
           [] backend = "sqlserver"  -> {"BASE", "TABLE"}

\* A name is never None.
ASSUME NamesAssumption ==
  /\ \A backend \in {"sqlserver", "snowflake", "databricks"}, kind \in Kind :
       type_name(backend, kind) # None
  /\ {"TABLE"} # None

\* _map_table_type of the SQLAlchemy adapters: the whole name; no name means a
\* table.
map_table_type(words) ==
  CASE words = {"VIEW"} -> "view"
    [] words = {"MATERIALIZED", "VIEW"} -> "materialized_view"
    [] words \in {None, {"TABLE"}, {"BASE", "TABLE"}, {"TEMPORARY"}} -> "table"
    [] OTHER -> "unknown"

\* Mutant: any VIEW is a view.
table_object_type_views(words) ==
  IF words = None THEN "unknown"
  ELSE IF "VIEW" \in words THEN "view" ELSE "table"

\* Databricks: words in the name.
table_object_type(words) ==
  IF words = None THEN "unknown"
  ELSE IF {"MATERIALIZED", "VIEW"} \subseteq words THEN "materialized_view"
  ELSE IF "VIEW" \in words THEN "view"
  ELSE IF "TABLE" \in words \/ words \in {{"MANAGED"}, {"EXTERNAL"}} THEN "table"
  ELSE "unknown"

object_type(words) == IF setup.type = "databricks" THEN table_object_type(words)
                                                   ELSE map_table_type(words)

\* A materialized view is a view for Databricks, none for Snowflake.
is_view(words) ==
  IF setup.type = "databricks" THEN words # None /\ "VIEW" \in words
                               ELSE map_table_type(words) = "view"

words_of(o) == type_name(setup.type, o.kind)

TableInfo(catalog, schema, name, words) ==
  [ catalog |-> catalog, schema |-> schema, name |-> name,
    object_type |-> object_type(words), is_view |-> is_view(words) ]

table_info(o) == TableInfo(o.catalog, o.schema, o.name, words_of(o))

\* A row of SHOW TABLES names its schema, but not its catalog or its kind.
show_table_row(o, catalog) == TableInfo(catalog, o.schema, o.name, {"TABLE"})

------------------------------------------------------------------------------
\* The conditions of the statements.

\* The catalog and schema the statements ask for.
effective_catalog ==
  LET given == IF request.tool = "list_schemas" THEN None ELSE request.catalog
  IN  CASE setup.type = "sqlserver"  -> Or(given, setup.session.catalog)
        [] setup.type = "snowflake"  ->
             Or(given, Or(setup.home.catalog, setup.session.catalog))
        [] setup.type = "databricks" -> Or(given, setup.home.catalog)

effective_schema ==
  IF setup.type = "databricks" THEN Or(request.schema, setup.home.schema)
                               ELSE request.schema

\* What a source holds: an information schema is that of a catalog, but for the
\* metastore's, which holds all there are.
covers(source, catalog) ==
  CASE source = "system"  -> TRUE
    [] source = "session" -> catalog = setup.session.catalog
    [] source \in {"server", "catalog", "show"} -> catalog = effective_catalog

\* Mutant: a schema is looked for in whatever catalog.
place_clause_schema_only(o) ==
  effective_schema = None \/ o.schema = effective_schema

place_clause(o) ==
  /\ effective_catalog = None \/ o.catalog = effective_catalog
  /\ effective_schema = None \/ o.schema = effective_schema

type_clause(o) ==
  LET words == words_of(o)
  IN  CASE setup.type = "sqlserver" ->
             \/ words = {"BASE", "TABLE"}
             \/ request.include_views /\ words = {"VIEW"}
        [] setup.type = "snowflake" ->
             \/ words \in {{"BASE", "TABLE"}, {"TEMPORARY"}}
             \/ request.include_views /\ words \in {{"VIEW"}, {"MATERIALIZED", "VIEW"}}
        [] setup.type = "databricks" -> request.include_views \/ "VIEW" \notin words

table_rows(source) ==
  { o \in world.objects :
      covers(source, o.catalog) /\ place_clause(o) /\ type_clause(o) }

described(source) ==
  { o \in world.objects :
      covers(source, o.catalog) /\ place_clause(o) /\ o.name = request.table }

\* The list of schemas has no condition on the catalog.
schema_rows(source) == { p \in world.schemas : covers(source, p[1]) }
------------------------------------------------------------------------------
\* A call: what it has to ask, from which sources.

Task(what, sources) == [what |-> what, sources |-> sources]

server(what) == Task(what, << "server" >>)

list_tasks(what, catalog) ==
  << IF setup.type = "databricks"
     THEN Task(what, Append(metadata_sources(catalog), "show")) ELSE server(what) >>

describe_tasks(catalog) ==
  CASE setup.type = "sqlserver"  -> << server("columns"), server("keys") >>
    [] setup.type = "snowflake"  ->
         << server("table"), server("columns"), server("keys") >>
    [] setup.type = "databricks" ->
         << Task("table", metadata_sources(catalog)),
            Task("columns", metadata_sources(catalog)) >>

tasks(r) ==
  CASE r.tool = "list_schemas"   -> list_tasks("schemas", setup.home.catalog)
    [] r.tool = "list_tables"    ->
         list_tasks("tables", Or(r.catalog, setup.home.catalog))
    [] r.tool = "describe_table" ->
         describe_tasks(Or(r.catalog, setup.home.catalog))

Nothing == [ schemas |-> {}, tables |-> {}, table |-> None, columns |-> {}, keys |-> {} ]

Source       == Head(Head(todo).sources)
Asking(what) == stage = "asking" /\ pending = {} /\ Head(todo).what = what

Answer(a) ==
  /\ answer' = a /\ asked' = asked \cup {Source}
  /\ todo' = Tail(todo)
  /\ stage' = IF Len(todo) = 1 THEN "returned" ELSE stage

\* Where SHOW TABLES looks unless each schema of a catalog is to be looked at.
show_place == << Or(effective_catalog, setup.session.catalog),
                 Or(effective_schema, setup.session.schema) >>
shows_each_schema ==
  Source = "show" /\ effective_schema = None /\ effective_catalog # None

\* External: SQL Server refuses the list_tables query (see MetadataTools).
answerable == ~(setup.type = "sqlserver" /\ Head(todo).what = "tables")

------------------------------------------------------------------------------
\* Mutants of the steps.

\* Mutant: what the schemas shown before held is forgotten.
ShowTablesForgets(schema) ==
  /\ stage = "asking" /\ schema \in pending
  /\ << effective_catalog, schema >> \in world.schemas
  /\ pending' = pending \ {schema}
  /\ answer' = [answer EXCEPT !.tables =
       { show_table_row(o, effective_catalog) : o \in
           { p \in world.objects : Place(p) = << effective_catalog, schema >> } }]
  /\ stage' = IF pending' = {} THEN "returned" ELSE stage
  /\ UNCHANGED << setup, world, changes, moments, request, todo, asked >>

\* Mutant: SHOW SCHEMAS gives those of any catalog.
SchemasReturnHere ==
  /\ Asking("schemas")
  /\ Answer([answer EXCEPT !.schemas =
       IF Source = "show"
       THEN { << effective_catalog, p[2] >> : p \in world.schemas }
       ELSE schema_rows(Source)])
  /\ UNCHANGED << setup, world, changes, moments, request, pending >>

\* Mutant: SHOW TABLES without a schema.
ShowTablesReturnHere ==
  /\ Asking("tables") /\ Source = "show" /\ ~shows_each_schema
  /\ Answer([answer EXCEPT !.tables =
       { show_table_row(o, effective_catalog) : o \in
           { p \in world.objects : p.catalog = show_place[1] } }])
  /\ UNCHANGED << setup, world, changes, moments, request, pending >>

\* Mutant: the source that failed is dropped, also if it was the last.
StatementFailsDrops ==
  /\ stage = "asking"
  /\ IF pending = {}
     THEN todo' = [todo EXCEPT ![1].sources = Tail(@)] /\ UNCHANGED << stage, pending >>
     ELSE stage' = "failed" /\ pending' = {} /\ UNCHANGED todo
  /\ UNCHANGED << setup, world, changes, moments, request, answer, asked >>

\* Mutant: a schema that cannot be shown is passed over.
StatementFailsSkips ==
  /\ stage = "asking"
  /\ \/ /\ pending = {} /\ Len(Head(todo).sources) > 1
        /\ todo' = [todo EXCEPT ![1].sources = Tail(@)] /\ UNCHANGED << stage, pending >>
     \/ /\ pending = {} /\ Len(Head(todo).sources) = 1
        /\ stage' = "failed" /\ UNCHANGED << todo, pending >>
     \/ /\ \E schema \in pending : pending' = pending \ {schema}
        /\ stage' = IF pending' = {} THEN "returned" ELSE stage
        /\ UNCHANGED todo
  /\ UNCHANGED << setup, world, changes, moments, request, answer, asked >>

------------------------------------------------------------------------------
\* The steps of a call.

Receive(r) ==
  /\ stage = "idle"
  /\ request' = r /\ moments' = << world >>
  /\ stage' = "asking" /\ todo' = tasks(r)
  /\ UNCHANGED << setup, world, changes, pending, answer, asked >>

\* SHOW SCHEMAS gives names only.
SchemasReturn ==
  /\ Asking("schemas")
  /\ Answer([answer EXCEPT !.schemas =
       IF Source = "show"
       THEN { << effective_catalog, p[2] >> : p \in
                { q \in world.schemas :
                    q[1] = Or(effective_catalog, setup.session.catalog) } }
       ELSE schema_rows(Source)])
  /\ UNCHANGED << setup, world, changes, moments, request, pending >>

TablesReturn ==
  /\ Asking("tables") /\ Source # "show" /\ answerable
  /\ Answer([answer EXCEPT !.tables = { table_info(o) : o \in table_rows(Source) }])
  /\ UNCHANGED << setup, world, changes, moments, request, pending >>

\* Views and tables alike; the schema has to be there.
ShowTablesReturn ==
  /\ Asking("tables") /\ Source = "show" /\ ~shows_each_schema
  /\ show_place \in world.schemas
  /\ Answer([answer EXCEPT !.tables =
       { show_table_row(o, effective_catalog) : o \in
           { p \in world.objects : Place(p) = show_place } }])
  /\ UNCHANGED << setup, world, changes, moments, request, pending >>

\* The schemas of the catalog are read first, then one after the other is shown.
ShowSchemasReturn ==
  /\ Asking("tables") /\ shows_each_schema
  /\ pending' = { p[2] : p \in { q \in world.schemas : q[1] = effective_catalog } }
  /\ asked' = asked \cup {Source} /\ todo' = << >>
  /\ stage' = IF pending' = {} THEN "returned" ELSE stage
  /\ UNCHANGED << setup, world, changes, moments, request, answer >>

ShowTablesOf(schema) ==
  /\ stage = "asking" /\ schema \in pending
  /\ << effective_catalog, schema >> \in world.schemas
  /\ pending' = pending \ {schema}
  /\ answer' = [answer EXCEPT !.tables = @ \cup
       { show_table_row(o, effective_catalog) : o \in
           { p \in world.objects : Place(p) = << effective_catalog, schema >> } }]
  /\ stage' = IF pending' = {} THEN "returned" ELSE stage
  /\ UNCHANGED << setup, world, changes, moments, request, todo, asked >>

\* The first row; without any the names that were asked for, and a kind for
\* which there is no name.
TableReturns ==
  /\ Asking("table")
  /\ LET rows == described(Source)
     IN  \/ \E o \in rows : Answer([answer EXCEPT !.table = table_info(o)])
         \/ /\ rows = {}
            /\ Answer([answer EXCEPT !.table =
                 TableInfo(effective_catalog, effective_schema, request.table, None)])
  /\ UNCHANGED << setup, world, changes, moments, request, pending >>

\* Every row is a column, whatever table it is from.  SQL Server takes the
\* table from the first one, and its kind for granted.
ColumnsReturn ==
  /\ Asking("columns")
  /\ LET rows    == described(Source)
         columns == UNION { { [ table |-> << o.catalog, o.schema, o.name >>,
                                name |-> c, key |-> FALSE ] : c \in o.columns }
                            : o \in rows }
         catalog == IF rows = {} THEN request.catalog ELSE effective_catalog
     IN  Answer([answer EXCEPT
           !.columns = columns,
           !.table = IF setup.type # "sqlserver" THEN @
                     ELSE TableInfo(catalog, request.schema, request.table, {"TABLE"})])
  /\ UNCHANGED << setup, world, changes, moments, request, pending >>

\* A column is a key if the later statement names it.
KeysReturn ==
  /\ Asking("keys")
  /\ LET keys == UNION { o.keys : o \in described(Source) }
     IN  Answer([answer EXCEPT
           !.keys = keys,
           !.columns = { [c EXCEPT !.key = c.name \in keys] : c \in @ }])
  /\ UNCHANGED << setup, world, changes, moments, request, pending >>

\* A statement fails: the next source is asked, if there is one and the schemas
\* of a catalog are not being shown.
StatementFails ==
  /\ stage = "asking"
  /\ IF pending = {} /\ Len(Head(todo).sources) > 1
     THEN todo' = [todo EXCEPT ![1].sources = Tail(@)] /\ UNCHANGED << stage, pending >>
     ELSE stage' = "failed" /\ pending' = {} /\ UNCHANGED todo
  /\ UNCHANGED << setup, world, changes, moments, request, answer, asked >>

------------------------------------------------------------------------------
\* Other sessions.

Same(o, p) == Place(o) = Place(p) /\ o.name = p.name

\* External: an object is created, in place of another or not, or dropped; a
\* schema is created, or dropped with what is in it.
changed(w) ==
  { [w EXCEPT !.objects = { p \in @ : ~Same(o, p) } \cup {o}]
      : o \in { p \in Objects : Place(p) \in w.schemas } }
  \cup { [w EXCEPT !.objects = @ \ {o}] : o \in w.objects }
  \cup { [w EXCEPT !.schemas = @ \cup {Place(o)}] : o \in Objects }
  \cup { [ schemas |-> w.schemas \ {s},
           objects |-> { o \in w.objects : Place(o) # s } ] : s \in w.schemas }

Change ==
  /\ stage = "asking" /\ changes < MaxChanges
  /\ \E w \in changed(world) \ {world} : world' = w /\ moments' = Append(moments, w)
  /\ changes' = changes + 1
  /\ UNCHANGED << setup, request, stage, todo, pending, answer, asked >>

\* Not a step of the code: one call is followed to its end.
Finished == stage \in {"returned", "failed"} /\ UNCHANGED vars
------------------------------------------------------------------------------
Init ==
  /\ setup \in Setups /\ world \in Worlds
  /\ changes = 0 /\ moments = << >> /\ request = None /\ stage = "idle"
  /\ todo = << >> /\ pending = {} /\ answer = Nothing /\ asked = {}

Next ==
  \/ \E r \in Requests : Receive(r)
  \/ SchemasReturn \/ TablesReturn \/ ShowTablesReturn \/ ShowSchemasReturn
  \/ \E schema \in pending : ShowTablesOf(schema)
  \/ TableReturns \/ ColumnsReturn \/ KeysReturn \/ StatementFails
  \/ Change \/ Finished

Spec == Init /\ [][Next]_vars
==============================================================================
