---------------------------- MODULE ListingProperties ----------------------------
(***************************************************************************)
(* What a caller may conclude from a listing or a description, while other *)
(* sessions change the database.                                           *)
(***************************************************************************)
EXTENDS Listings

\* No text that is given is empty.  (The adapters disagree on what an empty one
\* is, no text or a name that nothing has, and so do the statements of one
\* adapter.)
ASSUME TextAssumption ==
  /\ \A r \in Requests : "" \notin {r.catalog, r.schema}
  /\ \A s \in Setups : "" \notin {s.home.catalog, s.home.schema}

Returned(tool) == stage = "returned" /\ request.tool = tool

\* Types of the state.
Text      == STRING \cup {None}
InfoOf    == [ catalog : Text, schema : Text, name : Text,
               object_type : {"table", "view", "materialized_view", "unknown"},
               is_view : BOOLEAN ]
ColumnOf  == [table : Text \X Text \X Text, name : STRING, key : BOOLEAN]

AnswerOf  == [ schemas : SUBSET (Text \X STRING), tables : SUBSET InfoOf,
               table : InfoOf \cup {None}, columns : SUBSET ColumnOf,
               keys : SUBSET STRING ]
TaskOf    == [ what : {"schemas", "tables", "table", "columns", "keys"},
               sources : Seq({"server", "system", "session", "catalog", "show"}) ]

ListingsTypeOK ==
  /\ setup \in Setups /\ request \in Requests \cup {None}
  /\ IsWorld(world) /\ \A w \in seen : IsWorld(w)
  /\ moments \in Seq([schemas : SUBSET (STRING \X STRING), objects : SUBSET Objects])
  /\ changes \in 0 .. MaxChanges
  /\ stage \in {"idle", "asking", "returned", "failed"}
  /\ todo \in Seq(TaskOf) /\ \A i \in DOMAIN todo : todo[i].sources # << >>
  /\ stage = "asking" => todo # << >> \/ pending # {}
  /\ pending \subseteq STRING
  /\ answer \in AnswerOf
------------------------------------------------------------------------------
\* What a request asks for, in the words of its parameters: the catalog given,
\* or configured, or that of the session; the schema given (or, for Databricks,
\* configured), or all of them; views if they are wanted.
HomeCatalog ==
  IF setup.type # "sqlserver" /\ setup.home.catalog # None
  THEN setup.home.catalog ELSE setup.session.catalog
TheCatalog  == IF request.catalog # None THEN request.catalog ELSE HomeCatalog
TheSchema   == IF request.schema = None /\ setup.type = "databricks"
               THEN setup.home.schema ELSE request.schema

\* A Databricks connection without a catalog means all there are, some source
\* permitting.
Nowhere == setup.type = "databricks" /\ setup.home.catalog = None
           /\ request.catalog = None

InSchema(o) == TheSchema # None => o.schema = TheSchema
InPlace(o)  == o.catalog = TheCatalog /\ InSchema(o)

\* What a source has of the object a description is about: where no catalog is
\* known, the metastore's information schema has its namesakes of all of them.
It(w, source) ==
  { o \in w.objects :
      /\ IF Nowhere /\ source = "system" THEN InSchema(o) ELSE InPlace(o)
      /\ o.name = request.table }

\* Snowflake's external tables are never listed.
OfKind(o) ==
  /\ request.include_views \/ o.kind \in {"table", "external"}
  /\ ~(setup.type = "snowflake" /\ o.kind = "external")

\* The kinds a TableInfo can tell.
Told(kind) == IF kind = "external" THEN "table" ELSE kind

IsEntryOf(e, o) ==
  /\ e.catalog \in {o.catalog, None} /\ e.schema = o.schema /\ e.name = o.name

Shown == "show" \in asked

\* A listing from an information schema is the database of one moment of the
\* call: every object asked for, with its kind, and nothing else.  (The
\* information schema of the metastore answers for all catalogs if none is
\* known, that of the session for one.)
ListingsAreOfOneMoment ==
  Returned("list_tables") /\ ~Shown =>
    \E w \in seen :
      LET asked_for == { o \in w.objects :
                           /\ IF Nowhere /\ "system" \in asked THEN InSchema(o)
                                                               ELSE InPlace(o)
                           /\ OfKind(o) }
      IN  answer.tables =
            { [ catalog |-> o.catalog, schema |-> o.schema, name |-> o.name,
                object_type |-> Told(o.kind),
                is_view |-> o.kind = "view" \/ (o.kind = "materialized_view"
                                                /\ setup.type = "databricks") ]
              : o \in asked_for }

\* SHOW TABLES, which the Databricks adapter falls back on, is asked schema by
\* schema: what it lists was there at some moment of the call, in the place
\* asked for.  It does not know views from tables, and include_views does not
\* reach it.
ShownObjectsWereThere ==
  Returned("list_tables") /\ Shown =>
    \A e \in answer.tables :
      /\ \E w \in seen : \E o \in w.objects : IsEntryOf(e, o) /\ InPlace(o)
      /\ e.object_type = "table" /\ ~e.is_view

\* The schemas of the catalog at a moment, and when SHOW TABLES would have listed
\* what is listed of a schema.
SchemasOf(i) ==
  { p[2] : p \in { q \in moments[i].schemas : q[1] = TheCatalog } }

ShownAt(schema) ==
  { i \in DOMAIN moments :
      { e \in answer.tables : e.schema = schema } =
        { [ catalog |-> TheCatalog, schema |-> schema, name |-> o.name,
            object_type |-> "table", is_view |-> FALSE ]
          : o \in { p \in moments[i].objects : Place(p) = << TheCatalog, schema >> } } }

\* SHOW TABLES, schema by schema, is the database of no one moment, but the
\* schemas it goes through are, and what it lists of each of them is that of one
\* moment, which is no earlier: no schema is left out or listed in part, whatever
\* becomes of it meanwhile.
EachSchemaIsOfOneMoment ==
  Returned("list_tables") /\ Shown /\ ~Nowhere /\ TheSchema = None =>
    \E i \in DOMAIN moments :
      /\ \A e \in answer.tables : e.schema \in SchemasOf(i)
      /\ \A schema \in SchemasOf(i) : \E j \in ShownAt(schema) : i <= j

\* No listing, of whatever source, passes over an object that is there from the
\* beginning of the call to its end; but where neither a catalog nor a schema
\* is known, SHOW TABLES sees the session's schema only.
LastingObjectsAreListed ==
  Returned("list_tables") =>
    \A o \in world.objects :
      (/\ \A w \in seen : o \in w.objects
       /\ InPlace(o) /\ OfKind(o)
       /\ Shown /\ Nowhere /\ TheSchema = None => o.schema = setup.session.schema)
      => \E e \in answer.tables : IsEntryOf(e, o)

\* The schemas of the connection's catalog, as of one moment; those of other
\* catalogs come with them if the metastore's information schema answers.
SchemasAreOfOneMoment ==
  Returned("list_schemas") =>
    \E w \in seen :
      /\ \A s \in w.schemas :
           s[1] = HomeCatalog => {s, << None, s[2] >>} \cap answer.schemas # {}
      /\ \A s \in answer.schemas :
           \E p \in w.schemas :
             /\ s[2] = p[2] /\ s[1] \in {None, p[1]}
             /\ p[1] = HomeCatalog \/ "system" \in asked

\* When the kind and the names of a description, its columns and its keys were
\* those of the object asked for, in a source that answered.  SQL Server calls
\* everything a table, Snowflake an external one unknown; a table that is not there
\* is "unknown" to Databricks, and a table without columns to the others; Databricks
\* has no keys.
TableAt ==
  { i \in DOMAIN moments : \E source \in asked :
      \/ /\ It(moments[i], source) = {}
         /\ answer.table.object_type =
              IF setup.type = "databricks" THEN "unknown" ELSE "table"
      \/ \E o \in It(moments[i], source) :
           /\ IsEntryOf(answer.table, o)
           /\ answer.table.object_type =
                CASE setup.type = "sqlserver"  -> "table"
                  [] setup.type = "snowflake"  ->
                       IF o.kind = "external" THEN "unknown" ELSE o.kind
                  [] setup.type = "databricks" -> Told(o.kind) }

ColumnsAt ==
  { i \in DOMAIN moments : \E source \in asked :
      { << c.table, c.name >> : c \in answer.columns } =
        UNION { { << << o.catalog, o.schema, o.name >>, name >> : name \in o.columns }
                : o \in It(moments[i], source) } }

KeysAt ==
  { i \in DOMAIN moments :
      answer.keys = IF setup.type = "databricks" THEN {}
                    ELSE UNION { o.keys : o \in It(moments[i], "server") } }

\* A description is put together from two or three statements, with nothing to
\* hold the table still between them.  Whatever other sessions do to it, each part
\* is that of one moment, never a mixture and, where a catalog is known, never that
\* of a table of the same name elsewhere; a later part is of no earlier moment; and
\* the columns told to be keys are those among the keys.  So the parts of a table
\* that is left alone fit.
DescriptionsMoveForward ==
  Returned("describe_table") =>
    /\ \E i \in TableAt, j \in ColumnsAt, k \in KeysAt : i <= j /\ j <= k
    /\ \A c \in answer.columns : c.key <=> c.name \in answer.keys
------------------------------------------------------------------------------
\* Why they hold.

\* The tasks of a call, the last first.
TasksLeft ==
  CASE request.tool = "list_schemas" -> << "schemas" >>
    [] request.tool = "list_tables"  -> << "tables" >>
    [] request.tool = "describe_table" ->
         CASE setup.type = "databricks" -> << "columns", "table" >>
           [] setup.type = "snowflake"  -> << "keys", "columns", "table" >>
           [] setup.type = "sqlserver"  -> << "keys", "columns" >>

\* The sources a call may ask.
Askable ==
  { source \in {"server", "system", "session", "catalog", "show"} :
      /\ source = "server" <=> setup.type # "databricks"
      /\ source = "session" => effective_catalog = None
      /\ source = "catalog" => effective_catalog # None
      /\ source = "show" => request.tool # "describe_table" }

\* The database is that of the last moment.
NowIsLast == Len(moments) \in DOMAIN moments /\ world = moments[Len(moments)]

\* What is asked, in which order, where.
CallFacts ==
  /\ stage = "idle" => answer = Nothing /\ asked = {}
  /\ stage # "idle" => request \in Requests /\ NowIsLast
  /\ stage # "asking" => pending = {}
  /\ stage \in {"idle", "returned"} => todo = << >>
  /\ pending # {} =>
       /\ request.tool = "list_tables" /\ Shown /\ todo = << >>
       /\ ~Nowhere /\ TheSchema = None
  /\ stage = "asking" =>
       /\ Len(todo) <= Len(TasksLeft)
       /\ \A i \in DOMAIN todo :
            /\ todo[i].what = TasksLeft[Len(todo) - i + 1]
            /\ todo[i].sources \in Seq(Askable)
       /\ request.tool # "describe_table" /\ pending = {} =>
            asked = {} /\ answer = Nothing

\* While SHOW TABLES is asked schema by schema.
ShownFacts ==
  stage \in {"asking", "returned"} /\ request.tool = "list_tables" /\ Shown =>
    /\ setup.type = "databricks"
    /\ \A e \in answer.tables :
         /\ \E w \in seen : \E o \in w.objects : IsEntryOf(e, o) /\ InPlace(o)
         /\ e.object_type = "table" /\ ~e.is_view
    /\ \A o \in Objects :
         (/\ \A w \in seen : o \in w.objects
          /\ InPlace(o)
          /\ Nowhere /\ TheSchema = None => o.schema = setup.session.schema)
         => o.schema \in pending \/ \E e \in answer.tables : IsEntryOf(e, o)

\* The schemas read first, and those of them that were shown.
SchemaFacts ==
  stage \in {"asking", "returned"} /\ request.tool = "list_tables"
    /\ Shown /\ ~Nowhere /\ TheSchema = None =>
       \E i \in DOMAIN moments :
         /\ pending \subseteq SchemasOf(i)
         /\ \A e \in answer.tables : e.schema \in SchemasOf(i) \ pending
         /\ \A schema \in SchemasOf(i) \ pending :
              \E j \in ShownAt(schema) : i <= j

\* By the number of tasks left (see TasksLeft).
ColumnsKnown == Len(todo) < IF setup.type = "databricks" THEN 1 ELSE 2
TableKnown   == Len(todo) < IF setup.type = "snowflake" THEN 3 ELSE 2

\* While the parts of a description are put together.
KeyFacts ==
  /\ stage = "asking" => answer.keys = {}
  /\ setup.type = "databricks" => answer.keys = {}
  /\ \A c \in answer.columns : c.key <=> c.name \in answer.keys

DescribeFacts ==
  stage \in {"asking", "returned"} /\ request.tool = "describe_table" =>
    /\ TableKnown => TableAt # {}
    /\ ColumnsKnown => \E i \in TableAt, j \in ColumnsAt : i <= j
    /\ stage = "returned" =>
         \E i \in TableAt, j \in ColumnsAt, k \in KeysAt : i <= j /\ j <= k

\* The inductive invariant.
ListingInv ==
  /\ ListingsTypeOK
  /\ CallFacts /\ ShownFacts /\ SchemaFacts /\ KeyFacts /\ DescribeFacts
  /\ ListingsAreOfOneMoment /\ SchemasAreOfOneMoment
==============================================================================
