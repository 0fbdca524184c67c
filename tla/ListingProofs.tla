------------------------------ MODULE ListingProofs ------------------------------
(***************************************************************************)
(* What a caller may conclude from a listing or a description holds for    *)
(* every database, every change other sessions make to it, every           *)
(* connection and request, and whichever sources answer.                   *)
(***************************************************************************)
EXTENDS ListingProperties, SequenceTheorems, TLAPS

Tools == {"list_schemas", "list_tables", "describe_table"}

\* A call in progress, or ended.
Called == setup \in Setups /\ request \in Requests

------------------------------------------------------------------------------
\* What the statements ask for is what the request asks for.

\* Every text of a setup and a request is a name or missing.
LEMMA Texts ==
  ASSUME Called
  PROVE  /\ setup.type \in {"sqlserver", "snowflake", "databricks"}
         /\ request.tool \in Tools
         /\ {request.catalog, request.schema, setup.home.catalog, setup.home.schema}
              \subseteq Text \ {""}
         /\ setup.session.catalog \in STRING /\ setup.session.schema \in STRING
         /\ request.table \in Text /\ request.include_views \in BOOLEAN
         /\ request.tool = "describe_table" => request.schema # None /\ request.table # None
<1>1. IsSetup(setup) /\ request \in Request
  BY ListingsAssumption DEF Called
<1>2. setup.home.catalog # "" /\ setup.home.schema # ""
  BY TextAssumption DEF Called
<1>3. request.catalog # "" /\ request.schema # ""
  BY TextAssumption DEF Called
<1> QED
  BY <1>1, <1>2, <1>3, ListingsAssumption DEF Called, IsSetup, Request, Tools, Text

\* The adapters' effective catalog and schema are those the request is about.
LEMMA PlacesAskedFor ==
  ASSUME Called
  PROVE  /\ effective_schema = TheSchema
         /\ request.tool # "list_schemas" =>
              effective_catalog = IF Nowhere THEN None ELSE TheCatalog
         /\ request.tool = "list_schemas" =>
              effective_catalog = IF setup.type = "databricks" THEN setup.home.catalog
                                                               ELSE HomeCatalog
<1> USE Texts, ListingsAssumption
<1>1. effective_schema = TheSchema
  BY DEF effective_schema, TheSchema, Or, Text
<1>2. CASE setup.type = "sqlserver"
  BY <1>1, <1>2 DEF effective_catalog, TheCatalog, HomeCatalog, Nowhere, Or, Text
<1>3. CASE setup.type = "snowflake"
  BY <1>1, <1>3 DEF effective_catalog, TheCatalog, HomeCatalog, Nowhere, Or, Text
<1>4. CASE setup.type = "databricks"
  BY <1>1, <1>4 DEF effective_catalog, TheCatalog, HomeCatalog, Nowhere, Or, Text
<1> QED
  BY <1>2, <1>3, <1>4

\* Which of these places there always are.
LEMMA PlaceTypes ==
  ASSUME Called
  PROVE  /\ HomeCatalog \in STRING /\ TheCatalog \in STRING
         /\ TheSchema \in Text \ {""} /\ effective_catalog \in Text
         /\ effective_schema \in Text
         /\ request.tool = "describe_table" => TheSchema # None
         /\ ~Nowhere /\ setup.type = "databricks" => TheCatalog # ""
         /\ Nowhere => HomeCatalog = setup.session.catalog
                       /\ TheCatalog = setup.session.catalog
<1>1. /\ HomeCatalog \in STRING /\ TheCatalog \in STRING
      /\ TheSchema \in Text \ {""}
      /\ request.tool = "describe_table" => TheSchema # None
      /\ ~Nowhere /\ setup.type = "databricks" => TheCatalog # ""
      /\ Nowhere => HomeCatalog = setup.session.catalog
                    /\ TheCatalog = setup.session.catalog
  BY Texts, ListingsAssumption DEF HomeCatalog, TheCatalog, TheSchema, Nowhere, Text
<1> QED
  BY <1>1, PlacesAskedFor, Texts DEF Text, Tools

\* A source a call may ask shows, of the objects in the place the statement has
\* in its condition, those the request is about.
LEMMA Covered ==
  ASSUME Called, NEW source \in Askable, source # "show",
         request.tool # "list_schemas", NEW o
  PROVE  covers(source, o.catalog) /\ place_clause(o)
         <=> IF Nowhere /\ source = "system" THEN InSchema(o) ELSE InPlace(o)
<1> USE PlacesAskedFor, PlaceTypes, ListingsAssumption
<1>1. place_clause(o) <=> (Nowhere \/ o.catalog = TheCatalog) /\ InSchema(o)
  BY DEF place_clause, InSchema
<1>2. CASE source = "system"
  BY <1>1, <1>2 DEF covers, InPlace
<1>3. CASE source = "session"
  BY <1>1, <1>3 DEF covers, InPlace, Askable
<1>4. CASE source \in {"server", "catalog"}
  <2>1. ~Nowhere
    BY <1>4 DEF Askable, Nowhere
  <2> QED
    BY <1>1, <1>4, <2>1 DEF covers, InPlace
<1> QED
  BY <1>2, <1>3, <1>4 DEF Askable
------------------------------------------------------------------------------
\* What rows are made into.

\* The names of kinds differ (the provers do not see that at once).
LEMMA WordsDiffer ==
  /\ {"VIEW"} # {"MATERIALIZED", "VIEW"} /\ {"VIEW"} # {"TABLE"}
  /\ {"VIEW"} # {"BASE", "TABLE"} /\ {"VIEW"} # {"TEMPORARY"}
  /\ {"MATERIALIZED", "VIEW"} # {"TABLE"} /\ {"MATERIALIZED", "VIEW"} # {"BASE", "TABLE"}
  /\ {"MATERIALIZED", "VIEW"} # {"TEMPORARY"}
  /\ {"EXTERNAL", "TABLE"} # {"BASE", "TABLE"} /\ {"EXTERNAL", "TABLE"} # {"TABLE"}
  /\ {"EXTERNAL", "TABLE"} # {"VIEW"} /\ {"EXTERNAL", "TABLE"} # {"TEMPORARY"}
  /\ {"EXTERNAL", "TABLE"} # {"MATERIALIZED", "VIEW"}
<1>1. \A S, T : (\E x : (x \in S /\ x \notin T) \/ (x \in T /\ x \notin S)) => S # T
  OBVIOUS
<1>2. /\ "BASE" \notin {"VIEW"} /\ "TABLE" \notin {"VIEW"} /\ "VIEW" \notin {"TEMPORARY"}
      /\ "MATERIALIZED" \notin {"VIEW"} /\ "VIEW" \notin {"TABLE"}
      /\ "VIEW" \notin {"BASE", "TABLE"} /\ "BASE" \notin {"EXTERNAL", "TABLE"}
      /\ "EXTERNAL" \notin {"TABLE"} /\ "EXTERNAL" \notin {"VIEW"}
      /\ "EXTERNAL" \notin {"TEMPORARY"} /\ "EXTERNAL" \notin {"MATERIALIZED", "VIEW"}
  OBVIOUS
<1> QED
  BY <1>1, <1>2

\* None is not among the names kinds have.
LEMMA WordsOf ==
  ASSUME Called, NEW o \in Objects
  PROVE  /\ o \in Object /\ words_of(o) # None
         /\ words_of(o) =
              IF setup.type = "databricks"
              THEN CASE o.kind = "view" -> {"VIEW"}
                     [] o.kind = "materialized_view" -> {"MATERIALIZED", "VIEW"}
                     [] o.kind = "table" -> {"MANAGED"}
                     [] o.kind = "external" -> {"EXTERNAL"}
              ELSE CASE o.kind = "view" -> {"VIEW"}
                     [] o.kind = "materialized_view" ->
                          IF setup.type = "sqlserver" THEN {"VIEW"}
                                                      ELSE {"MATERIALIZED", "VIEW"}
                     [] o.kind = "table" -> {"BASE", "TABLE"}
                     [] o.kind = "external" ->
                          IF setup.type = "sqlserver" THEN {"BASE", "TABLE"}
                                                      ELSE {"EXTERNAL", "TABLE"}
<1>1. o \in Object /\ o.kind \in Kind
  BY ListingsAssumption DEF Object
<1>2. words_of(o) # None
  BY <1>1, Texts, NamesAssumption DEF words_of
<1> QED
  BY <1>1, <1>2, Texts DEF words_of, type_name, Kind

\* What becomes of a kind that was told by its words: the classification of
\* Databricks, and that of the SQLAlchemy adapters.
LEMMA KindsTold ==
  ASSUME Called, NEW o \in Objects
  PROVE  /\ setup.type = "databricks" =>
              /\ object_type(words_of(o)) = Told(o.kind)
              /\ is_view(words_of(o)) <=> o.kind \in {"view", "materialized_view"}
         /\ setup.type = "snowflake" =>
              /\ object_type(words_of(o)) =
                   IF o.kind = "external" THEN "unknown" ELSE o.kind
              /\ is_view(words_of(o)) <=> o.kind = "view"
<1>1. o.kind \in Kind
  BY ListingsAssumption DEF Object
<1>2. CASE setup.type = "databricks"
  <2> DEFINE words == words_of(o)
  <2>1. /\ "VIEW" \in words <=> o.kind \in {"view", "materialized_view"}
        /\ {"MATERIALIZED", "VIEW"} \subseteq words <=> o.kind = "materialized_view"
        /\ o.kind \in {"table", "external"} => words \in {{"MANAGED"}, {"EXTERNAL"}}
        /\ words # None
    BY <1>1, <1>2, WordsOf DEF Kind
  <2> QED
    BY <1>1, <1>2, <2>1 DEF object_type, is_view, table_object_type, Told, Kind
<1>3. CASE setup.type = "snowflake"
  BY <1>1, <1>3, WordsOf, WordsDiffer DEF object_type, is_view, map_table_type, Kind
<1> QED
  BY <1>2, <1>3

\* The kinds a listing's statement selects are the ones asked for.
LEMMA KindsAskedFor ==
  ASSUME Called, NEW o \in Objects
  PROVE  type_clause(o) <=> OfKind(o)
<1>1. o.kind \in Kind
  BY ListingsAssumption DEF Object
<1>2. CASE setup.type = "databricks"
  <2>1. "VIEW" \in words_of(o) <=> o.kind \in {"view", "materialized_view"}
    BY <1>1, <1>2, WordsOf DEF Kind
  <2> QED
    BY <1>1, <1>2, <2>1, Texts DEF type_clause, OfKind, Kind
<1>3. CASE setup.type # "databricks"
  BY <1>1, <1>3, WordsOf, WordsDiffer, Texts DEF type_clause, OfKind, Kind
<1> QED
  BY <1>2, <1>3

\* A TableInfo of any words is well typed.
LEMMA InfoTypes ==
  ASSUME Called, NEW words, NEW c \in Text, NEW s \in Text, NEW n \in Text
  PROVE  TableInfo(c, s, n, words) \in InfoOf
<1>1. object_type(words) \in {"table", "view", "materialized_view", "unknown"}
  BY DEF object_type, map_table_type, table_object_type
<1>2. is_view(words) \in BOOLEAN
  BY DEF is_view
<1> QED
  BY <1>1, <1>2 DEF TableInfo, InfoOf

\* A row of SHOW TABLES is a table.
LEMMA ShownKinds ==
  ASSUME Called, setup.type = "databricks"
  PROVE  object_type({"TABLE"}) = "table" /\ ~is_view({"TABLE"})
<1>1. {"TABLE"} # None
  BY NamesAssumption
<1>2. /\ ~({"MATERIALIZED", "VIEW"} \subseteq {"TABLE"}) /\ "VIEW" \notin {"TABLE"}
      /\ "TABLE" \in {"TABLE"}
  OBVIOUS
<1> QED
  BY <1>1, <1>2 DEF object_type, is_view, table_object_type
------------------------------------------------------------------------------
\* The call in progress.

\* The tasks of each tool, read from the end.
LEMMA TasksLeftAre ==
  ASSUME Called
  PROVE  /\ Len(TasksLeft) \in {1, 2, 3}
         /\ request.tool = "list_schemas" =>
              Len(TasksLeft) = 1 /\ TasksLeft[1] = "schemas"
         /\ request.tool = "list_tables" =>
              Len(TasksLeft) = 1 /\ TasksLeft[1] = "tables"
         /\ request.tool = "describe_table" /\ setup.type = "databricks" =>
              Len(TasksLeft) = 2 /\ TasksLeft[1] = "columns" /\ TasksLeft[2] = "table"
         /\ request.tool = "describe_table" /\ setup.type = "sqlserver" =>
              Len(TasksLeft) = 2 /\ TasksLeft[1] = "keys" /\ TasksLeft[2] = "columns"
         /\ request.tool = "describe_table" /\ setup.type = "snowflake" =>
              /\ Len(TasksLeft) = 3 /\ TasksLeft[1] = "keys"
              /\ TasksLeft[2] = "columns" /\ TasksLeft[3] = "table"
<1>1. CASE request.tool = "list_schemas"
  BY <1>1 DEF TasksLeft
<1>2. CASE request.tool = "list_tables"
  BY <1>2 DEF TasksLeft
<1>3. CASE request.tool = "describe_table" /\ setup.type = "databricks"
  BY <1>3 DEF TasksLeft
<1>4. CASE request.tool = "describe_table" /\ setup.type = "sqlserver"
  BY <1>4 DEF TasksLeft
<1>5. CASE request.tool = "describe_table" /\ setup.type = "snowflake"
  BY <1>5 DEF TasksLeft
<1> QED
  BY <1>1, <1>2, <1>3, <1>4, <1>5, Texts DEF Tools

\* The present is one of the moments, and no moment is later.
LEMMA NowIsSeen ==
  ASSUME ListingsTypeOK, NowIsLast
  PROVE  /\ world \in seen
         /\ \E n \in DOMAIN moments :
              world = moments[n] /\ \A i \in DOMAIN moments : i <= n
BY DEF ListingsTypeOK, NowIsLast, seen

\* What a statement is about to answer.
LEMMA AskedNow ==
  ASSUME ListingsTypeOK, CallFacts, stage = "asking", pending = {}
  PROVE  /\ Called /\ todo # << >>
         /\ Len(todo) \in Nat /\ 1 <= Len(todo) /\ Len(todo) <= Len(TasksLeft)
         /\ Head(todo) = todo[1] /\ Head(todo) \in TaskOf
         /\ Head(todo).what = TasksLeft[Len(todo)] /\ Source \in Askable
<1>1. Called
  BY DEF ListingsTypeOK, CallFacts, Called
<1>2. todo # << >> /\ todo \in Seq(TaskOf)
  BY DEF ListingsTypeOK
<1>3. /\ Len(todo) \in Nat /\ 1 <= Len(todo) /\ Head(todo) = todo[1]
      /\ 1 \in DOMAIN todo /\ todo[1] \in TaskOf
  BY <1>2
<1>4. /\ Len(todo) <= Len(TasksLeft) /\ todo[1].what = TasksLeft[Len(todo) - 1 + 1]
      /\ todo[1].sources \in Seq(Askable)
  BY <1>3 DEF CallFacts
<1>5. todo[1].sources # << >>
  BY <1>3 DEF ListingsTypeOK
<1>6. Head(todo[1].sources) \in Askable
  BY <1>4, <1>5
<1>7. Len(todo) - 1 + 1 = Len(todo)
  BY <1>3
<1> QED
  BY <1>1, <1>2, <1>3, <1>4, <1>6, <1>7 DEF Source

\* Arithmetic the provers need stated.
LEMMA UpTo ==
  \A n \in Nat : \A m \in {1, 2, 3} : 1 <= n /\ n <= m =>
    n \in {1, 2, 3} /\ (m = 1 => n = 1) /\ (m = 2 => n \in {1, 2})
OBVIOUS

\* A task's kind tells the tool, and how many tasks are left.
LEMMA ToolOf ==
  ASSUME ListingsTypeOK, CallFacts
  PROVE  /\ Asking("schemas") => request.tool = "list_schemas" /\ Len(todo) = 1
         /\ Asking("tables") => request.tool = "list_tables" /\ Len(todo) = 1
         /\ Asking("table") => /\ request.tool = "describe_table"
                               /\ setup.type # "sqlserver"
                               /\ Len(todo) = IF setup.type = "snowflake" THEN 3 ELSE 2
         /\ Asking("columns") => /\ request.tool = "describe_table"
                                 /\ Len(todo) = IF setup.type = "databricks" THEN 1 ELSE 2
         /\ Asking("keys") => /\ request.tool = "describe_table"
                              /\ setup.type # "databricks" /\ Len(todo) = 1
<1> SUFFICES ASSUME stage = "asking", pending = {}
             PROVE  /\ Head(todo).what = "schemas" =>
                         request.tool = "list_schemas" /\ Len(todo) = 1
                    /\ Head(todo).what = "tables" =>
                         request.tool = "list_tables" /\ Len(todo) = 1
                    /\ Head(todo).what = "table" =>
                         /\ request.tool = "describe_table" /\ setup.type # "sqlserver"
                         /\ Len(todo) = IF setup.type = "snowflake" THEN 3 ELSE 2
                    /\ Head(todo).what = "columns" =>
                         /\ request.tool = "describe_table"
                         /\ Len(todo) = IF setup.type = "databricks" THEN 1 ELSE 2
                    /\ Head(todo).what = "keys" =>
                         /\ request.tool = "describe_table"
                         /\ setup.type # "databricks" /\ Len(todo) = 1
  BY DEF Asking
<1>1. /\ Called /\ Len(todo) \in Nat /\ 1 <= Len(todo) /\ Len(todo) <= Len(TasksLeft)
      /\ Head(todo).what = TasksLeft[Len(todo)]
  BY AskedNow
<1> DEFINE n == Len(todo)
<1>a. /\ n \in {1, 2, 3} /\ (Len(TasksLeft) = 1 => n = 1)
      /\ (Len(TasksLeft) = 2 => n \in {1, 2})
  <2>1. Len(TasksLeft) \in {1, 2, 3}
    BY <1>1, TasksLeftAre
  <2> HIDE DEF n
  <2> QED
    BY <1>1, <2>1, UpTo DEF n
<1> HIDE DEF n
<1>2. CASE request.tool \in {"list_schemas", "list_tables"}
  <2>1. Len(todo) = 1
    BY <1>1, <1>2, <1>a, TasksLeftAre DEF n
  <2> QED
    BY <1>1, <1>2, <2>1, TasksLeftAre
<1>3. CASE request.tool = "describe_table" /\ setup.type = "databricks"
  <2>1. Len(todo) \in {1, 2}
    BY <1>1, <1>3, <1>a, TasksLeftAre DEF n
  <2> QED
    BY <1>1, <1>3, <2>1, TasksLeftAre
<1>4. CASE request.tool = "describe_table" /\ setup.type = "sqlserver"
  <2>1. Len(todo) \in {1, 2}
    BY <1>1, <1>4, <1>a, TasksLeftAre DEF n
  <2> QED
    BY <1>1, <1>4, <2>1, TasksLeftAre
<1>5. CASE request.tool = "describe_table" /\ setup.type = "snowflake"
  <2>1. Len(todo) \in {1, 2, 3}
    BY <1>1, <1>5, <1>a, TasksLeftAre DEF n
  <2> QED
    BY <1>1, <1>5, <2>1, TasksLeftAre
<1> QED
  BY <1>1, <1>2, <1>3, <1>4, <1>5, Texts DEF Tools

\* What the request means does not change while it is answered.
Fixed ==
  /\ effective_catalog' = effective_catalog /\ effective_schema' = effective_schema
  /\ TheCatalog' = TheCatalog /\ TheSchema' = TheSchema /\ HomeCatalog' = HomeCatalog
  /\ Nowhere' = Nowhere /\ TasksLeft' = TasksLeft /\ Askable' = Askable

\* It depends on the connection and the request only.
LEMMA MeaningIsFixed ==
  ASSUME UNCHANGED << setup, request >>
  PROVE  Fixed
BY DEF Fixed, effective_catalog, effective_schema, TheCatalog, TheSchema,
       HomeCatalog, Nowhere, TasksLeft, Askable

\* An answer of the right type is the end of a task.
LEMMA Answered ==
  ASSUME ListingsTypeOK, CallFacts, stage = "asking", pending = {},
         NEW a \in AnswerOf, Answer(a),
         UNCHANGED << setup, world, changes, moments, request, pending >>
  PROVE  /\ ListingsTypeOK' /\ CallFacts'
         /\ Len(todo') = Len(todo) - 1
         /\ stage' = IF Len(todo) = 1 THEN "returned" ELSE "asking"
<1>1. /\ Called /\ todo # << >> /\ todo \in Seq(TaskOf)
      /\ Len(todo) \in Nat /\ 1 <= Len(todo) /\ Len(todo) <= Len(TasksLeft)
  BY AskedNow DEF ListingsTypeOK
<1>2. /\ todo' = Tail(todo) /\ answer' = a /\ asked' = asked \cup {Source}
      /\ stage' = IF Len(todo) = 1 THEN "returned" ELSE "asking"
  BY DEF Answer
<1>3. /\ Len(todo') = Len(todo) - 1 /\ todo' \in Seq(TaskOf)
      /\ \A i \in DOMAIN todo' : i + 1 \in DOMAIN todo /\ todo'[i] = todo[i + 1]
  BY <1>1, <1>2
<1>4. Len(todo) = 1 <=> todo' = << >>
  BY <1>1, <1>3
<1>5. ListingsTypeOK'
  BY <1>2, <1>3, <1>4 DEF ListingsTypeOK, IsWorld, seen
<1>6. Fixed
  BY MeaningIsFixed
<1>7. CallFacts'
  <2>1. /\ stage' # "idle" /\ request' \in Requests /\ NowIsLast' /\ pending' = {}
    BY <1>1, <1>2 DEF CallFacts, NowIsLast, Called
  <2>2. stage' = "returned" => todo' = << >>
    BY <1>2, <1>4
  <2>3. stage' = "asking" => request'.tool = "describe_table"
    <3>1. request.tool # "describe_table" => Len(TasksLeft) = 1
      BY <1>1, TasksLeftAre, Texts DEF Tools
    <3>2. Len(TasksLeft) = 1 => Len(todo) = 1
      BY <1>1, TasksLeftAre, UpTo
    <3> QED
      BY <1>2, <3>1, <3>2
  <2>4. Len(todo') <= Len(TasksLeft')
    BY <1>1, <1>3, <1>6 DEF Fixed
  <2>5. ASSUME NEW i \in DOMAIN todo'
        PROVE  /\ todo'[i].what = TasksLeft'[Len(todo') - i + 1]
               /\ todo'[i].sources \in Seq(Askable')
    <3>1. /\ i + 1 \in DOMAIN todo /\ todo'[i] = todo[i + 1]
          /\ i \in Nat /\ Len(todo') - i + 1 = Len(todo) - (i + 1) + 1
      BY <1>1, <1>3
    <3>2. todo[i + 1].what = TasksLeft[Len(todo) - (i + 1) + 1]
          /\ todo[i + 1].sources \in Seq(Askable)
      BY <3>1 DEF CallFacts
    <3> QED
      BY <3>1, <3>2, <1>6 DEF Fixed
  <2> QED
    BY <2>1, <2>2, <2>3, <2>4, <2>5 DEF CallFacts
<1> QED
  BY <1>2, <1>3, <1>5, <1>7
\* What the moments so far said of an answer they go on saying.
LEMMA PartsLast ==
  ASSUME Fixed, UNCHANGED << setup, request >>, asked \subseteq asked',
         \A i \in DOMAIN moments : i \in DOMAIN moments' /\ moments'[i] = moments[i]
  PROVE  /\ answer'.table = answer.table => TableAt \subseteq TableAt'
         /\ answer'.columns = answer.columns => ColumnsAt \subseteq ColumnsAt'
         /\ answer'.keys = answer.keys => KeysAt \subseteq KeysAt'
<1>1. ASSUME answer'.table = answer.table, NEW i \in TableAt
      PROVE  i \in TableAt'
  <2>1. PICK source \in asked :
          \/ /\ It(moments[i], source) = {}
             /\ answer.table.object_type =
                  IF setup.type = "databricks" THEN "unknown" ELSE "table"
          \/ \E o \in It(moments[i], source) :
               /\ IsEntryOf(answer.table, o)
               /\ answer.table.object_type =
                    CASE setup.type = "sqlserver"  -> "table"
                      [] setup.type = "snowflake"  ->
                           IF o.kind = "external" THEN "unknown" ELSE o.kind
                      [] setup.type = "databricks" -> Told(o.kind)
    BY DEF TableAt
  <2>2. source \in asked' /\ i \in DOMAIN moments' /\ moments'[i] = moments[i]
    BY <2>1 DEF TableAt
  <2>3. CASE It(moments[i], source) = {}
    BY <1>1, <2>1, <2>2, <2>3 DEF TableAt, It, InPlace, InSchema, IsEntryOf, Fixed
  <2>4. CASE It(moments[i], source) # {}
    BY <1>1, <2>1, <2>2, <2>4 DEF TableAt, It, InPlace, InSchema, IsEntryOf, Fixed
  <2> QED
    BY <2>3, <2>4
<1>2. ASSUME answer'.columns = answer.columns, NEW i \in ColumnsAt
      PROVE  i \in ColumnsAt'
  BY <1>2 DEF ColumnsAt, It, InPlace, InSchema, Fixed
<1>3. ASSUME answer'.keys = answer.keys, NEW i \in KeysAt
      PROVE  i \in KeysAt'
  BY <1>3 DEF KeysAt, It, InPlace, InSchema, Fixed
<1> QED
  BY <1>1, <1>2, <1>3

\* So they do of the schemas that were shown.
LEMMA SchemasLast ==
  ASSUME SchemaFacts, Fixed, stage = "asking",
         UNCHANGED << setup, request, answer, asked, pending >>,
         \A i \in DOMAIN moments : i \in DOMAIN moments' /\ moments'[i] = moments[i]
  PROVE  SchemaFacts'
<1> SUFFICES ASSUME request.tool = "list_tables", Shown, ~Nowhere, TheSchema = None
             PROVE  \E i \in DOMAIN moments' :
                      /\ pending' \subseteq SchemasOf(i)'
                      /\ \A e \in answer'.tables : e.schema \in SchemasOf(i)' \ pending'
                      /\ \A schema \in SchemasOf(i)' \ pending' :
                           \E j \in ShownAt(schema)' : i <= j
  BY DEF SchemaFacts, Fixed, Shown
<1>1. PICK i \in DOMAIN moments :
        /\ pending \subseteq SchemasOf(i)
        /\ \A e \in answer.tables : e.schema \in SchemasOf(i) \ pending
        /\ \A schema \in SchemasOf(i) \ pending : \E j \in ShownAt(schema) : i <= j
  BY DEF SchemaFacts
<1>2. SchemasOf(i)' = SchemasOf(i) /\ i \in DOMAIN moments'
  BY <1>1 DEF SchemasOf, Fixed
<1>3. ASSUME NEW schema, NEW j \in ShownAt(schema)
      PROVE  j \in ShownAt(schema)'
  BY <1>3 DEF ShownAt, Fixed, Place
<1> QED
  BY <1>1, <1>2, <1>3
------------------------------------------------------------------------------
\* Each answer is of the right type.

AnswerStep == SchemasReturn \/ TablesReturn \/ ShowTablesReturn
              \/ TableReturns \/ ColumnsReturn \/ KeysReturn

\* Types of what is in a database.
LEMMA WorldTypes ==
  ASSUME IsWorld(world)
  PROVE  /\ world.objects \subseteq Objects /\ world.objects \subseteq Object
         /\ \A o \in world.objects :
              /\ o.catalog \in STRING /\ o.schema \in STRING /\ o.name \in STRING
              /\ o.columns \subseteq STRING /\ o.keys \subseteq STRING
         /\ \A p \in world.schemas :
              p[1] \in STRING /\ p[2] \in STRING /\ p = << p[1], p[2] >>
<1>1. world.objects \subseteq Objects /\ world.schemas \subseteq STRING \X STRING
  BY DEF IsWorld
<1>2. Objects \subseteq Object
  BY ListingsAssumption
<1>3. \A p \in STRING \X STRING :
        p[1] \in STRING /\ p[2] \in STRING /\ p = << p[1], p[2] >>
  OBVIOUS
<1> QED
  BY <1>1, <1>2, <1>3 DEF Object

\* Every answer a statement may give is well typed.
LEMMA AnswersAreTyped ==
  ASSUME ListingsTypeOK, CallFacts, AnswerStep
  PROVE  \E a \in AnswerOf : Answer(a)
<1>1. stage = "asking" /\ pending = {} /\ answer \in AnswerOf /\ IsWorld(world)
  BY DEF AnswerStep, SchemasReturn, TablesReturn, ShowTablesReturn, TableReturns,
         ColumnsReturn, KeysReturn, Asking, ListingsTypeOK
<1>2. Called
  BY <1>1, AskedNow
<1>3. \A o \in world.objects : table_info(o) \in InfoOf
  BY <1>1, <1>2, WorldTypes, InfoTypes DEF table_info, Text
<1>4. \A o \in world.objects : show_table_row(o, effective_catalog) \in InfoOf
  BY <1>1, <1>2, WorldTypes, InfoTypes, PlaceTypes DEF show_table_row, Text
<1>5. CASE SchemasReturn
  <2> DEFINE S == IF Source = "show"
                  THEN { << effective_catalog, p[2] >> : p \in
                           { q \in world.schemas :
                               q[1] = Or(effective_catalog, setup.session.catalog) } }
                  ELSE schema_rows(Source)
  <2>1. S \in SUBSET (Text \X STRING)
    <3>1. \A p \in world.schemas : p \in Text \X STRING
      BY <1>1, WorldTypes DEF Text
    <3>2. \A p \in world.schemas : << effective_catalog, p[2] >> \in Text \X STRING
      BY <1>1, <1>2, WorldTypes, PlaceTypes
    <3>3. CASE Source = "show"
      BY <3>2, <3>3
    <3>4. CASE Source # "show"
      BY <3>1, <3>4 DEF schema_rows
    <3> QED
      BY <3>3, <3>4
  <2>2. [answer EXCEPT !.schemas = S] \in AnswerOf
    BY <1>1, <2>1 DEF AnswerOf
  <2> QED
    BY <1>5, <2>2 DEF SchemasReturn
<1>6. CASE TablesReturn
  <2> DEFINE T == { table_info(o) : o \in table_rows(Source) }
  <2>1. T \in SUBSET InfoOf
    BY <1>3 DEF table_rows
  <2>2. [answer EXCEPT !.tables = T] \in AnswerOf
    BY <1>1, <2>1 DEF AnswerOf
  <2> QED
    BY <1>6, <2>2 DEF TablesReturn
<1>7. CASE ShowTablesReturn
  <2> DEFINE T == { show_table_row(o, effective_catalog) : o \in
                      { p \in world.objects : Place(p) = show_place } }
  <2>1. T \in SUBSET InfoOf
    BY <1>4
  <2>2. [answer EXCEPT !.tables = T] \in AnswerOf
    BY <1>1, <2>1 DEF AnswerOf
  <2> QED
    BY <1>7, <2>2 DEF ShowTablesReturn
<1>8. CASE TableReturns
  <2>1. \A x \in InfoOf : [answer EXCEPT !.table = x] \in AnswerOf
    BY <1>1 DEF AnswerOf
  <2>2. CASE \E o \in described(Source) : Answer([answer EXCEPT !.table = table_info(o)])
    BY <1>3, <2>1, <2>2 DEF described
  <2>3. CASE Answer([answer EXCEPT !.table =
               TableInfo(effective_catalog, effective_schema, request.table, None)])
    BY <1>2, <2>1, <2>3, InfoTypes, PlaceTypes, Texts
  <2> QED
    BY <1>8, <2>2, <2>3 DEF TableReturns
<1>9. CASE ColumnsReturn
  <2> DEFINE rows == described(Source)
             C == UNION { { [ table |-> << o.catalog, o.schema, o.name >>,
                              name |-> c, key |-> FALSE ] : c \in o.columns }
                          : o \in rows }
             catalog == IF rows = {} THEN request.catalog ELSE effective_catalog
             x == IF setup.type # "sqlserver" THEN answer.table
                  ELSE TableInfo(catalog, request.schema, request.table, {"TABLE"})
  <2>1. C \in SUBSET ColumnOf
    <3> SUFFICES ASSUME NEW o \in rows, NEW c \in o.columns
                 PROVE  [ table |-> << o.catalog, o.schema, o.name >>,
                          name |-> c, key |-> FALSE ] \in ColumnOf
      OBVIOUS
    <3>1. o \in world.objects
      BY DEF described
    <3> QED
      BY <3>1, <1>1, WorldTypes DEF ColumnOf, Text
  <2>2. x \in InfoOf \cup {None}
    <3>1. answer.table \in InfoOf \cup {None}
      BY <1>1 DEF AnswerOf
    <3>2. catalog \in Text
      BY <1>2, Texts, PlaceTypes
    <3> QED
      BY <1>2, <3>1, <3>2, Texts, InfoTypes
  <2>3. [answer EXCEPT !.columns = C, !.table = x] \in AnswerOf
    BY <1>1, <2>1, <2>2 DEF AnswerOf
  <2> QED
    BY <1>9, <2>3 DEF ColumnsReturn
<1>10. CASE KeysReturn
  <2> DEFINE K == UNION { o.keys : o \in described(Source) }
             C == { [c EXCEPT !.key = c.name \in K] : c \in answer.columns }
  <2>1. K \in SUBSET STRING
    BY <1>1, WorldTypes DEF described
  <2>2. C \in SUBSET ColumnOf
    <3>1. \A c \in answer.columns : c \in ColumnOf
      BY <1>1 DEF AnswerOf
    <3>2. \A c \in ColumnOf : \A k \in BOOLEAN : [c EXCEPT !.key = k] \in ColumnOf
      BY DEF ColumnOf
    <3> SUFFICES ASSUME NEW c \in answer.columns
                 PROVE  [c EXCEPT !.key = c.name \in K] \in ColumnOf
      OBVIOUS
    <3> HIDE DEF K
    <3> DEFINE k == c.name \in K
    <3>3. k \in BOOLEAN
      OBVIOUS
    <3> HIDE DEF k
    <3>4. [c EXCEPT !.key = k] \in ColumnOf
      BY <3>1, <3>2, <3>3
    <3> QED
      BY <3>4 DEF k
  <2>3. [answer EXCEPT !.keys = K, !.columns = C] \in AnswerOf
    BY <1>1, <2>1, <2>2 DEF AnswerOf
  <2> QED
    BY <1>10, <2>3 DEF KeysReturn
<1> QED
  BY <1>5, <1>6, <1>7, <1>8, <1>9, <1>10 DEF AnswerStep

\* So an answer keeps the types and the order of tasks.
LEMMA AnswerSteps ==
  ASSUME ListingsTypeOK, CallFacts, AnswerStep
  PROVE  /\ ListingsTypeOK' /\ CallFacts' /\ Fixed /\ Called /\ Source \in Askable
         /\ stage = "asking" /\ pending = {} /\ Len(todo) \in Nat
         /\ Len(todo') = Len(todo) - 1 /\ asked' = asked \cup {Source}
         /\ stage' = IF Len(todo) = 1 THEN "returned" ELSE "asking"
         /\ UNCHANGED << setup, world, changes, moments, seen, request, pending >>
         /\ world \in seen /\ IsWorld(world) /\ NowIsLast
<1>1. stage = "asking" /\ pending = {}
      /\ UNCHANGED << setup, world, changes, moments, request, pending >>
  BY DEF AnswerStep, SchemasReturn, TablesReturn, ShowTablesReturn, TableReturns,
         ColumnsReturn, KeysReturn, Asking
<1>2. PICK a \in AnswerOf : Answer(a)
  BY AnswersAreTyped
<1>3. asked' = asked \cup {Source}
  BY <1>2 DEF Answer
<1>4. world \in seen /\ IsWorld(world) /\ NowIsLast
  BY <1>1, NowIsSeen DEF CallFacts, ListingsTypeOK
<1>5. UNCHANGED seen
  BY <1>1 DEF seen
<1> QED
  BY <1>1, <1>2, <1>3, <1>4, <1>5, Answered, AskedNow, MeaningIsFixed
------------------------------------------------------------------------------
\* Listings of schemas.

\* The schemas a source holds.
LEMMA SchemasCovered ==
  ASSUME Called, request.tool = "list_schemas", NEW source \in Askable, source # "show",
         NEW catalog
  PROVE  covers(source, catalog) <=> source = "system" \/ catalog = HomeCatalog
<1>1. effective_catalog = IF setup.type = "databricks" THEN setup.home.catalog
                                                       ELSE HomeCatalog
  BY PlacesAskedFor
<1>2. CASE source = "system"
  BY <1>2 DEF covers
<1>3. CASE source = "session"
  <2>1. setup.type = "databricks" /\ effective_catalog = None
    BY <1>3 DEF Askable
  <2> QED
    BY <1>1, <1>3, <2>1 DEF covers, HomeCatalog
<1>4. CASE source = "catalog"
  <2>1. setup.type = "databricks" /\ effective_catalog # None
    BY <1>4 DEF Askable
  <2> QED
    BY <1>1, <1>4, <2>1 DEF covers, HomeCatalog
<1>5. CASE source = "server"
  <2>1. setup.type # "databricks"
    BY <1>5 DEF Askable
  <2> QED
    BY <1>1, <1>5, <2>1 DEF covers
<1> QED
  BY <1>2, <1>3, <1>4, <1>5 DEF Askable

\* The list of schemas is that of the moment its statement ran in.
LEMMA SchemasReturnKeeps ==
  ASSUME ListingInv, SchemasReturn
  PROVE  ListingInv'
<1> DEFINE home == Or(effective_catalog, setup.session.catalog)
           S == IF Source = "show"
                THEN { << effective_catalog, p[2] >> : p \in
                         { q \in world.schemas : q[1] = home } }
                ELSE schema_rows(Source)
<1>1. ListingsTypeOK /\ CallFacts /\ KeyFacts /\ answer \in AnswerOf
  BY DEF ListingInv, ListingsTypeOK
<1>2. /\ ListingsTypeOK' /\ CallFacts' /\ Fixed /\ Called /\ Source \in Askable
      /\ asked' = asked \cup {Source} /\ world \in seen /\ IsWorld(world)
      /\ UNCHANGED << setup, world, moments, seen, request >>
      /\ request.tool = "list_schemas" /\ stage' = "returned"
  BY <1>1, AnswerSteps, ToolOf DEF AnswerStep, SchemasReturn
<1>3. answer' = [answer EXCEPT !.schemas = S]
  BY DEF SchemasReturn, Answer
<1>4. answer'.schemas = S /\ answer'.keys = answer.keys /\ answer'.columns = answer.columns
  BY <1>1, <1>3 DEF AnswerOf
<1>5. KeyFacts'
  BY <1>1, <1>2, <1>4 DEF KeyFacts
<1>6. ShownFacts' /\ SchemaFacts' /\ DescribeFacts' /\ ListingsAreOfOneMoment'
  BY <1>2 DEF ShownFacts, SchemaFacts, DescribeFacts, ListingsAreOfOneMoment, Returned
<1>7. /\ \A s \in world.schemas :
           s[1] = HomeCatalog => s \in S \/ << None, s[2] >> \in S
      /\ \A s \in S :
           \E p \in world.schemas :
             /\ s[2] = p[2] /\ s[1] \in {None, p[1]}
             /\ p[1] = HomeCatalog \/ Source = "system"
  <2>1. CASE Source = "show"
    <3>1. setup.type = "databricks"
      BY <1>2, <2>1 DEF Askable
    <3>2. home = HomeCatalog /\ effective_catalog \in {None, HomeCatalog}
      BY <1>2, <3>1, PlacesAskedFor, Texts, ListingsAssumption DEF Or, HomeCatalog
    <3>3. S = { << effective_catalog, p[2] >> : p \in
                  { q \in world.schemas : q[1] = HomeCatalog } }
      BY <2>1, <3>2
    <3>4. ASSUME NEW s \in world.schemas, s[1] = HomeCatalog
          PROVE  s \in S \/ << None, s[2] >> \in S
      <4>1. << effective_catalog, s[2] >> \in S
        BY <3>3, <3>4
      <4>2. s = << HomeCatalog, s[2] >>
        BY <1>2, <3>4, WorldTypes
      <4> QED
        BY <3>2, <4>1, <4>2
    <3>5. ASSUME NEW s \in S
          PROVE  \E p \in world.schemas :
                   s[2] = p[2] /\ s[1] \in {None, p[1]} /\ p[1] = HomeCatalog
      BY <3>2, <3>3
    <3> QED
      BY <3>4, <3>5
  <2>2. CASE Source # "show"
    <3>1. S = { p \in world.schemas : covers(Source, p[1]) }
      BY <2>2 DEF schema_rows
    <3>2. \A p \in world.schemas : p \in S <=> Source = "system" \/ p[1] = HomeCatalog
      BY <1>2, <2>2, <3>1, SchemasCovered
    <3>3. S \subseteq world.schemas
      BY <3>1
    <3> HIDE DEF S
    <3> QED
      BY <3>2, <3>3
  <2> QED
    BY <2>1, <2>2
<1>8. SchemasAreOfOneMoment'
  <2> HIDE DEF S
  <2> SUFFICES /\ \A s \in world.schemas :
                    s[1] = HomeCatalog => {s, << None, s[2] >>} \cap S # {}
               /\ \A s \in S :
                    \E p \in world.schemas :
                      /\ s[2] = p[2] /\ s[1] \in {None, p[1]}
                      /\ p[1] = HomeCatalog \/ "system" \in asked'
    BY <1>2, <1>4 DEF SchemasAreOfOneMoment, Fixed
  <2>1. Source = "system" => "system" \in asked'
    BY <1>2
  <2>2. \A s : s \in S \/ << None, s[2] >> \in S => {s, << None, s[2] >>} \cap S # {}
    OBVIOUS
  <2> QED
    BY <1>7, <2>1, <2>2
<1> QED
  BY <1>2, <1>5, <1>6, <1>8 DEF ListingInv

------------------------------------------------------------------------------
\* Listings of tables.

\* What a TableInfo has to say of an object.
Expected(o) ==
  [ catalog |-> o.catalog, schema |-> o.schema, name |-> o.name,
    object_type |-> Told(o.kind),
    is_view |-> o.kind = "view" \/ (o.kind = "materialized_view"
                                    /\ setup.type = "databricks") ]

\* The entry for an object is the one the request is owed.
LEMMA RowsAreExpected ==
  ASSUME Called, setup.type # "sqlserver", NEW o \in Objects, OfKind(o)
  PROVE  table_info(o) = Expected(o)
<1>1. o.kind \in Kind
  BY ListingsAssumption DEF Object
<1>2. object_type(words_of(o)) = Told(o.kind)
  BY <1>1, KindsTold, Texts DEF Told, OfKind, Kind
<1>3. is_view(words_of(o)) = (o.kind = "view" \/ (o.kind = "materialized_view"
                                                 /\ setup.type = "databricks"))
  <2>1. is_view(words_of(o)) \in BOOLEAN
    BY DEF is_view
  <2> QED
    BY <1>1, <2>1, KindsTold, Texts DEF Kind
<1> QED
  BY <1>2, <1>3 DEF table_info, TableInfo, Expected

\* The list of tables is that of the moment its statement ran in.
LEMMA TablesReturnKeeps ==
  ASSUME ListingInv, TablesReturn
  PROVE  ListingInv'
<1>1. ListingsTypeOK /\ CallFacts /\ KeyFacts /\ answer \in AnswerOf
  BY DEF ListingInv, ListingsTypeOK
<1>2. /\ ListingsTypeOK' /\ CallFacts' /\ Fixed /\ Called /\ Source \in Askable
      /\ asked' = asked \cup {Source} /\ world \in seen /\ IsWorld(world)
      /\ UNCHANGED << setup, world, moments, seen, request >>
      /\ request.tool = "list_tables" /\ stage' = "returned"
  BY <1>1, AnswerSteps, ToolOf DEF AnswerStep, TablesReturn
<1>3. /\ Source # "show" /\ setup.type # "sqlserver"
      /\ answer' = [answer EXCEPT !.tables = { table_info(o) : o \in table_rows(Source) }]
      /\ stage = "asking" /\ pending = {}
  BY DEF TablesReturn, Answer, Asking, answerable
<1>4. /\ answer'.tables = { table_info(o) : o \in table_rows(Source) }
      /\ answer'.keys = answer.keys /\ answer'.columns = answer.columns
  BY <1>1, <1>3 DEF AnswerOf
<1>5. asked' = {Source}
  BY <1>1, <1>2, <1>3 DEF CallFacts
<1>6. KeyFacts'
  BY <1>1, <1>2, <1>4 DEF KeyFacts
<1>7. ShownFacts' /\ SchemaFacts' /\ DescribeFacts' /\ SchemasAreOfOneMoment'
  BY <1>2, <1>3, <1>5
     DEF ShownFacts, SchemaFacts, DescribeFacts, SchemasAreOfOneMoment, Returned, Shown
<1>8. ListingsAreOfOneMoment'
  <2> DEFINE asked_for == { o \in world.objects :
                              /\ IF Nowhere /\ Source = "system" THEN InSchema(o)
                                                                 ELSE InPlace(o)
                              /\ OfKind(o) }
  <2>1. table_rows(Source) = asked_for
    <3>1. \A o \in world.objects :
            covers(Source, o.catalog) /\ place_clause(o)
            <=> IF Nowhere /\ Source = "system" THEN InSchema(o) ELSE InPlace(o)
      BY <1>2, <1>3, Covered
    <3>2. \A o \in world.objects : type_clause(o) <=> OfKind(o)
      BY <1>2, KindsAskedFor, WorldTypes
    <3> QED
      BY <3>1, <3>2 DEF table_rows
  <2>2. { table_info(o) : o \in table_rows(Source) } = { Expected(o) : o \in asked_for }
    <3>1. \A o \in asked_for : table_info(o) = Expected(o)
      BY <1>2, <1>3, WorldTypes, RowsAreExpected
    <3> QED
      BY <2>1, <3>1
  <2>3. answer'.tables = { Expected(o) : o \in asked_for }
    BY <1>4, <2>2
  <2>4. "system" \in asked' <=> Source = "system"
    BY <1>5
  <2> QED
    BY <1>2, <2>3, <2>4
       DEF ListingsAreOfOneMoment, Expected, Fixed, InSchema, InPlace, OfKind
<1> QED
  BY <1>2, <1>6, <1>7, <1>8 DEF ListingInv
------------------------------------------------------------------------------
\* SHOW TABLES.

\* A row of SHOW TABLES is an entry of its object, as a table.
LEMMA RowsAreShown ==
  ASSUME Called, request.tool = "list_tables", setup.type = "databricks",
         NEW o, o.catalog = TheCatalog
  PROVE  LET e == show_table_row(o, effective_catalog)
         IN  IsEntryOf(e, o) /\ e.object_type = "table" /\ ~e.is_view
<1>1. effective_catalog \in {o.catalog, None}
  BY PlacesAskedFor
<1> QED
  BY <1>1, ShownKinds DEF show_table_row, TableInfo, IsEntryOf

\* SHOW TABLES in one schema keeps what is known of shown objects.
LEMMA ShowTablesReturnKeeps ==
  ASSUME ListingInv, ShowTablesReturn
  PROVE  ListingInv'
<1> DEFINE rows == { p \in world.objects : Place(p) = show_place }
           T == { show_table_row(o, effective_catalog) : o \in rows }
<1>1. ListingsTypeOK /\ CallFacts /\ KeyFacts /\ answer \in AnswerOf
  BY DEF ListingInv, ListingsTypeOK
<1>2. /\ ListingsTypeOK' /\ CallFacts' /\ Fixed /\ Called /\ Source \in Askable
      /\ asked' = asked \cup {Source} /\ world \in seen /\ IsWorld(world)
      /\ UNCHANGED << setup, world, moments, seen, request, pending >>
      /\ request.tool = "list_tables" /\ stage' = "returned"
  BY <1>1, AnswerSteps, ToolOf DEF AnswerStep, ShowTablesReturn
<1>3. /\ Source = "show" /\ ~shows_each_schema
      /\ answer' = [answer EXCEPT !.tables = T]
  BY DEF ShowTablesReturn, Answer
<1>4. /\ answer'.tables = T /\ answer'.keys = answer.keys
      /\ answer'.columns = answer.columns
  BY <1>1, <1>3 DEF AnswerOf
<1>5. setup.type = "databricks"
  BY <1>2, <1>3 DEF Askable
<1>6. KeyFacts'
  BY <1>1, <1>2, <1>4 DEF KeyFacts
<1>7. Shown'
  BY <1>2, <1>3 DEF Shown
<1>8. DescribeFacts' /\ SchemasAreOfOneMoment' /\ ListingsAreOfOneMoment'
  BY <1>2, <1>7
     DEF DescribeFacts, SchemasAreOfOneMoment, ListingsAreOfOneMoment, Returned
<1>9. /\ show_place[1] = TheCatalog
      /\ show_place[2] = IF TheSchema = None THEN setup.session.schema ELSE TheSchema
      /\ TheSchema = None => Nowhere
  BY <1>2, <1>3, <1>5, PlacesAskedFor, PlaceTypes, ListingsAssumption
     DEF show_place, shows_each_schema, Or
<1>10. \A o : Place(o) = show_place <=> o.catalog = show_place[1] /\ o.schema = show_place[2]
  BY DEF Place, show_place
<1>11. ASSUME NEW o \in rows
       PROVE  LET e == show_table_row(o, effective_catalog)
              IN  /\ IsEntryOf(e, o) /\ InPlace(o)
                  /\ e.object_type = "table" /\ ~e.is_view
  <2>1. o.catalog = TheCatalog /\ InSchema(o)
    BY <1>9, <1>10 DEF InSchema
  <2> QED
    BY <1>2, <1>5, <2>1, RowsAreShown DEF InPlace
<1>12. ASSUME NEW o \in Objects, \A w \in seen : o \in w.objects, InPlace(o),
              Nowhere /\ TheSchema = None => o.schema = setup.session.schema
       PROVE  \E e \in T : IsEntryOf(e, o)
  <2>1. o \in world.objects
    BY <1>2, <1>12
  <2>2. o.catalog = TheCatalog /\ InSchema(o)
    BY <1>12 DEF InPlace
  <2>3. o \in rows
    BY <1>9, <1>10, <1>12, <2>1, <2>2 DEF InSchema
  <2> QED
    BY <2>3, <1>11
<1>13. ShownFacts'
  <2> HIDE DEF T, rows
  <2>1. \A e \in T :
          /\ \E w \in seen : \E o \in w.objects : IsEntryOf(e, o) /\ InPlace(o)
          /\ e.object_type = "table" /\ ~e.is_view
    BY <1>2, <1>11 DEF T, rows
  <2> QED
    BY <1>2, <1>4, <1>5, <1>12, <2>1 DEF ShownFacts, Fixed, InPlace, InSchema
<1>14. SchemaFacts'
  BY <1>2, <1>9 DEF SchemaFacts, Fixed
<1> QED
  BY <1>2, <1>6, <1>8, <1>13, <1>14 DEF ListingInv

\* Once the schemas are listed, every object that lasts is in one of them.
LEMMA ShowSchemasReturnKeeps ==
  ASSUME ListingInv, ShowSchemasReturn
  PROVE  ListingInv'
<1>1. ListingsTypeOK /\ CallFacts /\ KeyFacts
  BY DEF ListingInv
<1>2. /\ stage = "asking" /\ pending = {} /\ shows_each_schema /\ Asking("tables")
      /\ pending' = { p[2] : p \in { q \in world.schemas : q[1] = effective_catalog } }
      /\ asked' = asked \cup {Source} /\ todo' = << >>
      /\ stage' = IF pending' = {} THEN "returned" ELSE "asking"
      /\ UNCHANGED << setup, world, changes, moments, request, answer >>
  BY DEF ShowSchemasReturn, Asking
<1>3. /\ Called /\ Source \in Askable /\ request.tool = "list_tables"
      /\ world \in seen /\ NowIsLast /\ IsWorld(world)
  BY <1>1, <1>2, AskedNow, ToolOf, NowIsSeen DEF CallFacts, ListingsTypeOK
<1>4. Fixed /\ UNCHANGED seen
  BY <1>2, MeaningIsFixed DEF seen
<1>5. /\ Source = "show" /\ setup.type = "databricks" /\ TheSchema = None
      /\ ~Nowhere /\ effective_catalog = TheCatalog
  <2>1. Source = "show" /\ effective_schema = None /\ effective_catalog # None
    BY <1>2 DEF shows_each_schema
  <2> QED
    BY <1>3, <2>1, PlacesAskedFor DEF Askable
<1>6. Shown' /\ answer.tables = {}
  <2>1. answer = Nothing
    BY <1>1, <1>2, <1>3 DEF CallFacts
  <2> QED
    BY <1>2, <1>5, <2>1 DEF Shown, Nothing
<1>7. ListingsTypeOK'
  <2>1. pending' \subseteq STRING
    BY <1>2, <1>3, WorldTypes
  <2>2. todo' \in Seq(TaskOf) /\ DOMAIN todo' = {}
    BY <1>2
  <2> QED
    BY <1>1, <1>2, <1>4, <2>1, <2>2 DEF ListingsTypeOK, IsWorld
<1>8. CallFacts'
  <2>1. Len(todo') = 0 /\ DOMAIN todo' = {}
    BY <1>2
  <2>2. Len(todo') <= Len(TasksLeft')
    BY <1>3, <1>4, <2>1, TasksLeftAre DEF Fixed
  <2> QED
    BY <1>2, <1>3, <1>4, <1>5, <1>6, <2>1, <2>2 DEF CallFacts, Called, Fixed, NowIsLast
<1>9. KeyFacts'
  BY <1>1, <1>2 DEF KeyFacts
<1>10. DescribeFacts' /\ SchemasAreOfOneMoment' /\ ListingsAreOfOneMoment'
  BY <1>2, <1>3, <1>6
     DEF DescribeFacts, SchemasAreOfOneMoment, ListingsAreOfOneMoment, Returned
<1>11. ASSUME NEW o \in Objects, \A w \in seen : o \in w.objects, InPlace(o)
       PROVE  o.schema \in pending'
  <2>1. o \in world.objects
    BY <1>3, <1>11
  <2>2. Place(o) \in world.schemas
    BY <1>3, <2>1 DEF IsWorld
  <2>3. Place(o)[1] = effective_catalog /\ Place(o)[2] = o.schema
    BY <1>5, <1>11 DEF Place, InPlace
  <2> QED
    BY <1>2, <2>2, <2>3
<1>12. ShownFacts'
  BY <1>2, <1>4, <1>5, <1>6, <1>11 DEF ShownFacts, Fixed, InPlace, InSchema
<1>13. SchemaFacts'
  <2>1. PICK n \in DOMAIN moments : world = moments[n]
    BY <1>1, <1>3, NowIsSeen
  <2>2. n \in DOMAIN moments' /\ pending' = SchemasOf(n)'
    BY <1>2, <1>4, <1>5, <2>1 DEF SchemasOf, Fixed
  <2>3. answer'.tables = {}
    BY <1>2, <1>6
  <2> QED
    BY <2>2, <2>3 DEF SchemaFacts
<1> QED
  BY <1>7, <1>8, <1>9, <1>10, <1>12, <1>13 DEF ListingInv

\* An object that lasts is listed when its schema has been shown.
LEMMA ShowTablesOfKeeps ==
  ASSUME ListingInv, NEW schema \in pending, ShowTablesOf(schema)
  PROVE  ListingInv'
<1> DEFINE rows == { p \in world.objects : Place(p) = << effective_catalog, schema >> }
           R == { show_table_row(o, effective_catalog) : o \in rows }
<1>1. /\ ListingsTypeOK /\ CallFacts /\ KeyFacts /\ ShownFacts /\ SchemaFacts
      /\ answer \in AnswerOf /\ IsWorld(world)
  BY DEF ListingInv, ListingsTypeOK
<1>2. /\ stage = "asking" /\ pending' = pending \ {schema}
      /\ answer' = [answer EXCEPT !.tables = @ \cup R]
      /\ stage' = IF pending' = {} THEN "returned" ELSE "asking"
      /\ UNCHANGED << setup, world, changes, moments, request, todo, asked >>
  BY DEF ShowTablesOf
<1>3. /\ Called /\ request.tool = "list_tables" /\ Shown /\ todo = << >>
      /\ ~Nowhere /\ TheSchema = None
      /\ world \in seen /\ NowIsLast
  BY <1>1, <1>2, NowIsSeen DEF CallFacts, ListingsTypeOK, Called
<1>4. Fixed /\ Shown' /\ UNCHANGED seen
  BY <1>2, <1>3, MeaningIsFixed DEF Shown, seen
<1>5. setup.type = "databricks" /\ effective_catalog = TheCatalog
  BY <1>1, <1>2, <1>3, PlacesAskedFor DEF ShownFacts
<1>6. /\ answer'.tables = answer.tables \cup R /\ answer'.keys = answer.keys
      /\ answer'.columns = answer.columns
  BY <1>1, <1>2 DEF AnswerOf
<1>7. ListingsTypeOK'
  <2>1. \A o \in world.objects : show_table_row(o, effective_catalog) \in InfoOf
    BY <1>1, <1>3, WorldTypes, InfoTypes, PlaceTypes DEF show_table_row, Text
  <2>2. answer.tables \cup R \in SUBSET InfoOf
    BY <1>1, <2>1 DEF AnswerOf
  <2>3. answer' \in AnswerOf
    <3> HIDE DEF R
    <3> QED
      BY <1>1, <1>2, <2>2 DEF AnswerOf
  <2> QED
    BY <1>1, <1>2, <1>4, <2>3 DEF ListingsTypeOK, IsWorld
<1>8. CallFacts'
  <2>1. Len(todo') = 0 /\ DOMAIN todo' = {}
    BY <1>2, <1>3
  <2>2. Len(todo') <= Len(TasksLeft')
    BY <1>3, <1>4, <2>1, TasksLeftAre DEF Fixed
  <2> QED
    BY <1>2, <1>3, <1>4, <2>1, <2>2 DEF CallFacts, Called, Fixed, NowIsLast
<1>9. KeyFacts'
  BY <1>1, <1>2, <1>6 DEF KeyFacts
<1>10. DescribeFacts' /\ SchemasAreOfOneMoment' /\ ListingsAreOfOneMoment'
  BY <1>2, <1>3, <1>4
     DEF DescribeFacts, SchemasAreOfOneMoment, ListingsAreOfOneMoment, Returned
<1>11. ASSUME NEW o \in rows
       PROVE  LET e == show_table_row(o, effective_catalog)
              IN  /\ IsEntryOf(e, o) /\ InPlace(o)
                  /\ e.object_type = "table" /\ ~e.is_view
  <2>1. o.catalog = TheCatalog /\ InSchema(o)
    BY <1>3, <1>5 DEF InSchema, Place
  <2> QED
    BY <1>3, <1>5, <2>1, RowsAreShown DEF InPlace
<1>12. ASSUME NEW o \in Objects, \A w \in seen : o \in w.objects, InPlace(o)
       PROVE  o.schema \in pending' \/ \E e \in answer'.tables : IsEntryOf(e, o)
  <2>1. o \in world.objects
    BY <1>3, <1>12
  <2>2. o.schema \in pending \/ \E e \in answer.tables : IsEntryOf(e, o)
    BY <1>1, <1>2, <1>3, <1>12 DEF ShownFacts
  <2>3. CASE o.schema = schema
    <3>1. o \in rows
      BY <1>5, <1>12, <2>1, <2>3 DEF Place, InPlace
    <3> QED
      BY <1>6, <1>11, <3>1
  <2>4. CASE o.schema \in pending /\ o.schema # schema
    BY <1>2, <2>4
  <2>5. CASE \E e \in answer.tables : IsEntryOf(e, o)
    BY <1>6, <2>5
  <2> QED
    BY <2>2, <2>3, <2>4, <2>5
<1>13. ShownFacts'
  <2> HIDE DEF R, rows
  <2>1. \A e \in answer'.tables :
          /\ \E w \in seen : \E o \in w.objects : IsEntryOf(e, o) /\ InPlace(o)
          /\ e.object_type = "table" /\ ~e.is_view
    <3>1. \A e \in answer.tables :
            /\ \E w \in seen : \E o \in w.objects : IsEntryOf(e, o) /\ InPlace(o)
            /\ e.object_type = "table" /\ ~e.is_view
      BY <1>1, <1>2, <1>3 DEF ShownFacts
    <3>2. \A e \in R :
            /\ \E w \in seen : \E o \in w.objects : IsEntryOf(e, o) /\ InPlace(o)
            /\ e.object_type = "table" /\ ~e.is_view
      BY <1>3, <1>11 DEF R, rows
    <3> QED
      BY <1>6, <3>1, <3>2
  <2> QED
    BY <1>2, <1>4, <1>5, <1>12, <2>1 DEF ShownFacts, Fixed, InPlace, InSchema
<1>14. SchemaFacts'
  <2>1. PICK i \in DOMAIN moments :
          /\ pending \subseteq SchemasOf(i)
          /\ \A e \in answer.tables : e.schema \in SchemasOf(i) \ pending
          /\ \A s \in SchemasOf(i) \ pending : \E j \in ShownAt(s) : i <= j
    BY <1>1, <1>2, <1>3 DEF SchemaFacts
  <2>2. SchemasOf(i)' = SchemasOf(i)
    BY <1>2, <1>4 DEF SchemasOf, Fixed
  <2>3. R = { [ catalog |-> TheCatalog, schema |-> schema, name |-> o.name,
                object_type |-> "table", is_view |-> FALSE ] : o \in rows }
    <3>1. \A o \in rows :
            show_table_row(o, effective_catalog) =
              [ catalog |-> TheCatalog, schema |-> schema, name |-> o.name,
                object_type |-> "table", is_view |-> FALSE ]
      <4>1. is_view({"TABLE"}) \in BOOLEAN
        BY <1>5 DEF is_view
      <4>2. object_type({"TABLE"}) = "table" /\ is_view({"TABLE"}) = FALSE
        BY <1>3, <1>5, <4>1, ShownKinds
      <4>3. \A o \in rows : o.schema = schema
        BY DEF Place
      <4> QED
        BY <1>5, <4>2, <4>3 DEF show_table_row, TableInfo
    <3> QED
      BY <3>1
  <2>4. \A e \in R : e.schema = schema
    BY <2>3
  <2>n. PICK n \in DOMAIN moments :
          world = moments[n] /\ \A j \in DOMAIN moments : j <= n
    BY <1>1, <1>3, NowIsSeen
  <2>5. n \in ShownAt(schema)' /\ i <= n
    <3>1. { e \in answer'.tables : e.schema = schema } = R
      <4> HIDE DEF R
      <4> QED
        BY <1>6, <2>1, <2>4
    <3>2. rows = { p \in moments[n].objects : Place(p) = << TheCatalog, schema >> }
      BY <1>5, <2>n
    <3>3. n \in DOMAIN moments' /\ moments' = moments /\ TheCatalog' = TheCatalog
      BY <1>2, <1>4 DEF Fixed
    <3>4. { e \in answer'.tables : e.schema = schema } =
            { [ catalog |-> TheCatalog', schema |-> schema, name |-> o.name,
                object_type |-> "table", is_view |-> FALSE ]
              : o \in { p \in moments'[n].objects :
                          Place(p) = << TheCatalog', schema >> } }
      <4> HIDE DEF R, rows
      <4> QED
        BY <2>3, <3>1, <3>2, <3>3
    <3>5. i <= n
      BY <2>n
    <3> HIDE DEF R, rows
    <3> QED
      BY <3>3, <3>4, <3>5 DEF ShownAt, Place
  <2>6. ASSUME NEW s \in SchemasOf(i) \ pending
        PROVE  ShownAt(s)' = ShownAt(s)
    <3>1. s # schema
      OBVIOUS
    <3>2. { e \in answer'.tables : e.schema = s } = { e \in answer.tables : e.schema = s }
      <4> HIDE DEF R
      <4> QED
        BY <1>6, <2>4, <3>1
    <3> HIDE DEF R
    <3> QED
      BY <1>2, <1>4, <3>2 DEF ShownAt, Fixed, Place
  <2>7. \A e \in answer'.tables : e.schema \in SchemasOf(i) \ pending'
    <3> HIDE DEF R
    <3> QED
      BY <1>2, <1>6, <2>1, <2>4
  <2>8. ASSUME NEW s \in SchemasOf(i) \ pending'
        PROVE  \E j \in ShownAt(s)' : i <= j
    <3>1. CASE s = schema
      BY <2>5, <3>1
    <3>2. CASE s # schema
      <4>1. s \in SchemasOf(i) \ pending
        BY <1>2, <3>2
      <4> QED
        BY <2>1, <2>6, <4>1
    <3> QED
      BY <3>1, <3>2
  <2>9. i \in DOMAIN moments' /\ pending' \subseteq SchemasOf(i)
    BY <1>2, <2>1
  <2> QED
    BY <2>2, <2>7, <2>8, <2>9 DEF SchemaFacts
<1> QED
  BY <1>7, <1>8, <1>9, <1>10, <1>13, <1>14 DEF ListingInv
------------------------------------------------------------------------------
\* Descriptions.

\* The rows a description is made of are those of the object asked for.
LEMMA DescribedIsIt ==
  ASSUME Called, request.tool = "describe_table", NEW source \in Askable
  PROVE  /\ described(source) = It(world, source)
         /\ \A o \in It(world, source) : o.schema = TheSchema /\ o.name = request.table
         /\ ~Nowhere => /\ \A o \in It(world, source) : o.catalog = TheCatalog
                        /\ It(world, source) = It(world, "server")
<1>1. source # "show"
  BY DEF Askable
<1>2. \A o \in world.objects :
        covers(source, o.catalog) /\ place_clause(o)
        <=> IF Nowhere /\ source = "system" THEN InSchema(o) ELSE InPlace(o)
  BY <1>1, Covered
<1>3. described(source) = It(world, source)
  BY <1>2 DEF described, It
<1> QED
  BY <1>3, PlaceTypes DEF It, InPlace, InSchema

\* The statement for the table's kind.
LEMMA TableReturnsKeeps ==
  ASSUME ListingInv, TableReturns
  PROVE  ListingInv'
<1>1. ListingsTypeOK /\ CallFacts /\ KeyFacts /\ answer \in AnswerOf
  BY DEF ListingInv, ListingsTypeOK
<1>2. /\ ListingsTypeOK' /\ CallFacts' /\ Fixed /\ Called /\ Source \in Askable
      /\ NowIsLast /\ IsWorld(world)
      /\ UNCHANGED << setup, world, moments, seen, request >>
      /\ request.tool = "describe_table" /\ setup.type # "sqlserver"
      /\ setup.type = "snowflake" => Len(todo') = 2
      /\ setup.type = "databricks" => Len(todo') = 1
      /\ stage' = "asking" /\ asked' = asked \cup {Source}
  <2>1. AnswerStep /\ Asking("table")
    BY DEF AnswerStep, TableReturns
  <2>2. /\ request.tool = "describe_table" /\ setup.type # "sqlserver"
        /\ Len(todo) = IF setup.type = "snowflake" THEN 3 ELSE 2
    BY <1>1, <2>1, ToolOf
  <2>3. /\ setup.type = "snowflake" => Len(todo) = 3
        /\ setup.type = "databricks" => Len(todo) = 2
        /\ Len(todo) # 1
    BY <2>2
  <2>4. Len(todo') = Len(todo) - 1
        /\ stage' = IF Len(todo) = 1 THEN "returned" ELSE "asking"
    BY <1>1, <2>1, AnswerSteps
  <2>5. /\ ListingsTypeOK' /\ CallFacts' /\ Fixed /\ Called /\ Source \in Askable
        /\ NowIsLast /\ IsWorld(world) /\ asked' = asked \cup {Source}
        /\ UNCHANGED << setup, world, moments, seen, request >>
    BY <1>1, <2>1, AnswerSteps
  <2> QED
    BY <2>2, <2>3, <2>4, <2>5
<1>3. PICK x : /\ answer' = [answer EXCEPT !.table = x]
               /\ \/ \E o \in described(Source) : x = table_info(o)
                  \/ /\ described(Source) = {}
                     /\ x = TableInfo(effective_catalog, effective_schema,
                                      request.table, None)
  BY DEF TableReturns, Answer
<1>4. /\ answer'.table = x /\ answer'.keys = answer.keys
      /\ answer'.columns = answer.columns
  BY <1>1, <1>3 DEF AnswerOf
<1>5. KeyFacts'
  BY <1>1, <1>2, <1>4 DEF KeyFacts, TableReturns, Asking
<1>6. ShownFacts' /\ SchemaFacts' /\ SchemasAreOfOneMoment' /\ ListingsAreOfOneMoment'
  BY <1>2
     DEF ShownFacts, SchemaFacts, SchemasAreOfOneMoment, ListingsAreOfOneMoment, Returned
<1>7. \/ /\ It(world, Source) = {}
         /\ x.object_type = IF setup.type = "databricks" THEN "unknown" ELSE "table"
      \/ \E o \in It(world, Source) :
           IsEntryOf(x, o) /\ x.object_type = object_type(words_of(o))
  <2>1. described(Source) = It(world, Source)
    BY <1>2, DescribedIsIt
  <2>2. ASSUME NEW o, x = table_info(o)
        PROVE  IsEntryOf(x, o) /\ x.object_type = object_type(words_of(o))
    BY <2>2 DEF table_info, TableInfo, IsEntryOf
  <2>3. ASSUME x = TableInfo(effective_catalog, effective_schema, request.table, None)
        PROVE  x.object_type = IF setup.type = "databricks" THEN "unknown" ELSE "table"
    <3>1. x.object_type = object_type(None)
      BY <2>3 DEF TableInfo
    <3>2. {"VIEW"} # None /\ {"MATERIALIZED", "VIEW"} # None
      <4>1. type_name("snowflake", "view") = {"VIEW"}
            /\ type_name("snowflake", "materialized_view") = {"MATERIALIZED", "VIEW"}
        BY DEF type_name
      <4> QED
        BY <4>1, NamesAssumption DEF Kind
    <3> QED
      BY <3>1, <3>2 DEF object_type, map_table_type, table_object_type
  <2> QED
    BY <1>3, <2>1, <2>2, <2>3
<1>8. ~ColumnsKnown'
  <2>1. CASE setup.type = "snowflake"
    BY <1>2, <2>1 DEF ColumnsKnown
  <2>2. CASE setup.type = "databricks"
    <3>1. setup'.type = "databricks" /\ Len(todo') = 1
      BY <1>2, <2>2
    <3>2. ~(1 < 1)
      OBVIOUS
    <3>3. ColumnsKnown' => Len(todo') < 1
      BY <3>1 DEF ColumnsKnown
    <3> QED
      BY <3>1, <3>2, <3>3
  <2> QED
    BY <1>2, <2>1, <2>2, Texts
<1>9. PICK n \in DOMAIN moments :
         world = moments[n] /\ \A i \in DOMAIN moments : i <= n
  BY <1>1, <1>2, NowIsSeen
<1>10. n \in TableAt'
  <2>2. CASE It(world, Source) = {}
    BY <1>2, <1>4, <1>7, <1>9, <2>2
       DEF TableAt, It, InPlace, InSchema, IsEntryOf, Fixed
  <2>3. ASSUME NEW o \in It(world, Source),
               IsEntryOf(x, o), x.object_type = object_type(words_of(o))
        PROVE  n \in TableAt'
    <3>1. x.object_type = CASE setup.type = "sqlserver"  -> "table"
                            [] setup.type = "snowflake"  ->
                                 IF o.kind = "external" THEN "unknown" ELSE o.kind
                            [] setup.type = "databricks" -> Told(o.kind)
      <4>1. o \in Objects
        BY <1>2 DEF It, IsWorld
      <4> QED
        BY <1>2, <2>3, <4>1, KindsTold, Texts
    <3> QED
      BY <1>2, <1>4, <1>9, <2>3, <3>1
         DEF TableAt, It, InPlace, InSchema, IsEntryOf, Fixed
  <2> QED
    BY <1>7, <2>2, <2>3
<1>11. DescribeFacts'
  BY <1>2, <1>8, <1>10 DEF DescribeFacts, Fixed
<1> QED
  BY <1>2, <1>5, <1>6, <1>11 DEF ListingInv

\* The statement for the table's columns.
LEMMA ColumnsReturnKeeps ==
  ASSUME ListingInv, ColumnsReturn
  PROVE  ListingInv'
<1> DEFINE rows == described(Source)
           C == UNION { { [ table |-> << o.catalog, o.schema, o.name >>,
                            name |-> c, key |-> FALSE ] : c \in o.columns }
                        : o \in rows }
           catalog == IF rows = {} THEN request.catalog ELSE effective_catalog
           x == IF setup.type # "sqlserver" THEN answer.table
                ELSE TableInfo(catalog, request.schema, request.table, {"TABLE"})
<1>1. ListingsTypeOK /\ CallFacts /\ KeyFacts /\ DescribeFacts /\ answer \in AnswerOf
  BY DEF ListingInv, ListingsTypeOK
<1>2. /\ ListingsTypeOK' /\ CallFacts' /\ Fixed /\ Called /\ Source \in Askable
      /\ Len(todo') = Len(todo) - 1 /\ NowIsLast /\ IsWorld(world)
      /\ UNCHANGED << setup, world, moments, seen, request >>
      /\ request.tool = "describe_table" /\ stage = "asking"
      /\ asked' = asked \cup {Source}
      /\ Len(todo) = IF setup.type = "databricks" THEN 1 ELSE 2
      /\ stage' = IF setup.type = "databricks" THEN "returned" ELSE "asking"
  <2>1. AnswerStep /\ Asking("columns")
    BY DEF AnswerStep, ColumnsReturn
  <2>2. /\ request.tool = "describe_table"
        /\ Len(todo) = IF setup.type = "databricks" THEN 1 ELSE 2
    BY <1>1, <2>1, ToolOf
  <2>3. /\ ListingsTypeOK' /\ CallFacts' /\ Fixed /\ Called /\ Source \in Askable
        /\ Len(todo') = Len(todo) - 1 /\ NowIsLast /\ IsWorld(world)
        /\ asked' = asked \cup {Source}
        /\ UNCHANGED << setup, world, moments, seen, request >>
        /\ stage = "asking" /\ stage' = IF Len(todo) = 1 THEN "returned" ELSE "asking"
    BY <1>1, <2>1, AnswerSteps
  <2> QED
    BY <2>2, <2>3
<1>3. answer' = [answer EXCEPT !.columns = C, !.table = x]
  BY DEF ColumnsReturn, Answer
<1>4. answer'.table = x /\ answer'.keys = answer.keys /\ answer'.columns = C
  BY <1>1, <1>3 DEF AnswerOf
<1>5. answer.keys = {}
  BY <1>1, <1>2 DEF KeyFacts
<1>6. KeyFacts'
  <2>1. \A c \in C : c.key = FALSE
    OBVIOUS
  <2> QED
    BY <1>4, <1>5, <2>1 DEF KeyFacts
<1>7. ShownFacts' /\ SchemaFacts' /\ SchemasAreOfOneMoment' /\ ListingsAreOfOneMoment'
  BY <1>2
     DEF ShownFacts, SchemaFacts, SchemasAreOfOneMoment, ListingsAreOfOneMoment, Returned
<1>8. PICK n \in DOMAIN moments :
         world = moments[n] /\ \A i \in DOMAIN moments : i <= n
  BY <1>1, <1>2, NowIsSeen
<1>9. n \in ColumnsAt' /\ (setup.type = "sqlserver" => n \in TableAt')
  <2>1. /\ rows = It(world, Source)
        /\ \A o \in It(world, Source) : o.schema = TheSchema /\ o.name = request.table
        /\ ~Nowhere => \A o \in It(world, Source) : o.catalog = TheCatalog
    BY <1>2, DescribedIsIt
  <2>3. { << c.table, c.name >> : c \in C } =
          UNION { { << << o.catalog, o.schema, o.name >>, name >> : name \in o.columns }
                  : o \in It(world, Source) }
    <3> DEFINE Pairs(o) == { << << o.catalog, o.schema, o.name >>, name >>
                             : name \in o.columns }
               Cols(o) == { [ table |-> << o.catalog, o.schema, o.name >>,
                              name |-> c, key |-> FALSE ] : c \in o.columns }
    <3>1. ASSUME NEW o
          PROVE  { << c.table, c.name >> : c \in Cols(o) } = Pairs(o)
      <4> DEFINE Col(name) == [ table |-> << o.catalog, o.schema, o.name >>,
                                name |-> name, key |-> FALSE ]
      <4>1. \A name : /\ Col(name).table = << o.catalog, o.schema, o.name >>
                      /\ Col(name).name = name
        OBVIOUS
      <4>2. Cols(o) = { Col(name) : name \in o.columns }
        OBVIOUS
      <4> HIDE DEF Col, Cols
      <4> QED
        BY <4>1, <4>2
    <3>2. C = UNION { Cols(o) : o \in It(world, Source) }
      BY <2>1
    <3> HIDE DEF C, Cols, Pairs
    <3>3. { << c.table, c.name >> : c \in C } =
            UNION { Pairs(o) : o \in It(world, Source) }
      BY <3>1, <3>2
    <3> QED
      BY <3>3 DEF Pairs
  <2>4. n \in ColumnsAt'
    <3> HIDE DEF x, C
    <3> QED
      <4>1. \E source \in asked' :
              { << c.table, c.name >> : c \in answer'.columns } =
                UNION { { << << o.catalog, o.schema, o.name >>, name >>
                          : name \in o.columns } : o \in It(moments[n], source) }
        BY <1>2, <1>4, <1>8, <2>3
      <4> QED
        BY <1>2, <1>8, <4>1 DEF ColumnsAt, It, InPlace, InSchema, Fixed
  <2>5. ASSUME setup.type = "sqlserver"
        PROVE  n \in TableAt'
    <3>1. x = TableInfo(catalog, request.schema, request.table, {"TABLE"})
      BY <2>5
    <3>2. x.object_type = "table"
      <4>1. object_type({"TABLE"}) = "table"
        BY <2>5, WordsDiffer DEF object_type, map_table_type
      <4> QED
        BY <3>1, <4>1 DEF TableInfo
    <3>3. ASSUME NEW o \in It(world, Source)
          PROVE  IsEntryOf(x, o)
      <4>1. ~Nowhere
        BY <2>5 DEF Nowhere
      <4>2. catalog = o.catalog /\ request.schema = o.schema
        BY <1>2, <2>1, <2>5, <4>1, PlacesAskedFor DEF TheSchema
      <4> QED
        BY <3>1, <4>2, <2>1 DEF IsEntryOf, TableInfo
    <3> HIDE DEF x
    <3> QED
      BY <1>2, <1>4, <1>8, <2>5, <3>2, <3>3
         DEF TableAt, It, InPlace, InSchema, IsEntryOf, Fixed
  <2> QED
    BY <2>4, <2>5
<1>10. \E i \in TableAt' : i <= n
  <2>1. CASE setup.type = "sqlserver"
    BY <1>8, <1>9, <2>1
  <2>2. CASE setup.type # "sqlserver"
    <3>1. TableKnown
      <4>1. CASE setup.type = "snowflake"
        BY <1>2, <4>1 DEF TableKnown
      <4>2. CASE setup.type = "databricks"
        BY <1>2, <4>2 DEF TableKnown
      <4> QED
        BY <1>2, <2>2, <4>1, <4>2, Texts
    <3>2. PICK i \in TableAt : TRUE
      BY <1>1, <1>2, <3>1 DEF DescribeFacts
    <3>3. answer'.table = answer.table
      BY <1>4, <2>2
    <3>4. i \in TableAt'
      BY <1>2, <3>2, <3>3, PartsLast
    <3>5. i \in DOMAIN moments
      BY <3>2 DEF TableAt
    <3> QED
      BY <1>8, <3>4, <3>5
  <2> QED
    BY <2>1, <2>2
<1>11. setup.type = "databricks" => n \in KeysAt'
  BY <1>2, <1>4, <1>5, <1>8 DEF KeysAt
<1>12. DescribeFacts'
  <2> HIDE DEF x, C
  <2>1. n <= n
    BY <1>8
  <2>2. stage' = "returned" => setup.type = "databricks"
    BY <1>2
  <2> QED
    BY <1>9, <1>10, <1>11, <2>1, <2>2 DEF DescribeFacts
<1> QED
  BY <1>2, <1>6, <1>7, <1>12 DEF ListingInv

\* The statement for the keys, which marks columns read before.
LEMMA KeysReturnKeeps ==
  ASSUME ListingInv, KeysReturn
  PROVE  ListingInv'
<1> DEFINE K == UNION { o.keys : o \in described(Source) }
           C == { [c EXCEPT !.key = c.name \in K] : c \in answer.columns }
<1>1. /\ ListingsTypeOK /\ CallFacts /\ KeyFacts /\ DescribeFacts
      /\ answer \in AnswerOf /\ answer.columns \subseteq ColumnOf
  BY DEF ListingInv, ListingsTypeOK, AnswerOf
<1>2. /\ ListingsTypeOK' /\ CallFacts' /\ Fixed /\ Called /\ Source \in Askable
      /\ Len(todo') = Len(todo) - 1 /\ NowIsLast /\ IsWorld(world)
      /\ UNCHANGED << setup, world, moments, seen, request >>
      /\ request.tool = "describe_table" /\ stage = "asking"
      /\ setup.type # "databricks" /\ Len(todo) = 1 /\ stage' = "returned"
      /\ asked' = asked \cup {Source}
  BY <1>1, AnswerSteps, ToolOf DEF AnswerStep, KeysReturn
<1>3. answer' = [answer EXCEPT !.keys = K, !.columns = C]
  BY DEF KeysReturn, Answer
<1>4. answer'.table = answer.table /\ answer'.keys = K /\ answer'.columns = C
  BY <1>1, <1>3 DEF AnswerOf
<1>5. \A c \in answer.columns :
        LET d == [c EXCEPT !.key = c.name \in K]
        IN  d.name = c.name /\ d.table = c.table /\ (d.key <=> c.name \in K)
  <2> HIDE DEF K
  <2> QED
    BY <1>1 DEF ColumnOf
<1>6. KeyFacts'
  <2> HIDE DEF K
  <2> QED
    BY <1>2, <1>4, <1>5 DEF KeyFacts
<1>7. ShownFacts' /\ SchemaFacts' /\ SchemasAreOfOneMoment' /\ ListingsAreOfOneMoment'
  BY <1>2
     DEF ShownFacts, SchemaFacts, SchemasAreOfOneMoment, ListingsAreOfOneMoment, Returned
<1>8. PICK n \in DOMAIN moments :
         world = moments[n] /\ \A i \in DOMAIN moments : i <= n
  BY <1>1, <1>2, NowIsSeen
<1>9. n \in KeysAt'
  <2>1. ~Nowhere
    BY <1>2 DEF Nowhere
  <2>2. K = UNION { o.keys : o \in It(world, "server") }
    BY <1>2, <2>1, DescribedIsIt
  <2> HIDE DEF K, C
  <2> QED
    BY <1>2, <1>4, <1>8, <2>2 DEF KeysAt, It, InPlace, InSchema, Fixed
<1>10. ColumnsAt \subseteq ColumnsAt'
  <2> DEFINE F(c) == [c EXCEPT !.key = c.name \in K]
  <2> HIDE DEF K
  <2>1. { << c.table, c.name >> : c \in C } = { << c.table, c.name >> : c \in answer.columns }
    <3>1. \A c \in answer.columns : F(c).name = c.name /\ F(c).table = c.table
      BY <1>5
    <3>2. C = { F(c) : c \in answer.columns }
      OBVIOUS
    <3> HIDE DEF F, C
    <3> QED
      BY <3>1, <3>2
  <2> HIDE DEF C
  <2> QED
    BY <1>2, <1>4, <2>1 DEF ColumnsAt, It, InPlace, InSchema, Fixed
<1>11. TableAt \subseteq TableAt'
  <2> HIDE DEF C
  <2> QED
    BY <1>2, <1>4, PartsLast
<1>12. DescribeFacts'
  <2> HIDE DEF K, C
  <2>1. ColumnsKnown
    BY <1>2 DEF ColumnsKnown
  <2>2. PICK i \in TableAt, j \in ColumnsAt : i <= j
    BY <1>1, <1>2, <2>1 DEF DescribeFacts
  <2>3. j \in DOMAIN moments
    BY <2>2 DEF ColumnsAt
  <2>4. i \in TableAt' /\ j \in ColumnsAt' /\ n \in KeysAt' /\ i <= j /\ j <= n
    BY <1>8, <1>9, <1>10, <1>11, <2>2, <2>3
  <2> QED
    BY <2>4 DEF DescribeFacts
<1> QED
  BY <1>2, <1>6, <1>7, <1>12 DEF ListingInv
------------------------------------------------------------------------------
\* The other steps.

\* A statement that fails leaves what is known as it is.
LEMMA StatementFailsKeeps ==
  ASSUME ListingInv, StatementFails
  PROVE  ListingInv'
<1>1. ListingsTypeOK /\ CallFacts /\ KeyFacts /\ ShownFacts /\ SchemaFacts
      /\ DescribeFacts
  BY DEF ListingInv
<1>2. /\ stage = "asking" /\ stage' \in {"asking", "failed"}
      /\ UNCHANGED << setup, world, changes, moments, request, answer, asked >>
  BY DEF StatementFails
<1>3. /\ Fixed /\ request \in Requests /\ NowIsLast /\ UNCHANGED seen
      /\ \A i \in DOMAIN moments : i \in DOMAIN moments' /\ moments'[i] = moments[i]
  BY <1>1, <1>2, MeaningIsFixed DEF CallFacts, seen
<1>4. SchemasAreOfOneMoment' /\ ListingsAreOfOneMoment' /\ KeyFacts'
  BY <1>1, <1>2
     DEF SchemasAreOfOneMoment, ListingsAreOfOneMoment, Returned, KeyFacts
<1>5. CASE pending = {} /\ Len(Head(todo).sources) > 1
  <2>1. /\ todo' = [todo EXCEPT ![1].sources = Tail(@)]
        /\ UNCHANGED << stage, pending >>
    BY <1>5 DEF StatementFails
  <2>2. /\ todo # << >> /\ todo \in Seq(TaskOf) /\ Head(todo) = todo[1]
        /\ \A i \in DOMAIN todo : todo[i].sources # << >>
    BY <1>1, <1>2, <1>5, AskedNow DEF ListingsTypeOK
  <2>3. 1 \in DOMAIN todo /\ todo[1] \in TaskOf /\ Len(todo) \in Nat
    BY <2>2
  <2>4. /\ Tail(todo[1].sources)
             \in Seq({"server", "system", "session", "catalog", "show"})
        /\ Tail(todo[1].sources) # << >>
    <3> DEFINE q == todo[1].sources
    <3>1. q \in Seq({"server", "system", "session", "catalog", "show"}) /\ q # << >>
      BY <2>2, <2>3 DEF TaskOf
    <3>2. Len(q) > 1 /\ Len(q) \in Nat
      BY <1>5, <2>2, <3>1
    <3> HIDE DEF q
    <3>3. Len(Tail(q)) = Len(q) - 1
      BY <3>1
    <3>4. Tail(q) # << >>
      <4>1. Len(Tail(q)) # 0
        BY <3>2, <3>3
      <4>2. Len(<< >>) = 0
        OBVIOUS
      <4> QED
        BY <4>1, <4>2
    <3> QED
      BY <3>1, <3>4 DEF q
  <2>5. [todo[1] EXCEPT !.sources = Tail(@)] \in TaskOf
    BY <2>3, <2>4 DEF TaskOf
  <2>6. /\ todo' \in Seq(TaskOf) /\ Len(todo') = Len(todo) /\ DOMAIN todo' = DOMAIN todo
        /\ todo'[1] = [todo[1] EXCEPT !.sources = Tail(@)]
        /\ \A i \in DOMAIN todo : i # 1 => todo'[i] = todo[i]
    BY <2>1, <2>2, <2>3, <2>5
  <2>7. todo'[1].what = todo[1].what /\ todo'[1].sources = Tail(todo[1].sources)
    BY <2>3, <2>6 DEF TaskOf
  <2>8. ListingsTypeOK'
    <3>1. \A i \in DOMAIN todo' : todo'[i].sources # << >>
      BY <2>2, <2>4, <2>6, <2>7
    <3>2. todo' # << >>
      BY <2>3, <2>6
    <3> QED
      BY <1>1, <1>2, <2>1, <2>6, <3>1, <3>2 DEF ListingsTypeOK, IsWorld, seen
  <2>9. CallFacts'
    <3>1. ASSUME NEW i \in DOMAIN todo'
          PROVE  /\ todo'[i].what = TasksLeft[Len(todo') - i + 1]
                 /\ todo'[i].sources \in Seq(Askable)
      <4>1. /\ todo[i].what = TasksLeft[Len(todo) - i + 1]
            /\ todo[i].sources \in Seq(Askable)
        BY <1>1, <1>2, <2>6 DEF CallFacts
      <4>2. todo[1].sources # << >>
        BY <2>2, <2>3
      <4>3. CASE i = 1
        <5>1. Tail(todo[1].sources) \in Seq(Askable)
          BY <4>1, <4>2, <4>3
        <5> QED
          BY <4>1, <4>3, <5>1, <2>6, <2>7
      <4>4. CASE i # 1
        BY <4>1, <4>4, <2>6
      <4> QED
        BY <4>3, <4>4
    <3>2. /\ Len(todo') <= Len(TasksLeft)
          /\ request.tool # "describe_table" => asked = {} /\ answer = Nothing
      BY <1>1, <1>2, <1>5, <2>6 DEF CallFacts
    <3> QED
      BY <1>2, <1>3, <1>5, <2>1, <3>1, <3>2 DEF CallFacts, Fixed, NowIsLast, Shown
  <2>10. ShownFacts'
    BY <1>1, <1>2, <1>3, <2>1 DEF ShownFacts, Fixed, Shown, InPlace, InSchema
  <2>11. DescribeFacts'
    <3>1. ColumnsKnown' = ColumnsKnown /\ TableKnown' = TableKnown
      BY <1>2, <2>6 DEF ColumnsKnown, TableKnown
    <3>2. stage' = stage
      BY <2>1
    <3>3. /\ TableAt \subseteq TableAt' /\ ColumnsAt \subseteq ColumnsAt'
          /\ KeysAt \subseteq KeysAt'
      BY <1>2, <1>3, PartsLast
    <3> QED
      BY <1>1, <1>2, <1>3, <3>1, <3>2, <3>3 DEF DescribeFacts, Fixed
  <2>12. SchemaFacts'
    BY <1>1, <1>2, <1>3, <2>1, SchemasLast
  <2> QED
    BY <1>4, <2>8, <2>9, <2>10, <2>11, <2>12 DEF ListingInv
<1>6. CASE ~(pending = {} /\ Len(Head(todo).sources) > 1)
  <2>1. stage' = "failed" /\ pending' = {} /\ todo' = todo
    BY <1>6 DEF StatementFails
  <2>2. ListingsTypeOK'
    BY <1>1, <1>2, <2>1 DEF ListingsTypeOK, IsWorld, seen
  <2>3. CallFacts'
    BY <1>2, <1>3, <2>1 DEF CallFacts, NowIsLast
  <2>4. ShownFacts' /\ SchemaFacts' /\ DescribeFacts'
    BY <2>1 DEF ShownFacts, SchemaFacts, DescribeFacts
  <2> QED
    BY <1>4, <2>2, <2>3, <2>4 DEF ListingInv
<1> QED
  BY <1>5, <1>6

\* What a change makes of a database is a database.
LEMMA ChangedIsWorld ==
  ASSUME NEW w, IsWorld(w), NEW v \in changed(w)
  PROVE  IsWorld(v)
<1>1. /\ w \in [schemas : SUBSET (STRING \X STRING), objects : SUBSET Objects]
      /\ \A o \in w.objects : Place(o) \in w.schemas
      /\ \A o, p \in w.objects : Place(o) = Place(p) /\ o.name = p.name => o = p
  BY DEF IsWorld
<1>2. \A o \in Objects : Place(o) \in STRING \X STRING
  BY ListingsAssumption DEF Object, Place
<1>3. CASE \E o \in Objects :
             /\ Place(o) \in w.schemas
             /\ v = [w EXCEPT !.objects = { p \in @ : ~Same(o, p) } \cup {o}]
  <2>1. PICK o \in Objects :
          /\ Place(o) \in w.schemas
          /\ v = [w EXCEPT !.objects = { p \in @ : ~Same(o, p) } \cup {o}]
    BY <1>3
  <2>2. /\ v \in [schemas : SUBSET (STRING \X STRING), objects : SUBSET Objects]
        /\ v.schemas = w.schemas
        /\ v.objects = { p \in w.objects : ~Same(o, p) } \cup {o}
    BY <1>1, <2>1
  <2> QED
    BY <1>1, <2>1, <2>2 DEF IsWorld, Same
<1>4. CASE \E o \in w.objects : v = [w EXCEPT !.objects = @ \ {o}]
  BY <1>1, <1>4 DEF IsWorld
<1>5. CASE \E o \in Objects : v = [w EXCEPT !.schemas = @ \cup {Place(o)}]
  <2>1. PICK o \in Objects : v = [w EXCEPT !.schemas = @ \cup {Place(o)}]
    BY <1>5
  <2>2. /\ v \in [schemas : SUBSET (STRING \X STRING), objects : SUBSET Objects]
        /\ v.schemas = w.schemas \cup {Place(o)} /\ v.objects = w.objects
    BY <1>1, <1>2, <2>1
  <2> QED
    BY <1>1, <2>2 DEF IsWorld
<1>6. CASE \E s \in w.schemas :
             v = [ schemas |-> w.schemas \ {s},
                   objects |-> { o \in w.objects : Place(o) # s } ]
  BY <1>1, <1>6 DEF IsWorld
<1> QED
  BY <1>3, <1>4, <1>5, <1>6 DEF changed

\* A change adds a moment to the call, and takes none away.
LEMMA ChangeKeeps ==
  ASSUME ListingInv, Change
  PROVE  ListingInv'
<1>1. ListingsTypeOK /\ CallFacts /\ KeyFacts /\ ShownFacts /\ SchemaFacts
      /\ DescribeFacts
  BY DEF ListingInv
<1>2. /\ stage = "asking" /\ changes < MaxChanges /\ changes' = changes + 1
      /\ UNCHANGED << setup, request, stage, todo, pending, answer, asked >>
  BY DEF Change
<1>3. PICK w \in changed(world) \ {world} : world' = w /\ moments' = Append(moments, w)
  BY DEF Change
<1>4. Fixed /\ request \in Requests /\ NowIsLast
  BY <1>1, <1>2, MeaningIsFixed DEF CallFacts
<1>5. IsWorld(w)
  BY <1>1, <1>3, ChangedIsWorld DEF ListingsTypeOK
<1>6. /\ moments' \in Seq([schemas : SUBSET (STRING \X STRING), objects : SUBSET Objects])
      /\ \A i \in DOMAIN moments : i \in DOMAIN moments' /\ moments'[i] = moments[i]
      /\ \A i \in DOMAIN moments' : i \in DOMAIN moments \/ moments'[i] = w
      /\ NowIsLast'
  <2> DEFINE W == [schemas : SUBSET (STRING \X STRING), objects : SUBSET Objects]
  <2>1. moments \in Seq(W) /\ w \in W
    BY <1>1, <1>5 DEF ListingsTypeOK, IsWorld
  <2> HIDE DEF W
  <2>2. /\ moments' \in Seq(W) /\ Len(moments') = Len(moments) + 1
        /\ Len(moments) \in Nat
        /\ \A i \in 1 .. Len(moments) : moments'[i] = moments[i]
        /\ moments'[Len(moments) + 1] = w
    BY <1>3, <2>1
  <2>3. DOMAIN moments = 1 .. Len(moments) /\ DOMAIN moments' = 1 .. Len(moments')
    BY <2>1, <2>2
  <2>4. NowIsLast'
    BY <1>3, <2>2, <2>3 DEF NowIsLast
  <2>5. \A i \in 1 .. (Len(moments) + 1) :
          i \in 1 .. Len(moments) \/ i = Len(moments) + 1
    BY <2>2
  <2> QED
    BY <2>2, <2>3, <2>4, <2>5 DEF W
<1>7. ListingsTypeOK'
  <2>1. changes' \in 0 .. MaxChanges
    BY <1>1, <1>2, ListingsAssumption DEF ListingsTypeOK
  <2>2. IsWorld(world') /\ \A v \in seen' : IsWorld(v)
    BY <1>1, <1>3, <1>5, <1>6 DEF ListingsTypeOK, seen
  <2> QED
    BY <1>1, <1>2, <1>6, <2>1, <2>2 DEF ListingsTypeOK, IsWorld
<1>8. CallFacts'
  BY <1>1, <1>2, <1>4, <1>6 DEF CallFacts, Fixed, Shown
<1>9. SchemasAreOfOneMoment' /\ ListingsAreOfOneMoment' /\ KeyFacts'
  BY <1>1, <1>2
     DEF SchemasAreOfOneMoment, ListingsAreOfOneMoment, Returned, KeyFacts
<1>10. ShownFacts'
  <2>1. seen \subseteq seen'
    BY <1>6 DEF seen
  <2> QED
    BY <1>1, <1>2, <1>4, <2>1 DEF ShownFacts, Fixed, Shown, InPlace, InSchema
<1>11. SchemaFacts'
  BY <1>1, <1>2, <1>4, <1>6, SchemasLast
<1>12. DescribeFacts'
  <2>1. ColumnsKnown' = ColumnsKnown /\ TableKnown' = TableKnown
    BY <1>2 DEF ColumnsKnown, TableKnown
  <2>2. /\ TableAt \subseteq TableAt' /\ ColumnsAt \subseteq ColumnsAt'
        /\ KeysAt \subseteq KeysAt'
    BY <1>2, <1>4, <1>6, PartsLast
  <2> QED
    BY <1>1, <1>2, <1>4, <2>1, <2>2 DEF DescribeFacts, Fixed
<1> QED
  BY <1>7, <1>8, <1>9, <1>10, <1>11, <1>12 DEF ListingInv

\* What a call begins with.
LEMMA TasksAreRight ==
  ASSUME setup \in Setups, UNCHANGED setup, request' \in Requests, todo' = tasks(request')
  PROVE  /\ todo' \in Seq(TaskOf) /\ todo' # << >> /\ Len(todo') = Len(TasksLeft')
         /\ \A i \in DOMAIN todo' :
              /\ todo'[i].sources # << >>
              /\ todo'[i].what = TasksLeft'[Len(todo') - i + 1]
              /\ todo'[i].sources \in Seq(Askable')
<1> DEFINE r == request'
           S == {"server", "system", "session", "catalog", "show"}
<1>1. /\ IsSetup(setup) /\ r \in Request
      /\ "" \notin {setup.home.catalog, setup.home.schema}
      /\ "" \notin {r.catalog, r.schema}
  BY ListingsAssumption, TextAssumption
<1>2. Askable' \subseteq S
  BY DEF Askable
<1>3. \A T : \A a \in T : << a >> \in Seq(T) /\ << a >> # << >>
  OBVIOUS
<1>4. \A T : \A a, b \in T : << a, b >> \in Seq(T) /\ << a, b >> # << >>
  OBVIOUS
<1>5. ASSUME NEW T, NEW q \in Seq(T), NEW a \in T
      PROVE  Append(q, a) \in Seq(T) /\ Append(q, a) # << >>
  <2>1. Append(q, a) \in Seq(T) /\ Append(q, a)[Len(q) + 1] = a
        /\ Len(q) + 1 \in DOMAIN Append(q, a)
    OBVIOUS
  <2>2. DOMAIN << >> = {}
    OBVIOUS
  <2> QED
    BY <2>1, <2>2
<1>6. setup.type # "databricks" => "server" \in Askable'
  BY DEF Askable
<1> DEFINE given == IF r.tool = "list_schemas" THEN setup.home.catalog
                                               ELSE Or(r.catalog, setup.home.catalog)
<1>7. ASSUME setup.type = "databricks"
      PROVE  /\ "system" \in Askable'
             /\ metadata_sources(given) \in Seq(Askable') /\ metadata_sources(given) # << >>
             /\ r.tool # "describe_table" => "show" \in Askable'
  <2>1. given = effective_catalog' /\ given # ""
    BY <1>1, <1>7 DEF effective_catalog, Or, IsSetup
  <2>2. "system" \in Askable'
        /\ (r.tool # "describe_table" => "show" \in Askable')
    BY <1>7 DEF Askable
  <2> HIDE DEF given
  <2>3. CASE given = None
    <3>1. metadata_sources(given) = << "system", "session" >>
      BY <2>3 DEF metadata_sources, Or
    <3>2. "session" \in Askable'
      BY <1>7, <2>1, <2>3 DEF Askable
    <3>3. << "system", "session" >> \in Seq(Askable') /\ << "system", "session" >> # << >>
      BY <1>4, <2>2, <3>2
    <3> QED
      BY <2>2, <3>1, <3>3
  <2>4. CASE given # None /\ given = "system"
    <3>1. metadata_sources(given) = << "system" >>
      BY <2>1, <2>4 DEF metadata_sources, Or
    <3>2. << "system" >> \in Seq(Askable') /\ << "system" >> # << >>
      BY <1>3, <2>2
    <3> QED
      BY <2>2, <3>1, <3>2
  <2>5. CASE given # None /\ given # "system"
    <3>1. metadata_sources(given) = << "system", "catalog" >>
      BY <2>1, <2>5 DEF metadata_sources, Or
    <3>2. "catalog" \in Askable'
      BY <1>7, <2>1, <2>5 DEF Askable
    <3>3. << "system", "catalog" >> \in Seq(Askable') /\ << "system", "catalog" >> # << >>
      BY <1>4, <2>2, <3>2
    <3> QED
      BY <2>2, <3>1, <3>3
  <2> QED
    BY <2>3, <2>4, <2>5
<1>8. ASSUME NEW what \in {"schemas", "tables", "table", "columns", "keys"},
             NEW q \in Seq(Askable')
      PROVE  /\ Task(what, q) \in TaskOf /\ Task(what, q).what = what
             /\ Task(what, q).sources = q
  <2>1. \A A, B : \A p \in Seq(A) : A \subseteq B => p \in Seq(B)
    OBVIOUS
  <2>2. q \in Seq(S)
    <3> HIDE DEF S
    <3> QED
      BY <1>2, <2>1
  <2> QED
    BY <2>2 DEF Task, TaskOf
<1>9. CASE r.tool \in {"list_schemas", "list_tables"}
  <2> DEFINE what == IF r.tool = "list_schemas" THEN "schemas" ELSE "tables"
  <2>1. PICK q \in Seq(Askable') : q # << >> /\ todo' = << Task(what, q) >>
    <3>1. CASE setup.type = "databricks"
      <4> DEFINE q == Append(metadata_sources(given), "show")
      <4>1. q \in Seq(Askable') /\ q # << >>
        <5> HIDE DEF given
        <5> QED
          BY <1>5, <1>7, <1>9, <3>1
      <4>2. todo' = << Task(what, q) >>
        BY <1>9, <3>1 DEF tasks, list_tasks
      <4> QED
        BY <4>1, <4>2
    <3>2. CASE setup.type # "databricks"
      <4>1. << "server" >> \in Seq(Askable') /\ << "server" >> # << >>
        BY <1>3, <1>6, <3>2
      <4>2. todo' = << Task(what, << "server" >>) >>
        BY <1>9, <3>2 DEF tasks, list_tasks, server
      <4> QED
        BY <4>1, <4>2
    <3> QED
      BY <3>1, <3>2
  <2>2. TasksLeft' = << what >>
    BY <1>9 DEF TasksLeft
  <2>3. Task(what, q) \in TaskOf /\ Task(what, q).what = what /\ Task(what, q).sources = q
    BY <1>8
  <2> HIDE DEF what
  <2> QED
    BY <2>1, <2>2, <2>3
<1>10. CASE r.tool = "describe_table" /\ setup.type = "databricks"
  <2> DEFINE q == metadata_sources(Or(r.catalog, setup.home.catalog))
  <2>1. q \in Seq(Askable') /\ q # << >>
    BY <1>7, <1>10
  <2>2. todo' = << Task("table", q), Task("columns", q) >>
    BY <1>10 DEF tasks, describe_tasks
  <2>3. TasksLeft' = << "columns", "table" >>
    BY <1>10 DEF TasksLeft
  <2>4. /\ Task("table", q) \in TaskOf /\ Task("table", q).what = "table"
        /\ Task("table", q).sources = q
        /\ Task("columns", q) \in TaskOf /\ Task("columns", q).what = "columns"
        /\ Task("columns", q).sources = q
    BY <1>8, <2>1
  <2> HIDE DEF q
  <2> QED
    BY <2>1, <2>2, <2>3, <2>4
<1>11. CASE r.tool = "describe_table" /\ setup.type \in {"sqlserver", "snowflake"}
  <2> DEFINE q == << "server" >>
  <2>1. q \in Seq(Askable') /\ q # << >>
    BY <1>3, <1>6, <1>11
  <2> HIDE DEF q
  <2>2. \A what \in {"table", "columns", "keys"} :
          /\ server(what) \in TaskOf /\ server(what).what = what
          /\ server(what).sources = q
    <3> SUFFICES ASSUME NEW what \in {"table", "columns", "keys"}
                 PROVE  /\ server(what) \in TaskOf /\ server(what).what = what
                        /\ server(what).sources = q
      OBVIOUS
    <3>1. server(what) = Task(what, q)
      BY DEF server, q
    <3> QED
      BY <1>8, <2>1, <3>1
  <2>3. CASE setup.type = "sqlserver"
    <3>1. todo' = << server("columns"), server("keys") >>
      BY <1>11, <2>3 DEF tasks, describe_tasks
    <3>2. TasksLeft' = << "keys", "columns" >>
      BY <1>11, <2>3 DEF TasksLeft
    <3> QED
      BY <2>1, <2>2, <3>1, <3>2
  <2>4. CASE setup.type = "snowflake"
    <3>1. todo' = << server("table"), server("columns"), server("keys") >>
      BY <1>11, <2>4 DEF tasks, describe_tasks
    <3>2. TasksLeft' = << "keys", "columns", "table" >>
      BY <1>11, <2>4 DEF TasksLeft
    <3> QED
      BY <2>1, <2>2, <3>1, <3>2
  <2> QED
    BY <1>11, <2>3, <2>4
<1> QED
  BY <1>1, <1>9, <1>10, <1>11 DEF IsSetup, Request

\* A call begins with nothing known.
LEMMA ReceiveKeeps ==
  ASSUME ListingInv, NEW r \in Requests, Receive(r)
  PROVE  ListingInv'
<1>1. ListingsTypeOK /\ CallFacts
  BY DEF ListingInv
<1>2. /\ stage = "idle" /\ stage' = "asking" /\ request' = r /\ todo' = tasks(r)
      /\ moments' = << world >>
      /\ UNCHANGED << setup, world, changes, pending, answer, asked >>
  BY DEF Receive
<1>3. answer = Nothing /\ asked = {} /\ pending = {} /\ setup \in Setups
  BY <1>1, <1>2 DEF CallFacts, ListingsTypeOK
<1>4. /\ todo' \in Seq(TaskOf) /\ todo' # << >> /\ Len(todo') = Len(TasksLeft')
      /\ \A i \in DOMAIN todo' :
           /\ todo'[i].sources # << >>
           /\ todo'[i].what = TasksLeft'[Len(todo') - i + 1]
           /\ todo'[i].sources \in Seq(Askable')
  <2>1. todo' = tasks(request')
    BY <1>2
  <2>2. request' \in Requests
    BY <1>2
  <2> QED
    BY <1>2, <1>3, <2>1, <2>2, TasksAreRight
<1>5. ListingsTypeOK'
  <2>1. /\ moments' \in Seq([ schemas : SUBSET (STRING \X STRING),
                              objects : SUBSET Objects ])
        /\ seen' = {world}
    BY <1>1, <1>2 DEF ListingsTypeOK, IsWorld, seen
  <2> QED
    BY <1>1, <1>2, <1>4, <2>1 DEF ListingsTypeOK, IsWorld
<1>6. CallFacts'
  <2>1. NowIsLast'
    BY <1>2 DEF NowIsLast
  <2>2. Len(todo') <= Len(TasksLeft')
    BY <1>4
  <2> QED
    BY <1>2, <1>3, <1>4, <2>1, <2>2 DEF CallFacts, Nothing
<1>7. ShownFacts' /\ SchemaFacts'
  BY <1>2, <1>3 DEF ShownFacts, SchemaFacts, Shown
<1>8. KeyFacts'
  BY <1>2, <1>3 DEF KeyFacts, Nothing
<1>9. DescribeFacts'
  <2>1. request'.tool = "describe_table" => ~ColumnsKnown' /\ ~TableKnown'
    <3> SUFFICES ASSUME request'.tool = "describe_table"
                 PROVE  ~ColumnsKnown' /\ ~TableKnown'
      OBVIOUS
    <3>1. IsSetup(setup)
      BY <1>3, ListingsAssumption
    <3>2. CASE setup.type = "databricks"
      <4>1. TasksLeft' = << "columns", "table" >>
        BY <1>2, <3>2 DEF TasksLeft
      <4> QED
        BY <1>2, <1>4, <3>2, <4>1 DEF ColumnsKnown, TableKnown
    <3>3. CASE setup.type = "snowflake"
      <4>1. TasksLeft' = << "keys", "columns", "table" >>
        BY <1>2, <3>3 DEF TasksLeft
      <4> QED
        BY <1>2, <1>4, <3>3, <4>1 DEF ColumnsKnown, TableKnown
    <3>4. CASE setup.type = "sqlserver"
      <4>1. TasksLeft' = << "keys", "columns" >>
        BY <1>2, <3>4 DEF TasksLeft
      <4> QED
        BY <1>2, <1>4, <3>4, <4>1 DEF ColumnsKnown, TableKnown
    <3> QED
      BY <3>1, <3>2, <3>3, <3>4 DEF IsSetup
  <2> QED
    BY <1>2, <2>1 DEF DescribeFacts
<1>10. SchemasAreOfOneMoment' /\ ListingsAreOfOneMoment'
  BY <1>2 DEF SchemasAreOfOneMoment, ListingsAreOfOneMoment, Returned
<1> QED
  BY <1>5, <1>6, <1>7, <1>8, <1>9, <1>10 DEF ListingInv

\* So does the program.
LEMMA InitIsRight ==
  ASSUME Init
  PROVE  ListingInv
<1>1. IsWorld(world) /\ setup \in Setups
  BY ListingsAssumption DEF Init
<1>2. answer \in AnswerOf
  BY DEF Init, Nothing, AnswerOf
<1>3. ListingsTypeOK
  <2>1. 0 \in 0 .. MaxChanges
    BY ListingsAssumption
  <2>2. todo \in Seq(TaskOf) /\ DOMAIN todo = {}
    BY DEF Init
  <2>3. /\ moments \in Seq([ schemas : SUBSET (STRING \X STRING),
                             objects : SUBSET Objects ])
        /\ seen = {}
    BY DEF Init, seen
  <2> QED
    BY <1>1, <1>2, <2>1, <2>2, <2>3 DEF Init, ListingsTypeOK
<1>4. CallFacts
  BY DEF Init, CallFacts
<1>5. KeyFacts
  BY DEF Init, KeyFacts, Nothing
<1> QED
  BY <1>3, <1>4, <1>5
     DEF Init, ListingInv, ShownFacts, SchemaFacts, DescribeFacts, SchemasAreOfOneMoment,
         ListingsAreOfOneMoment, Returned

\* A stuttering step.
LEMMA NothingKeeps ==
  ASSUME ListingInv, UNCHANGED vars
  PROVE  ListingInv'
<1>1. UNCHANGED << setup, world, changes, moments, request, stage, todo, pending,
                   answer, asked >>
  BY DEF vars
<1>2. Fixed /\ UNCHANGED seen
  BY <1>1, MeaningIsFixed DEF seen
<1>3. ListingsTypeOK'
  BY <1>1, <1>2 DEF ListingInv, ListingsTypeOK, IsWorld
<1>4. CallFacts'
  BY <1>1, <1>2 DEF ListingInv, CallFacts, Shown, Fixed, NowIsLast
<1>5. ShownFacts' /\ KeyFacts'
  BY <1>1, <1>2 DEF ListingInv, ShownFacts, KeyFacts, Shown, Fixed, InPlace, InSchema
<1>6. DescribeFacts'
  <2>1. /\ TableAt \subseteq TableAt' /\ ColumnsAt \subseteq ColumnsAt'
        /\ KeysAt \subseteq KeysAt'
    BY <1>1, <1>2, PartsLast
  <2> QED
    BY <1>1, <1>2, <2>1 DEF ListingInv, DescribeFacts, Fixed, ColumnsKnown, TableKnown
<1>7. ListingsAreOfOneMoment'
  BY <1>1, <1>2
     DEF ListingInv, ListingsAreOfOneMoment, Returned, Shown, Fixed, InPlace,
         InSchema, OfKind
<1>8. SchemasAreOfOneMoment'
  BY <1>1, <1>2 DEF ListingInv, SchemasAreOfOneMoment, Returned, Fixed
<1>9. SchemaFacts'
  BY <1>1, <1>2
     DEF ListingInv, SchemaFacts, SchemasOf, ShownAt, Shown, Fixed, Place
<1> QED
  BY <1>3, <1>4, <1>5, <1>6, <1>7, <1>8, <1>9 DEF ListingInv

\* For every set of objects and databases, every connection, request and number
\* of changes: what the adapters' metadata statements have answered so far is right
\* for the tasks that are done, and nothing is claimed for those that are left.
THEOREM ListingInvariant == Spec => []ListingInv
<1>1. Init => ListingInv
  BY InitIsRight
<1>2. ListingInv /\ [Next]_vars => ListingInv'
  <2> SUFFICES ASSUME ListingInv, [Next]_vars
               PROVE  ListingInv'
    OBVIOUS
  <2>1. ASSUME NEW r \in Requests, Receive(r)
        PROVE  ListingInv'
    BY <2>1, ReceiveKeeps
  <2>2. CASE SchemasReturn
    BY <2>2, SchemasReturnKeeps
  <2>3. CASE TablesReturn
    BY <2>3, TablesReturnKeeps
  <2>4. CASE ShowTablesReturn
    BY <2>4, ShowTablesReturnKeeps
  <2>5. CASE ShowSchemasReturn
    BY <2>5, ShowSchemasReturnKeeps
  <2>6. ASSUME NEW schema \in pending, ShowTablesOf(schema)
        PROVE  ListingInv'
    BY <2>6, ShowTablesOfKeeps
  <2>7. CASE TableReturns
    BY <2>7, TableReturnsKeeps
  <2>8. CASE ColumnsReturn
    BY <2>8, ColumnsReturnKeeps
  <2>9. CASE KeysReturn
    BY <2>9, KeysReturnKeeps
  <2>10. CASE StatementFails
    BY <2>10, StatementFailsKeeps
  <2>11. CASE Change
    BY <2>11, ChangeKeeps
  <2>12. CASE Finished \/ UNCHANGED vars
    BY <2>12, NothingKeeps DEF Finished
  <2> QED
    BY <2>1, <2>2, <2>3, <2>4, <2>5, <2>6, <2>7, <2>8, <2>9, <2>10, <2>11, <2>12
       DEF Next
<1> QED
  BY <1>1, <1>2, PTL DEF Spec

\* list_tables from an information schema, with the conditions the adapters'
\* statements carry and the kinds they select: the database of one moment.
THEOREM OneMomentOfTables == Spec => []ListingsAreOfOneMoment
<1>1. ListingInv => ListingsAreOfOneMoment
  BY DEF ListingInv
<1> QED
  BY <1>1, ListingInvariant, PTL

\* list_schemas, from any source, SHOW SCHEMAS included: the schemas of one
\* moment.
THEOREM OneMomentOfSchemas == Spec => []SchemasAreOfOneMoment
<1>1. ListingInv => SchemasAreOfOneMoment
  BY DEF ListingInv
<1> QED
  BY <1>1, ListingInvariant, PTL

\* What Databricks' SHOW TABLES lists, schema by schema, was there at some moment
\* of the call.
THEOREM NothingMadeUp == Spec => []ShownObjectsWereThere
<1>1. ListingInv => ShownObjectsWereThere
  BY DEF ListingInv, ShownFacts, ShownObjectsWereThere, Returned
<1> QED
  BY <1>1, ListingInvariant, PTL

\* An object that is there throughout a call of list_tables is listed, whichever
\* source answers and whatever else changes meanwhile.
THEOREM NothingPassedOver == Spec => []LastingObjectsAreListed
<1>1. ListingInv => LastingObjectsAreListed
  <2> SUFFICES ASSUME ListingInv, Returned("list_tables"), NEW o \in world.objects,
                      \A w \in seen : o \in w.objects, InPlace(o), OfKind(o),
                      Shown /\ Nowhere /\ TheSchema = None
                        => o.schema = setup.session.schema
               PROVE  \E e \in answer.tables : IsEntryOf(e, o)
    BY DEF LastingObjectsAreListed
  <2>1. /\ ListingsTypeOK /\ CallFacts /\ ShownFacts /\ ListingsAreOfOneMoment
        /\ stage = "returned" /\ request.tool = "list_tables"
    BY DEF ListingInv, Returned
  <2>2. o \in Objects /\ pending = {}
    BY <2>1 DEF ListingsTypeOK, IsWorld, CallFacts
  <2>3. CASE Shown
    BY <2>1, <2>2, <2>3 DEF ShownFacts
  <2>4. CASE ~Shown
    <3> DEFINE F(p) == [ catalog |-> p.catalog, schema |-> p.schema, name |-> p.name,
                         object_type |-> Told(p.kind),
                         is_view |-> p.kind = "view" \/ (p.kind = "materialized_view"
                                                /\ setup.type = "databricks") ]
               W(w) == { p \in w.objects :
                           /\ IF Nowhere /\ "system" \in asked THEN InSchema(p)
                                                               ELSE InPlace(p)
                           /\ OfKind(p) }
    <3>1. PICK w \in seen : answer.tables = { F(p) : p \in W(w) }
      BY <2>1, <2>4 DEF ListingsAreOfOneMoment, Returned
    <3>2. o \in W(w)
      BY DEF InPlace
    <3>3. F(o) \in answer.tables
      BY <3>1, <3>2
    <3>4. IsEntryOf(F(o), o)
      BY DEF IsEntryOf
    <3> QED
      BY <3>3, <3>4
  <2> QED
    BY <2>3, <2>4
<1> QED
  BY <1>1, ListingInvariant, PTL

\* SHOW TABLES, schema by schema, with schemas created and dropped and tables moved
\* between one and the next: the schemas are those of one moment, and what is
\* listed of each is all it held at one moment that is no earlier.
THEOREM EachSchemaOfOneMoment == Spec => []EachSchemaIsOfOneMoment
<1>1. ListingInv => EachSchemaIsOfOneMoment
  <2> SUFFICES ASSUME ListingInv, Returned("list_tables"), Shown, ~Nowhere,
                      TheSchema = None
               PROVE  \E i \in DOMAIN moments :
                        /\ \A e \in answer.tables : e.schema \in SchemasOf(i)
                        /\ \A schema \in SchemasOf(i) : \E j \in ShownAt(schema) : i <= j
    BY DEF EachSchemaIsOfOneMoment
  <2>1. CallFacts /\ SchemaFacts /\ stage = "returned" /\ request.tool = "list_tables"
    BY DEF ListingInv, Returned
  <2>2. pending = {}
    BY <2>1 DEF CallFacts
  <2> QED
    BY <2>1, <2>2 DEF SchemaFacts
<1> QED
  BY <1>1, ListingInvariant, PTL

\* describe_table, put together from two or three statements while the table is
\* dropped, created anew and altered: each part is that of the table asked for at
\* one moment (without any catalog, that of its namesakes if the metastore answers),
\* a later part of no earlier one, and the keys are marked.
THEOREM DescriptionsForward == Spec => []DescriptionsMoveForward
<1>1. ListingInv => DescriptionsMoveForward
  BY DEF ListingInv, DescriptionsMoveForward, Returned, DescribeFacts, KeyFacts
<1> QED
  BY <1>1, ListingInvariant, PTL
==============================================================================
