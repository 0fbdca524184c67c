----------------------------- MODULE AdapterFactory -----------------------------
(***************************************************************************)
(* How ConnectionRegistry turns a configured connection into an adapter:   *)
(* the secrets it needs are read from the environment, and a factory of    *)
(* unknown signature is called in six ways until one fits.                 *)
(*                                                                         *)
(* An argument is represented by its role: the connection's configuration, *)
(* its resolved secrets, its name, one setting or one secret by itself; or *)
(* the default a parameter has where nothing is passed for it.             *)
(***************************************************************************)
EXTENDS ErrorModel, Sequences

CONSTANT None  \* Python's None

BackendType == {"sqlserver", "snowflake", "databricks"}
Role        == {"config", "secrets", "name", "setting", "secret", "default"}

------------------------------------------------------------------------------
\* Secrets (config/models.py, config/secrets.py).

\* The fields that name environment variables, as the models declare them.
secret_fields(type) ==
  CASE type = "sqlserver"  -> << "dsn" >>
    [] type = "snowflake"  -> << "account", "user", "password", "warehouse", "role" >>
    [] type = "databricks" -> << "server_hostname", "http_path", "token" >>

OptionalFields == {"role"}

Variable  == {"set", "empty", "absent"}
SecretRef == STRING \cup {None}

\* A connection names a variable for each of its fields, or none for an
\* optional one.
IsConnection(c) ==
  /\ DOMAIN c = {"type", "refs"}
  /\ c.type \in BackendType
  /\ LET fields == secret_fields(c.type)
     IN  /\ DOMAIN c.refs = DOMAIN fields
         /\ \A i \in DOMAIN fields :
              c.refs[i] = None => fields[i] \in OptionalFields

\* Fields of a connection that are wanted and not to be had.
unresolved(c, env) ==
  { i \in DOMAIN c.refs : c.refs[i] # None /\ env[c.refs[i]] # "set" }

\* Fields are resolved in order, the first that fails ends it.
secrets_error(c, env) ==
  LET missing == unresolved(c, env)
  IN  IF missing = {} THEN None
      ELSE secret_error(secret_fields(c.type)[
             CHOOSE i \in missing : \A j \in missing : i <= j])

------------------------------------------------------------------------------
\* Signatures.  A factory has parameters, the first few of which may be passed
\* by position and the first few of which have no default; it may take other
\* keywords, too; it makes an adapter, a class to be called in its place, or
\* something that is not an adapter.
Factory == [ params : Seq(STRING), positional : Nat, required : Nat,
             kwargs : BOOLEAN, makes : {"adapter", "class", "other"} ]

Constructor(required) ==
  [ params |-> << "config", "secrets", "connection_name" >>, positional |-> 3,
    required |-> required, kwargs |-> FALSE, makes |-> "adapter" ]

\* The classes _load_adapter_factory finds in the adapter modules.
builtin_factory(type) == Constructor(IF type = "databricks" THEN 2 ELSE 1)

NoKeywords == [k \in {} |-> "default"]

\* The keywords of the last attempt: the dumped configuration, the secrets by
\* name and the name of the connection.
dumped(fields) ==
  [ k \in {"type", "connection_name"} \cup fields |->
      IF k = "connection_name" THEN "name"
      ELSE IF k \in fields THEN "secret" ELSE "setting" ]

attempts(fields) ==
  << [ args |-> << >>, keywords |-> [ config |-> "config", secrets |-> "secrets",
                                      connection_name |-> "name" ] ],
     [ args |-> << "config" >>, keywords |-> NoKeywords ],
     [ args |-> << "name", "config", "secrets" >>, keywords |-> NoKeywords ],
     [ args |-> << "name", "config" >>, keywords |-> NoKeywords ],
     [ args |-> << "config", "secrets" >>, keywords |-> NoKeywords ],
     [ args |-> << >>, keywords |-> dumped(fields) ] >>

\* Python: can this call be bound to these parameters?
binds(f, call) ==
  LET given == Len(call.args)
      later == { f.params[i] : i \in given + 1 .. Len(f.params) }
      first == { f.params[i] : i \in 1 .. given }
  IN  /\ given <= f.positional
      /\ \A k \in DOMAIN call.keywords : k \in later \/ (f.kwargs /\ k \notin first)
      /\ \A i \in given + 1 .. f.required : f.params[i] \in DOMAIN call.keywords

\* What the parameter of that name is bound to.
bound(f, call, name) ==
  LET at == { i \in DOMAIN f.params : f.params[i] = name }
  IN  IF \E i \in at : i <= Len(call.args)
        THEN call.args[CHOOSE i \in at : i <= Len(call.args)]
      ELSE IF name \in DOMAIN call.keywords THEN call.keywords[name]
      ELSE "default"

------------------------------------------------------------------------------
\* Calling a factory: what may come of it.  A TypeError is told from other
\* exceptions.
TypeErrorRaised  == [kind |-> "TypeError"]
NoAdapter        == [kind |-> "object"]
Adapter(config, secrets) ==
  [kind |-> "adapter", config |-> config, secrets |-> secrets]

\* Mutant: a secret that is not there is taken as an empty one.
sqlalchemy_constructor_lenient(config, secrets, errors) ==
  {Adapter(config, secrets), TypeErrorRaised} \cup errors

\* SqlServerAdapter and SnowflakeAdapter look their secrets up and build an
\* engine, which imports a driver and may raise anything.  Without the secrets
\* (`dict(secrets or {})`) the lookup is a KeyError, with a text in place of
\* the configuration reading a setting is an AttributeError.
sqlalchemy_constructor(config, secrets, errors) ==
  IF config = "config" /\ secrets = "secrets"
  THEN {Adapter(config, secrets), TypeErrorRaised} \cup errors
  ELSE {Raw({})}

\* DatabricksAdapter checks the types of its arguments; nothing is opened yet.
databricks_constructor(config, secrets) ==
  IF config = "config" /\ secrets = "secrets" THEN {Adapter(config, secrets)}
                                              ELSE {TypeErrorRaised}

constructed(type, config, secrets, errors) ==
  IF type = "databricks" THEN databricks_constructor(config, secrets)
                         ELSE sqlalchemy_constructor(config, secrets, errors)

\* A class that a factory returns is called with the same arguments again: it
\* is an adapter class of that backend.
call_class(type, call, errors) ==
  LET class == builtin_factory(type)
  IN  IF ~binds(class, call) THEN {TypeErrorRaised}
      ELSE constructed(type, bound(class, call, "config"),
                       bound(class, call, "secrets"), errors)

\* External: a factory of somebody else's that takes the arguments may do
\* anything with them.
call_other(f, call, errors) ==
  {Adapter(bound(f, call, "config"), bound(f, call, "secrets")), TypeErrorRaised}
    \cup errors

call_factory(type, f, call, errors) ==
  IF ~binds(f, call) THEN {TypeErrorRaised}
  ELSE CASE f.makes = "class"  -> call_class(type, call, errors)
         [] f.makes = "other"  -> {NoAdapter}
         [] f = builtin_factory(type) -> call_class(type, call, errors)
         [] OTHER -> call_other(f, call, errors)
==============================================================================
