------------------------------ MODULE AdapterCalls ------------------------------
(***************************************************************************)
(* One validated call of run_query or explain_query after the other, from  *)
(* ConnectionRegistry.create_adapter to the end of the adapter's work, in  *)
(* a process that is started with a configuration file, may be killed and  *)
(* may be started again.                                                   *)
(*                                                                         *)
(* QueryPipeline has one step where an adapter is built and one where the  *)
(* statement is sent.  Here are the steps these consist of: the six ways a *)
(* factory is called, the connection taken from the adapter's own pool,    *)
(* SHOWPLAN switched on for a statement that is only to be explained and   *)
(* off again, the connection given back.  An adapter outlives its call     *)
(* until the garbage collector finds it, and an idle connection with it.   *)
(***************************************************************************)
EXTENDS AdapterFactory

CONSTANTS Names,          \* connection names
          Connections,    \* the connections a configuration may define
          Files,          \* what the configuration file may hold
          Environments,   \* the environments a process may be started in
          Factories,      \* mappings adapter_factories a registry may be given
          BackendErrors,  \* what drivers and backends may raise
          MaxCalls,       \* bound: calls in a behaviour
          MaxStarts       \* bound: starts of the process

\* The configuration file: how far load_config gets with it, and the connections
\* it defines.
FileState == { "missing", "unreadable", "undecodable", "not_yaml", "not_mapping",
               "invalid", "valid" }

\* Where a call may go wrong.
FaultPlace == { "secrets", "import", "attempt", "attempts", "factory", "connect",
                "on", "statement", "off" }

ASSUME CallsAssumption ==
  /\ \A c \in Connections : IsConnection(c)
  /\ \A f \in Files : /\ f.state \in FileState
                       /\ DOMAIN f.connections \subseteq Names
                       /\ \A n \in DOMAIN f.connections :
                            f.connections[n] \in Connections
  /\ \A e \in Environments, c \in Connections : \A i \in DOMAIN c.refs :
       c.refs[i] # None => c.refs[i] \in DOMAIN e /\ e[c.refs[i]] \in Variable
  /\ \A m \in Factories : DOMAIN m \subseteq BackendType
                          /\ \A t \in DOMAIN m : m[t] \in Factory
  /\ \A m \in Factories : \A t \in DOMAIN m :
       m[t].required <= Len(m[t].params) /\ m[t].positional <= Len(m[t].params)
  /\ BackendErrors \subseteq RawError
  /\ None \notin [call : Nat, at : FaultPlace, exc : DbMcpError \cup RawError]
  /\ None \notin DbMcpError /\ None \notin RawError
  /\ MaxCalls \in Nat /\ MaxStarts \in Nat

Tool == {"run_query", "explain_query"}

VARIABLES
  process,    \* down, and why, or up with a configuration and an environment
  starts,     \* how often it was started
  factories,  \* the registry's adapter_factories
  loaded,     \* backends whose factory _load_adapter_factory has cached
  stage,      \* where the call in progress is
  calls,      \* history: every call, with the configuration it found
  attempt,    \* the attempt at calling the factory, 1 .. 6
  failure,    \* the failure the call will end with
  adapters,   \* every adapter built, with its pool
  received,   \* history: every statement that reached a backend
  faults,     \* history: everything that went wrong in a call
  answers     \* history: how each call ended

vars == << process, starts, factories, loaded, stage, calls, attempt, failure,
           adapters, received, faults, answers >>

Stage == { "idle", "resolving", "loading", "attempting", "connecting",
           "switching", "sending", "executing", "restoring", "closing",
           "ending" }

Current == Len(calls)
Call    == calls[Current]
Target  == process.config[Call.connection_name]
Latest  == adapters[Len(adapters)]

Down(reason) == [up |-> FALSE, ended_by |-> reason, config |-> None, env |-> None]
Up(c, e)     == [up |-> TRUE, ended_by |-> None, config |-> c, env |-> e]

\* The adapter of the call in progress is the last one built.
SetPool(field, value) == adapters' = [adapters EXCEPT ![Len(adapters)][field] = value]

\* A failure: the step it is from and the exception.
Fault(at, exc) == [call |-> Current, at |-> at, exc |-> exc]

Note(at, exc) == faults' = Append(faults, Fault(at, exc))

\* The call will end with this failure; what is still to be done is done first.
FailNow(at, exc, next) ==
  /\ Note(at, exc)
  /\ failure' = Fault(at, exc)
  /\ stage' = next
------------------------------------------------------------------------------
\* What several steps use.

factory_in_use ==
  IF Target.type \in DOMAIN factories THEN factories[Target.type]
                                      ELSE builtin_factory(Target.type)

resolved_fields ==
  LET fields == secret_fields(Target.type)
  IN  { fields[i] : i \in { j \in DOMAIN fields : Target.refs[j] # None } }

outcomes_of(n) ==
  call_factory(Target.type, factory_in_use, attempts(resolved_fields)[n],
               BackendErrors)

\* What an adapter starts with: an engine whose pool is empty, or a client.
new_adapter(o) ==
  [ call |-> Current, config |-> o.config, secrets |-> o.secrets,
    pool |-> "empty", alive |-> FALSE, showplan |-> FALSE, collected |-> FALSE ]

\* Only SQL Server explains by switching the session to another mode; the
\* others send the statement behind the word EXPLAIN.
switches(type, tool) == type = "sqlserver" /\ tool = "explain_query"
prefixed(type, tool) == type # "sqlserver" /\ tool = "explain_query"

AfterStatement == IF switches(Target.type, Call.tool) THEN "restoring" ELSE "closing"

------------------------------------------------------------------------------
\* Mutants of the steps.

\* Mutant: the next attempt is made although an adapter has been built.
FactoryBuildsTwice ==
  /\ stage = "attempting"
  /\ \E o \in { p \in outcomes_of(attempt) : p.kind = "adapter" } :
       adapters' = Append(adapters, new_adapter(o))
  /\ IF attempt = 1 THEN attempt' = 5 /\ UNCHANGED stage
                    ELSE stage' = "connecting" /\ UNCHANGED attempt
  /\ UNCHANGED << process, starts, factories, loaded, calls, failure, received,
                  faults, answers >>

\* Mutant: an adapter is kept and serves the next call, too.
FactoryBuildsOrReuses ==
  /\ stage = "attempting"
  /\ IF adapters # << >> /\ ~Latest.collected
     THEN SetPool("call", Current)
     ELSE \E o \in { p \in outcomes_of(attempt) : p.kind = "adapter" } :
            adapters' = Append(adapters, new_adapter(o))
  /\ stage' = "connecting"
  /\ UNCHANGED << process, starts, factories, loaded, calls, attempt, failure,
                  received, faults, answers >>

\* Mutant: after the last attempt comes the first.
FactoryDoesNotFitForEver ==
  /\ stage = "attempting" /\ TypeErrorRaised \in outcomes_of(attempt)
  /\ attempt' = (attempt % 6) + 1
  /\ UNCHANGED << process, starts, factories, loaded, stage, calls, failure,
                  adapters, received, faults, answers >>

\* Mutant: the statement is sent also where SHOWPLAN could not be switched on.
SwitchShowplanOnIgnored ==
  /\ stage = "switching"
  /\ stage' = "sending"
  /\ UNCHANGED << process, starts, factories, loaded, calls, attempt, failure,
                  adapters, received, faults, answers >>

\* Mutant: `return` in the `finally`: the statement's exception is lost.
SwitchShowplanOffSwallows ==
  /\ stage = "restoring" /\ Latest.alive
  /\ SetPool("showplan", FALSE)
  /\ stage' = "closing" /\ failure' = None
  /\ UNCHANGED << process, starts, factories, loaded, calls, attempt, received,
                  faults, answers >>

\* Mutant: a statement that fails is sent once more.
StatementRaisesRetry ==
  /\ stage = "executing"
  /\ stage' = IF Len(received) < 3 THEN "sending" ELSE AfterStatement
  /\ UNCHANGED << process, starts, factories, loaded, calls, attempt, failure,
                  adapters, received, faults, answers >>

\* Mutant: no `with`: the connection of a failing statement is not closed.
CloseConnectionAfterSuccess ==
  /\ stage = "closing"
  /\ IF failure = None THEN SetPool("pool", "empty") ELSE UNCHANGED adapters
  /\ stage' = "ending"
  /\ UNCHANGED << process, starts, factories, loaded, calls, attempt, failure,
                  received, faults, answers >>

------------------------------------------------------------------------------
\* main.py and config/loader.py.

\* What load_config raises.  UnicodeDecodeError is neither an OSError nor a
\* YAMLError, so it passes through.
load_config_error(file) ==
  CASE file.state = "missing"     -> "ConfigFileNotFoundError"
    [] file.state = "unreadable"  -> "ConfigError"
    [] file.state = "undecodable" -> "UnicodeDecodeError"
    [] file.state \in {"not_yaml", "not_mapping"} -> "ConfigParseError"
    [] file.state = "invalid"     -> "ConfigValidationError"
    [] file.state = "valid"       -> None

\* An empty file is a valid one without connections.
Start ==
  /\ ~process.up /\ starts < MaxStarts
  /\ starts' = starts + 1
  /\ \E file \in Files, env \in Environments :
       process' = IF load_config_error(file) # None
                  THEN Down(load_config_error(file))
                  ELSE Up(file.connections, env)
  /\ UNCHANGED << factories, loaded, stage, calls, attempt, failure, adapters,
                  received, faults, answers >>
------------------------------------------------------------------------------
\* ConnectionRegistry.create_adapter.

Receive(name, tool) ==
  /\ process.up /\ stage = "idle" /\ Current < MaxCalls
  /\ name \in DOMAIN process.config
  /\ calls' = Append(calls, [ connection_name |-> name, tool |-> tool,
                              target |-> process.config[name],
                              env |-> process.env ])
  /\ answers' = Append(answers, None)
  /\ stage' = "resolving"
  /\ UNCHANGED << process, starts, factories, loaded, attempt, failure, adapters,
                  received, faults >>

ResolveSecrets ==
  /\ stage = "resolving"
  /\ LET error == secrets_error(Target, process.env)
     IN  IF error = None THEN stage' = "loading" /\ UNCHANGED << failure, faults >>
                         ELSE FailNow("secrets", error, "ending")
  /\ UNCHANGED << process, starts, factories, loaded, calls, attempt, adapters,
                  received, answers >>

\* _get_adapter_factory: the registry's own factories, the cache, the module.
FindFactory ==
  /\ stage = "loading"
  /\ loaded' = IF Target.type \in DOMAIN factories THEN loaded
                                                   ELSE loaded \cup {Target.type}
  /\ attempt' = 1
  /\ stage' = "attempting"
  /\ UNCHANGED << process, starts, factories, calls, failure, adapters, received,
                  faults, answers >>

\* The module, or something it imports, is not there; that is not cached.
ImportFails ==
  /\ stage = "loading"
  /\ Target.type \notin DOMAIN factories \cup loaded
  /\ \E exc \in BackendErrors : FailNow("import", exc, "ending")
  /\ UNCHANGED << process, starts, factories, loaded, calls, attempt, adapters,
                  received, answers >>

FactoryBuilds ==
  /\ stage = "attempting"
  /\ \E o \in { p \in outcomes_of(attempt) : p.kind = "adapter" } :
       adapters' = Append(adapters, new_adapter(o))
  /\ stage' = "connecting"
  /\ UNCHANGED << process, starts, factories, loaded, calls, attempt, failure,
                  received, faults, answers >>

\* A TypeError, whatever it is about, leads to the next attempt.
FactoryDoesNotFit ==
  /\ stage = "attempting" /\ TypeErrorRaised \in outcomes_of(attempt)
  /\ IF attempt < 6
     THEN /\ attempt' = attempt + 1
          /\ Note("attempt", TypeErrorRaised)
          /\ UNCHANGED << stage, failure >>
     ELSE /\ FailNow("attempts", Coded("CONNECTION_FAILED"), "ending")
          /\ UNCHANGED attempt
  /\ UNCHANGED << process, starts, factories, loaded, calls, adapters, received,
                  answers >>

\* Any other exception is final, and so is an object that is no adapter.
FactoryRaises ==
  /\ stage = "attempting"
  /\ \E exc \in outcomes_of(attempt) \cap RawError :
       FailNow("factory", exc, "ending")
  /\ UNCHANGED << process, starts, factories, loaded, calls, attempt, adapters,
                  received, answers >>

FactoryReturnsSomething ==
  /\ stage = "attempting" /\ NoAdapter \in outcomes_of(attempt)
  /\ FailNow("factory", Coded("BACKEND_ERROR"), "ending")
  /\ UNCHANGED << process, starts, factories, loaded, calls, attempt, adapters,
                  received, answers >>
------------------------------------------------------------------------------
\* The adapter's run_query and explain_query.

\* Databricks connects anew for each call, the others take a connection from the
\* pool of the engine, which opens one if it has none.
Connect ==
  /\ stage = "connecting"
  /\ adapters' = [adapters EXCEPT ![Len(adapters)] =
       [@ EXCEPT !.pool = "in_use", !.alive = TRUE,
                 !.showplan = Latest.pool = "idle" /\ Latest.showplan]]
  /\ stage' = IF switches(Target.type, Call.tool) THEN "switching" ELSE "sending"
  /\ UNCHANGED << process, starts, factories, loaded, calls, attempt, failure,
                  received, faults, answers >>

ConnectFails ==
  /\ stage = "connecting"
  /\ \E exc \in BackendErrors : FailNow("connect", exc, "ending")
  /\ UNCHANGED << process, starts, factories, loaded, calls, attempt, adapters,
                  received, answers >>

SwitchShowplanOn ==
  /\ stage = "switching"
  /\ SetPool("showplan", TRUE)
  /\ stage' = "sending"
  /\ UNCHANGED << process, starts, factories, loaded, calls, attempt, failure,
                  received, faults, answers >>

\* Before the `try`: nothing is switched off again.
SwitchShowplanOnFails ==
  /\ stage = "switching"
  /\ \E exc \in BackendErrors, lost \in BOOLEAN :
       /\ FailNow("on", exc, "closing")
       /\ SetPool("alive", ~lost)
  /\ UNCHANGED << process, starts, factories, loaded, calls, attempt, received,
                  answers >>

SendStatement ==
  /\ stage = "sending"
  /\ received' = Append(received,
       [ call |-> Current, adapter |-> Len(adapters),
         plan |-> Latest.showplan \/ prefixed(Target.type, Call.tool) ])
  /\ stage' = "executing"
  /\ UNCHANGED << process, starts, factories, loaded, calls, attempt, failure,
                  adapters, faults, answers >>

StatementReturns ==
  /\ stage = "executing"
  /\ stage' = AfterStatement
  /\ UNCHANGED << process, starts, factories, loaded, calls, attempt, failure,
                  adapters, received, faults, answers >>

\* The statement fails, or its columns and rows cannot be read; the connection
\* may be lost by it.
StatementRaises ==
  /\ stage = "executing"
  /\ \E exc \in BackendErrors, lost \in BOOLEAN :
       /\ FailNow("statement", exc, AfterStatement)
       /\ SetPool("alive", ~lost)
  /\ UNCHANGED << process, starts, factories, loaded, calls, attempt, received,
                  answers >>

\* The `finally` of explain_query.
SwitchShowplanOff ==
  /\ stage = "restoring" /\ Latest.alive
  /\ SetPool("showplan", FALSE)
  /\ stage' = "closing"
  /\ UNCHANGED << process, starts, factories, loaded, calls, attempt, failure,
                  received, faults, answers >>

\* Its exception takes the place of whatever was raised before it.  On a
\* connection that is lost SQLAlchemy raises by itself.
SwitchShowplanOffFails ==
  /\ stage = "restoring"
  /\ \E exc \in BackendErrors, lost \in BOOLEAN :
       /\ FailNow("off", exc, "closing")
       /\ SetPool("alive", Latest.alive /\ ~lost)
  /\ UNCHANGED << process, starts, factories, loaded, calls, attempt, received,
                  answers >>

\* The end of `with`: the pool keeps a connection that could be rolled back;
\* Databricks closes its connection.
CloseConnection ==
  /\ stage = "closing"
  /\ \E kept \in IF Latest.alive /\ Target.type # "databricks"
                 THEN BOOLEAN ELSE {FALSE} :
       adapters' = [adapters EXCEPT ![Len(adapters)] =
         [@ EXCEPT !.pool = IF kept THEN "idle" ELSE "empty", !.alive = kept]]
  /\ stage' = "ending"
  /\ UNCHANGED << process, starts, factories, loaded, calls, attempt, failure,
                  received, faults, answers >>

\* The caller of the adapter gets the result or the exception.
End ==
  /\ stage = "ending"
  /\ answers' = [answers EXCEPT ![Current] =
       IF failure = None THEN [at |-> "reply", exc |-> None]
       ELSE [at |-> failure.at, exc |-> normalize_exception(failure.exc)]]
  /\ stage' = "idle" /\ attempt' = 1 /\ failure' = None
  /\ UNCHANGED << process, starts, factories, loaded, calls, adapters, received,
                  faults >>

\* Nothing refers to the adapter of a call that has ended; sooner or later it is
\* collected, and its connection is closed.
Collect(i) ==
  /\ ~adapters[i].collected
  /\ adapters[i].call # Current \/ stage = "idle"
  /\ adapters' = [adapters EXCEPT ![i] =
       [@ EXCEPT !.collected = TRUE, !.pool = "empty", !.alive = FALSE]]
  /\ UNCHANGED << process, starts, factories, loaded, stage, calls, attempt,
                  failure, received, faults, answers >>

\* The process is killed: everything in it is gone.
Crash ==
  /\ process.up
  /\ process' = Down("killed")
  /\ loaded' = {}
  /\ adapters' = [i \in DOMAIN adapters |->
       [adapters[i] EXCEPT !.collected = TRUE, !.pool = "empty", !.alive = FALSE]]
  /\ stage' = "idle" /\ attempt' = 1 /\ failure' = None
  /\ answers' = IF stage = "idle" THEN answers
                ELSE [answers EXCEPT ![Current] = [at |-> "crash", exc |-> None]]
  /\ UNCHANGED << starts, factories, calls, received, faults >>

\* Not a step of the code: a bound is reached, or the server waits for a call.
Finished ==
  /\ stage = "idle"
  /\ \/ Current = MaxCalls
     \/ ~process.up /\ starts = MaxStarts
     \/ process.up /\ DOMAIN process.config = {}
  /\ UNCHANGED vars
------------------------------------------------------------------------------
Init ==
  /\ process = Down(None) /\ starts = 0
  /\ factories \in Factories
  /\ loaded = {} /\ stage = "idle" /\ attempt = 1 /\ failure = None
  /\ calls = << >> /\ adapters = << >> /\ received = << >> /\ faults = << >>
  /\ answers = << >>

\* What Python does by itself, and what waits for a driver or a backend.
ServerStep ==
  \/ ResolveSecrets \/ FindFactory \/ ImportFails
  \/ FactoryBuilds \/ FactoryDoesNotFit \/ FactoryRaises \/ FactoryReturnsSomething
  \/ CloseConnection \/ End

BackendStep ==
  \/ Connect \/ ConnectFails \/ SwitchShowplanOn \/ SwitchShowplanOnFails
  \/ SendStatement \/ StatementReturns \/ StatementRaises
  \/ SwitchShowplanOff \/ SwitchShowplanOffFails

Next ==
  \/ Start
  \/ \E name \in Names, tool \in Tool : Receive(name, tool)
  \/ ServerStep \/ BackendStep
  \/ \E i \in DOMAIN adapters : Collect(i)
  \/ Crash \/ Finished

Spec == Init /\ [][Next]_vars

\* The process keeps running and backends answer or fail in the end.  Nothing
\* is assumed about the garbage collector or about a restart.
FairSpec == Spec /\ WF_vars(ServerStep) /\ WF_vars(BackendStep)
==============================================================================
