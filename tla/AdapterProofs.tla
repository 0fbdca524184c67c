----------------------------- MODULE AdapterProofs -----------------------------
(***************************************************************************)
(* The safety of the registry and the adapters for every configuration,    *)
(* environment, factory and failure, and that their steps come to those    *)
(* the pipeline takes for granted.                                         *)
(***************************************************************************)
EXTENDS AdapterProperties, ErrorModelProofs, SequenceTheorems

\* The arguments of every attempt have a role.
LEMMA AttemptArguments ==
  ASSUME NEW fields, NEW n \in 1 .. 6
  PROVE  LET call == attempts(fields)[n]
         IN  /\ call.args \in Seq(Role)
             /\ \A k \in DOMAIN call.keywords : call.keywords[k] \in Role
<1>1. /\ << >> \in Seq(Role) /\ << "config" >> \in Seq(Role)
      /\ << "name", "config", "secrets" >> \in Seq(Role)
      /\ << "name", "config" >> \in Seq(Role) /\ << "config", "secrets" >> \in Seq(Role)
  BY DEF Role
<1>2. \A k \in DOMAIN dumped(fields) : dumped(fields)[k] \in Role
  BY DEF dumped, Role
<1>3. \A k \in DOMAIN NoKeywords : NoKeywords[k] \in Role
  BY DEF NoKeywords, Role
<1> DEFINE first == [ config |-> "config", secrets |-> "secrets",
                      connection_name |-> "name" ]
           call  == attempts(fields)[n]
<1>4. \A k \in DOMAIN first : first[k] \in Role
  BY DEF Role
<1>5. call.args \in { << >>, << "config" >>, << "name", "config", "secrets" >>,
                      << "name", "config" >>, << "config", "secrets" >> }
  BY DEF attempts
<1>6. call.keywords \in { first, NoKeywords, dumped(fields) }
  BY DEF attempts
<1> HIDE DEF first, call
<1>7. call.args \in Seq(Role)
  BY <1>1, <1>5
<1>8. \A k \in DOMAIN call.keywords : call.keywords[k] \in Role
  BY <1>2, <1>3, <1>4, <1>6
<1> QED
  BY <1>7, <1>8 DEF call

\* What a parameter is bound to has a role.
LEMMA BoundRole ==
  ASSUME NEW f, DOMAIN f.params \subseteq Nat \ {0}, NEW call, NEW name,
         call.args \in Seq(Role),
         \A k \in DOMAIN call.keywords : call.keywords[k] \in Role
  PROVE  bound(f, call, name) \in Role
<1> DEFINE at == { i \in DOMAIN f.params : f.params[i] = name }
           Passed(i) == i <= Len(call.args)
<1>1. at \subseteq Nat \ {0}
  OBVIOUS
<1>2. ASSUME NEW i \in at, Passed(i) PROVE call.args[i] \in Role
  BY <1>1, <1>2, ElementOfSeq, LenProperties
<1>3. "default" \in Role
  BY DEF Role
<1> HIDE DEF at
<1>4. (\E i \in at : Passed(i)) => call.args[CHOOSE i \in at : Passed(i)] \in Role
  BY <1>2
<1> QED
  BY <1>3, <1>4 DEF bound, at

\* An adapter class builds an adapter of its configuration and its secrets, or
\* raises.
LEMMA ConstructedAdapter ==
  ASSUME NEW type, NEW config, NEW secrets,
         NEW p \in constructed(type, config, secrets, BackendErrors),
         p.kind = "adapter"
  PROVE  p.config = "config" /\ p.secrets = "secrets"
<1>1. TypeErrorRaised.kind # "adapter" /\ Raw({}).kind # "adapter"
        /\ \A x \in BackendErrors : x.kind # "adapter"
  BY CallsAssumption DEF TypeErrorRaised, Raw, RawError
<1>2. Adapter(config, secrets).config = config /\ Adapter(config, secrets).secrets = secrets
  BY DEF Adapter
<1>3. CASE type = "databricks"
  BY <1>1, <1>2, <1>3 DEF constructed, databricks_constructor
<1>4. CASE type # "databricks"
  BY <1>1, <1>2, <1>4 DEF constructed, sqlalchemy_constructor
<1> QED
  BY <1>3, <1>4

\* What a factory builds has arguments of some role in its two places, and the
\* right ones if it is, or returns, the adapter class.
LEMMA BuiltAdapter ==
  ASSUME NEW type, NEW f, DOMAIN f.params \subseteq Nat \ {0},
         NEW call, call.args \in Seq(Role),
         \A k \in DOMAIN call.keywords : call.keywords[k] \in Role,
         NEW p \in call_factory(type, f, call, BackendErrors), p.kind = "adapter"
  PROVE  /\ p.config \in Role /\ p.secrets \in Role
         /\ f.makes = "class" \/ f = builtin_factory(type) =>
              p.config = "config" /\ p.secrets = "secrets"
<1>1. TypeErrorRaised.kind # "adapter" /\ NoAdapter.kind # "adapter"
        /\ \A x \in BackendErrors : x.kind # "adapter"
  BY CallsAssumption DEF TypeErrorRaised, NoAdapter, RawError
<1>2. p \in call_class(type, call, BackendErrors) =>
        p.config = "config" /\ p.secrets = "secrets"
  BY <1>1, ConstructedAdapter DEF call_class
<1>3. p \in call_other(f, call, BackendErrors) => p.config \in Role /\ p.secrets \in Role
  <2>1. /\ bound(f, call, "config") \in Role /\ bound(f, call, "secrets") \in Role
    BY BoundRole
  <2> QED
    BY <1>1, <2>1 DEF call_other, Adapter
<1>4. "config" \in Role /\ "secrets" \in Role
  BY DEF Role
<1>5. \/ p \in call_class(type, call, BackendErrors)
      \/ /\ f.makes # "class" /\ f # builtin_factory(type)
         /\ p \in call_other(f, call, BackendErrors)
  BY <1>1 DEF call_factory, builtin_factory, Constructor
<1> QED
  BY <1>2, <1>3, <1>4, <1>5

------------------------------------------------------------------------------
\* The state of the process and its histories.

\* The numbers under which the histories keep their entries.
LEMMA Histories ==
  ASSUME AdapterTypeOK
  PROVE  /\ Current \in Nat /\ Current = Len(calls)
         /\ DOMAIN calls = 1 .. Current /\ DOMAIN answers = 1 .. Current
         /\ Len(adapters) \in Nat /\ DOMAIN adapters = 1 .. Len(adapters)
         /\ Len(received) \in Nat /\ DOMAIN received = 1 .. Len(received)
         /\ Len(faults) \in Nat /\ DOMAIN faults = 1 .. Len(faults)
         /\ \A i \in DOMAIN adapters : adapters[i] \in AdapterRecord(Current)
         /\ \A i \in DOMAIN received :
              received[i] \in ReceivedRecord(Current, Len(adapters))
         /\ \A k \in DOMAIN faults : faults[k] \in FaultRecord(Current)
BY LenProperties, ElementOfSeq DEF AdapterTypeOK, Current

\* The call in progress and the connection it is for.
LEMMA CallOpen ==
  ASSUME AdapterTypeOK, CallFacts, stage # "idle"
  PROVE  /\ Current \in 1 .. Current /\ Current \in DOMAIN calls
         /\ Call \in CallRecord
         /\ Target \in Connections /\ Target.type \in BackendType
         /\ process.up /\ process.env \in Environments
<1>1. Current \in Nat \ {0}
  BY Histories, EmptySeq DEF CallFacts, AdapterTypeOK, Current
<1>2. Current \in 1 .. Current /\ Current \in DOMAIN calls
  BY <1>1, Histories
<1>3. Call \in CallRecord
  BY <1>2, ElementOfSeq DEF AdapterTypeOK, Call, Current
<1>4. Target \in Connections
  BY DEF CallFacts, AdapterTypeOK, Target
<1>5. Target.type \in BackendType
  BY <1>4, CallsAssumption DEF IsConnection
<1> QED
  BY <1>2, <1>3, <1>4, <1>5 DEF CallFacts, AdapterTypeOK

\* The adapter of the call in progress.
LEMMA LatestAdapter ==
  ASSUME AdapterTypeOK, adapters # << >>
  PROVE  /\ Len(adapters) \in 1 .. Len(adapters)
         /\ Len(adapters) \in DOMAIN adapters
         /\ Latest = adapters[Len(adapters)]
         /\ Latest \in AdapterRecord(Current)
<1>1. Len(adapters) \in Nat \ {0}
  BY Histories, EmptySeq DEF AdapterTypeOK
<1> QED
  BY <1>1, Histories DEF Latest

\* What a step does that changes that adapter.
LEMMA LatestSet ==
  ASSUME AdapterTypeOK, adapters # << >>, NEW e \in AdapterRecord(Current),
         adapters' = [adapters EXCEPT ![Len(adapters)] = e]
  PROVE  /\ adapters' \in Seq(AdapterRecord(Current))
         /\ Len(adapters') = Len(adapters) /\ DOMAIN adapters' = DOMAIN adapters
         /\ adapters' # << >> /\ Latest' = e
         /\ \A i \in DOMAIN adapters : i # Len(adapters) => adapters'[i] = adapters[i]
<1>1. /\ adapters \in Seq(AdapterRecord(Current))
      /\ Len(adapters) \in 1 .. Len(adapters)
  BY LatestAdapter DEF AdapterTypeOK, Current
<1>2. /\ adapters' \in Seq(AdapterRecord(Current)) /\ Len(adapters') = Len(adapters)
      /\ \A i \in 1 .. Len(adapters) :
           adapters'[i] = IF i = Len(adapters) THEN e ELSE adapters[i]
  BY <1>1, ExceptSeq
<1>3. DOMAIN adapters' = 1 .. Len(adapters)
  BY <1>2, LenProperties
<1>4. Latest' = e
  BY <1>1, <1>2 DEF Latest
<1>5. adapters' # << >>
  BY <1>1, <1>2, EmptySeq
<1> QED
  BY <1>2, <1>3, <1>4, <1>5, Histories

\* A step on the connection of the call in progress, and the adapter after it.
OnConnection ==
  \/ Connect \/ SwitchShowplanOn \/ SwitchShowplanOnFails \/ StatementRaises
  \/ SwitchShowplanOff \/ SwitchShowplanOffFails \/ CloseConnection

Session(e) ==
  /\ e.call = Latest.call /\ e.config = Latest.config /\ e.secrets = Latest.secrets
  /\ ~e.collected
  /\ \/ Connect /\ e.pool = "in_use" /\ ~e.showplan
     \/ SwitchShowplanOn /\ e.pool = "in_use" /\ e.showplan
     \/ /\ SwitchShowplanOnFails \/ StatementRaises \/ SwitchShowplanOffFails
        /\ e.pool = "in_use" /\ e.showplan = Latest.showplan
     \/ SwitchShowplanOff /\ e.pool = "in_use" /\ ~e.showplan
     \/ /\ CloseConnection
        /\ e.pool = "empty" \/ (e.pool = "idle" /\ Target.type # "databricks")
        /\ e.showplan = Latest.showplan

LEMMA ConnectionStep ==
  ASSUME AdapterTypeOK, CallFacts, AdapterFacts, OnConnection
  PROVE  \E e \in AdapterRecord(Current) :
           adapters' = [adapters EXCEPT ![Len(adapters)] = e] /\ Session(e)
<1>1. stage \in Equipped
  BY DEF OnConnection, Connect, SwitchShowplanOn, SwitchShowplanOnFails,
         StatementRaises, SwitchShowplanOff, SwitchShowplanOffFails,
         CloseConnection, Equipped, Connected
<1>2. /\ adapters # << >> /\ ~Latest.collected
      /\ stage = "connecting" => Latest.pool = "empty"
      /\ stage # "connecting" => Latest.pool = "in_use"
  BY <1>1 DEF AdapterFacts, Equipped
<1>3. Latest \in AdapterRecord(Current) /\ Latest = adapters[Len(adapters)]
        /\ Latest.showplan \in BOOLEAN
  BY <1>2, LatestAdapter DEF AdapterRecord
<1>4. CASE Connect
  <2> DEFINE e == [Latest EXCEPT !.pool = "in_use", !.alive = TRUE, !.showplan = FALSE]
  <2>1. ~(Latest.pool = "idle" /\ Latest.showplan)
    BY <1>2, <1>4 DEF Connect
  <2>2. adapters' = [adapters EXCEPT ![Len(adapters)] = e]
    BY <1>3, <1>4, <2>1 DEF Connect
  <2>3. e \in AdapterRecord(Current)
    BY <1>3 DEF AdapterRecord
  <2>4. /\ e.call = Latest.call /\ e.config = Latest.config /\ e.secrets = Latest.secrets
        /\ e.collected = Latest.collected /\ e.pool = "in_use" /\ e.showplan = FALSE
    BY <1>3 DEF AdapterRecord
  <2> QED
    BY <1>2, <1>4, <2>2, <2>3, <2>4 DEF Session
<1>5. ASSUME NEW v \in BOOLEAN, SetPool("showplan", v), stage # "connecting",
             (SwitchShowplanOn /\ v = TRUE) \/ (SwitchShowplanOff /\ v = FALSE)
      PROVE  \E e \in AdapterRecord(Current) :
               adapters' = [adapters EXCEPT ![Len(adapters)] = e] /\ Session(e)
  <2> DEFINE e == [Latest EXCEPT !.showplan = v]
  <2>1. adapters' = [adapters EXCEPT ![Len(adapters)] = e]
    BY <1>3, <1>5 DEF SetPool
  <2>2. e \in AdapterRecord(Current)
    BY <1>3 DEF AdapterRecord
  <2>3. /\ e.call = Latest.call /\ e.config = Latest.config /\ e.secrets = Latest.secrets
        /\ e.collected = Latest.collected /\ e.pool = Latest.pool /\ e.showplan = v
    BY <1>3 DEF AdapterRecord
  <2> QED
    BY <1>2, <1>5, <2>1, <2>2, <2>3 DEF Session
<1>6. ASSUME NEW v \in BOOLEAN, SetPool("alive", v), stage # "connecting",
             SwitchShowplanOnFails \/ StatementRaises \/ SwitchShowplanOffFails
      PROVE  \E e \in AdapterRecord(Current) :
               adapters' = [adapters EXCEPT ![Len(adapters)] = e] /\ Session(e)
  <2> DEFINE e == [Latest EXCEPT !.alive = v]
  <2>1. adapters' = [adapters EXCEPT ![Len(adapters)] = e]
    BY <1>3, <1>6 DEF SetPool
  <2>2. e \in AdapterRecord(Current)
    BY <1>3 DEF AdapterRecord
  <2>3. /\ e.call = Latest.call /\ e.config = Latest.config /\ e.secrets = Latest.secrets
        /\ e.collected = Latest.collected /\ e.pool = Latest.pool
        /\ e.showplan = Latest.showplan
    BY <1>3 DEF AdapterRecord
  <2> QED
    BY <1>2, <1>6, <2>1, <2>2, <2>3 DEF Session
<1>7. CASE CloseConnection
  <2>1. PICK kept \in BOOLEAN :
          /\ kept => Target.type # "databricks"
          /\ adapters' = [adapters EXCEPT ![Len(adapters)] =
               [@ EXCEPT !.pool = IF kept THEN "idle" ELSE "empty", !.alive = kept]]
    BY <1>7 DEF CloseConnection
  <2> DEFINE e == [Latest EXCEPT !.pool = IF kept THEN "idle" ELSE "empty", !.alive = kept]
  <2>2. adapters' = [adapters EXCEPT ![Len(adapters)] = e]
    BY <1>3, <2>1
  <2>3. e \in AdapterRecord(Current)
    BY <1>3 DEF AdapterRecord
  <2>4. /\ e.call = Latest.call /\ e.config = Latest.config /\ e.secrets = Latest.secrets
        /\ e.collected = Latest.collected /\ e.showplan = Latest.showplan
        /\ e.pool = IF kept THEN "idle" ELSE "empty"
    BY <1>3 DEF AdapterRecord
  <2> QED
    BY <1>2, <1>7, <2>1, <2>2, <2>3, <2>4 DEF Session
<1>8. CASE SwitchShowplanOn \/ SwitchShowplanOff
  <2>1. CASE SwitchShowplanOn
    <3>1. stage # "connecting" /\ SetPool("showplan", TRUE)
      BY <2>1 DEF SwitchShowplanOn
    <3> QED
      BY <1>5, <2>1, <3>1
  <2>2. CASE SwitchShowplanOff
    <3>1. stage # "connecting" /\ SetPool("showplan", FALSE)
      BY <2>2 DEF SwitchShowplanOff
    <3> QED
      BY <1>5, <2>2, <3>1
  <2> QED
    BY <1>8, <2>1, <2>2
<1>9. CASE SwitchShowplanOnFails \/ StatementRaises \/ SwitchShowplanOffFails
  <2>1. stage # "connecting" /\ \E v \in BOOLEAN : SetPool("alive", v)
    BY <1>9 DEF SwitchShowplanOnFails, StatementRaises, SwitchShowplanOffFails
  <2> QED
    BY <1>6, <1>9, <2>1
<1> QED
  BY <1>4, <1>7, <1>8, <1>9 DEF OnConnection

------------------------------------------------------------------------------
\* The steps, by what they leave alone.

\* Up to the connection there is nothing but the failure to be told of.
Preparing ==
  \/ ResolveSecrets \/ FindFactory \/ ImportFails \/ FactoryDoesNotFit
  \/ FactoryRaises \/ FactoryReturnsSomething \/ ConnectFails

Working ==
  Preparing \/ FactoryBuilds \/ OnConnection \/ SendStatement \/ StatementReturns

LEMMA Steps ==
  ASSUME [Next]_vars
  PROVE  \/ Start \/ (\E name \in Names, tool \in Tool : Receive(name, tool))
         \/ Working \/ End \/ (\E i \in DOMAIN adapters : Collect(i)) \/ Crash
         \/ UNCHANGED vars
BY DEF Next, ServerStep, BackendStep, Working, Preparing, OnConnection, Finished

\* A step of a call leaves the process, the calls and the answers alone.
LEMMA WorkingStep ==
  ASSUME Working
  PROVE  /\ UNCHANGED << process, starts, factories, calls, answers >>
         /\ stage # "idle" /\ stage' # "idle" /\ stage' \in Stage
         /\ Preparing => UNCHANGED << adapters, received >>
         /\ FactoryBuilds \/ OnConnection => UNCHANGED received
         /\ SendStatement \/ StatementReturns => UNCHANGED adapters
         /\ ~SendStatement => UNCHANGED received
<1>1. CASE Preparing
  BY <1>1 DEF Preparing, ResolveSecrets, FindFactory, ImportFails, FactoryDoesNotFit,
       FactoryRaises, FactoryReturnsSomething, ConnectFails, FactoryBuilds, OnConnection,
       SendStatement, StatementReturns, Connect, SwitchShowplanOn,
       SwitchShowplanOnFails, StatementRaises, SwitchShowplanOff,
       SwitchShowplanOffFails, CloseConnection, FailNow, Stage
<1>2. CASE OnConnection
  BY <1>2 DEF Preparing, ResolveSecrets, FindFactory, ImportFails, FactoryDoesNotFit,
       FactoryRaises, FactoryReturnsSomething, ConnectFails, FactoryBuilds, OnConnection,
       SendStatement, StatementReturns, Connect, SwitchShowplanOn,
       SwitchShowplanOnFails, StatementRaises, SwitchShowplanOff,
       SwitchShowplanOffFails, CloseConnection, FailNow, Stage, AfterStatement
<1>3. CASE FactoryBuilds \/ SendStatement \/ StatementReturns
  BY <1>3 DEF Preparing, ResolveSecrets, FindFactory, ImportFails, FactoryDoesNotFit,
       FactoryRaises, FactoryReturnsSomething, ConnectFails, FactoryBuilds, OnConnection,
       SendStatement, StatementReturns, Connect, SwitchShowplanOn,
       SwitchShowplanOnFails, StatementRaises, SwitchShowplanOff,
       SwitchShowplanOffFails, CloseConnection, FailNow, Stage, AfterStatement
<1> QED
  BY <1>1, <1>2, <1>3 DEF Working

\* What goes wrong in a step is noted, and the last of it is what the call will
\* end with; but a TypeError of a factory that does not fit is only noted.
FailsWith(at, exc) == Note(at, exc) /\ failure' = Fault(at, exc)

Passes ==
  /\ UNCHANGED << faults, failure >>
  /\ stage' \in {"restoring", "closing", "ending"} =>
       stage \in {"executing", "restoring", "closing"}

Fails ==
  \E at \in FaultPlace, exc \in DbMcpError \cup RawError :
    /\ FailsWith(at, exc)
    /\ \/ /\ at \notin {"statement", "off"} /\ stage \notin {"restoring", "closing"}
          /\ stage' \in {"closing", "ending"}
       \/ /\ at = "statement" /\ stage = "executing"
          /\ stage' \in {"restoring", "closing"}
       \/ at = "off" /\ stage = "restoring" /\ stage' = "closing"

Retries ==
  /\ Note("attempt", TypeErrorRaised) /\ UNCHANGED failure
  /\ stage = "attempting" /\ stage' = "attempting"

LEMMA SecretsError ==
  ASSUME NEW c \in Connections, NEW env \in Environments
  PROVE  IF unresolved(c, env) = {} THEN secrets_error(c, env) = None
         ELSE secrets_error(c, env) # None /\ secrets_error(c, env) \in RawError
BY SecretErrorType, CallsAssumption DEF secrets_error

LEMMA FaultStep ==
  ASSUME AdapterTypeOK, CallFacts, Working
  PROVE  Passes \/ Fails \/ Retries
<1>1. /\ \A exc \in BackendErrors : exc \in DbMcpError \cup RawError
      /\ \A code \in {"CONNECTION_FAILED", "BACKEND_ERROR"} : Coded(code) \in DbMcpError
  BY CallsAssumption DEF Coded, DbMcpError, ErrorCode
<1>2. CASE ResolveSecrets
  <2>1. Target \in Connections /\ process.env \in Environments
    BY <1>2, CallOpen DEF ResolveSecrets
  <2>2. CASE secrets_error(Target, process.env) = None
    BY <1>2, <2>2 DEF ResolveSecrets, Passes
  <2>3. CASE secrets_error(Target, process.env) # None
    <3> DEFINE exc == secrets_error(Target, process.env)
    <3>1. exc \in RawError
      BY <2>1, <2>3, SecretsError
    <3>2. FailNow("secrets", exc, "ending") /\ stage = "resolving"
      BY <1>2, <2>3 DEF ResolveSecrets
    <3> HIDE DEF exc
    <3> QED
      BY <3>1, <3>2 DEF FailNow, Fails, FailsWith, FaultPlace
  <2> QED
    BY <2>2, <2>3
<1>3. CASE ImportFails
  BY <1>1, <1>3 DEF ImportFails, FailNow, Fails, FailsWith, FaultPlace
<1>4. CASE FactoryDoesNotFit
  <2>1. CASE attempt < 6
    BY <1>4, <2>1 DEF FactoryDoesNotFit, Retries
  <2>2. CASE ~(attempt < 6)
    BY <1>1, <1>4, <2>2 DEF FactoryDoesNotFit, FailNow, Fails, FailsWith, FaultPlace
  <2> QED
    BY <2>1, <2>2
<1>5. CASE FactoryRaises
  BY <1>5 DEF FactoryRaises, FailNow, Fails, FailsWith, FaultPlace
<1>6. CASE FactoryReturnsSomething
  BY <1>1, <1>6 DEF FactoryReturnsSomething, FailNow, Fails, FailsWith, FaultPlace
<1>7. CASE ConnectFails
  BY <1>1, <1>7 DEF ConnectFails, FailNow, Fails, FailsWith, FaultPlace
<1>8. CASE SwitchShowplanOnFails
  BY <1>1, <1>8 DEF SwitchShowplanOnFails, FailNow, Fails, FailsWith, FaultPlace
<1>9. CASE StatementRaises
  BY <1>1, <1>9 DEF StatementRaises, FailNow, Fails, FailsWith, FaultPlace, AfterStatement
<1>10. CASE SwitchShowplanOffFails
  BY <1>1, <1>10 DEF SwitchShowplanOffFails, FailNow, Fails, FailsWith, FaultPlace
<1>11. CASE \/ FindFactory \/ FactoryBuilds \/ Connect \/ SwitchShowplanOn
            \/ SwitchShowplanOff \/ CloseConnection \/ SendStatement \/ StatementReturns
  BY <1>11 DEF FindFactory, FactoryBuilds, Connect, SwitchShowplanOn,
               SwitchShowplanOff, CloseConnection, SendStatement, StatementReturns, Passes,
               AfterStatement
<1> QED
  BY <1>2, <1>3, <1>4, <1>5, <1>6, <1>7, <1>8, <1>9, <1>10, <1>11
     DEF Working, Preparing, OnConnection

\* The adapter that is built.
Built(e) ==
  /\ e.call = Current /\ e.pool = "empty" /\ ~e.showplan /\ ~e.collected
  /\ IsBuiltin(Target.type) => e.config = "config" /\ e.secrets = "secrets"

LEMMA BuildStep ==
  ASSUME AdapterTypeOK, CallFacts, FactoryBuilds
  PROVE  /\ stage = "attempting" /\ stage' = "connecting"
         /\ \E e \in AdapterRecord(Current) :
              adapters' = Append(adapters, e) /\ Built(e)
<1>1. stage = "attempting" /\ stage' = "connecting" /\ stage # "idle"
  BY DEF FactoryBuilds
<1>2. PICK o \in outcomes_of(attempt) :
        o.kind = "adapter" /\ adapters' = Append(adapters, new_adapter(o))
  BY DEF FactoryBuilds
<1>3. Target.type \in BackendType /\ Current \in 1 .. Current /\ attempt \in 1 .. 6
        /\ factories \in Factories
  BY <1>1, CallOpen DEF AdapterTypeOK
<1>4. DOMAIN builtin_factory(Target.type).params \subseteq Nat \ {0}
  BY DEF builtin_factory, Constructor
<1>5. DOMAIN factory_in_use.params \subseteq Nat \ {0}
  <2>1. \A f \in Factory : DOMAIN f.params \subseteq Nat \ {0}
    BY LenProperties DEF Factory
  <2> QED
    BY <1>3, <1>4, <2>1, CallsAssumption DEF factory_in_use
<1> DEFINE call == attempts(resolved_fields)[attempt]
<1>6. /\ call.args \in Seq(Role)
      /\ \A k \in DOMAIN call.keywords : call.keywords[k] \in Role
  BY <1>3, AttemptArguments
<1>7. o \in call_factory(Target.type, factory_in_use, call, BackendErrors)
  BY <1>2 DEF outcomes_of
<1> HIDE DEF call
<1>8. /\ o.config \in Role /\ o.secrets \in Role
      /\ factory_in_use.makes = "class" \/ factory_in_use = builtin_factory(Target.type) =>
           o.config = "config" /\ o.secrets = "secrets"
  BY <1>2, <1>5, <1>6, <1>7, BuiltAdapter
<1>9. IsBuiltin(Target.type) => o.config = "config" /\ o.secrets = "secrets"
  BY <1>8 DEF IsBuiltin, factory_in_use
<1>10. new_adapter(o) \in AdapterRecord(Current)
  BY <1>3, <1>8 DEF new_adapter, AdapterRecord
<1>11. Built(new_adapter(o))
  BY <1>9 DEF Built, new_adapter
<1> QED
  BY <1>1, <1>2, <1>10, <1>11

\* The faults and the failure a step leaves behind.
LEMMA FaultTypes ==
  ASSUME AdapterTypeOK, CallFacts, Working
  PROVE  /\ faults' \in Seq(FaultRecord(Current))
         /\ failure' \in FaultRecord(Current) \cup {None}
<1>1. Current \in 1 .. Current /\ faults \in Seq(FaultRecord(Current))
        /\ failure \in FaultRecord(Current) \cup {None}
  BY WorkingStep, CallOpen DEF AdapterTypeOK, Current
<1>2. \A at \in FaultPlace, exc \in Exception : Fault(at, exc) \in FaultRecord(Current)
  BY <1>1 DEF Fault, FaultRecord
<1>3. CASE Passes
  BY <1>1, <1>3 DEF Passes
<1>4. CASE Fails
  <2>1. PICK at \in FaultPlace, exc \in DbMcpError \cup RawError : FailsWith(at, exc)
    BY <1>4 DEF Fails
  <2>2. Fault(at, exc) \in FaultRecord(Current)
    BY <1>2, <2>1 DEF Exception
  <2> QED
    BY <1>1, <2>1, <2>2, AppendProperties DEF FailsWith, Note
<1>5. CASE Retries
  <2>1. Fault("attempt", TypeErrorRaised) \in FaultRecord(Current)
    BY <1>2 DEF Exception, FaultPlace
  <2> QED
    BY <1>1, <1>5, <2>1, AppendProperties DEF Retries, Note
<1> QED
  BY <1>3, <1>4, <1>5, FaultStep

\* Every step keeps the types.
LEMMA TypeStep ==
  ASSUME AdapterTypeOK, CallFacts, AdapterFacts, FaultFacts, [Next]_vars
  PROVE  AdapterTypeOK'
<1> DEFINE n == Current
<1>1. /\ n \in Nat /\ n = Len(calls) /\ Current = n
      /\ adapters \in Seq(AdapterRecord(n)) /\ faults \in Seq(FaultRecord(n))
      /\ received \in Seq(ReceivedRecord(n, Len(adapters))) /\ Len(adapters) \in Nat
      /\ answers \in Seq(AnswerRecord \cup {None}) /\ Len(answers) = n
  BY Histories DEF AdapterTypeOK
<1>2. CASE Start
  <2>1. process' \in { Down(load_config_error(file)) : file \in Files }
                     \cup { Up(file.connections, env) : file \in Files, env \in Environments }
    BY <1>2 DEF Start
  <2>2. process'.up \in BOOLEAN
    <3>1. CASE \E reason : process' = Down(reason)
      BY <3>1 DEF Down
    <3>2. CASE \E c, env : process' = Up(c, env)
      BY <3>2 DEF Up
    <3> QED
      BY <2>1, <3>1, <3>2
  <2>3. process'.up => \E file \in Files, env \in Environments :
          process'.config = file.connections /\ process'.env = env
    BY <2>1 DEF Down, Up
  <2>4. starts' \in 0 .. MaxStarts
    BY <1>2, CallsAssumption DEF Start, AdapterTypeOK
  <2> QED
    BY <1>2, <2>2, <2>3, <2>4, CallsAssumption DEF Start, AdapterTypeOK
<1>3. ASSUME NEW name \in Names, NEW tool \in Tool, Receive(name, tool)
      PROVE  AdapterTypeOK'
  <2> DEFINE r == [ connection_name |-> name, tool |-> tool,
                    target |-> process.config[name], env |-> process.env ]
  <2>1. r \in CallRecord
    BY <1>3 DEF Receive, AdapterTypeOK, CallRecord
  <2>2. calls' = Append(calls, r) /\ answers' = Append(answers, None)
    BY <1>3 DEF Receive
  <2> HIDE DEF r
  <2>3. calls' \in Seq(CallRecord) /\ Len(calls') = n + 1
    BY <1>1, <2>1, <2>2, AppendProperties DEF AdapterTypeOK
  <2>4. answers' \in Seq(AnswerRecord \cup {None}) /\ Len(answers') = n + 1
    BY <1>1, <2>2, AppendProperties
  <2> HIDE DEF n
  <2>5. /\ AdapterRecord(n) \subseteq AdapterRecord(n + 1)
        /\ FaultRecord(n) \subseteq FaultRecord(n + 1)
        /\ ReceivedRecord(n, Len(adapters)) \subseteq ReceivedRecord(n + 1, Len(adapters))
    BY <1>1 DEF AdapterRecord, FaultRecord, ReceivedRecord
  <2>6. /\ adapters \in Seq(AdapterRecord(n + 1)) /\ faults \in Seq(FaultRecord(n + 1))
        /\ received \in Seq(ReceivedRecord(n + 1, Len(adapters)))
    BY <1>1, <2>5, SeqMonotonic
  <2>7. failure \in FaultRecord(n + 1) \cup {None}
    BY <1>1, <2>5 DEF AdapterTypeOK
  <2> QED
    BY <1>3, <2>3, <2>4, <2>6, <2>7 DEF Receive, AdapterTypeOK, Stage
<1>4. CASE Working
  <2>1. /\ UNCHANGED << process, starts, factories, calls, answers >>
        /\ stage # "idle" /\ stage' \in Stage /\ n' = n
    BY <1>4, WorkingStep DEF Current
  <2>2. faults' \in Seq(FaultRecord(n)) /\ failure' \in FaultRecord(n) \cup {None}
    BY <1>4, FaultTypes
  <2>3. loaded' \subseteq BackendType
    <3>1. loaded' \in { loaded, loaded \cup {Target.type} }
      BY <1>4 DEF Working, Preparing, OnConnection, ResolveSecrets, FindFactory,
           ImportFails, FactoryDoesNotFit, FactoryRaises, FactoryReturnsSomething,
           ConnectFails, FactoryBuilds, Connect, SwitchShowplanOn, SwitchShowplanOnFails,
           StatementRaises, SwitchShowplanOff, SwitchShowplanOffFails, CloseConnection,
           SendStatement, StatementReturns
    <3> QED
      BY <2>1, <3>1, CallOpen DEF AdapterTypeOK
  <2>4. attempt' \in 1 .. 6
    <3>1. attempt' \in { attempt, 1 } \/ (attempt < 6 /\ attempt' = attempt + 1)
      BY <1>4 DEF Working, Preparing, OnConnection, ResolveSecrets, FindFactory,
           ImportFails, FactoryDoesNotFit, FactoryRaises, FactoryReturnsSomething,
           ConnectFails, FactoryBuilds, Connect, SwitchShowplanOn, SwitchShowplanOnFails,
           StatementRaises, SwitchShowplanOff, SwitchShowplanOffFails, CloseConnection,
           SendStatement, StatementReturns
    <3> QED
      BY <3>1 DEF AdapterTypeOK
  <2>5. /\ adapters' \in Seq(AdapterRecord(n))
        /\ received' \in Seq(ReceivedRecord(n, Len(adapters')))
    <3>1. CASE Preparing \/ StatementReturns
      <4>1. UNCHANGED << adapters, received >>
        BY <1>4, <3>1, WorkingStep DEF StatementReturns
      <4> QED
        BY <1>1, <4>1
    <3>2. CASE FactoryBuilds
      <4>1. PICK e \in AdapterRecord(n) : adapters' = Append(adapters, e)
        BY <3>2, BuildStep
      <4>2. adapters' \in Seq(AdapterRecord(n)) /\ Len(adapters') = Len(adapters) + 1
        BY <1>1, <4>1, AppendProperties
      <4> HIDE DEF n
      <4>3. ReceivedRecord(n, Len(adapters)) \subseteq ReceivedRecord(n, Len(adapters) + 1)
        BY <1>1 DEF ReceivedRecord
      <4> QED
        BY <1>1, <1>4, <3>2, <4>2, <4>3, WorkingStep, SeqMonotonic
    <3>3. CASE OnConnection
      <4>1. PICK e \in AdapterRecord(Current) :
              adapters' = [adapters EXCEPT ![Len(adapters)] = e]
        BY <3>3, ConnectionStep
      <4>2. adapters # << >>
        BY <3>3 DEF AdapterFacts, OnConnection, Connect, SwitchShowplanOn,
             SwitchShowplanOnFails, StatementRaises, SwitchShowplanOff,
             SwitchShowplanOffFails, CloseConnection, Equipped, Connected
      <4>3. adapters' \in Seq(AdapterRecord(n)) /\ Len(adapters') = Len(adapters)
        BY <4>1, <4>2, LatestSet
      <4> QED
        BY <1>1, <1>4, <3>3, <4>3, WorkingStep
    <3>4. CASE SendStatement
      <4> DEFINE plan == Latest.showplan \/ prefixed(Target.type, Call.tool)
                 s    == [ call |-> Current, adapter |-> Len(adapters), plan |-> plan ]
      <4>1. adapters # << >>
        BY <3>4 DEF AdapterFacts, SendStatement, Equipped, Connected
      <4>2. plan \in BOOLEAN
        OBVIOUS
      <4>3. Len(adapters) \in 1 .. Len(adapters) /\ n \in 1 .. n
        BY <2>1, <4>1, LatestAdapter, CallOpen
      <4>4. received' = Append(received, s)
        BY <3>4 DEF SendStatement
      <4> HIDE DEF plan
      <4>5. s \in ReceivedRecord(n, Len(adapters))
        BY <4>2, <4>3 DEF ReceivedRecord
      <4> HIDE DEF s, n
      <4>6. UNCHANGED adapters
        BY <3>4 DEF SendStatement
      <4> QED
        BY <1>1, <4>4, <4>5, <4>6, AppendProperties
    <3> QED
      BY <1>4, <3>1, <3>2, <3>3, <3>4 DEF Working
  <2> QED
    BY <2>1, <2>2, <2>3, <2>4, <2>5 DEF AdapterTypeOK, Current
<1>5. CASE End
  <2> DEFINE a == IF failure = None THEN [at |-> "reply", exc |-> None]
                  ELSE [at |-> failure.at, exc |-> normalize_exception(failure.exc)]
  <2>1. stage = "ending"
    BY <1>5 DEF End
  <2>2. a \in AnswerRecord
    <3>1. CASE failure = None
      BY <3>1 DEF AnswerRecord
    <3>2. CASE failure # None
      <4>1. failure.at \in FaultPlace
        BY <3>2 DEF AdapterTypeOK, FaultRecord
      <4>2. normalize_exception(failure.exc) \in DbMcpError
        BY <3>2, NormalizedError DEF FaultFacts
      <4> QED
        BY <3>2, <4>1, <4>2 DEF AnswerRecord
    <3> QED
      BY <3>1, <3>2
  <2>3. answers' = [answers EXCEPT ![Current] = a] /\ Current \in 1 .. Len(answers)
    BY <1>1, <1>5, <2>1, CallOpen DEF End
  <2> HIDE DEF a
  <2>4. answers' \in Seq(AnswerRecord \cup {None}) /\ Len(answers') = n
    BY <1>1, <2>2, <2>3, ExceptSeq
  <2> QED
    BY <1>1, <1>5, <2>4 DEF End, AdapterTypeOK, Stage
<1>6. ASSUME NEW i \in DOMAIN adapters, Collect(i) PROVE AdapterTypeOK'
  <2> DEFINE e == [adapters[i] EXCEPT !.collected = TRUE, !.pool = "empty", !.alive = FALSE]
  <2>1. adapters[i] \in AdapterRecord(n) /\ i \in 1 .. Len(adapters)
    BY <1>6, Histories
  <2>2. e \in AdapterRecord(n)
    BY <2>1 DEF AdapterRecord
  <2>3. adapters' = [adapters EXCEPT ![i] = e]
    BY <1>6 DEF Collect
  <2> HIDE DEF e
  <2>4. adapters' \in Seq(AdapterRecord(n)) /\ Len(adapters') = Len(adapters)
    BY <1>1, <2>1, <2>2, <2>3, ExceptSeq
  <2> QED
    BY <1>1, <1>6, <2>4 DEF Collect, AdapterTypeOK
<1>7. CASE Crash
  <2>1. adapters' = [i \in 1 .. Len(adapters) |->
          [adapters[i] EXCEPT !.collected = TRUE, !.pool = "empty", !.alive = FALSE]]
    BY <1>7, Histories DEF Crash
  <2>2. \A i \in 1 .. Len(adapters) :
          [adapters[i] EXCEPT !.collected = TRUE, !.pool = "empty", !.alive = FALSE]
            \in AdapterRecord(n)
    BY Histories DEF AdapterRecord
  <2>3. adapters' \in [1 .. Len(adapters) -> AdapterRecord(n)]
    BY <2>1, <2>2
  <2>4. adapters' \in Seq(AdapterRecord(n))
    BY <1>1, <2>3, SeqDef
  <2>5. Len(adapters') = Len(adapters)
    BY <1>1, <2>3, <2>4, LenProperties
  <2>6. answers' \in Seq(AnswerRecord \cup {None}) /\ Len(answers') = n
    <3>1. CASE stage = "idle"
      BY <1>1, <1>7, <3>1 DEF Crash
    <3>2. CASE stage # "idle"
      <4>1. [at |-> "crash", exc |-> None] \in AnswerRecord \cup {None}
        BY DEF AnswerRecord
      <4>2. Current \in 1 .. Len(answers)
        BY <1>1, <3>2, CallOpen
      <4>3. answers' = [answers EXCEPT ![Current] = [at |-> "crash", exc |-> None]]
        BY <1>7, <3>2 DEF Crash
      <4> QED
        BY <1>1, <4>1, <4>2, <4>3, ExceptSeq
    <3> QED
      BY <3>1, <3>2
  <2>7. process'.up = FALSE
    BY <1>7 DEF Crash, Down
  <2>8. process'.up \in BOOLEAN
    BY <2>7
  <2>9. /\ UNCHANGED << starts, factories, calls, received, faults >>
        /\ loaded' = {} /\ stage' = "idle" /\ attempt' = 1 /\ failure' = None
    BY <1>7 DEF Crash
  <2> QED
    BY <1>1, <2>4, <2>5, <2>6, <2>7, <2>8, <2>9 DEF AdapterTypeOK, Stage
<1>8. CASE UNCHANGED vars
  BY <1>8 DEF vars, AdapterTypeOK
<1> QED
  BY <1>2, <1>3, <1>4, <1>5, <1>6, <1>7, <1>8, Steps

------------------------------------------------------------------------------
\* What a step adds to the histories.

\* A fault that is noted is the last; its call is the one in progress.
LEMMA Noted ==
  ASSUME AdapterTypeOK, NEW at, NEW exc, Note(at, exc)
  PROVE  /\ Len(faults') = Len(faults) + 1 /\ Len(faults') \in DOMAIN faults'
         /\ DOMAIN faults' = DOMAIN faults \cup {Len(faults')}
         /\ Len(faults') \notin DOMAIN faults /\ faults' # << >>
         /\ faults'[Len(faults')] = Fault(at, exc)
         /\ \A k \in DOMAIN faults : faults'[k] = faults[k] /\ k < Len(faults')
         /\ Fault(at, exc).call = Current /\ Fault(at, exc).at = at
         /\ Fault(at, exc).exc = exc
<1> DEFINE S == FaultRecord(Current) \cup {Fault(at, exc)}
           n == Len(faults) + 1
<1>1. faults \in Seq(S) /\ Fault(at, exc) \in S /\ Len(faults) \in Nat
        /\ DOMAIN faults = 1 .. Len(faults)
  BY Histories, SeqMonotonic DEF AdapterTypeOK, Current
<1>2. faults' = Append(faults, Fault(at, exc))
  BY DEF Note
<1> HIDE DEF S
<1>3. /\ Len(faults') = n /\ DOMAIN faults' = 1 .. n
      /\ faults'[n] = Fault(at, exc) /\ faults' # << >>
      /\ \A k \in 1 .. Len(faults) : faults'[k] = faults[k]
  BY <1>1, <1>2, AppendProperties, LenProperties, EmptySeq
<1> QED
  BY <1>1, <1>3 DEF Fault

\* What a failing, a retrying and a passing step do to the faults of every call.
LEMMA FaultsAfter ==
  ASSUME AdapterTypeOK, CallFacts, Working
  PROVE  /\ \A c : c # Current => FaultsOf(c)' = FaultsOf(c)
         /\ FaultsOf(Current) \subseteq FaultsOf(Current)'
         /\ \A k \in DOMAIN faults : k \in DOMAIN faults' /\ faults'[k] = faults[k]
<1>1. UNCHANGED calls /\ Current' = Current
  BY WorkingStep DEF Current
<1>2. CASE Passes
  BY <1>1, <1>2 DEF Passes, FaultsOf
<1>3. ASSUME NEW at, NEW exc, Note(at, exc)
      PROVE  /\ \A c : c # Current => FaultsOf(c)' = FaultsOf(c)
             /\ FaultsOf(Current) \subseteq FaultsOf(Current)'
             /\ \A k \in DOMAIN faults : k \in DOMAIN faults' /\ faults'[k] = faults[k]
  BY <1>1, <1>3, Noted DEF FaultsOf
<1>4. CASE Fails \/ Retries
  BY <1>3, <1>4 DEF Fails, Retries, FailsWith
<1> QED
  BY <1>2, <1>4, FaultStep

\* A call that is received is the newest, and nothing is in the histories of it.
LEMMA ReceivedCall ==
  ASSUME AdapterTypeOK, NEW name \in Names, NEW tool \in Tool, Receive(name, tool)
  PROVE  /\ Current' = Current + 1 /\ Current \in Nat
         /\ DOMAIN calls' = 1 .. Current + 1 /\ DOMAIN answers' = 1 .. Current + 1
         /\ \A c \in 1 .. Current : calls'[c] = calls[c] /\ answers'[c] = answers[c]
         /\ calls'[Current + 1] = [ connection_name |-> name, tool |-> tool,
              target |-> process.config[name], env |-> process.env ]
         /\ answers'[Current + 1] = None
         /\ \A i \in DOMAIN adapters : adapters[i].call \in 1 .. Current
         /\ \A i \in DOMAIN received : received[i].call \in 1 .. Current
         /\ \A k \in DOMAIN faults : faults[k].call \in 1 .. Current
         /\ FaultsOf(Current + 1) = {}
         /\ \A c : FaultsOf(c)' = FaultsOf(c)
         /\ UNCHANGED << process, adapters, received, faults, failure, factories >>
<1> DEFINE r == [ connection_name |-> name, tool |-> tool,
                  target |-> process.config[name], env |-> process.env ]
           S == CallRecord \cup {r}
           n == Current
<1>1. /\ n \in Nat /\ Len(calls) = n /\ Len(answers) = n
      /\ calls \in Seq(S) /\ answers \in Seq(AnswerRecord \cup {None}) /\ r \in S
  BY Histories, SeqMonotonic DEF AdapterTypeOK, Current
<1>2. calls' = Append(calls, r) /\ answers' = Append(answers, None)
        /\ UNCHANGED << process, adapters, received, faults, failure, factories >>
  BY DEF Receive
<1> HIDE DEF r, S, n
<1>3. /\ Len(calls') = n + 1 /\ DOMAIN calls' = 1 .. n + 1 /\ calls'[n + 1] = r
      /\ \A c \in 1 .. n : calls'[c] = calls[c]
  BY <1>1, <1>2, AppendProperties, LenProperties
<1>4. /\ DOMAIN answers' = 1 .. n + 1 /\ answers'[n + 1] = None
      /\ \A c \in 1 .. n : answers'[c] = answers[c]
  BY <1>1, <1>2, AppendProperties, LenProperties
<1>5. /\ \A i \in DOMAIN adapters : adapters[i].call \in 1 .. n
      /\ \A i \in DOMAIN received : received[i].call \in 1 .. n
      /\ \A k \in DOMAIN faults : faults[k].call \in 1 .. n
  BY Histories DEF AdapterRecord, ReceivedRecord, FaultRecord, n
<1>6. FaultsOf(n + 1) = {} /\ \A c : FaultsOf(c)' = FaultsOf(c)
  BY <1>1, <1>2, <1>5 DEF FaultsOf
<1> QED
  BY <1>1, <1>2, <1>3, <1>4, <1>5, <1>6 DEF n, r, Current

\* An answered call gets its answer, the others keep theirs.
LEMMA AnsweredCall ==
  ASSUME AdapterTypeOK, CallFacts, stage # "idle", NEW a,
         answers' = [answers EXCEPT ![Current] = a]
  PROVE  /\ DOMAIN answers' = DOMAIN answers /\ answers'[Current] = a
         /\ \A c \in DOMAIN answers : c # Current => answers'[c] = answers[c]
<1>1. answers \in Seq(AnswerRecord \cup {None}) /\ DOMAIN answers = 1 .. Current
        /\ Current \in 1 .. Current
  BY Histories, CallOpen DEF AdapterTypeOK
<1> QED
  BY <1>1

------------------------------------------------------------------------------
\* What the steps of a call may count on.

LEMMA CallFactsStep ==
  ASSUME AdapterTypeOK, CallFacts, [Next]_vars
  PROVE  CallFacts'
<1>1. CASE Start \/ End \/ Crash
  BY <1>1 DEF Start, End, Crash, CallFacts
<1>2. ASSUME NEW name \in Names, NEW tool \in Tool, Receive(name, tool)
      PROVE  CallFacts'
  <2>1. /\ calls' # << >> /\ answers'[Current'] = None
        /\ Call' = [ connection_name |-> name, tool |-> tool,
                     target |-> process.config[name], env |-> process.env ]
    BY <1>2, ReceivedCall DEF Call, Receive
  <2>2. process.up /\ name \in DOMAIN process.config /\ process' = process
          /\ stage' = "resolving"
    BY <1>2 DEF Receive
  <2>3. Target' = process.config[name]
    BY <2>1, <2>2 DEF Target
  <2> QED
    BY <2>1, <2>2, <2>3 DEF CallFacts, Equipped, Connected
<1>3. CASE Working
  <2>1. /\ UNCHANGED << process, calls, answers >> /\ stage # "idle"
        /\ Call' = Call /\ Target' = Target /\ Current' = Current
    BY <1>3, WorkingStep DEF Call, Target, Current
  <2>2. ASSUME stage' \in Equipped \cup {"loading", "attempting"}
        PROVE  stage \in Equipped \cup {"loading", "attempting"}
               \/ (stage = "resolving" /\ secrets_error(Target, process.env) = None)
    BY <1>3, <2>2 DEF Working, Preparing, OnConnection, ResolveSecrets, FindFactory,
         ImportFails, FactoryDoesNotFit, FactoryRaises, FactoryReturnsSomething,
         ConnectFails, FactoryBuilds, Connect, SwitchShowplanOn, SwitchShowplanOnFails,
         StatementRaises, SwitchShowplanOff, SwitchShowplanOffFails, CloseConnection,
         SendStatement, StatementReturns, FailNow, Equipped, Connected
  <2>3. secrets_error(Target, process.env) = None => unresolved(Target, process.env) = {}
    BY <2>1, CallOpen, SecretsError
  <2>4. stage' \in Equipped \cup {"loading", "attempting"} =>
          unresolved(Target, process.env) = {}
    BY <2>1, <2>2, <2>3 DEF CallFacts
  <2>5. unresolved(Target, process.env)' = unresolved(Target, process.env)
    BY <2>1
  <2> QED
    BY <2>1, <2>4, <2>5 DEF CallFacts
<1>4. ASSUME NEW i \in DOMAIN adapters, Collect(i) PROVE CallFacts'
  <2>1. UNCHANGED << process, calls, answers, stage >>
    BY <1>4 DEF Collect
  <2> QED
    BY <2>1 DEF CallFacts, Call, Target, Current
<1>5. CASE UNCHANGED vars
  BY <1>5 DEF vars, CallFacts, Call, Target, Current
<1> QED
  BY <1>1, <1>2, <1>3, <1>4, <1>5, Steps

\* Collecting an adapter leaves that of the call in progress alone.
LEMMA CollectedAdapter ==
  ASSUME AdapterTypeOK, NEW i \in DOMAIN adapters, Collect(i)
  PROVE  /\ Len(adapters') = Len(adapters) /\ DOMAIN adapters' = DOMAIN adapters
         /\ adapters'[i].pool = "empty"
         /\ \A j \in DOMAIN adapters :
              /\ adapters'[j].call = adapters[j].call
              /\ adapters'[j].config = adapters[j].config
              /\ adapters'[j].secrets = adapters[j].secrets
              /\ adapters'[j].showplan = adapters[j].showplan
              /\ j # i => adapters'[j] = adapters[j]
         /\ stage # "idle" => adapters[i].call # Current
         /\ UNCHANGED << process, stage, calls, failure, received, faults, answers,
                         factories >>
<1> DEFINE e == [adapters[i] EXCEPT !.collected = TRUE, !.pool = "empty", !.alive = FALSE]
<1>1. adapters[i] \in AdapterRecord(Current) /\ i \in 1 .. Len(adapters)
        /\ adapters \in Seq(AdapterRecord(Current))
  BY Histories DEF AdapterTypeOK, Current
<1>2. /\ e \in AdapterRecord(Current) /\ e.pool = "empty" /\ e.call = adapters[i].call
      /\ e.showplan = adapters[i].showplan /\ e.config = adapters[i].config
      /\ e.secrets = adapters[i].secrets
  BY <1>1 DEF AdapterRecord
<1>3. adapters' = [adapters EXCEPT ![i] = e]
  BY DEF Collect
<1> HIDE DEF e
<1>4. /\ Len(adapters') = Len(adapters) /\ adapters' \in Seq(AdapterRecord(Current))
      /\ \A j \in 1 .. Len(adapters) :
           adapters'[j] = IF j = i THEN e ELSE adapters[j]
  BY <1>1, <1>2, <1>3, ExceptSeq
<1>5. DOMAIN adapters' = DOMAIN adapters /\ DOMAIN adapters = 1 .. Len(adapters)
  BY <1>1, <1>4, LenProperties
<1> QED
  BY <1>1, <1>2, <1>4, <1>5 DEF Collect

LEMMA AdapterFactsStep ==
  ASSUME AdapterTypeOK, CallFacts, AdapterFacts, [Next]_vars
  PROVE  AdapterFacts'
<1>1. CASE Start \/ End \/ Crash
  <2>1. stage' = "idle"
    BY <1>1 DEF Start, End, Crash, CallFacts
  <2> QED
    BY <2>1 DEF AdapterFacts, Building, Equipped, Connected
<1>2. ASSUME NEW name \in Names, NEW tool \in Tool, Receive(name, tool)
      PROVE  AdapterFacts'
  <2>1. stage' = "resolving" /\ \A i \in DOMAIN adapters' : adapters'[i].call # Current'
    BY <1>2, ReceivedCall DEF Receive
  <2> QED
    BY <2>1 DEF AdapterFacts, Building, Equipped, Connected
<1>3. CASE Working
  <2>1. /\ UNCHANGED << process, calls >> /\ stage # "idle"
        /\ Call' = Call /\ Target' = Target /\ Current' = Current
    BY <1>3, WorkingStep DEF Call, Target, Current
  <2>2. CASE Preparing
    <3>1. /\ UNCHANGED adapters
          /\ stage' = "ending" \/ (stage \in Building /\ stage' \in Building)
      BY <2>2, WorkingStep, <1>3
         DEF Preparing, ResolveSecrets, FindFactory, ImportFails, FactoryDoesNotFit,
             FactoryRaises, FactoryReturnsSomething, ConnectFails, FailNow, Building
    <3> QED
      BY <2>1, <3>1 DEF AdapterFacts, Building, Equipped, Connected
  <2>3. CASE FactoryBuilds
    <3>1. PICK e \in AdapterRecord(Current) :
            adapters' = Append(adapters, e) /\ Built(e)
      BY <2>3, BuildStep
    <3>2. adapters' # << >> /\ Latest' = e /\ stage' = "connecting"
      <4>1. adapters \in Seq(AdapterRecord(Current))
        BY DEF AdapterTypeOK, Current
      <4>2. Len(adapters') = Len(adapters) + 1 /\ adapters'[Len(adapters) + 1] = e
              /\ adapters' # << >>
        BY <3>1, <4>1, AppendProperties
      <4> QED
        BY <2>3, <4>2, BuildStep DEF Latest
    <3> QED
      BY <2>1, <3>1, <3>2 DEF AdapterFacts, Built, Building, Equipped, Connected
  <2>4. CASE OnConnection
    <3>1. PICK e \in AdapterRecord(Current) :
            adapters' = [adapters EXCEPT ![Len(adapters)] = e] /\ Session(e)
      BY <2>4, ConnectionStep
    <3>2. adapters # << >> /\ Latest.call = Current
      BY <2>4 DEF AdapterFacts, OnConnection, Connect, SwitchShowplanOn,
           SwitchShowplanOnFails, StatementRaises, SwitchShowplanOff,
           SwitchShowplanOffFails, CloseConnection, Equipped, Connected
    <3>3. adapters' # << >> /\ Latest' = e
      BY <3>1, <3>2, LatestSet
    <3>4. stage' # "ending" => Latest'.call = Current' /\ ~Latest'.collected
                               /\ Latest'.pool = "in_use" /\ stage' \in Connected
      BY <2>1, <2>4, <3>1, <3>2, <3>3
         DEF Session, OnConnection, Connect, SwitchShowplanOn,
             SwitchShowplanOnFails, StatementRaises, SwitchShowplanOff,
             SwitchShowplanOffFails, CloseConnection, Connected, FailNow, AfterStatement
    <3>5. /\ stage' \in {"switching", "restoring"} => switches(Target.type, Call.tool)
          /\ stage' = "switching" => ~Latest'.showplan
          /\ stage' \in {"sending", "executing"} =>
               Latest'.showplan = switches(Target.type, Call.tool)
      <4>1. /\ switches(Target.type, Call.tool) \in BOOLEAN /\ e.showplan \in BOOLEAN
        BY DEF switches, AdapterRecord
      <4>2. CASE Connect
        <5>1. /\ ~e.showplan
              /\ stage' = IF switches(Target.type, Call.tool) THEN "switching" ELSE "sending"
          BY <3>1, <4>2 DEF Session, Connect, SwitchShowplanOn, SwitchShowplanOnFails,
             StatementRaises, SwitchShowplanOffFails, CloseConnection
        <5> QED
          BY <3>3, <4>1, <5>1
      <4>3. CASE SwitchShowplanOn
        <5>1. /\ e.showplan /\ stage' = "sending" /\ switches(Target.type, Call.tool)
          BY <3>1, <4>3 DEF AdapterFacts, Session, Connect, SwitchShowplanOn,
             SwitchShowplanOnFails, StatementRaises, SwitchShowplanOffFails,
             SwitchShowplanOff, CloseConnection, FailNow
        <5> QED
          BY <3>3, <4>1, <5>1
      <4>4. CASE StatementRaises
        <5>1. stage' = IF switches(Target.type, Call.tool) THEN "restoring" ELSE "closing"
          BY <4>4 DEF StatementRaises, FailNow, AfterStatement
        <5> QED
          BY <5>1
      <4>5. CASE \/ SwitchShowplanOnFails \/ SwitchShowplanOff
                 \/ SwitchShowplanOffFails \/ CloseConnection
        BY <4>5 DEF SwitchShowplanOnFails, SwitchShowplanOff, SwitchShowplanOffFails,
             CloseConnection, FailNow
      <4> QED
        BY <2>4, <4>2, <4>3, <4>4, <4>5 DEF OnConnection
    <3>6. ASSUME stage' = "closing", Latest'.showplan
          PROVE  \E k \in FaultsOf(Current)' : faults'[k].at = "off"
      <4>1. SwitchShowplanOffFails
        BY <3>1, <3>3, <3>6 DEF AdapterFacts, Session, Connect, SwitchShowplanOn,
             SwitchShowplanOnFails, StatementRaises, SwitchShowplanOff,
             CloseConnection, FailNow, AfterStatement
      <4>2. PICK exc : Note("off", exc)
        BY <4>1 DEF SwitchShowplanOffFails, FailNow
      <4> QED
        BY <2>1, <4>2, Noted DEF FaultsOf
    <3> QED
      BY <2>1, <3>3, <3>4, <3>5, <3>6
         DEF AdapterFacts, Building, Equipped, Connected
  <2>5. CASE SendStatement
    <3>1. UNCHANGED << adapters, faults >> /\ stage = "sending" /\ stage' = "executing"
      BY <2>5 DEF SendStatement
    <3> QED
      BY <2>1, <3>1 DEF AdapterFacts, Latest, Building, Equipped, Connected
  <2>6. CASE StatementReturns
    <3>1. UNCHANGED << adapters, faults >> /\ stage = "executing"
            /\ stage' = IF switches(Target.type, Call.tool) THEN "restoring" ELSE "closing"
      BY <2>6 DEF StatementReturns, AfterStatement
    <3> QED
      BY <2>1, <3>1 DEF AdapterFacts, Latest, Building, Equipped, Connected
  <2> QED
    BY <1>3, <2>2, <2>3, <2>4, <2>5, <2>6 DEF Working
<1>4. ASSUME NEW i \in DOMAIN adapters, Collect(i) PROVE AdapterFacts'
  <2>1. UNCHANGED << process, stage, calls, faults >> /\ Current' = Current
          /\ Call' = Call /\ Target' = Target
    BY <1>4, CollectedAdapter DEF Current, Call, Target
  <2>2. CASE stage \in Building
    BY <1>4, <2>1, <2>2, CollectedAdapter
       DEF AdapterFacts, Building, Equipped, Connected
  <2>3. CASE stage \in Equipped
    <3>1. adapters # << >> /\ Latest.call = Current
      BY <2>3 DEF AdapterFacts
    <3>2. Len(adapters) \in DOMAIN adapters /\ adapters[Len(adapters)].call = Current
            /\ stage # "idle"
      BY <2>3, <3>1, LatestAdapter DEF Latest, Equipped, Connected
    <3>3. Latest' = Latest /\ adapters' # << >>
      BY <1>4, <3>1, <3>2, CollectedAdapter DEF Latest
    <3> QED
      BY <2>1, <2>3, <3>3 DEF AdapterFacts, Building, Equipped, Connected, FaultsOf
  <2>4. CASE stage \notin Building \cup Equipped
    BY <2>1, <2>4 DEF AdapterFacts, Building, Equipped, Connected
  <2> QED
    BY <2>2, <2>3, <2>4
<1>5. CASE UNCHANGED vars
  BY <1>5 DEF vars, AdapterFacts, Latest, Call, Target, Current, FaultsOf
<1> QED
  BY <1>1, <1>2, <1>3, <1>4, <1>5, Steps

------------------------------------------------------------------------------
\* The properties, step by step.

\* The statement that is sent.
LEMMA SentStatement ==
  ASSUME AdapterTypeOK, CallFacts, AdapterFacts, SendStatement
  PROVE  /\ UNCHANGED << adapters, calls, process >> /\ stage = "sending"
         /\ DOMAIN received' = DOMAIN received \cup {Len(received) + 1}
         /\ Len(received) + 1 \notin DOMAIN received
         /\ \A i \in DOMAIN received : received'[i] = received[i]
         /\ received'[Len(received) + 1].call = Current
         /\ received'[Len(received) + 1].adapter = Len(adapters)
         /\ received'[Len(received) + 1].plan <=> Call.tool = "explain_query"
<1> DEFINE plan == Latest.showplan \/ prefixed(Target.type, Call.tool)
           s    == [ call |-> Current, adapter |-> Len(adapters), plan |-> plan ]
           S    == ReceivedRecord(Current, Len(adapters)) \cup {s}
           n    == Len(received) + 1
<1>1. /\ received \in Seq(S) /\ s \in S /\ Len(received) \in Nat
      /\ DOMAIN received = 1 .. Len(received)
  BY Histories, SeqMonotonic DEF AdapterTypeOK, Current
<1>2. received' = Append(received, s)
  BY DEF SendStatement
<1>3. plan <=> Call.tool = "explain_query"
  BY DEF SendStatement, AdapterFacts, switches, prefixed
<1>4. s.call = Current /\ s.adapter = Len(adapters) /\ s.plan = plan
  OBVIOUS
<1> HIDE DEF plan, s, S
<1>5. /\ DOMAIN received' = 1 .. n /\ received'[n] = s
      /\ \A i \in 1 .. Len(received) : received'[i] = received[i]
  BY <1>1, <1>2, AppendProperties, LenProperties
<1> QED
  BY <1>1, <1>3, <1>4, <1>5 DEF SendStatement

LEMMA PlansStep ==
  ASSUME AdapterTypeOK, CallFacts, AdapterFacts, PlansAreNotExecuted, [Next]_vars
  PROVE  PlansAreNotExecuted'
<1>1. CASE SendStatement
  BY <1>1, SentStatement DEF PlansAreNotExecuted, Call
<1>2. ASSUME NEW name \in Names, NEW tool \in Tool, Receive(name, tool)
      PROVE  PlansAreNotExecuted'
  <2>1. SUFFICES ASSUME NEW i \in DOMAIN received
                 PROVE  received[i].plan <=>
                          calls'[received[i].call].tool = "explain_query"
    BY <1>2, ReceivedCall DEF PlansAreNotExecuted
  <2>2. calls'[received[i].call] = calls[received[i].call]
    BY <1>2, ReceivedCall
  <2> QED
    BY <2>2 DEF PlansAreNotExecuted
<1>3. ASSUME UNCHANGED << received, calls >> PROVE PlansAreNotExecuted'
  BY <1>3 DEF PlansAreNotExecuted
<1>4. CASE Working /\ ~SendStatement
  BY <1>3, <1>4, WorkingStep
<1>5. CASE Start \/ End \/ Crash \/ (\E i \in DOMAIN adapters : Collect(i)) \/ UNCHANGED vars
  BY <1>3, <1>5 DEF Start, End, Crash, Collect, vars
<1> QED
  BY <1>1, <1>2, <1>4, <1>5, Steps

\* What became of the adapters: nothing, one more, or another state of their
\* connections.
LEMMA AdaptersAfter ==
  ASSUME AdapterTypeOK, CallFacts, AdapterFacts, [Next]_vars
  PROVE  \/ FactoryBuilds /\ \E e \in AdapterRecord(Current) :
              /\ adapters' = Append(adapters, e) /\ Built(e)
              /\ DOMAIN adapters' = DOMAIN adapters \cup {Len(adapters) + 1}
              /\ Len(adapters') = Len(adapters) + 1
              /\ Len(adapters) + 1 \notin DOMAIN adapters
              /\ adapters'[Len(adapters) + 1] = e
              /\ \A i \in DOMAIN adapters : adapters'[i] = adapters[i]
         \/ /\ DOMAIN adapters' = DOMAIN adapters /\ Len(adapters') = Len(adapters)
            /\ \A i \in DOMAIN adapters :
                 /\ adapters'[i].call = adapters[i].call
                 /\ adapters'[i].config = adapters[i].config
                 /\ adapters'[i].secrets = adapters[i].secrets
<1>1. CASE FactoryBuilds
  <2>1. PICK e \in AdapterRecord(Current) :
          adapters' = Append(adapters, e) /\ Built(e)
    BY <1>1, BuildStep
  <2>2. adapters \in Seq(AdapterRecord(Current)) /\ Len(adapters) \in Nat
          /\ DOMAIN adapters = 1 .. Len(adapters)
    BY Histories DEF AdapterTypeOK, Current
  <2>3. /\ Len(adapters') = Len(adapters) + 1 /\ DOMAIN adapters' = 1 .. Len(adapters) + 1
        /\ adapters'[Len(adapters) + 1] = e
        /\ \A i \in 1 .. Len(adapters) : adapters'[i] = adapters[i]
    BY <2>1, <2>2, AppendProperties, LenProperties
  <2>4. /\ DOMAIN adapters' = DOMAIN adapters \cup {Len(adapters) + 1}
        /\ Len(adapters) + 1 \notin DOMAIN adapters
    BY <2>2, <2>3
  <2> QED
    BY <1>1, <2>1, <2>2, <2>3, <2>4, Zenon
<1>2. CASE OnConnection
  <2>1. PICK e \in AdapterRecord(Current) :
          adapters' = [adapters EXCEPT ![Len(adapters)] = e] /\ Session(e)
    BY <1>2, ConnectionStep
  <2>2. adapters # << >>
    BY <1>2 DEF AdapterFacts, OnConnection, Connect, SwitchShowplanOn,
         SwitchShowplanOnFails, StatementRaises, SwitchShowplanOff,
         SwitchShowplanOffFails, CloseConnection, Equipped, Connected
  <2>3. adapters'[Len(adapters)] = e
    BY <2>1, <2>2, LatestSet, LatestAdapter DEF Latest
  <2> QED
    BY <2>1, <2>2, <2>3, LatestSet DEF Session, Latest
<1>3. CASE \E i \in DOMAIN adapters : Collect(i)
  BY <1>3, CollectedAdapter
<1>4. CASE Crash
  <2> DEFINE f(i) == [adapters[i] EXCEPT !.collected = TRUE, !.pool = "empty", !.alive = FALSE]
  <2>1. DOMAIN adapters = 1 .. Len(adapters) /\ Len(adapters) \in Nat
    BY Histories
  <2>2. \A i \in 1 .. Len(adapters) : f(i) \in AdapterRecord(Current)
          /\ f(i).call = adapters[i].call /\ f(i).config = adapters[i].config
          /\ f(i).secrets = adapters[i].secrets
    BY Histories DEF AdapterRecord
  <2>3. adapters' = [i \in 1 .. Len(adapters) |-> f(i)]
    BY <1>4, <2>1 DEF Crash
  <2> HIDE DEF f
  <2>4. adapters' \in [1 .. Len(adapters) -> AdapterRecord(Current)]
    BY <2>2, <2>3
  <2>5. Len(adapters') = Len(adapters)
    BY <2>1, <2>4, SeqDef, LenProperties
  <2> QED
    BY <2>1, <2>2, <2>3, <2>5
<1>5. CASE UNCHANGED adapters
  BY <1>5
<1>6. CASE Working /\ ~FactoryBuilds /\ ~OnConnection
  BY <1>5, <1>6, WorkingStep DEF Working
<1>7. CASE \/ Start \/ End \/ UNCHANGED vars
           \/ \E name \in Names, tool \in Tool : Receive(name, tool)
  BY <1>5, <1>7 DEF Start, End, Receive, vars
<1> QED
  BY <1>1, <1>2, <1>3, <1>4, <1>6, <1>7, Steps

\* No step gives an adapter or a statement another call, and a call keeps the
\* connection and the environment it was received with.
LEMMA CallsKept ==
  ASSUME AdapterTypeOK, CallFacts, [Next]_vars
  PROVE  /\ \A c \in 1 .. Current : calls'[c] = calls[c]
         /\ UNCHANGED factories
<1>1. CASE \E name \in Names, tool \in Tool : Receive(name, tool)
  BY <1>1, ReceivedCall
<1>2. CASE Working
  BY <1>2, WorkingStep
<1>3. CASE Start \/ End \/ Crash \/ (\E i \in DOMAIN adapters : Collect(i)) \/ UNCHANGED vars
  BY <1>3 DEF Start, End, Crash, Collect, vars
<1> QED
  BY <1>1, <1>2, <1>3, Steps

LEMMA OneCallStep ==
  ASSUME AdapterTypeOK, CallFacts, AdapterFacts, OneCallPerAdapter, [Next]_vars
  PROVE  OneCallPerAdapter'
<1>1. ASSUME NEW i \in DOMAIN adapters', NEW j \in DOMAIN adapters',
             adapters'[i].call = adapters'[j].call
      PROVE  i = j
  <2>1. CASE FactoryBuilds
    <3>1. \A k \in DOMAIN adapters : adapters[k].call # Current
      BY <2>1 DEF FactoryBuilds, AdapterFacts, Building
    <3> QED
      BY <1>1, <3>1, AdaptersAfter DEF Built, OneCallPerAdapter
  <2>2. CASE ~FactoryBuilds
    BY <1>1, <2>2, AdaptersAfter DEF OneCallPerAdapter
  <2> QED
    BY <2>1, <2>2
<1>2. \A i \in DOMAIN adapters : i \in DOMAIN adapters' /\ adapters'[i].call = adapters[i].call
  BY AdaptersAfter
<1>3. \A i \in DOMAIN received : received[i].adapter \in DOMAIN adapters
  BY Histories DEF ReceivedRecord
<1>4. ASSUME NEW i \in DOMAIN received'
      PROVE  adapters'[received'[i].adapter].call = received'[i].call
  <2>1. CASE SendStatement
    <3>1. Latest.call = Current
      BY <2>1 DEF SendStatement, AdapterFacts, Equipped, Connected
    <3> QED
      BY <1>4, <2>1, <3>1, SentStatement DEF OneCallPerAdapter, Latest
  <2>2. CASE ~SendStatement
    <3>1. UNCHANGED received
      BY <2>2, Steps, WorkingStep DEF Start, Receive, End, Collect, Crash, vars
    <3> QED
      BY <1>2, <1>3, <1>4, <3>1 DEF OneCallPerAdapter
  <2> QED
    BY <2>1, <2>2
<1> QED
  BY <1>1, <1>4 DEF OneCallPerAdapter

LEMMA WholeStep ==
  ASSUME AdapterTypeOK, CallFacts, AdapterFacts, BuiltinAdaptersAreWhole, [Next]_vars
  PROVE  BuiltinAdaptersAreWhole'
<1>1. SUFFICES ASSUME NEW i \in DOMAIN adapters'
               PROVE  LET c == calls'[adapters'[i].call]
                      IN  /\ unresolved(c.target, c.env) = {}
                          /\ IsBuiltin(c.target.type) =>
                               /\ adapters'[i].config = "config"
                               /\ adapters'[i].secrets = "secrets"
  BY CallsKept DEF BuiltinAdaptersAreWhole, IsBuiltin
<1>2. CASE i \in DOMAIN adapters
  <2>1. adapters[i].call \in 1 .. Current
    BY <1>2, Histories DEF AdapterRecord
  <2>2. calls'[adapters[i].call] = calls[adapters[i].call]
    BY <2>1, CallsKept
  <2>3. /\ adapters'[i].call = adapters[i].call
        /\ adapters'[i].config = adapters[i].config
        /\ adapters'[i].secrets = adapters[i].secrets
    BY <1>2, AdaptersAfter
  <2> QED
    BY <1>2, <2>2, <2>3 DEF BuiltinAdaptersAreWhole
<1>3. CASE i \notin DOMAIN adapters
  <2>1. FactoryBuilds /\ Built(adapters'[i])
    BY <1>1, <1>3, AdaptersAfter
  <2>2. /\ unresolved(Target, process.env) = {} /\ UNCHANGED calls
        /\ Call.target = Target /\ Call.env = process.env
    BY <2>1 DEF FactoryBuilds, CallFacts
  <2> QED
    BY <2>1, <2>2 DEF Built, Call
<1> QED
  BY <1>2, <1>3

LEMMA ConnectionsStep ==
  ASSUME AdapterTypeOK, CallFacts, AdapterFacts, ConnectionsComeBack, [Next]_vars
  PROVE  ConnectionsComeBack'
<1> DEFINE Used(i, a) == a.pool = "in_use" =>
                           /\ i = Len(adapters') /\ a.call = Current'
                           /\ stage' \in Connected
           Explaining(c) == \E k \in DOMAIN faults' :
                              faults'[k].call = c /\ faults'[k].at = "off"
           Idle(a) == a.pool = "idle" =>
                        /\ process'.up /\ calls'[a.call].target.type # "databricks"
                        /\ a.showplan => Explaining(a.call)
<1>0. SUFFICES ASSUME NEW i \in DOMAIN adapters'
               PROVE  Used(i, adapters'[i]) /\ Idle(adapters'[i])
  BY DEF ConnectionsComeBack, Connected
<1>1. \A k \in DOMAIN faults : k \in DOMAIN faults' /\ faults'[k] = faults[k]
  <2>1. Working \/ UNCHANGED faults
    BY Steps DEF Start, Receive, End, Collect, Crash, vars
  <2> QED
    BY <2>1, FaultsAfter
<1>2. ASSUME NEW j \in DOMAIN adapters, process'.up = process.up PROVE Idle(adapters[j])
  <2>1. adapters[j].call \in 1 .. Current
    BY Histories DEF AdapterRecord
  <2>2. calls'[adapters[j].call] = calls[adapters[j].call]
    BY <2>1, CallsKept
  <2> QED
    BY <1>1, <1>2, <2>2 DEF ConnectionsComeBack
<1>3. ASSUME NEW j \in DOMAIN adapters, stage \notin Connected
      PROVE  adapters[j].pool # "in_use"
  BY <1>3 DEF ConnectionsComeBack, Connected
<1> HIDE DEF Used, Idle
<1>4. CASE Start
  <2>1. adapters' = adapters /\ stage \notin Connected /\ ~process.up
    BY <1>4 DEF Start, CallFacts, Connected
  <2>2. adapters[i].pool \notin {"in_use", "idle"}
    BY <1>0, <1>3, <2>1 DEF ConnectionsComeBack
  <2> QED
    BY <2>1, <2>2 DEF Used, Idle
<1>5. CASE End \/ (\E name \in Names, tool \in Tool : Receive(name, tool))
  <2>1. adapters' = adapters /\ stage \notin Connected /\ process' = process
    BY <1>5 DEF End, Receive, Connected
  <2> QED
    BY <1>0, <1>2, <1>3, <2>1 DEF Used
<1>6. CASE Working
  <2>1. process' = process /\ Current' = Current /\ UNCHANGED calls /\ stage # "idle"
    BY <1>6, WorkingStep DEF Current
  <2>2. CASE Preparing
    <3>1. adapters' = adapters /\ stage \notin Connected
      BY <1>6, <2>2, WorkingStep DEF Preparing, ResolveSecrets, FindFactory,
         ImportFails, FactoryDoesNotFit, FactoryRaises, FactoryReturnsSomething,
         ConnectFails, Connected
    <3> QED
      BY <1>0, <1>2, <1>3, <2>1, <3>1 DEF Used
  <2>3. CASE FactoryBuilds
    <3>1. stage \notin Connected
      BY <2>3 DEF FactoryBuilds, Connected
    <3>2. CASE i \in DOMAIN adapters
      <4>1. adapters'[i] = adapters[i]
        BY <2>3, <3>2, BuildStep, Histories
      <4> QED
        BY <1>2, <1>3, <2>1, <3>1, <3>2, <4>1 DEF Used
    <3>3. CASE i \notin DOMAIN adapters
      <4>1. adapters'[i].pool = "empty"
        BY <1>0, <3>3, AdaptersAfter DEF Built
      <4> QED
        BY <4>1 DEF Used, Idle
    <3> QED
      BY <3>2, <3>3
  <2>4. CASE OnConnection
    <3>1. PICK e \in AdapterRecord(Current) :
            adapters' = [adapters EXCEPT ![Len(adapters)] = e] /\ Session(e)
      BY <2>4, ConnectionStep
    <3>2. adapters # << >> /\ Latest.call = Current
      BY <2>4 DEF AdapterFacts, OnConnection, Connect, SwitchShowplanOn,
           SwitchShowplanOnFails, StatementRaises, SwitchShowplanOff,
           SwitchShowplanOffFails, CloseConnection, Equipped, Connected
    <3>3. /\ Len(adapters') = Len(adapters) /\ DOMAIN adapters' = DOMAIN adapters
          /\ \A j \in DOMAIN adapters : j # Len(adapters) => adapters'[j] = adapters[j]
          /\ adapters'[Len(adapters)] = e
      BY <3>1, <3>2, LatestSet, LatestAdapter DEF Latest
    <3>4. CASE i # Len(adapters)
      <4>1. adapters'[i] = adapters[i] /\ adapters[i].pool # "in_use"
        BY <1>0, <3>3, <3>4 DEF ConnectionsComeBack
      <4> QED
        BY <1>0, <1>2, <2>1, <3>3, <4>1 DEF Used
    <3>5. CASE i = Len(adapters)
      <4>1. e.pool = "in_use" => stage' \in Connected
        BY <3>1 DEF Session, Connect, SwitchShowplanOn,
           SwitchShowplanOnFails, StatementRaises, SwitchShowplanOff,
           SwitchShowplanOffFails, CloseConnection, FailNow, AfterStatement, Connected
      <4>2. Used(i, e)
        BY <2>1, <3>1, <3>2, <3>3, <3>5, <4>1 DEF Used, Session
      <4>3. ASSUME e.pool = "idle" PROVE Idle(e)
        <5>1. /\ CloseConnection /\ Target.type # "databricks"
              /\ e.showplan = Latest.showplan /\ stage = "closing"
          BY <3>1, <4>3 DEF Session, CloseConnection
        <5>2. /\ calls'[e.call].target = Target /\ process'.up
          BY <2>1, <3>1, <3>2 DEF Session, CallFacts, Call
        <5>3. e.showplan => Explaining(e.call)
          BY <1>1, <3>1, <3>2, <5>1 DEF AdapterFacts, Session, FaultsOf
        <5> QED
          BY <5>1, <5>2, <5>3 DEF Idle
      <4> QED
        BY <3>3, <3>5, <4>2, <4>3 DEF Idle
    <3> QED
      BY <3>4, <3>5
  <2>5. CASE SendStatement \/ StatementReturns
    <3>1. adapters' = adapters /\ stage' \in Connected
      BY <2>5 DEF SendStatement, StatementReturns, AfterStatement, Connected
    <3> QED
      BY <1>0, <1>2, <2>1, <3>1 DEF Used, ConnectionsComeBack
  <2> QED
    BY <1>6, <2>2, <2>3, <2>4, <2>5 DEF Working
<1>7. ASSUME NEW j \in DOMAIN adapters, Collect(j)
      PROVE  Used(i, adapters'[i]) /\ Idle(adapters'[i])
  <2>1. process' = process /\ stage' = stage /\ Current' = Current
          /\ Len(adapters') = Len(adapters) /\ DOMAIN adapters' = DOMAIN adapters
    BY <1>7, CollectedAdapter DEF Current
  <2>2. CASE i = j
    BY <1>7, <2>2, CollectedAdapter DEF Used, Idle
  <2>3. CASE i # j
    <3>1. adapters'[i] = adapters[i] /\ i \in DOMAIN adapters
      BY <1>0, <1>7, <2>1, <2>3, CollectedAdapter
    <3> QED
      BY <1>2, <2>1, <3>1 DEF Used, ConnectionsComeBack, Connected
  <2> QED
    BY <2>2, <2>3
<1>8. CASE Crash
  <2>1. adapters' = [k \in DOMAIN adapters |->
          [adapters[k] EXCEPT !.collected = TRUE, !.pool = "empty", !.alive = FALSE]]
    BY <1>8 DEF Crash
  <2>2. i \in DOMAIN adapters /\ adapters[i] \in AdapterRecord(Current)
    BY <1>0, <2>1, Histories
  <2>3. adapters'[i].pool = "empty"
    BY <2>1, <2>2 DEF AdapterRecord
  <2> QED
    BY <2>3 DEF Used, Idle
<1>9. CASE UNCHANGED vars
  BY <1>0, <1>2, <1>9 DEF vars, Used, ConnectionsComeBack, Connected, Current
<1> QED
  BY <1>4, <1>5, <1>6, <1>7, <1>8, <1>9, Steps

\* A failure is not None.
LEMMA FaultIsSome ==
  ASSUME AdapterTypeOK, NEW at \in FaultPlace, NEW exc \in DbMcpError \cup RawError
  PROVE  Fault(at, exc) # None
BY Histories, CallsAssumption DEF Fault

\* A statement that was received stays received.
LEMMA ReceivedKept ==
  ASSUME AdapterTypeOK, CallFacts, AdapterFacts, [Next]_vars
  PROVE  \A i \in DOMAIN received : i \in DOMAIN received' /\ received'[i] = received[i]
<1>1. SendStatement \/ UNCHANGED received
  BY Steps, WorkingStep DEF Start, Receive, End, Collect, Crash, vars
<1> QED
  BY <1>1, SentStatement

LEMMA FaultFactsStep ==
  ASSUME AdapterTypeOK, CallFacts, AdapterFacts, FaultFacts, [Next]_vars
  PROVE  FaultFacts'
<1>1. CASE End \/ Crash
  BY <1>1 DEF End, Crash, FaultFacts
<1>2. ASSUME NEW name \in Names, NEW tool \in Tool, Receive(name, tool)
      PROVE  FaultFacts'
  <2>1. stage = "idle" /\ stage' = "resolving" /\ failure' = failure
    BY <1>2 DEF Receive
  <2>2. FaultsOf(Current)' = {}
    BY <1>2, ReceivedCall DEF FaultsOf
  <2> QED
    BY <2>1, <2>2 DEF FaultFacts
<1>3. CASE Start \/ (\E i \in DOMAIN adapters : Collect(i)) \/ UNCHANGED vars
  BY <1>3 DEF Start, Collect, vars, FaultFacts, FaultsOf, Current
<1>4. CASE Working
  <2>1. /\ UNCHANGED calls /\ Current' = Current /\ stage # "idle" /\ stage' # "idle"
    BY <1>4, WorkingStep DEF Current
  <2>2. CASE Passes
    <3>1. /\ UNCHANGED << failure, faults >> /\ FaultsOf(Current)' = FaultsOf(Current)
      BY <2>1, <2>2 DEF Passes, FaultsOf
    <3>2. /\ stage \in {"restoring", "closing"} => stage' \in {"closing", "ending"}
          /\ stage # "ending"
          /\ stage' = "restoring" => stage = "executing"
          /\ stage' \in {"restoring", "closing", "ending"} =>
               stage \in {"executing", "restoring", "closing"}
          /\ stage' = "executing" => SendStatement
      BY <1>4, <2>2 DEF Passes, Working, Preparing, OnConnection, ResolveSecrets, FindFactory,
         ImportFails, FactoryDoesNotFit, FactoryRaises, FactoryReturnsSomething,
         ConnectFails, FactoryBuilds, Connect, SwitchShowplanOn, SwitchShowplanOnFails,
         StatementRaises, SwitchShowplanOff, SwitchShowplanOffFails, CloseConnection,
         SendStatement, StatementReturns, FailNow, AfterStatement
    <3>3. ASSUME stage' \in {"executing", "restoring", "closing", "ending"}, failure = None
          PROVE  \E i \in DOMAIN received' : received'[i].call = Current
      <4>1. CASE SendStatement
        BY <4>1, SentStatement
      <4>2. CASE ~SendStatement
        <5>1. \E i \in DOMAIN received : received[i].call = Current
          BY <2>1, <2>2, <3>2, <3>3, <4>2 DEF FaultFacts
        <5> QED
          BY <5>1, ReceivedKept
      <4> QED
        BY <4>1, <4>2
    <3> QED
      BY <2>1, <3>1, <3>2, <3>3 DEF FaultFacts
  <2>3. CASE Fails
    <3>1. PICK at \in FaultPlace, exc \in DbMcpError \cup RawError :
            /\ FailsWith(at, exc)
            /\ \/ /\ at \notin {"statement", "off"} /\ stage \notin {"restoring", "closing"}
                  /\ stage' \in {"closing", "ending"}
               \/ /\ at = "statement" /\ stage = "executing"
                  /\ stage' \in {"restoring", "closing"}
               \/ at = "off" /\ stage = "restoring" /\ stage' = "closing"
      BY <2>3 DEF Fails
    <3>2. /\ failure' = Fault(at, exc) /\ failure' # None /\ failure'.call = Current
          /\ failure'.at = at /\ failure'.exc = exc /\ faults' # << >>
          /\ failure' = faults'[Len(faults')]
      BY <3>1, Noted, FaultIsSome DEF FailsWith
    <3>3. FaultsOf(Current)' \ {Len(faults')} = FaultsOf(Current)
            /\ \A k \in FaultsOf(Current) : faults'[k] = faults[k]
      BY <2>1, <3>1, Noted DEF FailsWith, FaultsOf
    <3>4. ASSUME NEW k \in FaultsOf(Current)
          PROVE  faults[k].at = "attempt" \/ (faults[k].at = "statement" /\ at = "off")
      <4>1. CASE failure = None
        BY <2>1, <3>4, <4>1 DEF FaultFacts
      <4>2. CASE failure # None
        <5>0. stage # "ending"
          BY <1>4 DEF Working, Preparing, OnConnection, ResolveSecrets, FindFactory,
            ImportFails, FactoryDoesNotFit, FactoryRaises, FactoryReturnsSomething,
            ConnectFails, FactoryBuilds, Connect, SwitchShowplanOn, SwitchShowplanOnFails,
            StatementRaises, SwitchShowplanOff, SwitchShowplanOffFails, CloseConnection,
            SendStatement, StatementReturns
        <5>1. stage = "restoring" /\ at = "off" /\ failure.at = "statement"
                /\ failure = faults[Len(faults)]
          BY <3>1, <4>2, <5>0 DEF FaultFacts
        <5> QED
          BY <3>4, <4>2, <5>1 DEF FaultFacts
      <4> QED
        BY <4>1, <4>2
    <3> QED
      BY <2>1, <3>1, <3>2, <3>3, <3>4 DEF FaultFacts
  <2>4. CASE Retries
    <3>1. Note("attempt", TypeErrorRaised) /\ UNCHANGED failure
            /\ stage = "attempting" /\ stage' = "attempting"
      BY <2>4 DEF Retries
    <3>2. \A k \in FaultsOf(Current)' : faults'[k].at = "attempt"
      BY <2>1, <3>1, Noted DEF FaultFacts, FaultsOf
    <3> QED
      BY <2>1, <3>1, <3>2 DEF FaultFacts
  <2> QED
    BY <1>4, <2>2, <2>3, <2>4, FaultStep
<1> QED
  BY <1>1, <1>2, <1>3, <1>4, Steps

\* The answer that is given is that of the last fault.
LEMMA MaskedStep ==
  ASSUME AdapterTypeOK, CallFacts, AdapterFacts, FaultFacts, FailuresAreNotMasked,
         [Next]_vars
  PROVE  FailuresAreNotMasked'
<1> DEFINE Told(c) ==
      /\ Failed(c) =>
           \E n \in FaultsOf(c) :
             /\ answers[c].at = faults[n].at
             /\ answers[c].exc = normalize_exception(faults[n].exc)
             /\ \A k \in FaultsOf(c) \ {n} :
                  /\ k < n
                  /\ \/ faults[k].at = "attempt"
                     \/ faults[k].at = "statement" /\ faults[n].at = "off"
      /\ answers[c] # None /\ answers[c].at = "reply" =>
           /\ \A k \in FaultsOf(c) : faults[k].at = "attempt"
           /\ \E i \in DOMAIN received : received[i].call = c
<1>1. FailuresAreNotMasked' <=> \A c \in DOMAIN answers' : Told(c)'
  BY DEF FailuresAreNotMasked
<1>2. \A c \in DOMAIN answers : Told(c)
  BY DEF FailuresAreNotMasked
<1>3. ASSUME NEW c \in DOMAIN answers, answers'[c] = answers[c],
             FaultsOf(c)' = FaultsOf(c), \A k \in FaultsOf(c) : faults'[k] = faults[k]
      PROVE  Told(c)'
  <2>1. \A i \in DOMAIN received : i \in DOMAIN received' /\ received'[i] = received[i]
    BY ReceivedKept
  <2>2. \A k \in FaultsOf(c) : faults'[k] = faults[k]
    BY <1>3
  <2>3. Told(c)
    BY <1>2
  <2> QED
    BY <1>3, <2>1, <2>3 DEF Failed
<1>4. ASSUME NEW c, answers'[c] = None \/ answers'[c].at = "crash" PROVE Told(c)'
  BY <1>4 DEF Failed
<1>5. CASE End
  <2> DEFINE a == IF failure = None THEN [at |-> "reply", exc |-> None]
                  ELSE [at |-> failure.at, exc |-> normalize_exception(failure.exc)]
  <2>1. /\ answers' = [answers EXCEPT ![Current] = a] /\ stage = "ending"
        /\ UNCHANGED << calls, faults, received >>
    BY <1>5 DEF End
  <2>2. /\ DOMAIN answers' = DOMAIN answers /\ answers'[Current] = a
        /\ \A c \in DOMAIN answers : c # Current => answers'[c] = answers[c]
    BY <2>1, AnsweredCall
  <2>3. \A c : FaultsOf(c)' = FaultsOf(c)
    BY <2>1 DEF FaultsOf
  <2>4. ASSUME NEW c \in DOMAIN answers, c = Current PROVE Told(c)'
    <3>1. CASE failure = None
      BY <2>1, <2>2, <2>3, <2>4, <3>1 DEF FaultFacts, Failed
    <3>2. CASE failure # None
      <4> DEFINE n == Len(faults)
      <4>1. /\ failure = faults[n] /\ failure.call = Current /\ faults # << >>
            /\ \A k \in FaultsOf(Current) \ {n} :
                 faults[k].at = "attempt" \/ (faults[k].at = "statement" /\ failure.at = "off")
        BY <3>2 DEF FaultFacts
      <4>2. n \in FaultsOf(c) /\ \A k \in FaultsOf(c) \ {n} : k < n
        <5>1. n \in Nat \ {0} /\ DOMAIN faults = 1 .. n
          BY <4>1, Histories, EmptySeq DEF AdapterTypeOK
        <5> QED
          BY <2>4, <4>1, <5>1 DEF FaultsOf
      <4>3. answers'[c].at = failure.at /\ answers'[c].exc = normalize_exception(failure.exc)
              /\ failure.at # "reply"
        BY <2>2, <2>4, <3>2 DEF AdapterTypeOK, FaultRecord, FaultPlace
      <4> HIDE DEF n
      <4> QED
        BY <2>1, <2>3, <2>4, <4>1, <4>2, <4>3 DEF Failed
    <3> QED
      BY <3>1, <3>2
  <2>5. ASSUME NEW c \in DOMAIN answers, c # Current PROVE Told(c)'
    BY <1>3, <2>1, <2>2, <2>3, <2>5
  <2> HIDE DEF Told
  <2> QED
    BY <1>1, <2>2, <2>4, <2>5
<1>6. CASE Crash
  <2>1. UNCHANGED << calls, faults, received >>
    BY <1>6 DEF Crash
  <2>2. \A c : FaultsOf(c)' = FaultsOf(c)
    BY <2>1 DEF FaultsOf
  <2>3. CASE stage = "idle"
    <3>1. answers' = answers
      BY <1>6, <2>3 DEF Crash
    <3> HIDE DEF Told
    <3> QED
      BY <1>1, <1>3, <2>1, <2>2, <3>1
  <2>4. CASE stage # "idle"
    <3>1. answers' = [answers EXCEPT ![Current] = [at |-> "crash", exc |-> None]]
      BY <1>6, <2>4 DEF Crash
    <3>2. /\ DOMAIN answers' = DOMAIN answers /\ answers'[Current].at = "crash"
          /\ \A c \in DOMAIN answers : c # Current => answers'[c] = answers[c]
      BY <2>4, <3>1, AnsweredCall
    <3> HIDE DEF Told
    <3>3. ASSUME NEW c \in DOMAIN answers PROVE Told(c)'
      BY <1>3, <1>4, <2>1, <2>2, <3>2
    <3> QED
      BY <1>1, <3>2, <3>3
  <2> QED
    BY <2>3, <2>4
<1>7. ASSUME NEW name \in Names, NEW tool \in Tool, Receive(name, tool)
      PROVE  FailuresAreNotMasked'
  <2>1. /\ DOMAIN answers = 1 .. Current /\ DOMAIN answers' = 1 .. Current + 1
        /\ Current \in Nat /\ answers'[Current + 1] = None
        /\ \A c \in 1 .. Current : answers'[c] = answers[c]
        /\ \A c : FaultsOf(c)' = FaultsOf(c)
        /\ UNCHANGED faults
    BY <1>7, ReceivedCall, Histories
  <2> HIDE DEF Told
  <2>2. ASSUME NEW c \in 1 .. Current PROVE Told(c)'
    BY <1>3, <2>1
  <2>3. ASSUME NEW c, c = Current + 1 PROVE Told(c)'
    BY <1>4, <2>1, <2>3
  <2> QED
    BY <1>1, <2>1, <2>2, <2>3
<1>8. CASE Working
  <2>1. UNCHANGED answers /\ answers[Current] = None
    BY <1>8, WorkingStep DEF CallFacts
  <2>2. \A c : c # Current => FaultsOf(c)' = FaultsOf(c)
    BY <1>8, FaultsAfter
  <2>3. \A c : \A k \in FaultsOf(c) : faults'[k] = faults[k]
    BY <1>8, FaultsAfter DEF FaultsOf
  <2> HIDE DEF Told
  <2>4. ASSUME NEW c \in DOMAIN answers PROVE Told(c)'
    <3>1. CASE c = Current
      BY <1>4, <2>1, <3>1
    <3>2. CASE c # Current
      BY <1>3, <2>1, <2>2, <2>3, <3>2
    <3> QED
      BY <3>1, <3>2
  <2> QED
    BY <1>1, <2>1, <2>4
<1>9. CASE Start \/ (\E i \in DOMAIN adapters : Collect(i)) \/ UNCHANGED vars
  <2>1. UNCHANGED << answers, faults, received >>
    BY <1>9 DEF Start, Collect, vars
  <2>2. \A c : FaultsOf(c)' = FaultsOf(c)
    BY <2>1 DEF FaultsOf
  <2> HIDE DEF Told
  <2>3. ASSUME NEW c \in DOMAIN answers PROVE Told(c)'
    BY <1>3, <2>1, <2>2
  <2> QED
    BY <1>1, <2>1, <2>3
<1> QED
  BY <1>5, <1>6, <1>7, <1>8, <1>9, Steps
------------------------------------------------------------------------------
\* The invariant.

LEMMA InitInv == Init => AdapterInv
<1> SUFFICES ASSUME Init PROVE AdapterInv
  OBVIOUS
<1>1. /\ process.up = FALSE /\ stage = "idle" /\ failure = None
      /\ calls = << >> /\ adapters = << >> /\ received = << >> /\ faults = << >>
      /\ answers = << >> /\ starts = 0 /\ factories \in Factories /\ loaded = {}
      /\ attempt = 1
  BY DEF Init, Down
<1>2. \A S : << >> \in Seq(S)
  BY EmptySeq
<1>3. process.up \in BOOLEAN
  BY <1>1
<1>4. AdapterTypeOK
  BY <1>1, <1>2, <1>3, CallsAssumption DEF AdapterTypeOK, Stage
<1>5. CallFacts /\ AdapterFacts /\ FaultFacts
  BY <1>1 DEF CallFacts, AdapterFacts, FaultFacts, Building, Equipped, Connected
<1> QED
  BY <1>1, <1>4, <1>5
     DEF AdapterInv, BuiltinAdaptersAreWhole, FailuresAreNotMasked,
         PlansAreNotExecuted, ConnectionsComeBack, OneCallPerAdapter

\* Types, what each stage may count on and the safety properties hold in every
\* reachable state, whatever connections, files, environments, factories and
\* failures there are.
THEOREM AdapterInvariant == Spec => []AdapterInv
<1>1. AdapterInv /\ [Next]_vars => AdapterInv'
  BY TypeStep, CallFactsStep, AdapterFactsStep, FaultFactsStep, WholeStep,
     MaskedStep, PlansStep, ConnectionsStep, OneCallStep DEF AdapterInv
<1> QED
  BY InitInv, <1>1, PTL DEF Spec

------------------------------------------------------------------------------
\* What follows from it.

\* The state has its types.
THEOREM TypesHold == Spec => []AdapterTypeOK
<1>1. AdapterInv => AdapterTypeOK
  BY DEF AdapterInv
<1> QED
  BY AdapterInvariant, <1>1, PTL

\* connection_registry.py:167: however often a factory is called, an adapter of
\* the server's own classes has its configuration and its secrets in their places.
THEOREM AdaptersAreWhole == Spec => []BuiltinAdaptersAreWhole
<1>1. AdapterInv => BuiltinAdaptersAreWhole
  BY DEF AdapterInv
<1> QED
  BY AdapterInvariant, <1>1, PTL

\* The `with`, `try` and `finally` blocks of the adapters hide one failure behind
\* another only where this is said; no failure becomes a reply.
THEOREM FailuresSurface == Spec => []FailuresAreNotMasked
<1>1. AdapterInv => FailuresAreNotMasked
  BY DEF AdapterInv
<1> QED
  BY AdapterInvariant, <1>1, PTL

\* explain_query never has a statement executed, run_query always does.
THEOREM PlansAreOnlyPlans == Spec => []PlansAreNotExecuted
<1>1. AdapterInv => PlansAreNotExecuted
  BY DEF AdapterInv
<1> QED
  BY AdapterInvariant, <1>1, PTL

\* No call leaves a connection in use behind.
THEOREM NoConnectionLeaks == Spec => []ConnectionsComeBack
<1>1. AdapterInv => ConnectionsComeBack
  BY DEF AdapterInv
<1> QED
  BY AdapterInvariant, <1>1, PTL

\* No adapter is shared by two calls.
THEOREM AdaptersAreNotShared == Spec => []OneCallPerAdapter
<1>1. AdapterInv => OneCallPerAdapter
  BY DEF AdapterInv
<1> QED
  BY AdapterInvariant, <1>1, PTL
------------------------------------------------------------------------------
\* What no step does.

\* A connection that has gone back to its pool is never taken from it.
THEOREM PoolsAreNotUsed == Spec => PooledConnectionsAreNotReused
<1> DEFINE Kept == \A i \in DOMAIN adapters :
                     adapters[i].pool = "idle" => adapters'[i].pool # "in_use"
<1>1. ASSUME AdapterInv, [Next]_vars PROVE Kept
  <2>1. AdapterTypeOK /\ CallFacts /\ AdapterFacts
    BY <1>1 DEF AdapterInv
  <2>2. CASE OnConnection
    <3>1. PICK e \in AdapterRecord(Current) :
            adapters' = [adapters EXCEPT ![Len(adapters)] = e] /\ Session(e)
      BY <2>1, <2>2, ConnectionStep
    <3>2. adapters # << >> /\ Latest.pool \in {"empty", "in_use"}
      BY <2>1, <2>2 DEF AdapterFacts, OnConnection, Connect, SwitchShowplanOn,
           SwitchShowplanOnFails, StatementRaises, SwitchShowplanOff,
           SwitchShowplanOffFails, CloseConnection, Equipped, Connected
    <3> QED
      BY <2>1, <3>1, <3>2, LatestSet DEF Latest
  <2>3. CASE FactoryBuilds
    BY <1>1, <2>1, <2>3, AdaptersAfter, BuildStep, WorkingStep DEF FactoryBuilds
  <2>4. CASE Preparing \/ SendStatement \/ StatementReturns
    BY <2>4, WorkingStep DEF Working
  <2>5. ASSUME NEW i \in DOMAIN adapters, Collect(i) PROVE Kept
    BY <2>1, <2>5, CollectedAdapter
  <2>6. CASE Crash
    <3>1. \A i \in DOMAIN adapters : adapters[i] \in AdapterRecord(Current)
      BY <2>1, Histories
    <3>2. \A i \in DOMAIN adapters : adapters'[i].pool = "empty"
      BY <2>6, <3>1 DEF Crash, AdapterRecord
    <3> QED
      BY <3>2
  <2>7. CASE \/ Start \/ (\E name \in Names, tool \in Tool : Receive(name, tool))
             \/ End \/ UNCHANGED vars
    BY <2>7 DEF Start, Receive, End, vars
  <2> QED
    BY <1>1, <2>2, <2>3, <2>4, <2>5, <2>6, <2>7, Steps DEF Working
<1>2. AdapterInv /\ [Next]_vars => [Kept]_vars
  BY <1>1
<1> QED
  BY AdapterInvariant, <1>2, PTL DEF Spec, PooledConnectionsAreNotReused

------------------------------------------------------------------------------
\* The steps come to those of the pipeline.

\* What the pipeline sees of the histories.
LEMMA SentKept ==
  ASSUME AdapterTypeOK, UNCHANGED << calls, received >>
  PROVE  UNCHANGED << Len(calls), SentBy >>
BY DEF SentBy

LEMMA SentAppended ==
  ASSUME AdapterTypeOK, CallFacts, AdapterFacts, SendStatement
  PROVE  SentBy' = Append(SentBy, Len(calls)) /\ UNCHANGED Len(calls)
<1> DEFINE n == Len(received)
           s == [ call |-> Current, adapter |-> Len(adapters),
                  plan |-> Latest.showplan \/ prefixed(Target.type, Call.tool) ]
           S == ReceivedRecord(Current, Len(adapters)) \cup {s}
<1>1. /\ n \in Nat /\ DOMAIN received = 1 .. n
      /\ received \in Seq(S) /\ s \in S
      /\ \A i \in DOMAIN received : received[i].call \in Nat
  BY Histories, SeqMonotonic DEF AdapterTypeOK, Current, ReceivedRecord
<1>2. received' = Append(received, s)
  BY DEF SendStatement
<1>3. s.call = Len(calls)
  BY DEF Current
<1> HIDE DEF s, S
<1>4. /\ DOMAIN received' = 1 .. n + 1 /\ received'[n + 1] = s
      /\ \A i \in 1 .. n : received'[i] = received[i]
  BY <1>1, <1>2, AppendProperties, LenProperties
<1> DEFINE m == Len(calls)
<1>5. m \in Nat
  BY Histories DEF Current
<1>6. SentBy = [i \in 1 .. n |-> received[i].call]
  BY <1>1 DEF SentBy
<1>7. SentBy' = [i \in 1 .. n + 1 |-> IF i = n + 1 THEN m ELSE received[i].call]
  BY <1>1, <1>3, <1>4 DEF SentBy
<1>8. SentBy \in Seq(Nat) /\ Len(SentBy) = n /\ \A i \in 1 .. n : SentBy[i] = received[i].call
  BY <1>1, <1>6
<1> DEFINE t == Append(SentBy, m)
<1>9. /\ t \in Seq(Nat) /\ Len(t) = n + 1 /\ t[n + 1] = m
      /\ \A i \in 1 .. n : t[i] = received[i].call
  BY <1>1, <1>5, <1>8, AppendProperties
<1>10. /\ SentBy' \in Seq(Nat) /\ Len(SentBy') = n + 1 /\ SentBy'[n + 1] = m
       /\ \A i \in 1 .. n : SentBy'[i] = received[i].call
  BY <1>1, <1>5, <1>7
<1>11. n + 1 \in 1 .. n + 1 /\ \A i \in 1 .. n + 1 : i \in 1 .. n \/ i = n + 1
  BY <1>1
<1> HIDE DEF m, n, t
<1>12. \A i \in 1 .. n + 1 : SentBy'[i] = t[i]
  BY <1>9, <1>10, <1>11
<1>13. SentBy' = t
  BY <1>9, <1>10, <1>12, SeqEqual
<1> QED
  BY <1>13 DEF t, m, SendStatement

\* Every step is one of the phases' or leaves them as they are.
LEMMA PhasesStep ==
  ASSUME AdapterInv, AdapterInv', [Next]_vars
  PROVE  [Phases!PhasesNext]_(Phases!phasesVars)
<1> USE DEF Phases!PhasesNext, Phases!phasesVars, Phases!Move
<1>1. /\ AdapterTypeOK /\ CallFacts /\ AdapterFacts /\ FaultFacts /\ FaultFacts'
      /\ Len(calls) \in Nat
  BY Histories DEF AdapterInv, Current
<1>2. ASSUME Working, ~SendStatement PROVE UNCHANGED << Len(calls), SentBy >>
  BY <1>1, <1>2, WorkingStep, SentKept
<1>3. ASSUME Fails PROVE failure' # None
  BY <1>1, <1>3, FaultIsSome DEF Fails, FailsWith
<1>4. CASE Preparing
  <2>1. UNCHANGED << Len(calls), SentBy >>
    BY <1>2, <1>4 DEF Working, Preparing, ResolveSecrets, FindFactory, ImportFails,
       FactoryDoesNotFit, FactoryRaises, FactoryReturnsSomething, ConnectFails,
       FailNow, SendStatement
  <2>2. Passes \/ Fails \/ Retries
    BY <1>1, <1>4, FaultStep DEF Working
  <2>3. stage \in {"resolving", "loading", "attempting", "connecting"} /\ failure = None
    BY <1>1, <1>4 DEF Preparing, ResolveSecrets, FindFactory, ImportFails,
       FactoryDoesNotFit, FactoryRaises, FactoryReturnsSomething, ConnectFails, FaultFacts
  <2>4. CASE stage' = "ending"
    <3>1. failure' # None
      BY <1>3, <2>2, <2>3, <2>4 DEF Passes, Retries
    <3>2. PhaseNow' = "failed"
      BY <2>4, <3>1 DEF PhaseNow
    <3> QED
      BY <2>1, <2>3, <3>2 DEF PhaseNow, Phases!ResolveSecrets, Phases!BuildFails,
           Phases!ConnectFails
  <2>5. CASE stage' # "ending"
    <3>1. \/ stage = "resolving" /\ stage' = "loading"
          \/ stage \in {"loading", "attempting"} /\ stage' = "attempting"
      BY <1>4, <2>5 DEF Preparing, ResolveSecrets, FindFactory, ImportFails,
           FactoryDoesNotFit, FactoryRaises, FactoryReturnsSomething, ConnectFails, FailNow
    <3> QED
      BY <2>1, <3>1 DEF PhaseNow, Phases!ResolveSecrets
  <2> QED
    BY <2>4, <2>5
<1>5. CASE FactoryBuilds
  <2>1. UNCHANGED << Len(calls), SentBy >>
    BY <1>5, SentKept, <1>1 DEF FactoryBuilds
  <2>2. stage = "attempting" /\ stage' = "connecting"
    BY <1>5 DEF FactoryBuilds
  <2> QED
    BY <2>1, <2>2 DEF PhaseNow, Phases!BuildAdapter
<1>6. CASE Connect \/ SwitchShowplanOn
  <2>1. UNCHANGED << Len(calls), SentBy >>
    BY <1>6, SentKept, <1>1 DEF Connect, SwitchShowplanOn
  <2>2. stage \in {"connecting", "switching"} /\ stage' \in {"switching", "sending"}
    BY <1>6 DEF Connect, SwitchShowplanOn
  <2> QED
    BY <2>1, <2>2 DEF PhaseNow
<1>7. CASE SwitchShowplanOnFails
  <2>1. UNCHANGED << Len(calls), SentBy >>
    BY <1>7, SentKept, <1>1 DEF SwitchShowplanOnFails, FailNow
  <2>2. stage = "switching" /\ stage' = "closing"
    BY <1>7 DEF SwitchShowplanOnFails, FailNow
  <2>3. failure' # None
    <3>1. Passes \/ Fails \/ Retries
      BY <1>1, <1>7, FaultStep DEF Working, OnConnection
    <3> QED
      BY <1>3, <2>2, <3>1 DEF Passes, Retries
  <2> QED
    BY <2>1, <2>2, <2>3 DEF PhaseNow, Phases!ConnectFails
<1>8. CASE SendStatement
  <2>1. stage = "sending" /\ stage' = "executing"
    BY <1>8 DEF SendStatement
  <2> QED
    BY <1>1, <1>8, <2>1, SentAppended DEF PhaseNow, Phases!SendStatement
<1>9. CASE StatementReturns \/ StatementRaises
  <2>1. UNCHANGED << Len(calls), SentBy >>
    BY <1>9, SentKept, <1>1 DEF StatementReturns, StatementRaises, FailNow
  <2>2. stage = "executing" /\ stage' \in {"restoring", "closing"} /\ failure = None
    BY <1>1, <1>9 DEF StatementReturns, StatementRaises, FailNow, AfterStatement, FaultFacts
  <2> QED
    BY <2>1, <2>2 DEF PhaseNow, Phases!BackendReplies, Phases!BackendRaises
<1>10. CASE SwitchShowplanOff \/ SwitchShowplanOffFails
  <2>1. UNCHANGED << Len(calls), SentBy >>
    BY <1>10, SentKept, <1>1 DEF SwitchShowplanOff, SwitchShowplanOffFails, FailNow
  <2>2. stage = "restoring" /\ stage' = "closing"
    BY <1>10 DEF SwitchShowplanOff, SwitchShowplanOffFails, FailNow
  <2> QED
    BY <2>1, <2>2 DEF PhaseNow, Phases!BackendReplies, Phases!BackendRaises
<1>11. CASE CloseConnection
  <2>1. UNCHANGED << Len(calls), SentBy >>
    BY <1>11, SentKept, <1>1 DEF CloseConnection
  <2>2. stage = "closing" /\ stage' = "ending" /\ failure' = failure
    BY <1>11 DEF CloseConnection
  <2> QED
    BY <2>1, <2>2 DEF PhaseNow
<1>12. CASE End
  <2>1. UNCHANGED << Len(calls), SentBy >>
    BY <1>12, SentKept, <1>1 DEF End
  <2>2. stage = "ending" /\ stage' = "idle"
    BY <1>12 DEF End
  <2> QED
    BY <2>1, <2>2 DEF PhaseNow, Phases!End
<1>13. CASE Crash
  <2>1. UNCHANGED << Len(calls), SentBy >>
    BY <1>13, SentKept, <1>1 DEF Crash
  <2>2. stage \in Stage /\ PhaseNow' = "idle"
    BY <1>1, <1>13 DEF Crash, AdapterTypeOK, PhaseNow
  <2> QED
    BY <2>1, <2>2 DEF PhaseNow, Phases!Crash, Stage
<1>14. ASSUME NEW name \in Names, NEW tool \in Tool, Receive(name, tool)
       PROVE  Phases!Begin
  <2>1. Len(calls') = Len(calls) + 1 /\ UNCHANGED received
    BY <1>1, <1>14, ReceivedCall DEF Current
  <2>2. stage = "idle" /\ stage' = "resolving"
    BY <1>14 DEF Receive
  <2>3. UNCHANGED SentBy
    BY <2>1 DEF SentBy
  <2> QED
    BY <2>1, <2>2, <2>3 DEF PhaseNow, Phases!Begin
<1>15. CASE Start \/ (\E i \in DOMAIN adapters : Collect(i)) \/ UNCHANGED vars
  <2>1. UNCHANGED << calls, received, stage, failure >>
    BY <1>15 DEF Start, Collect, vars
  <2> QED
    BY <1>1, <2>1, SentKept DEF PhaseNow
<1> QED
  BY <1>4, <1>5, <1>6, <1>7, <1>8, <1>9, <1>10, <1>11, <1>12, <1>13, <1>14, <1>15, Steps
     DEF Working, OnConnection

\* What QueryPipeline takes for granted of the registry and the adapters holds:
\* their steps are the phases, or leave them as they are.
THEOREM MeetsPhasesSafety == Spec => Phases!PhasesSafety
<1>1. Init => Phases!PhasesInit
  BY DEF Init, Phases!PhasesInit, PhaseNow, SentBy
<1>2. AdapterInv /\ AdapterInv' /\ [Next]_vars => [Phases!PhasesNext]_(Phases!phasesVars)
  BY PhasesStep
<1> QED
  BY AdapterInvariant, <1>1, <1>2, PTL DEF Spec, Phases!PhasesSafety
=============================================================================
