---------------------------- MODULE AdapterProperties ----------------------------
(***************************************************************************)
(* What the registry and the adapters have to guarantee between a          *)
(* validated call and its result.                                          *)
(***************************************************************************)
EXTENDS AdapterCalls

Failed(c)   == answers[c] # None /\ answers[c].at \notin {"reply", "crash"}

\* Where a call's faults are in the history.
FaultsOf(c) == { k \in DOMAIN faults : faults[k].call = c }

\* Types of the state.
Exception == DbMcpError \cup RawError \cup {TypeErrorRaised}

CallRecord == [ connection_name : Names, tool : Tool, target : Connections,
                env : Environments ]
FaultRecord(n)   == [call : 1 .. n, at : FaultPlace, exc : Exception]
AdapterRecord(n) == [ call : 1 .. n, config : Role, secrets : Role,
                      pool : {"empty", "in_use", "idle"}, alive : BOOLEAN,
                      showplan : BOOLEAN, collected : BOOLEAN ]
ReceivedRecord(n, m) == [call : 1 .. n, adapter : 1 .. m, plan : BOOLEAN]
AnswerRecord == [ at : FaultPlace \cup {"reply", "crash"},
                  exc : DbMcpError \cup {None} ]

AdapterTypeOK ==
  /\ process.up \in BOOLEAN
  /\ process.up =>
       /\ DOMAIN process.config \subseteq Names
       /\ \A n \in DOMAIN process.config : process.config[n] \in Connections
       /\ process.env \in Environments
  /\ starts \in 0 .. MaxStarts
  /\ factories \in Factories
  /\ loaded \subseteq BackendType
  /\ stage \in Stage
  /\ calls \in Seq(CallRecord)
  /\ attempt \in 1 .. 6
  /\ failure \in FaultRecord(Len(calls)) \cup {None}
  /\ adapters \in Seq(AdapterRecord(Len(calls)))
  /\ received \in Seq(ReceivedRecord(Len(calls), Len(adapters)))
  /\ faults \in Seq(FaultRecord(Len(calls)))
  /\ answers \in Seq(AnswerRecord \cup {None})
  /\ Len(answers) = Len(calls)
------------------------------------------------------------------------------
\* The class that builds the adapters of a backend is one of the adapter
\* modules, found by the registry or returned by a factory it was given.
IsBuiltin(type) ==
  type \in DOMAIN factories =>
    factories[type].makes = "class" \/ factories[type] = builtin_factory(type)

\* The six attempts never end in an adapter of the server's own classes that
\* has its arguments in the wrong places or goes without its secrets, although
\* four of the attempts leave something out or start with the name; and no
\* adapter is built where a secret is missing.
BuiltinAdaptersAreWhole ==
  \A i \in DOMAIN adapters :
    LET c == calls[adapters[i].call]
    IN  /\ unresolved(c.target, c.env) = {}
        /\ IsBuiltin(c.target.type) =>
             adapters[i].config = "config" /\ adapters[i].secrets = "secrets"

\* Where one failure hides another: a TypeError is forgotten for what the next
\* attempt brings, and an exception of the statement for that of switching
\* SHOWPLAN off (which hides a plan, too).  Nothing else is: the caller gets
\* the last failure of the call with its code, and a reply only if none is left.
FailuresAreNotMasked ==
  \A c \in DOMAIN answers :
    /\ Failed(c) =>
         \E n \in FaultsOf(c) :
           /\ answers[c].at = faults[n].at
           /\ answers[c].exc = normalize_exception(faults[n].exc)
           /\ \A k \in FaultsOf(c) \ {n} :
                /\ k < n
                /\ \/ faults[k].at = "attempt"
                   \/ faults[k].at = "statement" /\ faults[n].at = "off"
    /\ answers[c] # None /\ answers[c].at = "reply" =>
         /\ \A k \in FaultsOf(c) : faults[k].at = "attempt"
         /\ \E i \in DOMAIN received : received[i].call = c

\* server.py:321 "Validate and explain a SQL query without executing it": the
\* statement of an explain_query meets a session that explains (SHOWPLAN on) or
\* a text that does (EXPLAIN); that of a run_query never does, whatever the
\* calls before it have left behind.
PlansAreNotExecuted ==
  \A i \in DOMAIN received :
    received[i].plan <=> calls[received[i].call].tool = "explain_query"

\* A connection is in use only by the call in progress, on the adapter it has
\* built; an idle one belongs to a process that is up and a backend with a pool,
\* and is in explain mode only if switching it off has failed.
ConnectionsComeBack ==
  \A i \in DOMAIN adapters :
    LET a == adapters[i]
    IN  /\ a.pool = "in_use" =>
             /\ i = Len(adapters) /\ a.call = Current
             /\ stage \in { "switching", "sending", "executing", "restoring",
                            "closing" }
        /\ a.pool = "idle" =>
             /\ process.up /\ calls[a.call].target.type # "databricks"
             /\ a.showplan => \E k \in DOMAIN faults :
                                faults[k].call = a.call /\ faults[k].at = "off"

\* An adapter serves one call: a call builds at most one and sends its
\* statement through it.
OneCallPerAdapter ==
  /\ \A i, j \in DOMAIN adapters : adapters[i].call = adapters[j].call => i = j
  /\ \A i \in DOMAIN received : adapters[received[i].adapter].call = received[i].call

\* An idle connection is never taken from its pool again; it waits for the
\* garbage collector.  (The engines have a pool each, PLAN.md:518 wants one
\* that is used; it is also why a session left in explain mode harms nobody.)
PooledConnectionsAreNotReused ==
  [][ \A i \in DOMAIN adapters :
        adapters[i].pool = "idle" => adapters'[i].pool # "in_use" ]_vars

\* Every call ends if the process keeps running and backends answer.
EveryCallEnds == stage # "idle" ~> stage = "idle"

\* QueryPipeline's view of all this.
PhaseNow ==
  CASE stage \in {"idle", "resolving", "executing"} -> stage
    [] stage \in {"loading", "attempting"} -> "building"
    [] stage \in {"connecting", "switching", "sending"} -> "connecting"
    [] stage = "restoring" -> "executing"
    [] stage \in {"closing", "ending"} ->
         IF failure = None THEN "replied" ELSE "failed"

SentBy == [i \in DOMAIN received |-> received[i].call]

Phases == INSTANCE AdapterPhases WITH
  begun <- Len(calls), sent <- SentBy, phase <- PhaseNow

\* The steps of the registry and the adapters come to those of the pipeline.
MeetsPhases == Phases!Phases
------------------------------------------------------------------------------
\* Why the safety properties hold.

Building  == {"resolving", "loading", "attempting"}
Connected == {"switching", "sending", "executing", "restoring", "closing"}
Equipped  == Connected \cup {"connecting"}

\* The configuration a call was received under is the one its steps read.
CallFacts ==
  stage # "idle" =>
    /\ process.up /\ calls # << >> /\ answers[Current] = None
    /\ Call.connection_name \in DOMAIN process.config
    /\ Call.target = Target /\ Call.env = process.env
    /\ stage \in Equipped \cup {"loading", "attempting"} =>
         unresolved(Target, process.env) = {}

\* The adapter of the call and the mode its session is in.
AdapterFacts ==
  /\ stage \in Building => \A i \in DOMAIN adapters : adapters[i].call # Current
  /\ stage \in Equipped =>
       adapters # << >> /\ Latest.call = Current /\ ~Latest.collected
  /\ stage = "connecting" => Latest.pool = "empty"
  /\ stage \in Connected => Latest.pool = "in_use"
  /\ stage \in {"switching", "restoring"} => switches(Target.type, Call.tool)
  /\ stage = "switching" => ~Latest.showplan
  /\ stage \in {"sending", "executing"} =>
       Latest.showplan = switches(Target.type, Call.tool)
  /\ stage = "closing" /\ Latest.showplan =>
       \E k \in FaultsOf(Current) : faults[k].at = "off"

\* The failure a call will end with is its last fault.
FaultFacts ==
  /\ stage \notin {"restoring", "closing", "ending"} => failure = None
  /\ stage = "restoring" /\ failure # None => failure.at = "statement"
  /\ failure # None =>
       /\ failure.exc \in DbMcpError \cup RawError
       /\ faults # << >> /\ failure = faults[Len(faults)] /\ failure.call = Current
       /\ \A k \in FaultsOf(Current) \ {Len(faults)} :
            \/ faults[k].at = "attempt"
            \/ faults[k].at = "statement" /\ failure.at = "off"
  /\ stage # "idle" /\ failure = None =>
       /\ \A k \in FaultsOf(Current) : faults[k].at = "attempt"
       /\ stage \in {"executing", "restoring", "closing", "ending"} =>
            \E i \in DOMAIN received : received[i].call = Current

\* The inductive invariant.
AdapterInv ==
  /\ AdapterTypeOK
  /\ CallFacts /\ AdapterFacts /\ FaultFacts
  /\ BuiltinAdaptersAreWhole /\ FailuresAreNotMasked /\ PlansAreNotExecuted
  /\ ConnectionsComeBack /\ OneCallPerAdapter
==============================================================================
