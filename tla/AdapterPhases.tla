------------------------------ MODULE AdapterPhases ------------------------------
(***************************************************************************)
(* What QueryPipeline takes for granted of the registry and the adapters:  *)
(* its steps between validation and normalization, and nothing but them.   *)
(* Secrets come before the adapter, the adapter before the connection, the *)
(* connection before the statement; each of the four may fail, and then    *)
(* the call has failed; the statement is sent once, by the call in         *)
(* progress; and the call comes to an end.                                 *)
(***************************************************************************)
EXTENDS Naturals, Sequences

VARIABLES phase,  \* where the call in progress is
          begun,  \* calls so far
          sent    \* for every statement that was sent, the call it is from

Phase == { "idle", "resolving", "building", "connecting", "executing",
           "replied", "failed" }

Move(from, to) == phase = from /\ phase' = to /\ UNCHANGED begun

Begin == phase = "idle" /\ phase' = "resolving" /\ begun' = begun + 1 /\ UNCHANGED sent

ResolveSecrets ==
  (Move("resolving", "building") \/ Move("resolving", "failed")) /\ UNCHANGED sent
BuildAdapter == Move("building", "connecting") /\ UNCHANGED sent
BuildFails   == Move("building", "failed") /\ UNCHANGED sent
ConnectFails == Move("connecting", "failed") /\ UNCHANGED sent

SendStatement ==
  Move("connecting", "executing") /\ sent' = Append(sent, begun)

BackendRaises  == Move("executing", "failed") /\ UNCHANGED sent
BackendReplies == Move("executing", "replied") /\ UNCHANGED sent

End   == (Move("replied", "idle") \/ Move("failed", "idle")) /\ UNCHANGED sent
Crash == phase # "idle" /\ phase' = "idle" /\ UNCHANGED << begun, sent >>

PhasesInit == phase = "idle" /\ begun = 0 /\ sent = << >>
PhasesNext ==
  \/ Begin \/ ResolveSecrets \/ BuildAdapter \/ BuildFails \/ ConnectFails
  \/ SendStatement \/ BackendRaises \/ BackendReplies \/ End \/ Crash

phasesVars == << phase, begun, sent >>

PhasesSafety == PhasesInit /\ [][PhasesNext]_phasesVars
Phases       == PhasesSafety /\ []<>(phase = "idle")
==============================================================================
