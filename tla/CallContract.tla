------------------------------ MODULE CallContract ------------------------------
(***************************************************************************)
(* What a caller of run_query and explain_query may rely on, without       *)
(* stages, adapters, audit log or limits: calls are served one after the   *)
(* other; a call's statement reaches a backend only if it may, at most     *)
(* once and only while its caller waits; it is answered ok only if the     *)
(* backend has had it; an answer is final; and every call ends.            *)
(***************************************************************************)
EXTENDS Integers, Sequences

\* For every call: may it run, how often has its statement reached a backend,
\* and what has its caller got ("open": nothing yet, "lost": nothing ever).
VARIABLE log

Last   == log[Len(log)]
IsOpen == log # << >> /\ Last.status = "open"

SetLast(entry) == log' = [log EXCEPT ![Len(log)] = entry]

Begin(admissible) ==
  /\ ~IsOpen
  /\ log' = Append(log, [ admissible |-> admissible, executions |-> 0,
                          status |-> "open" ])

Execute ==
  /\ IsOpen /\ Last.admissible /\ Last.executions = 0
  /\ SetLast([Last EXCEPT !.executions = 1])

Succeed ==
  /\ IsOpen /\ Last.executions = 1
  /\ SetLast([Last EXCEPT !.status = "ok"])

End(status) == IsOpen /\ SetLast([Last EXCEPT !.status = status])

Close == Succeed \/ End("error") \/ End("lost")

ContractInit == log = << >>
ContractNext == (\E a \in BOOLEAN : Begin(a)) \/ Execute \/ Close

ContractSafety == ContractInit /\ [][ContractNext]_log
Contract       == ContractSafety /\ WF_log(Close)
==============================================================================
