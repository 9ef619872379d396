------------------------------- MODULE JobLog -------------------------------
(***************************************************************************)
(* The outcome of a job (JobLog in lifecycle.ts), as the supervisor and    *)
(* the runtime adapters use it: a record with status, cancelling and       *)
(* closing.  A terminal outcome is absorbing; the events a job retains are *)
(* in Supervisor.                                                          *)
(***************************************************************************)
Terminal == {"completed", "cancelled", "failed"}
Active == {"running", "waiting"}

settled(j) == j.status \in Terminal
\* The log takes no more events and the outcome no more changes.
Sealed(j) == settled(j) \/ j.closing

setStatus(j, status) ==
  CASE Sealed(j) -> j
    [] ~Sealed(j) /\ ~j.cancelling -> [j EXCEPT !.status = status]
    [] ~Sealed(j) /\ j.cancelling ->
         IF status \in {"completed", "cancelled"} THEN [j EXCEPT !.status = "cancelled"] ELSE j
requestCancel(j) == IF Sealed(j) THEN j ELSE [j EXCEPT !.cancelling = TRUE]
fail(j) == IF Sealed(j) THEN j ELSE [j EXCEPT !.status = "failed"]
close(j) ==
  [j EXCEPT !.closing = TRUE, !.status = IF settled(j) THEN @ ELSE "cancelled"]
=============================================================================
