-------------------------------- MODULE Feed --------------------------------
(***************************************************************************)
(* What the event streams of a session promise, without pages, wake-ups or *)
(* connections: a log that only grows while the session lives, and readers *)
(* that see its events one after the other, from the first on, and that    *)
(* see every event as long as they stay joined.                            *)
(***************************************************************************)
EXTENDS Naturals, Sequences

CONSTANT Client

VARIABLES log,     \* the events
          open,    \* the session was not deleted
          seen,    \* how many events each client has seen
          joined   \* clients that follow the session

fvars == <<log, open, seen, joined>>

Init ==
  /\ Len(log) \in Nat /\ open = TRUE
  /\ seen = [c \in Client |-> 0] /\ joined = {}

Commit ==
  /\ open
  /\ Len(log') > Len(log) /\ SubSeq(log', 1, Len(log)) = log
  /\ UNCHANGED <<open, seen, joined>>

Join(c) == joined' = joined \cup {c} /\ UNCHANGED <<log, open, seen>>
Leave == \E C \in SUBSET joined : joined' = C /\ UNCHANGED <<log, open, seen>>

\* The one way to see an event: it is the next one.  Its reader may leave with it.
Read(c) ==
  /\ seen[c] < Len(log)
  /\ seen' = [seen EXCEPT ![c] = @ + 1]
  /\ joined' \in {joined, joined \ {c}}
  /\ UNCHANGED <<log, open>>

\* A deletion ends every reader; afterwards the log may go.
Close == open' = FALSE /\ joined' \subseteq joined /\ UNCHANGED <<log, seen>>
Drop == ~open /\ joined = {} /\ log' = <<>> /\ UNCHANGED <<open, seen, joined>>

Next == Commit \/ (\E c \in Client : Join(c) \/ Read(c)) \/ Leave \/ Close \/ Drop

Spec ==
  /\ Init /\ [][Next]_fvars
  /\ \A c \in Client : WF_fvars(open /\ c \in joined /\ Read(c))
=============================================================================
