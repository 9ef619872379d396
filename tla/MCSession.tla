------------------------------ MODULE MCSession ------------------------------
(* Instances of Session for TLC: the requests clients may send.            *)
EXTENDS Session, TLC

CONSTANTS m1, m2, c1, c2

Req(key, events) == [key |-> key, events |-> events]

\* Messages that start or steer a turn, a cancellation, and a request that
\* reuses the first key with other content.
SteerRequests ==
  { Req("k1", <<Message(m1)>>), Req("k2", <<Message(m2)>>),
    Req("k3", <<CancelInput>>), Req("k1", <<CancelInput>>) }

\* Two function calls, answered separately or together with a message; one
\* answer names a turn that made no such call.
ToolRequests ==
  { Req("k1", <<Message(m1)>>), Req("k2", <<Answer(1, c1)>>),
    Req("k3", <<Answer(1, c2), Message(m2)>>), Req("k4", <<Answer(2, c1)>>) }
=============================================================================
