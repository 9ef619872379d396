------------------------------ MODULE Catalog ------------------------------
(***************************************************************************)
(* Creation, fork and deletion of sessions across the tenant's CatalogDO,  *)
(* the SessionDOs, the object bucket and the environments (service.ts,     *)
(* catalog.ts, session-reservation.ts).                                    *)
(*                                                                         *)
(* Every call between objects is a step, and a request may die between any *)
(* two of them: the client then retries under the same idempotency key,    *)
(* while the first attempt may still be running.  The store of each object *)
(* is atomic.  What a session does with its input is in Session; here a    *)
(* turn only is active or not.                                             *)
(*                                                                         *)
(* A value that may be absent is a set of at most one element.             *)
(***************************************************************************)
EXTENDS Naturals, FiniteSets

CONSTANTS Key,        \* idempotency keys
          Body,       \* request bodies: [fork, hosted, input]
          Request,    \* requests that are served at the same time
          MaxSession, \* bound on the sessions that are named
          MaxFault    \* bound on requests that die and on steps that fail

ASSUME CatalogAssumption ==
  /\ IsFiniteSet(Key) /\ IsFiniteSet(Request)
  /\ Body \subseteq [fork : BOOLEAN, hosted : BOOLEAN, input : BOOLEAN]
  /\ MaxSession \in Nat /\ MaxFault \in Nat

VARIABLES catalog,  \* the rows of the CatalogDO
          object,   \* the SessionDO of each id
          bucket,   \* sessions whose environment configuration is stored
          request,  \* the requests in flight
          named,    \* session ids handed out so far
          seen,     \* history, for the properties and for what a client knows
          faults

vars == <<catalog, object, bucket, request, named, seen, faults>>

Id == 1..MaxSession
NoObject == [state |-> "none", environment |-> "none", input |-> {}, inputs |-> 0, active |-> FALSE]
NoRequest == [pc |-> "free", key |-> {}, body |-> {}, id |-> 0, ready |-> FALSE]

At(r, pc) == request[r].pc = pc
KeyOf(r) == CHOOSE k \in request[r].key : TRUE
BodyOf(r) == CHOOSE b \in request[r].body : TRUE
Reserved(k) == CHOOSE s \in catalog.reservation[k] : TRUE

Goto(r, pc) == request' = [request EXCEPT ![r].pc = pc]
Ends(r) == request' = [request EXCEPT ![r] = NoRequest]
Fault == faults < MaxFault /\ faults' = faults + 1

\* requireSession: a session object answers while its record is not deleted.
Answers(id) == object[id].state = "live"

-----------------------------------------------------------------------------
(***************************************************************************)
(* createSession and forkSession                                           *)
(***************************************************************************)
createSession(r, k, b) ==
  /\ At(r, "free")
  /\ request' = [request EXCEPT ![r] = [NoRequest EXCEPT !.pc = "lookup", !.key = {k}, !.body = {b}]]
  /\ UNCHANGED <<catalog, object, bucket, named, seen, faults>>

\* The reservation of the key, whatever the parameters resolve to by now; the same key
\* with another body is a conflict.
Recovered(r, s) ==
  IF s.body # BodyOf(r) THEN Ends(r)
  ELSE request' = [request EXCEPT ![r].pc = "establish", ![r].id = s.id, ![r].ready = s.ready]
reservation(r) ==
  /\ At(r, "lookup")
  /\ IF catalog.reservation[KeyOf(r)] = {} THEN Goto(r, "resolve")
     ELSE Recovered(r, Reserved(KeyOf(r)))
  /\ UNCHANGED <<catalog, object, bucket, named, seen, faults>>

\* reserveCreation and reserveFork up to their last write: the parameters are resolved
\* against the catalog and the deployment, and the session is named.
Names(r, next) ==
  /\ named < MaxSession /\ named' = named + 1
  /\ request' = [request EXCEPT ![r].id = named + 1, ![r].pc = next]
  /\ UNCHANGED <<catalog, object, bucket, seen, faults>>
reserveCreation(r) ==
  /\ At(r, "resolve") /\ ~BodyOf(r).fork
  /\ Names(r, IF BodyOf(r).hosted THEN "configure" ELSE "reserve")
\* A fork needs a discoverable source without a turn, and inherits its configuration.
forkSource(s) == s \in catalog.listed /\ Answers(s) /\ ~object[s].active
reserveFork(r) ==
  /\ At(r, "resolve") /\ BodyOf(r).fork
  /\ \E s \in Id : forkSource(s)
  /\ Names(r, "reserve")

Fails(r) ==
  /\ Fault /\ Ends(r)
  /\ UNCHANGED <<catalog, object, bucket, named, seen>>
\* The deployment cannot serve the model, the tools or the servers that were asked for.
validateModel(r) == At(r, "resolve") /\ Fails(r)
\* A template, a file or a skill that is named is gone.
resolveSkills(r) == At(r, "resolve") /\ BodyOf(r).hosted /\ ~BodyOf(r).fork /\ Fails(r)

\* hostedEnvironmentSpec
configure(r) ==
  /\ At(r, "configure")
  /\ bucket' = bucket \cup {request[r].id}
  /\ Goto(r, "reserve")
  /\ UNCHANGED <<catalog, object, named, seen, faults>>

\* A concurrent attempt may have reserved the key since it was looked up.
reserve(r) ==
  LET k == KeyOf(r)
      row == [id |-> request[r].id, ready |-> FALSE, body |-> BodyOf(r)]
  IN /\ At(r, "reserve")
     /\ IF catalog.reservation[k] # {} THEN Recovered(r, Reserved(k)) /\ UNCHANGED catalog
        ELSE /\ catalog' = [catalog EXCEPT !.reservation[k] = {row}, !.session[request[r].id] = {k}]
             /\ Goto(r, "establish")
     /\ UNCHANGED <<object, bucket, named, seen, faults>>

\* establish: a committed session is only read; the preflight of an environment may fail.
establishResumed(r) ==
  /\ At(r, "establish")
  /\ Goto(r, IF request[r].ready THEN "retrieve"
             ELSE IF object[request[r].id].state = "live" THEN "commit" ELSE "initialize")
  /\ UNCHANGED <<catalog, object, bucket, named, seen, faults>>
establish(r) ==
  /\ At(r, "establish")
  /\ Goto(r, IF request[r].ready THEN "retrieve" ELSE "initialize")
  /\ UNCHANGED <<catalog, object, bucket, named, seen, faults>>
preflight(r) == At(r, "establish") /\ ~request[r].ready /\ BodyOf(r).hosted /\ Fails(r)

newSessionRecord == [NoObject EXCEPT !.state = "live"]
\* An object that has a record answers with it, deleted or not; one that has none, new
\* or purged, takes the record.
initialize(r) ==
  LET id == request[r].id
  IN /\ At(r, "initialize")
     /\ object' = IF object[id].state \in {"live", "deleted"} THEN object
                  ELSE [object EXCEPT ![id] = newSessionRecord]
     /\ Goto(r, IF BodyOf(r).hosted THEN "register" ELSE "submit")
     /\ UNCHANGED <<catalog, bucket, named, seen, faults>>
registerEnvironment(r) ==
  /\ At(r, "register")
  /\ catalog' = [catalog EXCEPT !.environments = @ \cup {request[r].id}]
  /\ Goto(r, "pending")
  /\ UNCHANGED <<object, bucket, named, seen, faults>>

\* applyEnvironmentStatus: a settled environment does not regress, a failed one stays so.
Applied(old, status) ==
  IF \/ status = "pending" /\ old # "none"
     \/ status = "connected" /\ old = "failed"
  THEN old ELSE status
environmentStatus(r, pc, status, next) ==
  LET id == request[r].id
  IN /\ At(r, pc)
     /\ IF Answers(id)
        THEN /\ object' = [object EXCEPT ![id].environment = Applied(@, status)]
             /\ Goto(r, next)
        ELSE Ends(r) /\ UNCHANGED object
     /\ UNCHANGED <<catalog, bucket, named, seen, faults>>
Pending(r) == environmentStatus(r, "pending", "pending", "prepare")
\* prepare is external (Harness): it succeeds, or the failure is reported and committed.
Prepared(r) ==
  /\ At(r, "prepare") /\ Goto(r, "connected")
  /\ UNCHANGED <<catalog, object, bucket, named, seen, faults>>
PrepareFails(r) ==
  /\ At(r, "prepare") /\ Fault /\ Goto(r, "failed")
  /\ UNCHANGED <<catalog, object, bucket, named, seen>>
Connected(r) == environmentStatus(r, "connected", "connected", "submit")
Failed(r) == environmentStatus(r, "failed", "failed", "commit")

\* The initial input goes in under a key derived from the request's.
Submitted(id, k) ==
  IF k \in object[id].input THEN object
  ELSE [object EXCEPT ![id].input = @ \cup {k}, ![id].inputs = @ + 1, ![id].active = TRUE]
submit(r) ==
  LET id == request[r].id
  IN /\ At(r, "submit")
     /\ IF ~BodyOf(r).input THEN Goto(r, "commit") /\ UNCHANGED object
        ELSE IF Answers(id) /\ object[id].environment # "failed"
        THEN object' = Submitted(id, KeyOf(r)) /\ Goto(r, "commit")
        ELSE Ends(r) /\ UNCHANGED object
     /\ UNCHANGED <<catalog, bucket, named, seen, faults>>

\* commit: by the key, and nothing of the request but the key.
commit(r) ==
  LET k == KeyOf(r)
  IN /\ At(r, "commit")
     /\ IF catalog.reservation[k] = {} THEN Ends(r) /\ UNCHANGED catalog
        ELSE /\ catalog' = [catalog EXCEPT
                  !.reservation[k] = {[Reserved(k) EXCEPT !.ready = TRUE]},
                  !.listed = IF Reserved(k).ready THEN @ ELSE @ \cup {Reserved(k).id}]
             /\ Goto(r, "retrieve")
     /\ UNCHANGED <<object, bucket, named, seen, faults>>

retrieve(r) ==
  LET id == request[r].id
  IN /\ At(r, "retrieve")
     /\ seen' = IF Answers(id)
                THEN [seen EXCEPT !.answers = @ \cup {[key |-> KeyOf(r), id |-> id, body |-> BodyOf(r)]}]
                ELSE seen
     /\ Ends(r)
     /\ UNCHANGED <<catalog, object, bucket, named, faults>>

\* The worker that serves a request goes away.
Dies(r) ==
  request[r].pc \notin {"free", "lookup"} /\ Fails(r)

TurnEnds ==
  /\ \E id \in Id : object[id].active /\ object' = [object EXCEPT ![id].active = FALSE]
  /\ UNCHANGED <<catalog, bucket, request, named, seen, faults>>

-----------------------------------------------------------------------------
(***************************************************************************)
(* deleteSession: the object, discovery, then the object's storage.        *)
(***************************************************************************)
deleteSession(r) ==
  /\ At(r, "free")
  /\ \E id \in {a.id : a \in seen.answers} \cup catalog.listed :
       request' = [request EXCEPT ![r] = [NoRequest EXCEPT !.pc = "delete", !.id = id]]
  /\ UNCHANGED <<catalog, object, bucket, named, seen, faults>>

\* markDeleted: refused while a turn is active; a tombstone answers a retry.
delete(r) ==
  LET id == request[r].id
  IN /\ At(r, "delete")
     /\ IF object[id].state = "none" \/ object[id].active THEN Ends(r) /\ UNCHANGED object
        ELSE /\ object' = IF object[id].state = "tombstone" THEN object
                          ELSE [object EXCEPT ![id].state = "deleted"]
             /\ Goto(r, "undiscover")
     /\ UNCHANGED <<catalog, bucket, named, seen, faults>>

\* CatalogObject.deleteSession: discovery and, found by the index, the reservation.
undiscover(r) ==
  LET id == request[r].id
  IN /\ At(r, "undiscover")
     /\ catalog' = [catalog EXCEPT
          !.listed = @ \ {id},
          !.reservation = [k \in Key |-> IF k \in catalog.session[id] THEN {} ELSE @[k]],
          !.session[id] = {}]
     /\ seen' = [seen EXCEPT !.deleted = @ \cup {id}, !.spent = @ \cup catalog.session[id],
                             !.answers = {a \in @ : a.id # id}]
     /\ Goto(r, "purge")
     /\ UNCHANGED <<object, bucket, named, faults>>

\* purgeRecords: everything but the tombstone; refused if the session is not deleted.
purge(r) ==
  LET id == request[r].id
  IN /\ At(r, "purge")
     /\ object' = IF object[id].state = "live" THEN object
                  ELSE [object EXCEPT ![id] = [NoObject EXCEPT !.state = "tombstone"]]
     /\ Ends(r)
     /\ UNCHANGED <<catalog, bucket, named, seen, faults>>

Init ==
  /\ catalog = [reservation |-> [k \in Key |-> {}], session |-> [id \in Id |-> {}],
                listed |-> {}, environments |-> {}]
  /\ object = [id \in Id |-> NoObject]
  /\ bucket = {} /\ named = 0 /\ faults = 0
  /\ request = [r \in Request |-> NoRequest]
  /\ seen = [answers |-> {}, deleted |-> {}, spent |-> {}]

Next ==
  \/ \E r \in Request, k \in Key, b \in Body : createSession(r, k, b)
  \/ \E r \in Request :
       \/ reservation(r) \/ reserveCreation(r) \/ reserveFork(r)
       \/ validateModel(r) \/ resolveSkills(r) \/ configure(r) \/ reserve(r)
       \/ establish(r) \/ preflight(r) \/ initialize(r) \/ registerEnvironment(r)
       \/ Pending(r) \/ Prepared(r) \/ PrepareFails(r) \/ Connected(r) \/ Failed(r)
       \/ submit(r) \/ commit(r) \/ retrieve(r) \/ Dies(r)
       \/ deleteSession(r) \/ delete(r) \/ undiscover(r) \/ purge(r)
  \/ TurnEnds

Spec == Init /\ [][Next]_vars

\* What is assumed of clients where it is named: a key does not get a second session after
\* its first was deleted.  The code does not see to it, and commit (above) is by the key.
KeysNotReused == \A k \in seen.spent : catalog.reservation[k] = {}

-----------------------------------------------------------------------------
(***************************************************************************)
(* Properties                                                              *)
(***************************************************************************)
BodyFor(id) == {s.body : s \in UNION {{t \in catalog.reservation[k] : t.id = id} : k \in Key}}

\* "The commit makes the session discoverable after its object already exists": what the
\* catalog lists has an object whose environment is configured, registered and settled and,
\* unless that failed, whose initial input was accepted.
DiscoverableIsEstablished ==
  \A id \in catalog.listed :
    /\ object[id].state # "none"
    /\ \A b \in BodyFor(id) :
         /\ b.hosted /\ ~b.fork => id \in bucket
         /\ b.hosted /\ Answers(id) => /\ object[id].environment \in {"connected", "failed"}
                                       /\ id \in catalog.environments
         /\ b.input /\ Answers(id) /\ object[id].environment # "failed" => object[id].inputs = 1

\* However often a creation is retried, concurrently or after a crash, the key has one
\* session until it is deleted: every answer names it, and a request with another body
\* gets none.
OneSessionPerKey ==
  /\ \A a, b \in seen.answers : a.key = b.key => a = b
  /\ \A id \in Id : object[id].inputs <= 1

\* A session whose deletion reached the catalog is never discovered again, although an
\* attempt to create it may still be running.
DeletedStaysHidden == seen.deleted \cap catalog.listed = {}

\* Creation, fork and deletion are atomic to a client, whatever dies in between and is
\* retried: one session per key, discovered when it is whole, and never after its end.
SessionsWhole == DiscoverableIsEstablished /\ OneSessionPerKey /\ DeletedStaysHidden
=============================================================================
