--------------------------- MODULE CatalogProofs ---------------------------
(***************************************************************************)
(* Proofs about Catalog, for any number of requests, keys, sessions and    *)
(* faults, and at the end about Library.                                   *)
(*                                                                         *)
(* The first part needs nothing of the clients.  A request that has a name *)
(* and has not reserved it is alone with the name (Fresh), so the          *)
(* reservations of the catalog, their index and the list stay in agreement *)
(* (ReservationsMatch), and what was deleted has no reservation: no        *)
(* request that is still under way can list it again.                      *)
(*                                                                         *)
(* The second part is about clients that do not reserve a key again after  *)
(* its session was deleted (KeysNotReused).  A key's reservation, the      *)
(* requests that took it up and the answers all claim one session with one *)
(* body (ClaimsAgree), and a claim outlives its reservation only if the    *)
(* session was deleted (ClaimsHold).  So a request that commits by the key *)
(* commits the session it established itself (Progress, ReadyWhole).       *)
(***************************************************************************)
EXTENDS Catalog, Library, NaturalsInduction, WellFoundedInduction, TLAPS

\* What the variables range over: a row that reserves a key; what a client was answered; the
\* stages of a request, before it has a name, before its name is reserved, when it claims
\* its session, and of a deletion; the object of a session.
Reservation == [id : Id, ready : BOOLEAN, body : Body]
Answer == [key : Key, id : Id, body : Body]
Asking == {"lookup", "resolve"}
Naming == {"configure", "reserve"}
Claiming == {"establish", "initialize", "register", "pending", "prepare", "connected", "failed",
             "submit", "commit", "retrieve"}
Ending == {"delete", "undiscover", "purge"}
Stage == Asking \cup Naming \cup Claiming \cup Ending \cup {"free"}
RequestType == [pc : Stage, key : SUBSET Key, body : SUBSET Body, id : Nat, ready : BOOLEAN]
Environment == {"none", "pending", "connected", "failed"}
ObjectState == {"none", "live", "deleted", "tombstone"}
ObjectType == [state : ObjectState, environment : Environment, input : SUBSET Key, inputs : Nat,
               active : BOOLEAN]

CatalogType == [reservation : [Key -> SUBSET Reservation], session : [Id -> SUBSET Key],
                listed : SUBSET Id, environments : SUBSET Id]
SeenType == [answers : SUBSET Answer, deleted : SUBSET Id, spent : SUBSET Key]

\* The types of the variables.
CatalogTypeOK ==
  /\ catalog \in CatalogType
  /\ object \in [Id -> ObjectType]
  /\ bucket \subseteq Id
  /\ request \in [Request -> RequestType]
  /\ named \in 0..MaxSession
  /\ seen \in SeenType
  /\ faults \in Nat

\* A request creates under one key with one body, and has a name once it was given one.
AsksOnce(r) ==
  /\ request[r].pc \in Asking \cup Naming \cup Claiming =>
       \E k \in Key, b \in Body : request[r].key = {k} /\ request[r].body = {b}
  /\ request[r].pc \in Naming \cup Claiming \cup Ending => request[r].id \in 1..named
  /\ request[r].pc \in Asking \cup {"free"} => request[r].id = 0

\* The name of a request that has not reserved yet is nobody else's.
Fresh(r) ==
  LET i == request[r].id
  IN /\ i \notin seen.deleted /\ catalog.session[i] = {} /\ object[i].state = "none"
     /\ \A q \in Request \ {r} : request[q].id # i
     /\ \A a \in seen.answers : a.id # i

\* The reservations and their index point at each other; what was deleted has none.
ReservationsMatch ==
  /\ \A k \in Key : \A s \in catalog.reservation[k] :
       /\ catalog.reservation[k] = {s} /\ catalog.session[s.id] = {k}
       /\ s.id \notin seen.deleted
       /\ s.ready <=> s.id \in catalog.listed
  /\ \A i \in Id : \A k \in catalog.session[i] : \E s \in catalog.reservation[k] : s.id = i
  /\ \A i \in catalog.listed : catalog.session[i] # {}

\* What has a trace has a name.
NamedFirst ==
  /\ \A i \in Id : i > named =>
       /\ catalog.session[i] = {} /\ object[i].state = "none" /\ i \notin seen.deleted
       /\ i \notin bucket
  /\ \A a \in seen.answers : a.id \in 1..named

\* What relates the catalog, the objects and the requests.
CatalogShape ==
  /\ \A r \in Request : AsksOnce(r)
  /\ \A r \in Request : request[r].pc \in Naming => Fresh(r)
  /\ \A r \in Request : request[r].pc = "purge" => request[r].id \in seen.deleted
  /\ ReservationsMatch
  /\ NamedFirst

\* The inductive invariant that needs nothing of the clients.
CatalogInv == CatalogTypeOK /\ CatalogShape

\* The element of a set of one.
LEMMA ChooseOne ==
  ASSUME NEW S, NEW x, S = {x}
  PROVE  (CHOOSE y \in S : TRUE) = x
OBVIOUS

\* Names are positive.
LEMMA IdIsNat == Id \subseteq Nat /\ \A i \in Id : i >= 1
BY CatalogAssumption DEF Id

\* The components of a request.
LEMMA RequestDomain ==
  /\ NoRequest \in RequestType /\ NoRequest.pc = "free" /\ NoRequest.id = 0
  /\ \A q \in RequestType :
       q.pc \in Stage /\ q.key \subseteq Key /\ q.body \subseteq Body /\ q.id \in Nat
BY DEF NoRequest, RequestType, Stage

\* What going to the next stage does to the requests.
LEMMA GotoEffect ==
  ASSUME CatalogTypeOK, NEW r \in Request, NEW p \in Stage, Goto(r, p)
  PROVE  /\ request' \in [Request -> RequestType]
         /\ \A q \in Request \ {r} : request'[q] = request[q]
         /\ request'[r].pc = p /\ request'[r].key = request[r].key
         /\ request'[r].body = request[r].body /\ request'[r].id = request[r].id
BY DEF CatalogTypeOK, Goto, RequestType

\* What ending does.
LEMMA EndsEffect ==
  ASSUME CatalogTypeOK, NEW r \in Request, Ends(r)
  PROVE  /\ request' \in [Request -> RequestType]
         /\ \A q \in Request \ {r} : request'[q] = request[q]
         /\ request'[r].pc = "free" /\ request'[r].id = 0
BY RequestDomain DEF CatalogTypeOK, Ends

\* A request that finds its key reserved takes the reservation up, or ends.
LEMMA RecoveredEffect ==
  ASSUME CatalogTypeOK, NEW r \in Request, NEW s \in Reservation, Recovered(r, s),
         NEW b, request[r].body = {b}
  PROVE  /\ request' \in [Request -> RequestType]
         /\ \A q \in Request \ {r} : request'[q] = request[q]
         /\ \/ request'[r].pc = "free" /\ request'[r].id = 0
            \/ /\ request'[r].pc = "establish" /\ request'[r].key = request[r].key
               /\ request'[r].body = request[r].body /\ request'[r].id = s.id /\ s.body = b
<1>1. BodyOf(r) = b
  BY ChooseOne DEF BodyOf
<1>2. CASE s.body # BodyOf(r)
  BY <1>2, EndsEffect DEF Recovered
<1>3. CASE s.body = BodyOf(r)
  <2>1. request' = [request EXCEPT ![r].pc = "establish", ![r].id = s.id, ![r].ready = s.ready]
    BY <1>3 DEF Recovered
  <2>2. s.id \in Nat /\ s.ready \in BOOLEAN
    BY IdIsNat DEF Reservation
  <2> DEFINE x == [request[r] EXCEPT !.pc = "establish", !.id = s.id, !.ready = s.ready]
  <2>3. request' = [request EXCEPT ![r] = x] /\ request[r] \in RequestType
    BY <2>1 DEF CatalogTypeOK
  <2>4. /\ x \in RequestType /\ x.pc = "establish" /\ x.id = s.id
        /\ x.key = request[r].key /\ x.body = request[r].body
    <3>1. "establish" \in Stage
      BY DEF Stage, Claiming
    <3>2. request[r] \in RequestType
      BY <2>3
    <3> QED BY ONLY <3>1, <3>2, <2>2 DEF RequestType
  <2> HIDE DEF x
  <2> QED BY <1>1, <1>3, <2>3, <2>4 DEF CatalogTypeOK
<1> QED BY <1>2, <1>3

\* A new request has a key and a body, and no name.
LEMMA AskEffect ==
  ASSUME CatalogTypeOK, NEW r \in Request, NEW k \in Key, NEW b \in Body,
         request' = [request EXCEPT ![r] = [NoRequest EXCEPT !.pc = "lookup", !.key = {k},
                                                             !.body = {b}]]
  PROVE  /\ request' \in [Request -> RequestType]
         /\ \A q \in Request \ {r} : request'[q] = request[q]
         /\ request'[r].pc = "lookup" /\ request'[r].key = {k}
         /\ request'[r].body = {b} /\ request'[r].id = 0
BY DEF CatalogTypeOK, RequestType, NoRequest, Stage, Asking

\* A new deletion has the name of a session.
LEMMA DeleteEffect ==
  ASSUME CatalogTypeOK, NEW r \in Request, NEW i \in Id,
         request' = [request EXCEPT ![r] = [NoRequest EXCEPT !.pc = "delete", !.id = i]]
  PROVE  /\ request' \in [Request -> RequestType]
         /\ \A q \in Request \ {r} : request'[q] = request[q]
         /\ request'[r].pc = "delete" /\ request'[r].id = i
BY IdIsNat DEF CatalogTypeOK, RequestType, NoRequest, Stage, Ending

\* A request is given the next name.
LEMMA NamesEffect ==
  ASSUME CatalogTypeOK, NEW r \in Request, NEW p \in Stage, Names(r, p)
  PROVE  /\ request' \in [Request -> RequestType]
         /\ \A q \in Request \ {r} : request'[q] = request[q]
         /\ request'[r].pc = p /\ request'[r].key = request[r].key
         /\ request'[r].body = request[r].body /\ request'[r].id = named'
         /\ named' = named + 1 /\ named' \in 1..MaxSession
<1>1. named' = named + 1 /\ named' \in 1..MaxSession
  BY CatalogAssumption DEF Names, CatalogTypeOK
<1>2. request' = [request EXCEPT ![r].id = named + 1, ![r].pc = p]
  BY DEF Names
<1> DEFINE x == [request[r] EXCEPT !.id = named + 1, !.pc = p]
<1>3. request' = [request EXCEPT ![r] = x] /\ request[r] \in RequestType
  BY <1>2 DEF CatalogTypeOK
<1>4. /\ x \in RequestType /\ x.pc = p /\ x.id = named + 1
      /\ x.key = request[r].key /\ x.body = request[r].body
  <2>1. named + 1 \in Nat /\ p \in Stage
    BY <1>1
  <2>2. request[r] \in RequestType
    BY <1>3
  <2> QED BY ONLY <2>1, <2>2 DEF RequestType
<1> HIDE DEF x
<1> QED BY <1>1, <1>3, <1>4 DEF CatalogTypeOK

\* What the key of a request has reserved.
LEMMA ReservedFound ==
  ASSUME CatalogTypeOK, NEW k \in Key, catalog.reservation[k] # {}
  PROVE  Reserved(k) \in catalog.reservation[k] /\ Reserved(k) \in Reservation
BY DEF CatalogTypeOK, CatalogType, Reserved

\* The key and the body of a request that creates.
LEMMA KeyFound ==
  ASSUME CatalogTypeOK, NEW r \in Request, AsksOnce(r),
         request[r].pc \in Asking \cup Naming \cup Claiming
  PROVE  /\ KeyOf(r) \in Key /\ request[r].key = {KeyOf(r)}
         /\ BodyOf(r) \in Body /\ request[r].body = {BodyOf(r)}
<1>1. PICK k \in Key, b \in Body : request[r].key = {k} /\ request[r].body = {b}
  BY DEF AsksOnce
<1>2. KeyOf(r) = k /\ BodyOf(r) = b
  BY <1>1, ChooseOne DEF KeyOf, BodyOf
<1> QED BY <1>1, <1>2

\* The writes of the catalog.
LEMMA ReserveEffect ==
  ASSUME CatalogTypeOK, NEW r \in Request, reserve(r), KeyOf(r) \in Key, BodyOf(r) \in Body,
         request[r].id \in Id
  PROVE  LET k == KeyOf(r)
             b == BodyOf(r)
             i == request[r].id
         IN
         /\ catalog' \in CatalogType
         /\ \/ catalog' = catalog /\ catalog.reservation[k] # {}
            \/ /\ catalog.reservation[k] = {}
               /\ \E s \in Reservation :
                    /\ s.id = i /\ s.body = b /\ ~s.ready
                    /\ catalog'.reservation = [catalog.reservation EXCEPT ![k] = {s}]
               /\ catalog'.session = [catalog.session EXCEPT ![i] = {k}]
               /\ catalog'.listed = catalog.listed
               /\ catalog'.environments = catalog.environments
               /\ request'[r].pc = "establish" /\ request'[r].id = i
<1> DEFINE k == KeyOf(r)
           b == BodyOf(r)
           i == request[r].id
           s == [id |-> i, ready |-> FALSE, body |-> b]
<1>0. k \in Key /\ i \in Id
  OBVIOUS
<1>1. s \in Reservation /\ s.id = i /\ s.body = b /\ ~s.ready
  BY DEF Reservation
<1>2. catalog \in CatalogType
  BY DEF CatalogTypeOK
<1>3. CASE catalog.reservation[k] # {}
  BY <1>2, <1>3 DEF reserve
<1>4. CASE catalog.reservation[k] = {}
  <2>1. /\ catalog' = [catalog EXCEPT !.reservation[k] = {s}, !.session[i] = {k}]
        /\ Goto(r, "establish")
    BY <1>4 DEF reserve
  <2>2. request'[r].pc = "establish" /\ request'[r].id = i
    BY <2>1, GotoEffect DEF Stage, Claiming
  <2> HIDE DEF s
  <2>3. /\ catalog' \in CatalogType
        /\ catalog'.reservation = [catalog.reservation EXCEPT ![k] = {s}]
        /\ catalog'.session = [catalog.session EXCEPT ![i] = {k}]
        /\ catalog'.listed = catalog.listed
        /\ catalog'.environments = catalog.environments
    BY ONLY <1>0, <1>1, <1>2, <2>1 DEF CatalogType
  <2> QED BY <1>1, <1>4, <2>2, <2>3
<1> QED BY <1>3, <1>4

\* A key that was free has the reservation that was asked for.
LEMMA ReserveMakes ==
  ASSUME CatalogTypeOK, NEW r \in Request, reserve(r), KeyOf(r) \in Key, BodyOf(r) \in Body,
         request[r].id \in Id, catalog.reservation[KeyOf(r)] = {}
  PROVE  \E s \in catalog'.reservation[KeyOf(r)] : s.id = request[r].id /\ s.body = BodyOf(r)
<1>1. PICK s \in Reservation :
        /\ s.id = request[r].id /\ s.body = BodyOf(r)
        /\ catalog'.reservation = [catalog.reservation EXCEPT ![KeyOf(r)] = {s}]
  BY ReserveEffect
<1>2. catalog.reservation \in [Key -> SUBSET Reservation]
  BY DEF CatalogTypeOK, CatalogType
<1>3. catalog'.reservation[KeyOf(r)] = {s}
  BY ONLY <1>1, <1>2, KeyOf(r) \in Key
<1> QED BY <1>1, <1>3

\* An environment is registered.
LEMMA RegisterEffect ==
  ASSUME CatalogTypeOK, NEW r \in Request, registerEnvironment(r), request[r].id \in Id
  PROVE  /\ catalog' \in CatalogType
         /\ catalog'.reservation = catalog.reservation /\ catalog'.session = catalog.session
         /\ catalog'.listed = catalog.listed
         /\ catalog'.environments = catalog.environments \cup {request[r].id}
<1>1. catalog \in CatalogType
  BY DEF CatalogTypeOK
<1>2. catalog' = [catalog EXCEPT !.environments = @ \cup {request[r].id}]
  BY DEF registerEnvironment
<1> QED BY ONLY <1>1, <1>2, request[r].id \in Id DEF CatalogType

\* What the key reserves becomes ready, and is listed.
LEMMA CommitEffect ==
  ASSUME CatalogTypeOK, NEW r \in Request, commit(r), KeyOf(r) \in Key
  PROVE  LET k == KeyOf(r)
         IN
         /\ catalog' \in CatalogType
         /\ \/ catalog' = catalog /\ catalog.reservation[k] = {}
            \/ /\ catalog.reservation[k] # {}
               /\ \E s \in Reservation :
                    /\ s.id = Reserved(k).id /\ s.body = Reserved(k).body /\ s.ready
                    /\ catalog'.reservation = [catalog.reservation EXCEPT ![k] = {s}]
               /\ catalog'.session = catalog.session
               /\ catalog'.listed = catalog.listed \cup {Reserved(k).id}
                    \/ (catalog'.listed = catalog.listed /\ Reserved(k).ready)
               /\ catalog'.environments = catalog.environments
<1> DEFINE k == KeyOf(r)
           t == Reserved(k)
           s == [t EXCEPT !.ready = TRUE]
           l == IF t.ready THEN catalog.listed ELSE catalog.listed \cup {t.id}
<1>1. catalog \in CatalogType
  BY DEF CatalogTypeOK
<1>2. CASE catalog.reservation[k] = {}
  BY <1>1, <1>2 DEF commit
<1>3. CASE catalog.reservation[k] # {}
  <2>1. t \in Reservation
    BY <1>3, ReservedFound
  <2>2. catalog' = [catalog EXCEPT !.reservation[k] = {s}, !.listed = l]
    BY <1>3 DEF commit
  <2>3. s \in Reservation /\ s.id = t.id /\ s.body = t.body /\ s.ready /\ t.id \in Id
    BY ONLY <2>1 DEF Reservation
  <2>4. l \subseteq Id
    BY <1>1, <2>3 DEF CatalogType
  <2> HIDE DEF s, l
  <2>5. /\ catalog' \in CatalogType
        /\ catalog'.reservation = [catalog.reservation EXCEPT ![k] = {s}]
        /\ catalog'.session = catalog.session
        /\ catalog'.listed = l
        /\ catalog'.environments = catalog.environments
    BY ONLY <1>1, <2>2, <2>3, <2>4, KeyOf(r) \in Key DEF CatalogType
  <2>6. l = catalog.listed \cup {t.id} \/ (l = catalog.listed /\ t.ready)
    BY DEF l
  <2> QED BY <1>3, <2>3, <2>5, <2>6
<1> QED BY <1>2, <1>3

\* The rows of a session go, and what its clients knew of it.
LEMMA UndiscoverEffect ==
  ASSUME CatalogTypeOK, NEW r \in Request, undiscover(r), request[r].id \in Id
  PROVE  LET i == request[r].id
         IN
         /\ catalog' \in CatalogType /\ seen' \in SeenType
         /\ \A k \in Key : catalog'.reservation[k] =
                             IF k \in catalog.session[i] THEN {} ELSE catalog.reservation[k]
         /\ catalog'.session = [catalog.session EXCEPT ![i] = {}]
         /\ catalog'.listed = catalog.listed \ {i}
         /\ catalog'.environments = catalog.environments
         /\ seen'.deleted = seen.deleted \cup {i}
         /\ seen'.spent = seen.spent \cup catalog.session[i]
         /\ seen'.answers = {a \in seen.answers : a.id # i}
<1> DEFINE i == request[r].id
           v == [k \in Key |-> IF k \in catalog.session[i] THEN {} ELSE catalog.reservation[k]]
           l == catalog.listed \ {i}
           d == seen.deleted \cup {i}
           p == seen.spent \cup catalog.session[i]
           w == {a \in seen.answers : a.id # i}
<1>1. catalog \in CatalogType /\ seen \in SeenType
  BY DEF CatalogTypeOK
<1>2. /\ catalog' = [catalog EXCEPT !.listed = l, !.reservation = v, !.session[i] = {}]
      /\ seen' = [seen EXCEPT !.deleted = d, !.spent = p, !.answers = w]
  BY DEF undiscover
<1>0. i \in Id
  OBVIOUS
<1>3. /\ v \in [Key -> SUBSET Reservation] /\ l \subseteq Id /\ d \subseteq Id /\ p \subseteq Key
      /\ w \subseteq Answer
  BY ONLY <1>0, <1>1 DEF CatalogType, SeenType
<1>4. \A k \in Key : v[k] = IF k \in catalog.session[i] THEN {} ELSE catalog.reservation[k]
  OBVIOUS
<1> HIDE DEF v, l, d, p, w
<1>5. /\ catalog' \in CatalogType /\ catalog'.reservation = v
      /\ catalog'.session = [catalog.session EXCEPT ![i] = {}]
      /\ catalog'.listed = l /\ catalog'.environments = catalog.environments
  BY ONLY <1>0, <1>1, <1>2, <1>3 DEF CatalogType
<1>6. seen' \in SeenType /\ seen'.deleted = d /\ seen'.spent = p /\ seen'.answers = w
  BY ONLY <1>1, <1>2, <1>3 DEF SeenType
<1> QED BY <1>4, <1>5, <1>6 DEF l, d, p, w

\* An answer is what the request claims.
LEMMA RetrieveEffect ==
  ASSUME CatalogTypeOK, NEW r \in Request, retrieve(r), KeyOf(r) \in Key, BodyOf(r) \in Body,
         request[r].id \in Id
  PROVE  /\ seen' \in SeenType /\ seen'.deleted = seen.deleted /\ seen'.spent = seen.spent
         /\ \A a \in seen'.answers :
              \/ a \in seen.answers
              \/ a.key = KeyOf(r) /\ a.id = request[r].id /\ a.body = BodyOf(r)
<1> DEFINE a == [key |-> KeyOf(r), id |-> request[r].id, body |-> BodyOf(r)]
           w == seen.answers \cup {a}
<1>1. seen \in SeenType
  BY DEF CatalogTypeOK
<1>2. a \in Answer
  BY DEF Answer
<1>3. w \subseteq Answer
  BY <1>1, <1>2 DEF SeenType
<1>4. seen' = seen \/ seen' = [seen EXCEPT !.answers = w]
  BY DEF retrieve
<1>5. \A x \in w : x \in seen.answers \/ x = a
  OBVIOUS
<1>6. a.key = KeyOf(r) /\ a.id = request[r].id /\ a.body = BodyOf(r)
  OBVIOUS
<1> HIDE DEF w, a
<1>7. \/ seen' = seen
      \/ seen' \in SeenType /\ seen'.deleted = seen.deleted /\ seen'.spent = seen.spent
         /\ seen'.answers = w
  BY ONLY <1>1, <1>3, <1>4 DEF SeenType
<1> QED BY <1>1, <1>5, <1>6, <1>7

\* How a step moves a request: it ends; it asks; it is given the next name; it goes on
\* under its name or takes up a reservation; it deletes what was answered or listed.
Moved(r) ==
  /\ request' \in [Request -> RequestType]
  /\ \A q \in Request \ {r} : request'[q] = request[q]
  /\ \/ request'[r].pc = "free" /\ request'[r].id = 0 /\ named' = named
     \/ /\ request'[r].pc \in Asking /\ request'[r].id = 0 /\ named' = named
        /\ \E k \in Key, b \in Body : request'[r].key = {k} /\ request'[r].body = {b}
     \/ /\ request'[r].pc \in Naming
        /\ request[r].pc \in Asking \cup Naming
        /\ request'[r].key = request[r].key /\ request'[r].body = request[r].body
        /\ \/ /\ request[r].pc \in Asking
              /\ request'[r].id = named' /\ named' = named + 1 /\ named' \in 1..MaxSession
           \/ /\ request[r].pc \in Naming
              /\ request'[r].id = request[r].id /\ named' = named
     \/ /\ request'[r].pc \in Claiming /\ named' = named
        /\ request[r].pc \in Asking \cup Naming \cup Claiming
        /\ request'[r].key = request[r].key /\ request'[r].body = request[r].body
        /\ \/ request[r].pc \in Claiming /\ request'[r].id = request[r].id
           \/ /\ request[r].pc \in Naming /\ request'[r].id = request[r].id
              /\ \E s \in catalog'.reservation[KeyOf(r)] :
                   s.id = request[r].id /\ s.body = BodyOf(r)
           \/ \E s \in catalog.reservation[KeyOf(r)] :
                request'[r].id = s.id /\ s.body = BodyOf(r)
     \/ /\ request'[r].pc \in Ending /\ named' = named
        /\ request'[r].pc = "purge" => request'[r].id \in seen'.deleted
        /\ \/ request[r].pc \in Ending /\ request'[r].id = request[r].id
           \/ \E i \in {a.id : a \in seen.answers} \cup catalog.listed : request'[r].id = i

\* Every step moves one request, or none.
LEMMA MovedStep ==
  ASSUME CatalogInv, [Next]_vars
  PROVE  (\E r \in Request : Moved(r)) \/ UNCHANGED <<request, named>>
<1> DEFINE G == (\E r \in Request : Moved(r)) \/ UNCHANGED <<request, named>>
<1>0. CatalogTypeOK /\ CatalogShape
  BY DEF CatalogInv
<1>s. /\ Asking \cup Naming \cup Claiming \cup Ending \cup {"free"} = Stage
  BY DEF Stage
<1> USE DEF Moved, At
<1>1. ASSUME NEW r \in Request, NEW k \in Key, NEW b \in Body, createSession(r, k, b) PROVE G
  <2>1. UNCHANGED named /\ request' = [request EXCEPT
              ![r] = [NoRequest EXCEPT !.pc = "lookup", !.key = {k}, !.body = {b}]]
    BY <1>1 DEF createSession
  <2>2. /\ request' \in [Request -> RequestType]
        /\ \A q \in Request \ {r} : request'[q] = request[q]
        /\ request'[r].pc = "lookup" /\ request'[r].key = {k}
        /\ request'[r].body = {b} /\ request'[r].id = 0
    BY ONLY <1>0, <2>1, AskEffect
  <2> QED BY <2>1, <2>2 DEF Asking
<1>2. ASSUME NEW r \in Request, reservation(r) PROVE G
  <2>1. request[r].pc \in Asking \cup Naming /\ AsksOnce(r)
    BY <1>0, <1>2 DEF reservation, CatalogShape, Asking, Naming
  <2>2. KeyOf(r) \in Key /\ request[r].body = {BodyOf(r)}
    BY <1>0, <2>1, KeyFound
  <2>3. CASE catalog.reservation[KeyOf(r)] = {}
    BY <1>0, <1>s, <1>2, <2>1, <2>3, GotoEffect
       DEF reservation, Asking, Naming, Claiming, AsksOnce
  <2>4. CASE catalog.reservation[KeyOf(r)] # {}
    <3>1. Recovered(r, Reserved(KeyOf(r))) /\ UNCHANGED named
      BY <1>2, <2>4 DEF reservation
    <3>2. /\ Reserved(KeyOf(r)) \in catalog.reservation[KeyOf(r)]
          /\ Reserved(KeyOf(r)) \in Reservation
      BY <1>0, <2>2, <2>4, ReservedFound
    <3>3. /\ request' \in [Request -> RequestType]
          /\ \A q \in Request \ {r} : request'[q] = request[q]
          /\ \/ request'[r].pc = "free" /\ request'[r].id = 0
             \/ /\ request'[r].pc = "establish" /\ request'[r].key = request[r].key
                /\ request'[r].body = request[r].body
                /\ request'[r].id = Reserved(KeyOf(r)).id
                /\ Reserved(KeyOf(r)).body = BodyOf(r)
      BY <1>0, <2>2, <3>1, <3>2, RecoveredEffect
    <3>4. CASE request'[r].pc = "free"
      BY <3>1, <3>3, <3>4
    <3>5. CASE request'[r].pc = "establish"
      <4>1. \E s \in catalog.reservation[KeyOf(r)] :
              request'[r].id = s.id /\ s.body = BodyOf(r)
        BY <3>2, <3>3, <3>5
      <4> QED BY <2>1, <3>1, <3>3, <3>5, <4>1 DEF Claiming
    <3> QED BY <3>3, <3>4, <3>5
  <2> QED BY <2>3, <2>4
<1>3. ASSUME NEW r \in Request, reserveCreation(r) PROVE G
  BY <1>0, <1>s, <1>3, NamesEffect
     DEF reserveCreation, Asking, Naming, Names, CatalogShape, AsksOnce
<1>4. ASSUME NEW r \in Request, reserveFork(r) PROVE G
  BY <1>0, <1>s, <1>4, NamesEffect
     DEF reserveFork, Asking, Naming, Names, CatalogShape, AsksOnce
<1>5. ASSUME NEW r \in Request, validateModel(r) PROVE G
  BY <1>0, <1>s, <1>5, EndsEffect DEF validateModel, Fails
<1>6. ASSUME NEW r \in Request, resolveSkills(r) PROVE G
  BY <1>0, <1>s, <1>6, EndsEffect DEF resolveSkills, Fails
<1>7. ASSUME NEW r \in Request, configure(r) PROVE G
  BY <1>0, <1>s, <1>7, GotoEffect
     DEF configure, Asking, Naming, Claiming, Ending, CatalogShape, AsksOnce
<1>8. ASSUME NEW r \in Request, reserve(r) PROVE G
  <2>1. request[r].pc \in Asking \cup Naming /\ AsksOnce(r)
    BY <1>0, <1>8 DEF reserve, CatalogShape, Asking, Naming
  <2>2. KeyOf(r) \in Key /\ request[r].body = {BodyOf(r)}
    BY <1>0, <2>1, KeyFound
  <2>3. CASE catalog.reservation[KeyOf(r)] = {}
    <3>1. Goto(r, "establish") /\ UNCHANGED named
      BY <1>8, <2>3 DEF reserve
    <3>2. \E s \in catalog'.reservation[KeyOf(r)] :
            s.id = request[r].id /\ s.body = BodyOf(r)
      <4>1. BodyOf(r) \in Body /\ request[r].id \in Id /\ KeyOf(r) \in Key
        <5>1. named \in 0..MaxSession /\ MaxSession \in Nat
          BY <1>0, CatalogAssumption DEF CatalogTypeOK
        <5> QED BY <1>0, <1>8, <2>1, <5>1, KeyFound DEF reserve, AsksOnce, Naming, Id
      <4> QED BY <1>0, <1>8, <2>3, <4>1, ReserveMakes
    <3>3. "establish" \in Stage /\ "establish" \in Claiming /\ request[r].pc \in Naming
      BY <1>8 DEF reserve, Stage, Claiming, Naming
    <3>4. /\ request' \in [Request -> RequestType]
          /\ \A q \in Request \ {r} : request'[q] = request[q]
          /\ request'[r].pc = "establish" /\ request'[r].key = request[r].key
          /\ request'[r].body = request[r].body /\ request'[r].id = request[r].id
      BY <1>0, <3>1, <3>3, GotoEffect
    <3> QED BY <3>1, <3>2, <3>3, <3>4
  <2>4. CASE catalog.reservation[KeyOf(r)] # {}
    <3>1. Recovered(r, Reserved(KeyOf(r))) /\ UNCHANGED named
      BY <1>8, <2>4 DEF reserve
    <3>2. /\ Reserved(KeyOf(r)) \in catalog.reservation[KeyOf(r)]
          /\ Reserved(KeyOf(r)) \in Reservation
      BY <1>0, <2>2, <2>4, ReservedFound
    <3>3. /\ request' \in [Request -> RequestType]
          /\ \A q \in Request \ {r} : request'[q] = request[q]
          /\ \/ request'[r].pc = "free" /\ request'[r].id = 0
             \/ /\ request'[r].pc = "establish" /\ request'[r].key = request[r].key
                /\ request'[r].body = request[r].body
                /\ request'[r].id = Reserved(KeyOf(r)).id
                /\ Reserved(KeyOf(r)).body = BodyOf(r)
      BY <1>0, <2>2, <3>1, <3>2, RecoveredEffect
    <3>4. CASE request'[r].pc = "free"
      BY <3>1, <3>3, <3>4
    <3>5. CASE request'[r].pc = "establish"
      <4>1. \E s \in catalog.reservation[KeyOf(r)] :
              request'[r].id = s.id /\ s.body = BodyOf(r)
        BY <3>2, <3>3, <3>5
      <4> QED BY <2>1, <3>1, <3>3, <3>5, <4>1 DEF Claiming
    <3> QED BY <3>3, <3>4, <3>5
  <2> QED BY <2>3, <2>4
<1>9. ASSUME NEW r \in Request, establish(r) PROVE G
  BY <1>0, <1>s, <1>9, GotoEffect
     DEF establish, Asking, Naming, Claiming, Ending, CatalogShape, AsksOnce
<1>10. ASSUME NEW r \in Request, preflight(r) PROVE G
  BY <1>0, <1>s, <1>10, EndsEffect DEF preflight, Fails
<1>11. ASSUME NEW r \in Request, initialize(r) PROVE G
  BY <1>0, <1>s, <1>11, GotoEffect
     DEF initialize, Asking, Naming, Claiming, Ending, CatalogShape, AsksOnce
<1>12. ASSUME NEW r \in Request, registerEnvironment(r) PROVE G
  BY <1>0, <1>s, <1>12, GotoEffect
     DEF registerEnvironment, Asking, Naming, Claiming, Ending, CatalogShape, AsksOnce
<1>13. ASSUME NEW r \in Request, Pending(r) PROVE G
  BY <1>0, <1>s, <1>13, GotoEffect, EndsEffect
     DEF Pending, Asking, Naming, Claiming, Ending, environmentStatus
<1>14. ASSUME NEW r \in Request, Prepared(r) PROVE G
  BY <1>0, <1>s, <1>14, GotoEffect
     DEF Prepared, Asking, Naming, Claiming, Ending, CatalogShape, AsksOnce
<1>15. ASSUME NEW r \in Request, PrepareFails(r) PROVE G
  BY <1>0, <1>s, <1>15, GotoEffect
     DEF PrepareFails, Asking, Naming, Claiming, Ending, CatalogShape, AsksOnce
<1>16. ASSUME NEW r \in Request, Connected(r) PROVE G
  BY <1>0, <1>s, <1>16, GotoEffect, EndsEffect
     DEF Connected, Asking, Naming, Claiming, Ending, environmentStatus
<1>17. ASSUME NEW r \in Request, Failed(r) PROVE G
  BY <1>0, <1>s, <1>17, GotoEffect, EndsEffect
     DEF Failed, Asking, Naming, Claiming, Ending, environmentStatus
<1>18. ASSUME NEW r \in Request, submit(r) PROVE G
  BY <1>0, <1>s, <1>18, GotoEffect, EndsEffect
     DEF submit, Asking, Naming, Claiming, Ending, environmentStatus
<1>19. ASSUME NEW r \in Request, commit(r) PROVE G
  BY <1>0, <1>s, <1>19, GotoEffect, EndsEffect
     DEF commit, Asking, Naming, Claiming, Ending, environmentStatus
<1>20. ASSUME NEW r \in Request, retrieve(r) PROVE G
  BY <1>0, <1>s, <1>20, EndsEffect DEF retrieve
<1>21. ASSUME NEW r \in Request, Dies(r) PROVE G
  BY <1>0, <1>s, <1>21, EndsEffect DEF Dies, Fails
<1>22. ASSUME NEW r \in Request, deleteSession(r) PROVE G
  <2>1. PICK i \in {a.id : a \in seen.answers} \cup catalog.listed :
          request' = [request EXCEPT ![r] = [NoRequest EXCEPT !.pc = "delete", !.id = i]]
    BY <1>22 DEF deleteSession
  <2>2. i \in Id
    BY <1>0 DEF CatalogTypeOK, CatalogType, SeenType, Answer
  <2>3. UNCHANGED named
    BY <1>22 DEF deleteSession
  <2>4. /\ request' \in [Request -> RequestType]
        /\ \A q \in Request \ {r} : request'[q] = request[q]
        /\ request'[r].pc = "delete" /\ request'[r].id = i
    BY ONLY <1>0, <2>1, <2>2, r \in Request, DeleteEffect
  <2> QED BY <2>1, <2>3, <2>4 DEF Ending
<1>23. ASSUME NEW r \in Request, delete(r) PROVE G
  BY <1>0, <1>s, <1>23, GotoEffect, EndsEffect
     DEF delete, Asking, Naming, Claiming, Ending, environmentStatus
<1>24. ASSUME NEW r \in Request, undiscover(r) PROVE G
  <2>1. request[r].id \in Id /\ request[r].id \in seen'.deleted
    <3>1. request[r].id \in Id
      <4>1. named \in 0..MaxSession /\ MaxSession \in Nat
        BY <1>0, CatalogAssumption DEF CatalogTypeOK
      <4> QED BY <1>0, <1>24, <4>1 DEF undiscover, CatalogShape, AsksOnce, Ending, Id
    <3> QED BY <1>0, <1>24, <3>1, UndiscoverEffect
  <2> QED BY <1>0, <1>s, <1>24, <2>1, GotoEffect DEF undiscover, Ending
<1>25. ASSUME NEW r \in Request, purge(r) PROVE G
  BY <1>0, <1>s, <1>25, EndsEffect DEF purge
<1>26. ASSUME TurnEnds PROVE G
  BY <1>26 DEF TurnEnds
<1>27. ASSUME UNCHANGED vars PROVE G
  BY <1>27 DEF vars
<1> QED
  BY <1>1, <1>2, <1>3, <1>4, <1>5, <1>6, <1>7, <1>8, <1>9, <1>10, <1>11, <1>12, <1>13, <1>14,
     <1>15, <1>16, <1>17, <1>18, <1>19, <1>20, <1>21, <1>22, <1>23, <1>24, <1>25, <1>26,
     <1>27
     DEF Next

\* What the writes of a session object do.
LEMMA ObjectDomain ==
  /\ NoObject \in ObjectType /\ NoObject.state = "none" /\ NoObject.input = {}
  /\ newSessionRecord \in ObjectType
  /\ newSessionRecord.state = "live" /\ newSessionRecord.environment = "none"
  /\ newSessionRecord.input = {} /\ newSessionRecord.inputs = 0
  /\ [NoObject EXCEPT !.state = "tombstone"] \in ObjectType
  /\ [NoObject EXCEPT !.state = "tombstone"].state = "tombstone"
  /\ [NoObject EXCEPT !.state = "tombstone"].input = {}
  /\ [NoObject EXCEPT !.state = "tombstone"].inputs = 0
  /\ \A o \in ObjectType :
       /\ o.state \in ObjectState /\ o.environment \in Environment
       /\ o.input \subseteq Key /\ o.inputs \in Nat
BY DEF NoObject, newSessionRecord, ObjectType, ObjectState, Environment

\* Writing one component of an object leaves the others.
LEMMA ObjectUpdates ==
  ASSUME NEW o \in ObjectType
  PROVE  /\ \A e \in Environment :
              /\ [o EXCEPT !.environment = e] \in ObjectType
              /\ [o EXCEPT !.environment = e].environment = e
              /\ [o EXCEPT !.environment = e].state = o.state
              /\ [o EXCEPT !.environment = e].input = o.input
              /\ [o EXCEPT !.environment = e].inputs = o.inputs
         /\ [o EXCEPT !.state = "deleted"] \in ObjectType
         /\ [o EXCEPT !.state = "deleted"].state = "deleted"
         /\ [o EXCEPT !.state = "deleted"].input = o.input
         /\ [o EXCEPT !.state = "deleted"].inputs = o.inputs
         /\ [o EXCEPT !.active = FALSE] \in ObjectType
         /\ [o EXCEPT !.active = FALSE].state = o.state
         /\ [o EXCEPT !.active = FALSE].environment = o.environment
         /\ [o EXCEPT !.active = FALSE].input = o.input
         /\ [o EXCEPT !.active = FALSE].inputs = o.inputs
BY DEF ObjectType, ObjectState

\* An input that is taken is counted.
LEMMA ObjectSubmits ==
  ASSUME NEW o \in ObjectType, NEW k \in Key,
         NEW m, m = [o EXCEPT !.input = @ \cup {k}, !.inputs = @ + 1, !.active = TRUE]
  PROVE  /\ m \in ObjectType /\ m.input = o.input \cup {k} /\ m.inputs = o.inputs + 1
         /\ m.state = o.state /\ m.environment = o.environment
<1>1. o.input \cup {k} \subseteq Key /\ o.inputs + 1 \in Nat
  BY ObjectDomain
<1> DEFINE S == o.input \cup {k}
           n == o.inputs + 1
           x == [o EXCEPT !.input = S]
           y == [x EXCEPT !.inputs = n]
<1>2. m = [y EXCEPT !.active = TRUE]
  BY DEF ObjectType
<1>3. S \subseteq Key /\ n \in Nat
  BY <1>1
<1> HIDE DEF S, n
<1>4. /\ x \in ObjectType /\ x.input = S /\ x.inputs = o.inputs
      /\ x.state = o.state /\ x.environment = o.environment
  BY <1>3 DEF ObjectType
<1> HIDE DEF x
<1>5. /\ y \in ObjectType /\ y.input = x.input /\ y.inputs = n
      /\ y.state = x.state /\ y.environment = x.environment
  BY <1>3, <1>4 DEF ObjectType
<1> HIDE DEF y
<1>6. /\ m \in ObjectType /\ m.input = y.input /\ m.inputs = y.inputs
      /\ m.state = y.state /\ m.environment = y.environment
  BY <1>2, <1>5 DEF ObjectType
<1> QED BY <1>4, <1>5, <1>6 DEF S, n

\* Of the objects at most that of i was written.
OnlyOf(i) ==
  object' \in [Id -> ObjectType] /\ \A j \in Id \ {i} : object'[j] = object[j]

\* What each write of an object does.
LEMMA InitializeEffect ==
  ASSUME CatalogTypeOK, NEW r \in Request, initialize(r), request[r].id \in Id
  PROVE  LET i == request[r].id
         IN /\ OnlyOf(i)
            /\ object[i].state \in {"live", "deleted"} => object'[i] = object[i]
            /\ object[i].state \notin {"live", "deleted"} =>
                 /\ object'[i].state = "live" /\ object'[i].environment = "none"
                 /\ object'[i].input = {} /\ object'[i].inputs = 0
BY ObjectDomain DEF CatalogTypeOK, initialize, OnlyOf

\* The status of an environment is applied to an object that answers.
LEMMA StatusEffect ==
  ASSUME CatalogTypeOK, NEW r \in Request, NEW pc, NEW status \in Environment, NEW next,
         environmentStatus(r, pc, status, next), request[r].id \in Id
  PROVE  LET i == request[r].id
         IN /\ OnlyOf(i)
            /\ object'[i].state = object[i].state /\ object'[i].input = object[i].input
            /\ object'[i].inputs = object[i].inputs
            /\ object'[i].environment =
                 IF Answers(i) THEN Applied(object[i].environment, status)
                 ELSE object[i].environment
<1> DEFINE i == request[r].id
           o == object[i]
           e == Applied(o.environment, status)
<1>1. o \in ObjectType /\ object \in [Id -> ObjectType]
  BY DEF CatalogTypeOK
<1>2. e \in Environment
  BY <1>1, ObjectDomain DEF Applied
<1>3. CASE Answers(i)
  <2>1. object' = [object EXCEPT ![i].environment = e]
    BY <1>3 DEF environmentStatus
  <2> DEFINE m == [o EXCEPT !.environment = e]
  <2>2. object' = [object EXCEPT ![i] = m]
    BY <2>1
  <2>3. /\ m \in ObjectType /\ m.environment = e /\ m.state = o.state
        /\ m.input = o.input /\ m.inputs = o.inputs
    BY ONLY <1>1, <1>2, ObjectUpdates
  <2> HIDE DEF m, e
  <2>4. object'[i] = m
    BY <1>1, <2>2
  <2>5. OnlyOf(i)
    BY <1>1, <2>2, <2>3 DEF OnlyOf
  <2> QED BY <1>3, <2>3, <2>4, <2>5 DEF e
<1>4. CASE ~Answers(i)
  BY <1>1, <1>4 DEF environmentStatus, OnlyOf
<1> QED BY <1>3, <1>4

\* The input of a request is taken once.
LEMMA SubmitEffect ==
  ASSUME CatalogTypeOK, NEW r \in Request, submit(r), request[r].id \in Id, KeyOf(r) \in Key
  PROVE  LET i == request[r].id
         IN /\ OnlyOf(i)
            /\ object'[i].state = object[i].state
            /\ object'[i].environment = object[i].environment
            /\ \/ /\ BodyOf(r).input /\ Answers(i) /\ KeyOf(r) \notin object[i].input
                  /\ object'[i].input = object[i].input \cup {KeyOf(r)}
                  /\ object'[i].inputs = object[i].inputs + 1
               \/ object'[i] = object[i]
            /\ BodyOf(r).input /\ request'[r].pc = "commit" => KeyOf(r) \in object'[i].input
<1> DEFINE i == request[r].id
           k == KeyOf(r)
           o == object[i]
           m == [o EXCEPT !.input = @ \cup {k}, !.inputs = @ + 1, !.active = TRUE]
<1>1. o \in ObjectType /\ object \in [Id -> ObjectType]
  BY DEF CatalogTypeOK
<1>2. CASE BodyOf(r).input /\ Answers(i) /\ object[i].environment # "failed" /\ k \notin o.input
  <2>1. object' = [object EXCEPT ![i].input = @ \cup {k}, ![i].inputs = @ + 1,
                                 ![i].active = TRUE]
    BY <1>2 DEF submit, Submitted
  <2>2. object' = [object EXCEPT ![i] = m]
    <3> HIDE DEF i, k
    <3> QED BY ONLY <2>1, <1>1
  <2>3. /\ m \in ObjectType /\ m.input = o.input \cup {k} /\ m.inputs = o.inputs + 1
        /\ m.state = o.state /\ m.environment = o.environment
    <3>1. /\ o \in ObjectType /\ k \in Key
          /\ m = [o EXCEPT !.input = @ \cup {k}, !.inputs = @ + 1, !.active = TRUE]
      BY <1>1
    <3> HIDE DEF i, k, o, m
    <3> QED BY ONLY <3>1, ObjectSubmits
  <2> HIDE DEF m
  <2>4. object'[i] = m
    BY <1>1, <2>2
  <2>5. OnlyOf(i)
    BY <1>1, <2>2, <2>3 DEF OnlyOf
  <2> QED BY <1>2, <2>3, <2>4, <2>5
<1>3. CASE ~(BodyOf(r).input /\ Answers(i) /\ object[i].environment # "failed" /\ k \notin o.input)
  <2>1. object' = object
    BY <1>3 DEF submit, Submitted
  <2>2. CASE ~BodyOf(r).input
    BY <1>1, <2>1, <2>2 DEF OnlyOf
  <2>3. CASE k \in o.input
    BY <1>1, <2>1, <2>3 DEF OnlyOf
  <2>4. CASE ~(Answers(i) /\ object[i].environment # "failed") /\ BodyOf(r).input
    <3>1. request'[r].pc = "free"
      BY <2>4, EndsEffect DEF submit
    <3> QED BY <1>1, <2>1, <3>1 DEF OnlyOf
  <2> QED BY <1>3, <2>2, <2>3, <2>4
<1> QED BY <1>2, <1>3

\* A deletion marks the object.
LEMMA DeletedEffect ==
  ASSUME CatalogTypeOK, NEW r \in Request, delete(r), request[r].id \in Id
  PROVE  LET i == request[r].id
         IN /\ OnlyOf(i)
            /\ \/ object'[i] = object[i]
               \/ /\ object[i].state # "none" /\ object'[i].state = "deleted"
                  /\ object'[i].input = object[i].input /\ object'[i].inputs = object[i].inputs
            /\ request'[r].pc = "undiscover" => object'[i].state \in {"deleted", "tombstone"}
<1> DEFINE i == request[r].id
           o == object[i]
           m == [o EXCEPT !.state = "deleted"]
<1>1. o \in ObjectType /\ object \in [Id -> ObjectType] /\ o.state \in ObjectState
  BY ObjectDomain DEF CatalogTypeOK
<1>2. CASE o.state = "none" \/ o.active
  <2>1. request'[r].pc = "free" /\ object' = object
    BY <1>2, EndsEffect DEF delete
  <2> QED BY <1>1, <2>1 DEF OnlyOf
<1>3. CASE ~(o.state = "none" \/ o.active) /\ o.state = "tombstone"
  BY <1>1, <1>3 DEF delete, OnlyOf
<1>4. CASE ~(o.state = "none" \/ o.active) /\ o.state # "tombstone"
  <2>1. object' = [object EXCEPT ![i] = m]
    BY <1>4 DEF delete
  <2>2. m \in ObjectType /\ m.state = "deleted" /\ m.input = o.input /\ m.inputs = o.inputs
    BY ONLY <1>1, ObjectUpdates
  <2> HIDE DEF m
  <2> QED BY <1>1, <1>4, <2>1, <2>2 DEF OnlyOf
<1> QED BY <1>2, <1>3, <1>4

\* A deletion leaves a tombstone.
LEMMA PurgeEffect ==
  ASSUME CatalogTypeOK, NEW r \in Request, purge(r), request[r].id \in Id
  PROVE  LET i == request[r].id
         IN /\ OnlyOf(i)
            /\ \/ object'[i] = object[i]
               \/ /\ object'[i].state = "tombstone"
                  /\ object'[i].input = {} /\ object'[i].inputs = 0
BY ObjectDomain DEF CatalogTypeOK, purge, OnlyOf

\* The end of a turn is none of it.
LEMMA TurnEndsEffect ==
  ASSUME CatalogTypeOK, TurnEnds
  PROVE  /\ object' \in [Id -> ObjectType]
         /\ \A i \in Id : /\ object'[i].state = object[i].state
                          /\ object'[i].environment = object[i].environment
                          /\ object'[i].input = object[i].input
                          /\ object'[i].inputs = object[i].inputs
<1>1. PICK i \in Id : object' = [object EXCEPT ![i].active = FALSE]
  BY DEF TurnEnds
<1> DEFINE o == object[i]
           m == [o EXCEPT !.active = FALSE]
<1>2. o \in ObjectType /\ object \in [Id -> ObjectType]
  BY DEF CatalogTypeOK
<1>3. object' = [object EXCEPT ![i] = m]
  BY <1>1
<1>4. /\ m \in ObjectType /\ m.state = o.state /\ m.environment = o.environment
      /\ m.input = o.input /\ m.inputs = o.inputs
  BY ONLY <1>2, ObjectUpdates
<1> HIDE DEF m
<1> QED BY <1>2, <1>3, <1>4

\* Which steps write what.
CatalogWrites == \E r \in Request :
  reserve(r) \/ registerEnvironment(r) \/ commit(r) \/ undiscover(r)
ObjectWrites ==
  \/ TurnEnds
  \/ \E r \in Request : \/ initialize(r) \/ Pending(r) \/ Connected(r) \/ Failed(r)
                       \/ submit(r) \/ delete(r) \/ purge(r)
SeenWrites == \E r \in Request : retrieve(r) \/ undiscover(r)
BucketWrites == \E r \in Request : configure(r)
Writes ==
  /\ catalog' = catalog \/ CatalogWrites
  /\ object' = object \/ ObjectWrites
  /\ seen' = seen \/ SeenWrites
  /\ bucket' = bucket \/ BucketWrites
  /\ faults' \in Nat

\* Every step writes a variable in one of these ways, or leaves it.
LEMMA WritesStep ==
  ASSUME CatalogTypeOK, [Next]_vars
  PROVE  Writes
<1>0. faults \in Nat
  BY DEF CatalogTypeOK
<1> USE DEF Writes
<1>1. ASSUME NEW r \in Request, NEW k \in Key, NEW b \in Body, createSession(r, k,
   b) PROVE Writes
  BY <1>0, <1>1 DEF createSession, Fails, Fault, Names, environmentStatus
<1>2. ASSUME NEW r \in Request, reservation(r) PROVE Writes
  BY <1>0, <1>2 DEF reservation, Fails, Fault, Names, environmentStatus
<1>3. ASSUME NEW r \in Request, reserveCreation(r) PROVE Writes
  BY <1>0, <1>3 DEF reserveCreation, Fails, Fault, Names, environmentStatus
<1>4. ASSUME NEW r \in Request, reserveFork(r) PROVE Writes
  BY <1>0, <1>4 DEF reserveFork, Fails, Fault, Names, environmentStatus
<1>5. ASSUME NEW r \in Request, validateModel(r) PROVE Writes
  BY <1>0, <1>5 DEF validateModel, Fails, Fault, Names, environmentStatus
<1>6. ASSUME NEW r \in Request, resolveSkills(r) PROVE Writes
  BY <1>0, <1>6 DEF resolveSkills, Fails, Fault, Names, environmentStatus
<1>7. ASSUME NEW r \in Request, configure(r) PROVE Writes
  BY <1>0, <1>7 DEF configure, BucketWrites
<1>8. ASSUME NEW r \in Request, reserve(r) PROVE Writes
  BY <1>0, <1>8 DEF reserve, CatalogWrites
<1>9. ASSUME NEW r \in Request, establish(r) PROVE Writes
  BY <1>0, <1>9 DEF establish, Fails, Fault, Names, environmentStatus
<1>10. ASSUME NEW r \in Request, preflight(r) PROVE Writes
  BY <1>0, <1>10 DEF preflight, Fails, Fault, Names, environmentStatus
<1>11. ASSUME NEW r \in Request, initialize(r) PROVE Writes
  BY <1>0, <1>11 DEF initialize, ObjectWrites
<1>12. ASSUME NEW r \in Request, registerEnvironment(r) PROVE Writes
  BY <1>0, <1>12 DEF registerEnvironment, CatalogWrites
<1>13. ASSUME NEW r \in Request, Pending(r) PROVE Writes
  BY <1>0, <1>13 DEF Pending, ObjectWrites, environmentStatus
<1>14. ASSUME NEW r \in Request, Prepared(r) PROVE Writes
  BY <1>0, <1>14 DEF Prepared, Fails, Fault, Names, environmentStatus
<1>15. ASSUME NEW r \in Request, PrepareFails(r) PROVE Writes
  BY <1>0, <1>15 DEF PrepareFails, Fails, Fault, Names, environmentStatus
<1>16. ASSUME NEW r \in Request, Connected(r) PROVE Writes
  BY <1>0, <1>16 DEF Connected, ObjectWrites, environmentStatus
<1>17. ASSUME NEW r \in Request, Failed(r) PROVE Writes
  BY <1>0, <1>17 DEF Failed, ObjectWrites, environmentStatus
<1>18. ASSUME NEW r \in Request, submit(r) PROVE Writes
  BY <1>0, <1>18 DEF submit, ObjectWrites
<1>19. ASSUME NEW r \in Request, commit(r) PROVE Writes
  BY <1>0, <1>19 DEF commit, CatalogWrites
<1>20. ASSUME NEW r \in Request, retrieve(r) PROVE Writes
  BY <1>0, <1>20 DEF retrieve, SeenWrites
<1>21. ASSUME NEW r \in Request, Dies(r) PROVE Writes
  BY <1>0, <1>21 DEF Dies, Fails, Fault, Names, environmentStatus
<1>22. ASSUME NEW r \in Request, deleteSession(r) PROVE Writes
  BY <1>0, <1>22 DEF deleteSession, Fails, Fault, Names, environmentStatus
<1>23. ASSUME NEW r \in Request, delete(r) PROVE Writes
  BY <1>0, <1>23 DEF delete, ObjectWrites
<1>24. ASSUME NEW r \in Request, undiscover(r) PROVE Writes
  BY <1>0, <1>24 DEF undiscover, CatalogWrites, SeenWrites
<1>25. ASSUME NEW r \in Request, purge(r) PROVE Writes
  BY <1>0, <1>25 DEF purge, ObjectWrites
<1>26. ASSUME TurnEnds PROVE Writes
  BY <1>0, <1>26 DEF TurnEnds, ObjectWrites
<1>27. ASSUME UNCHANGED vars PROVE Writes
  BY <1>0, <1>27 DEF vars
<1> QED
  BY <1>1, <1>2, <1>3, <1>4, <1>5, <1>6, <1>7, <1>8, <1>9, <1>10, <1>11, <1>12, <1>13, <1>14,
     <1>15, <1>16, <1>17, <1>18, <1>19, <1>20, <1>21, <1>22, <1>23, <1>24, <1>25, <1>26,
     <1>27
     DEF Next

\* What a step of a request leaves alone.
LEMMA Quiet ==
  ASSUME NEW r \in Request
  PROVE  /\ reserve(r) \/ registerEnvironment(r) \/ commit(r) =>
              UNCHANGED <<object, bucket, seen, named>>
         /\ initialize(r) \/ Pending(r) \/ Connected(r) \/ Failed(r) \/ submit(r) \/ delete(r)
              \/ purge(r) => UNCHANGED <<catalog, bucket, seen, named>>
         /\ retrieve(r) => UNCHANGED <<catalog, object, bucket, named>>
         /\ undiscover(r) => UNCHANGED <<object, bucket, named>>
         /\ configure(r) => UNCHANGED <<catalog, object, seen, named>>
         /\ TurnEnds => UNCHANGED <<catalog, bucket, seen, named, request>>
BY DEF reserve, registerEnvironment, commit, initialize, Pending, Connected, Failed, submit,
   delete,
       purge, retrieve, undiscover, configure, TurnEnds, environmentStatus

\* The stage a request is in when it takes a step that writes, and what it has then.
LEMMA Writer ==
  ASSUME CatalogInv, NEW r \in Request
  PROVE  /\ reserve(r) \/ configure(r) => request[r].pc \in Naming
         /\ registerEnvironment(r) \/ commit(r) \/ initialize(r) \/ Pending(r) \/ Connected(r)
              \/ Failed(r) \/ submit(r) \/ retrieve(r) => request[r].pc \in Claiming
         /\ delete(r) \/ undiscover(r) \/ purge(r) => request[r].pc \in Ending
         /\ request[r].pc \in Naming \cup Claiming =>
              /\ KeyOf(r) \in Key /\ request[r].key = {KeyOf(r)}
              /\ BodyOf(r) \in Body /\ request[r].body = {BodyOf(r)}
         /\ request[r].pc \in Naming \cup Claiming \cup Ending =>
              request[r].id \in 1..named /\ request[r].id \in Id
<1>1. /\ reserve(r) \/ configure(r) => request[r].pc \in Naming
      /\ registerEnvironment(r) \/ commit(r) \/ initialize(r) \/ Pending(r) \/ Connected(r)
           \/ Failed(r) \/ submit(r) \/ retrieve(r) => request[r].pc \in Claiming
      /\ delete(r) \/ undiscover(r) \/ purge(r) => request[r].pc \in Ending
  BY DEF reserve, registerEnvironment, commit, initialize, Pending, Connected, Failed, submit,
         delete, purge, retrieve, undiscover, configure, environmentStatus, At, Naming,
            Claiming,
         Ending
<1>2. CatalogTypeOK /\ AsksOnce(r)
  BY DEF CatalogInv, CatalogShape
<1>3. request[r].pc \in Naming \cup Claiming \cup Ending =>
        request[r].id \in 1..named /\ request[r].id \in Id
  <2>1. named \in 0..MaxSession /\ MaxSession \in Nat
    BY <1>2, CatalogAssumption DEF CatalogTypeOK
  <2> QED BY <1>2, <2>1 DEF AsksOnce, Id
<1> QED BY <1>1, <1>2, <1>3, KeyFound

\* A step keeps the types.
LEMMA TypeStep ==
  ASSUME CatalogInv, [Next]_vars
  PROVE  CatalogTypeOK'
<1>1. CatalogTypeOK /\ Writes
  BY WritesStep DEF CatalogInv
<1>2. catalog' \in CatalogType
  BY <1>1, Writer, ReserveEffect, RegisterEffect, CommitEffect, UndiscoverEffect
     DEF Writes, CatalogWrites, CatalogTypeOK
<1>3. object' \in [Id -> ObjectType]
  <2>1. \A e \in {"pending", "connected", "failed"} : e \in Environment
    BY DEF Environment
  <2> QED BY <1>1, <2>1, Writer, InitializeEffect, StatusEffect, SubmitEffect, DeletedEffect,
             PurgeEffect, TurnEndsEffect
          DEF Writes, ObjectWrites, CatalogTypeOK, OnlyOf, Pending, Connected, Failed
<1>4. seen' \in SeenType
  BY <1>1, Writer, RetrieveEffect, UndiscoverEffect DEF Writes, SeenWrites, CatalogTypeOK
<1>5. bucket' \subseteq Id
  BY <1>1, Writer DEF Writes, BucketWrites, CatalogTypeOK, configure
<1>6. request' \in [Request -> RequestType] /\ named' \in 0..MaxSession
  BY <1>1, MovedStep DEF Moved, CatalogTypeOK
<1> QED BY <1>1, <1>2, <1>3, <1>4, <1>5, <1>6 DEF CatalogTypeOK, Writes

\* A trace of a name is left by a request that has the name.
LEMMA TraceStep ==
  ASSUME CatalogInv, [Next]_vars, NEW i \in Id
  PROVE  /\ catalog.session[i] = {} /\ catalog'.session[i] # {} =>
              \E r \in Request : /\ request[r].pc \in Naming /\ request[r].id = i
                                 /\ request'[r].pc = "establish"
         /\ i \in seen'.deleted =>
              i \in seen.deleted \/ \E r \in Request : /\ request[r].pc \in Ending
                                                       /\ request[r].id = i
         /\ object'[i].state # object[i].state =>
              \E r \in Request : request[r].pc \in Claiming \cup Ending /\ request[r].id = i
         /\ i \in bucket' =>
              i \in bucket \/ \E r \in Request : /\ request[r].pc \in Naming
                                                 /\ request[r].id = i
         /\ \A a \in seen'.answers : a.id = i =>
              a \in seen.answers \/ \E r \in Request : /\ request[r].pc \in Claiming
                                                       /\ request[r].id = i
         /\ seen.deleted \subseteq seen'.deleted
         /\ object[i].state # "none" => object'[i].state # "none"
<1>1. CatalogTypeOK /\ Writes
  BY WritesStep DEF CatalogInv
<1>2. catalog.session \in [Id -> SUBSET Key]
  BY <1>1 DEF CatalogTypeOK, CatalogType
<1>3. catalog.session[i] = {} /\ catalog'.session[i] # {} =>
        \E r \in Request : /\ request[r].pc \in Naming /\ request[r].id = i
                           /\ request'[r].pc = "establish"
  <2> SUFFICES ASSUME catalog.session[i] = {}, catalog'.session[i] # {}
               PROVE  \E r \in Request : /\ request[r].pc \in Naming /\ request[r].id = i
                                         /\ request'[r].pc = "establish"
    OBVIOUS
  <2>1. PICK r \in Request : reserve(r) \/ registerEnvironment(r) \/ commit(r) \/ undiscover(r)
    BY <1>1 DEF Writes, CatalogWrites
  <2>2. CASE reserve(r)
    BY <1>1, <1>2, <2>2, Writer, ReserveEffect
  <2>3. CASE registerEnvironment(r)
    BY <1>1, <2>3, Writer, RegisterEffect
  <2>4. CASE commit(r)
    BY <1>1, <2>4, Writer, CommitEffect
  <2>5. CASE undiscover(r)
    BY <1>1, <1>2, <2>5, Writer, UndiscoverEffect
  <2> QED BY <2>1, <2>2, <2>3, <2>4, <2>5
<1>4. /\ i \in seen'.deleted =>
           i \in seen.deleted \/ \E r \in Request : /\ request[r].pc \in Ending
                                                    /\ request[r].id = i
      /\ \A a \in seen'.answers : a.id = i =>
           a \in seen.answers \/ \E r \in Request : /\ request[r].pc \in Claiming
                                                    /\ request[r].id = i
      /\ seen.deleted \subseteq seen'.deleted
  <2>1. CASE seen' = seen
    BY <2>1
  <2>2. ASSUME NEW r \in Request, retrieve(r)
        PROVE  /\ request[r].pc \in Claiming /\ seen'.deleted = seen.deleted
               /\ \A a \in seen'.answers : a \in seen.answers \/ a.id = request[r].id
    BY <1>1, <2>2, Writer, RetrieveEffect
  <2>3. ASSUME NEW r \in Request, undiscover(r)
        PROVE  /\ request[r].pc \in Ending
               /\ seen'.deleted = seen.deleted \cup {request[r].id}
               /\ seen'.answers \subseteq seen.answers
    BY <1>1, <2>3, Writer, UndiscoverEffect
  <2> QED BY <1>1, <2>1, <2>2, <2>3 DEF Writes, SeenWrites
<1>5. i \in bucket' =>
        i \in bucket \/ \E r \in Request : request[r].pc \in Naming /\ request[r].id = i
  BY <1>1, Writer DEF Writes, BucketWrites, configure
<1>6. /\ object'[i].state # object[i].state =>
           \E r \in Request : request[r].pc \in Claiming \cup Ending /\ request[r].id = i
      /\ object[i].state # "none" => object'[i].state # "none"
  <2>1. CASE object' = object
    BY <2>1
  <2>2. CASE TurnEnds
    BY <1>1, <2>2, TurnEndsEffect
  <2>3. ASSUME NEW r \in Request,
               \/ initialize(r) \/ Pending(r) \/ Connected(r) \/ Failed(r)
               \/ submit(r) \/ delete(r) \/ purge(r)
        PROVE  /\ object'[i].state # object[i].state =>
                    request[r].pc \in Claiming \cup Ending /\ request[r].id = i
               /\ object[i].state # "none" => object'[i].state # "none"
    <3>1. request[r].pc \in Claiming \cup Ending /\ request[r].id \in Id
      BY <2>3, Writer
    <3>2. \A e \in {"pending", "connected", "failed"} : e \in Environment
      BY DEF Environment
    <3>3. /\ OnlyOf(request[r].id)
          /\ \/ object'[request[r].id].state = object[request[r].id].state
             \/ object'[request[r].id].state # "none"
      BY <1>1, <2>3, <3>1, <3>2, Writer, InitializeEffect, StatusEffect, SubmitEffect,
         DeletedEffect, PurgeEffect DEF Pending, Connected, Failed
    <3> QED BY <3>1, <3>3 DEF OnlyOf
  <2> QED BY <1>1, <2>1, <2>2, <2>3 DEF Writes, ObjectWrites
<1> QED BY <1>3, <1>4, <1>5, <1>6

\* A request that has not reserved keeps its name to itself.
LEMMA FreshStep ==
  ASSUME CatalogInv, [Next]_vars, NEW r \in Request, request'[r].pc \in Naming
  PROVE  Fresh(r)'
<1>0. CatalogTypeOK /\ CatalogShape /\ CatalogTypeOK'
  BY TypeStep DEF CatalogInv
<1> DEFINE i == request'[r].id
<1>1. /\ i \in Id /\ catalog.session[i] = {} /\ object[i].state = "none" /\ i \notin seen.deleted
      /\ \A a \in seen.answers : a.id # i
      /\ \A q \in Request : request[q].id = i => q = r /\ request[q].pc \in Naming
      /\ \A q \in Request \ {r} : request'[q].id # i
  <2>0. /\ named \in 0..MaxSession /\ MaxSession \in Nat /\ \A j : j \in Id <=> j \in 1..MaxSession
        /\ \A q \in Request : AsksOnce(q) /\ request[q].pc \in Stage /\ request[q].id \in Nat
        /\ NamedFirst
        /\ \A q \in Request : request[q].pc \in Naming => Fresh(q)
    BY <1>0, RequestDomain, CatalogAssumption DEF CatalogTypeOK, CatalogShape, Id
  <2>1. \A q \in Request : request[q].id \in 0..named /\ named \in Nat
    BY <2>0 DEF AsksOnce, Stage
  <2>2. CASE request'[r] = request[r]
    <3>1. Fresh(r) /\ i = request[r].id
      BY <2>0, <2>2
    <3>2. i \in 1..named /\ i \in Id
      BY <2>0, <2>2 DEF AsksOnce
    <3>3. ASSUME NEW q \in Request \ {r} PROVE request[q].id # i
      BY <3>1 DEF Fresh
    <3>4. ASSUME NEW q \in Request \ {r}, Moved(q), AsksOnce(q) PROVE request'[q].id # i
      <4>1. \A s \in catalog.reservation[KeyOf(q)] : KeyOf(q) \in Key => s.id # i
        BY <1>0, <3>1, <3>2 DEF CatalogShape, ReservationsMatch, Fresh
      <4>2. \A j \in {a.id : a \in seen.answers} \cup catalog.listed : j # i
        BY <1>0, <3>1 DEF CatalogShape, ReservationsMatch, Fresh
      <4>3. request[q].pc \in Asking \cup Naming \cup Claiming => KeyOf(q) \in Key
        BY <1>0, <3>4, KeyFound
      <4>4. 0 # i /\ (named' = named + 1 => named' # i)
        BY <2>1, <3>2
      <4> QED BY <3>3, <3>4, <4>1, <4>2, <4>3, <4>4 DEF Moved
    <3>5. \A q \in Request \ {r} : request'[q].id # i
      BY <2>0, <3>3, <3>4, MovedStep DEF Moved
    <3> QED BY <2>2, <3>1, <3>2, <3>3, <3>5 DEF Fresh
  <2>3. CASE request'[r] # request[r]
    <3>1. Moved(r)
      BY <2>3, MovedStep DEF Moved
    <3>2. \A q \in Request \ {r} : request'[q] = request[q]
      BY <3>1 DEF Moved
    <3>3. CASE request[r].pc \in Asking
      <4>1. i = named + 1 /\ i \in 1..MaxSession
        BY <3>1, <3>3 DEF Moved, Asking, Naming, Claiming, Ending
      <4>2. \A q \in Request : request[q].id # i
        BY <2>1, <4>1
      <4>3. i \in Id /\ i > named
        BY <2>0, <4>1
      <4>4. \A a \in seen.answers : a.id # i
        BY <2>0, <4>1, <4>3 DEF NamedFirst
      <4> QED BY <2>0, <3>2, <4>2, <4>3, <4>4 DEF NamedFirst
    <3>4. CASE request[r].pc \in Naming /\ request'[r].id = request[r].id
      <4>1. i \in Id /\ i \in 1..named
        BY <2>0, <3>4 DEF AsksOnce
      <4> QED BY <2>0, <3>2, <3>4, <4>1 DEF Fresh
    <3> QED BY <3>1, <3>3, <3>4 DEF Moved, Asking, Naming, Claiming, Ending
  <2> QED BY <2>2, <2>3
<1>2. \A q \in Request \ {r} : request'[q].id # i
  BY <1>1
<1>3. catalog'.session[i] = {}
  BY <1>1, TraceStep DEF Naming
<1>4. object'[i].state = "none" /\ i \notin seen'.deleted /\ \A a \in seen'.answers : a.id # i
  BY <1>1, TraceStep DEF Naming, Claiming, Ending
<1> QED BY <1>2, <1>3, <1>4 DEF Fresh

\* Names are not taken back.
LEMMA NamesGrow ==
  ASSUME CatalogInv, [Next]_vars
  PROVE  named \in Nat /\ named' \in Nat /\ named <= named'
<1>1. named \in 0..MaxSession /\ MaxSession \in Nat
  BY CatalogAssumption DEF CatalogInv, CatalogTypeOK
<1> QED BY <1>1, MovedStep DEF Moved

\* A step keeps what a request asks for.
LEMMA AsksStep ==
  ASSUME CatalogInv, [Next]_vars, NEW r \in Request
  PROVE  /\ AsksOnce(r)'
         /\ request'[r].pc = "purge" => request'[r].id \in seen'.deleted
<1>0. /\ CatalogTypeOK /\ AsksOnce(r) /\ NamedFirst /\ ReservationsMatch
      /\ named \in Nat /\ named' \in Nat /\ named <= named'
      /\ request[r].pc = "purge" => request[r].id \in seen.deleted
  BY NamesGrow DEF CatalogInv, CatalogShape
<1>1. seen.deleted \subseteq seen'.deleted
  BY <1>0, WritesStep, Writer, RetrieveEffect, UndiscoverEffect DEF Writes, SeenWrites
<1>2. CASE request'[r] = request[r]
  BY <1>0, <1>1, <1>2 DEF AsksOnce
<1>3. CASE request'[r] # request[r]
  <2>1. Moved(r)
    BY <1>3, MovedStep DEF Moved
  <2>2. request[r].pc \in Asking \cup Naming \cup Claiming =>
          KeyOf(r) \in Key /\ request[r].key = {KeyOf(r)}
          /\ BodyOf(r) \in Body /\ request[r].body = {BodyOf(r)}
    BY <1>0, KeyFound
  <2>3. \A j \in {a.id : a \in seen.answers} \cup catalog.listed : j \in 1..named
    <3>1. \A j \in catalog.listed : j \in Id /\ ~(j > named)
      BY <1>0 DEF CatalogTypeOK, CatalogType, ReservationsMatch, NamedFirst
    <3>2. \A j \in Id : j \in Nat /\ j >= 1
      BY IdIsNat
    <3> QED BY <1>0, <3>1, <3>2 DEF NamedFirst
  <2>4. \A k \in Key : \A s \in catalog.reservation[k] : s.id \in 1..named
    <3>1. \A k \in Key : \A s \in catalog.reservation[k] : s.id \in Id /\ ~(s.id > named)
      BY <1>0 DEF CatalogTypeOK, CatalogType, Reservation, ReservationsMatch, NamedFirst
    <3>2. \A j \in Id : j \in Nat /\ j >= 1
      BY IdIsNat
    <3> QED BY <1>0, <3>1, <3>2
  <2>5. \A j \in 1..named : j \in 1..named'
    BY <1>0
  <2>6. named' = named + 1 => named' \in 1..named'
    BY <1>0
  <2> USE DEF Asking, Naming, Claiming, Ending
  <2>7. request'[r].pc \in Asking \cup Naming \cup Claiming =>
          \E k \in Key, b \in Body : request'[r].key = {k} /\ request'[r].body = {b}
    BY <2>1, <2>2 DEF Moved
  <2>8. request'[r].pc \in Naming \cup Claiming \cup Ending => request'[r].id \in 1..named'
    BY <1>0, <2>1, <2>2, <2>3, <2>4, <2>5, <2>6 DEF Moved, AsksOnce
  <2>9. request'[r].pc \in Asking \cup {"free"} => request'[r].id = 0
    BY <2>1 DEF Moved
  <2>10. request'[r].pc = "purge" => request'[r].id \in seen'.deleted
    BY <2>1 DEF Moved
  <2> QED BY <2>7, <2>8, <2>9, <2>10 DEF AsksOnce
<1> QED BY <1>2, <1>3

\* A step leaves a trace of no name that was not given.
LEMMA NamedStep ==
  ASSUME CatalogInv, [Next]_vars
  PROVE  NamedFirst'
<1>0. /\ CatalogTypeOK /\ CatalogTypeOK' /\ NamedFirst /\ \A r \in Request : AsksOnce(r)
      /\ named \in Nat /\ named' \in Nat /\ named <= named'
  BY NamesGrow, TypeStep DEF CatalogInv, CatalogShape
<1>1. \A i \in Id : i > named' => i > named /\ i \notin 1..named
  BY <1>0, IdIsNat
<1>2. ASSUME NEW i \in Id, i > named'
      PROVE  /\ catalog'.session[i] = {} /\ object'[i].state = "none" /\ i \notin seen'.deleted
             /\ i \notin bucket'
  <2>1. \A r \in Request :
          request[r].pc \in Naming \cup Claiming \cup Ending => request[r].id # i
    BY <1>0, <1>1, <1>2 DEF AsksOnce
  <2>2. /\ catalog.session[i] = {} /\ object[i].state = "none" /\ i \notin seen.deleted
        /\ i \notin bucket
    BY <1>0, <1>1, <1>2 DEF NamedFirst
  <2> QED BY <2>1, <2>2, TraceStep
<1>3. ASSUME NEW a \in seen'.answers PROVE a.id \in 1..named'
  <2>1. a.id \in Id
    BY <1>0 DEF CatalogTypeOK, SeenType, Answer
  <2>2. a \in seen.answers \/ \E r \in Request : request[r].pc \in Claiming /\ request[r].id = a.id
    BY <2>1, TraceStep
  <2>3. a.id \in 1..named
    BY <1>0, <2>2 DEF AsksOnce, NamedFirst
  <2> QED BY <1>0, <2>3
<1> QED BY <1>2, <1>3 DEF NamedFirst

\* A step keeps the reservations, their index and the list in agreement.
LEMMA ReservationsStep ==
  ASSUME CatalogInv, [Next]_vars
  PROVE  ReservationsMatch'
<1>0. /\ CatalogTypeOK /\ CatalogTypeOK' /\ ReservationsMatch /\ Writes
      /\ \A r \in Request : request[r].pc \in Naming => Fresh(r)
  BY TypeStep, WritesStep DEF CatalogInv, CatalogShape
<1>t. /\ catalog.reservation \in [Key -> SUBSET Reservation]
      /\ catalog.session \in [Id -> SUBSET Key] /\ catalog.listed \subseteq Id
      /\ \A s \in Reservation : s.id \in Id
  BY <1>0 DEF CatalogTypeOK, CatalogType, Reservation
<1>1. ASSUME NEW r \in Request, undiscover(r) PROVE ReservationsMatch'
  <2> DEFINE i == request[r].id
  <2>1. /\ i \in Id
        /\ \A k \in Key : catalog'.reservation[k] =
                            IF k \in catalog.session[i] THEN {} ELSE catalog.reservation[k]
        /\ catalog'.session = [catalog.session EXCEPT ![i] = {}]
        /\ catalog'.listed = catalog.listed \ {i}
        /\ seen'.deleted = seen.deleted \cup {i}
    BY <1>0, <1>1, Writer, UndiscoverEffect
  <2> HIDE DEF i
  <2>2. \A k \in Key : \A s \in catalog'.reservation[k] :
          /\ s \in catalog.reservation[k] /\ s.id # i /\ s.id \in Id
          /\ catalog'.reservation[k] = catalog.reservation[k]
    BY <1>0, <1>t, <2>1 DEF ReservationsMatch
  <2>3. \A j \in Id : catalog'.session[j] = IF j = i THEN {} ELSE catalog.session[j]
    BY <1>t, <2>1
  <2>4. ASSUME NEW k \in Key, NEW s \in catalog'.reservation[k]
        PROVE  /\ catalog'.reservation[k] = {s} /\ catalog'.session[s.id] = {k}
               /\ s.id \notin seen'.deleted
               /\ s.ready <=> s.id \in catalog'.listed
    BY <1>0, <2>1, <2>2, <2>3 DEF ReservationsMatch
  <2>5. ASSUME NEW j \in Id, NEW k \in catalog'.session[j]
        PROVE  \E s \in catalog'.reservation[k] : s.id = j
    <3>1. j # i /\ k \in catalog.session[j] /\ k \in Key
      BY <1>t, <2>3
    <3>2. PICK s \in catalog.reservation[k] : s.id = j
      BY <1>0, <3>1 DEF ReservationsMatch
    <3>3. k \notin catalog.session[i]
      BY <1>0, <2>1, <3>1, <3>2 DEF ReservationsMatch
    <3> QED BY <2>1, <3>1, <3>2, <3>3
  <2>6. \A j \in catalog'.listed : catalog'.session[j] # {}
    BY <1>0, <1>t, <2>1, <2>3 DEF ReservationsMatch
  <2> QED BY <2>4, <2>5, <2>6 DEF ReservationsMatch
<1>2. ASSUME NEW r \in Request, reserve(r) PROVE ReservationsMatch'
  <2> DEFINE i == request[r].id
             k == KeyOf(r)
  <2>0. /\ i \in Id /\ k \in Key /\ Fresh(r) /\ seen' = seen
        /\ BodyOf(r) \in Body
    BY <1>0, <1>2, Writer, Quiet
  <2>1. CASE catalog' = catalog
    BY <1>0, <2>0, <2>1 DEF ReservationsMatch
  <2>2. CASE catalog' # catalog
    <3>1. PICK s \in Reservation :
            /\ s.id = i /\ ~s.ready /\ catalog.reservation[k] = {}
            /\ catalog'.reservation = [catalog.reservation EXCEPT ![k] = {s}]
            /\ catalog'.session = [catalog.session EXCEPT ![i] = {k}]
            /\ catalog'.listed = catalog.listed
      BY <1>0, <1>2, <2>0, <2>2, ReserveEffect
    <3>2. catalog.session[i] = {} /\ i \notin seen.deleted /\ i \notin catalog.listed
      BY <1>0, <2>0 DEF Fresh, ReservationsMatch
    <3> HIDE DEF i, k
    <3>3. \A q \in Key : catalog'.reservation[q] = IF q = k THEN {s} ELSE catalog.reservation[q]
      BY <1>t, <3>1
    <3>4. \A j \in Id : catalog'.session[j] = IF j = i THEN {k} ELSE catalog.session[j]
      BY <1>t, <3>1
    <3>5. ASSUME NEW q \in Key, NEW x \in catalog'.reservation[q]
          PROVE  /\ catalog'.reservation[q] = {x} /\ catalog'.session[x.id] = {q}
                 /\ x.id \notin seen'.deleted
                 /\ x.ready <=> x.id \in catalog'.listed
      <4>1. CASE q = k
        BY <2>0, <3>1, <3>2, <3>3, <3>4, <4>1
      <4>2. CASE q # k
        <5>1. x \in catalog.reservation[q] /\ x.id \in Id /\ catalog.session[x.id] = {q}
          BY <1>0, <1>t, <3>3, <4>2 DEF ReservationsMatch
        <5>2. x.id # i
          BY <3>2, <5>1
        <5> QED BY <1>0, <2>0, <3>1, <3>3, <3>4, <4>2, <5>1, <5>2 DEF ReservationsMatch
      <4> QED BY <4>1, <4>2
    <3>6. ASSUME NEW j \in Id, NEW q \in catalog'.session[j]
          PROVE  \E x \in catalog'.reservation[q] : x.id = j
      <4>1. CASE j = i
        BY <2>0, <3>1, <3>3, <3>4, <4>1
      <4>2. CASE j # i
        <5>1. q \in catalog.session[j] /\ q \in Key
          BY <1>t, <3>4, <4>2
        <5>2. PICK x \in catalog.reservation[q] : x.id = j
          BY <1>0, <5>1 DEF ReservationsMatch
        <5>3. q # k
          BY <3>1, <5>2
        <5> QED BY <3>3, <5>1, <5>2, <5>3
      <4> QED BY <4>1, <4>2
    <3>7. \A j \in catalog'.listed : catalog'.session[j] # {}
      BY <1>0, <1>t, <3>1, <3>4 DEF ReservationsMatch
    <3> QED BY <3>5, <3>6, <3>7 DEF ReservationsMatch
  <2> QED BY <2>1, <2>2
<1>3. ASSUME NEW r \in Request, registerEnvironment(r) PROVE ReservationsMatch'
  <2>1. /\ catalog'.reservation = catalog.reservation /\ catalog'.session = catalog.session
        /\ catalog'.listed = catalog.listed /\ seen' = seen
    BY <1>0, <1>3, Writer, RegisterEffect, Quiet
  <2> QED BY <1>0, <2>1 DEF ReservationsMatch
<1>4. ASSUME NEW r \in Request, commit(r) PROVE ReservationsMatch'
  <2> DEFINE k == KeyOf(r)
  <2>0. k \in Key /\ seen' = seen
    BY <1>0, <1>4, Writer, Quiet
  <2>1. CASE catalog' = catalog
    BY <1>0, <2>0, <2>1 DEF ReservationsMatch
  <2>2. CASE catalog' # catalog
    <3> DEFINE t == Reserved(k)
    <3>1. t \in catalog.reservation[k] /\ t \in Reservation
      BY <1>0, <1>4, <2>0, <2>2, CommitEffect, ReservedFound
    <3>2. PICK s \in Reservation :
            /\ s.id = t.id /\ s.ready
            /\ catalog'.reservation = [catalog.reservation EXCEPT ![k] = {s}]
            /\ catalog'.session = catalog.session
            /\ \/ catalog'.listed = catalog.listed \cup {t.id}
               \/ catalog'.listed = catalog.listed /\ t.ready
      BY <1>0, <1>4, <2>0, <2>2, CommitEffect
    <3>3. /\ catalog.reservation[k] = {t} /\ catalog.session[t.id] = {k}
          /\ t.id \notin seen.deleted /\ (t.ready => t.id \in catalog.listed)
      BY <1>0, <2>0, <3>1 DEF ReservationsMatch
    <3> HIDE DEF t, k
    <3>4. catalog'.listed = catalog.listed \cup {t.id}
      BY <3>2, <3>3
    <3>5. \A q \in Key : catalog'.reservation[q] = IF q = k THEN {s} ELSE catalog.reservation[q]
      BY <1>t, <3>2
    <3>6. ASSUME NEW q \in Key, NEW x \in catalog'.reservation[q]
          PROVE  /\ catalog'.reservation[q] = {x} /\ catalog'.session[x.id] = {q}
                 /\ x.id \notin seen'.deleted
                 /\ x.ready <=> x.id \in catalog'.listed
      <4>1. CASE q = k
        BY <2>0, <3>2, <3>3, <3>4, <3>5, <4>1
      <4>2. CASE q # k
        <5>1. x \in catalog.reservation[q] /\ catalog.session[x.id] = {q}
          BY <1>0, <3>5, <4>2 DEF ReservationsMatch
        <5>2. x.id # t.id
          BY <3>3, <4>2, <5>1
        <5> QED BY <1>0, <2>0, <3>2, <3>4, <3>5, <4>2, <5>1, <5>2 DEF ReservationsMatch
      <4> QED BY <4>1, <4>2
    <3>7. ASSUME NEW j \in Id, NEW q \in catalog'.session[j]
          PROVE  \E x \in catalog'.reservation[q] : x.id = j
      <4>1. q \in catalog.session[j] /\ q \in Key
        BY <1>t, <3>2
      <4>2. PICK x \in catalog.reservation[q] : x.id = j
        BY <1>0, <4>1 DEF ReservationsMatch
      <4>3. CASE q = k
        BY <3>2, <3>3, <3>5, <4>1, <4>2, <4>3
      <4>4. CASE q # k
        BY <3>5, <4>1, <4>2, <4>4
      <4> QED BY <4>3, <4>4
    <3>8. \A j \in catalog'.listed : catalog'.session[j] # {}
      BY <1>0, <3>2, <3>3, <3>4 DEF ReservationsMatch
    <3> QED BY <3>6, <3>7, <3>8 DEF ReservationsMatch
  <2> QED BY <2>1, <2>2
<1>5. CASE catalog' = catalog /\ ~\E r \in Request : undiscover(r)
  <2>1. seen'.deleted = seen.deleted
    BY <1>0, <1>5, Writer, RetrieveEffect DEF Writes, SeenWrites
  <2> QED BY <1>0, <1>5, <2>1 DEF ReservationsMatch
<1> QED BY <1>0, <1>1, <1>2, <1>3, <1>4, <1>5 DEF Writes, CatalogWrites

\* The invariant holds at first, and every step keeps it.
LEMMA CatalogInvInit == Init => CatalogInv
<1> SUFFICES ASSUME Init PROVE CatalogInv
  OBVIOUS
<1>1. CatalogTypeOK
  <2>1. catalog \in CatalogType
    BY DEF Init, CatalogType
  <2>2. object \in [Id -> ObjectType] /\ request \in [Request -> RequestType]
    BY ObjectDomain, RequestDomain DEF Init
  <2>3. seen \in SeenType
    BY DEF Init, SeenType
  <2> QED BY <2>1, <2>2, <2>3, CatalogAssumption DEF Init, CatalogTypeOK
<1>2. CatalogShape
  BY ObjectDomain, RequestDomain
     DEF Init, CatalogShape, AsksOnce, ReservationsMatch, NamedFirst, Asking, Naming, Claiming,
         Ending
<1> QED BY <1>1, <1>2 DEF CatalogInv

\* A step keeps the invariant.
LEMMA CatalogInvStep == CatalogInv /\ [Next]_vars => CatalogInv'
BY TypeStep, AsksStep, FreshStep, ReservationsStep, NamedStep DEF CatalogInv, CatalogShape

\* The reservations of the catalog, their index and its list agree, and what was deleted has
\* none left, whichever requests are under way: catalog.ts, for any number of them.
THEOREM CatalogInvariant == Spec => []CatalogInv
BY CatalogInvInit, CatalogInvStep, PTL DEF Spec

\* What the catalog lists is reserved, and what was deleted is not.
LEMMA InvHidden == CatalogInv => DeletedStaysHidden
BY DEF CatalogInv, CatalogShape, CatalogTypeOK, CatalogType, ReservationsMatch,
   DeletedStaysHidden

\* A deleted session is never discovered again, although attempts to create it still run and
\* its key is used again.
THEOREM DeletedNotListed == Spec => []DeletedStaysHidden
BY CatalogInvariant, InvHidden, PTL

\* The session i was claimed under the key k with the body b: by the key's reservation, by
\* a request that goes on with it, or by an answer.
Claims(k, i, b) ==
  \/ \E s \in catalog.reservation[k] : s.id = i /\ s.body = b
  \/ \E r \in Request : /\ request[r].pc \in Claiming /\ request[r].id = i
                        /\ request[r].key = {k} /\ request[r].body = {b}
  \/ \E a \in seen.answers : a.key = k /\ a.id = i /\ a.body = b

\* All claims of a key, and all claims of a session, are the same.
ClaimsAgree ==
  \A k, l \in Key, i, j \in Id, b, c \in Body :
    Claims(k, i, b) /\ Claims(l, j, c) /\ (k = l \/ i = j) => k = l /\ i = j /\ b = c

\* A claim is the reservation's, or outlived its session.
ClaimHolds(k, i, b) ==
  \/ \E s \in catalog.reservation[k] : s.id = i /\ s.body = b
  \/ i \in seen.deleted /\ k \in seen.spent
\* What is claimed is reserved or deleted, its object took no other input, and its
\* environment is configured.
ClaimsHold ==
  \A k \in Key, i \in Id, b \in Body : Claims(k, i, b) =>
    /\ ClaimHolds(k, i, b)
    /\ object[i].input \subseteq {k}
    /\ b.hosted /\ ~b.fork => i \in bucket

\* The first input of an object, and only that, was counted; a tombstone is of what was
\* deleted.
ObjectsWhole ==
  \A i \in Id :
    /\ \/ object[i].input = {} /\ object[i].inputs = 0
       \/ object[i].input # {} /\ object[i].inputs = 1
    /\ object[i].state = "none" => object[i].input = {}
    /\ object[i].state = "tombstone" => i \in seen.deleted

\* A request stores the configuration of an environment before it reserves.
Configured(r) ==
  request[r].pc = "reserve" =>
    \A b \in request[r].body : b.hosted /\ ~b.fork => request[r].id \in bucket

\* The parts of a session that is established: registered, settled, with its input.
Made(i) == object[i].state # "none"
Registered(i, b) == b.hosted => i \in catalog.environments
Settled(i, b) ==
  b.hosted /\ Answers(i) => object[i].environment \in {"connected", "failed"}
Taken(i, b) ==
  b.input /\ Answers(i) /\ object[i].environment # "failed" => object[i].inputs = 1

\* How far a request got with a session that was not deleted meanwhile.
Registering == {"register", "pending", "prepare", "connected", "failed", "submit", "commit"}
Progress(r) ==
  LET i == request[r].id
  IN i \notin seen.deleted => \A b \in request[r].body :
       /\ request[r].pc \in Registering => Made(i)
       /\ request[r].pc \in Registering \ {"register"} => Registered(i, b)
       /\ request[r].pc \in {"submit", "commit"} => Settled(i, b)
       /\ request[r].pc = "commit" => Taken(i, b)

\* What is ready is established.
ReadyWhole ==
  \A k \in Key : \A s \in catalog.reservation[k] : s.ready =>
    Made(s.id) /\ Registered(s.id, s.body) /\ Settled(s.id, s.body) /\ Taken(s.id, s.body)

\* What relates the claims to the objects.
WholeShape ==
  /\ ClaimsAgree
  /\ ClaimsHold
  /\ ObjectsWhole
  /\ \A r \in Request : Configured(r) /\ Progress(r)
  /\ ReadyWhole

\* The inductive invariant of what a client sees, if keys are not reserved again.
WholeInv == CatalogInv /\ WholeShape

\* A claim of a request is one.
LEMMA RequestClaims ==
  ASSUME CatalogInv, NEW r \in Request, request[r].pc \in Claiming
  PROVE  /\ KeyOf(r) \in Key /\ request[r].id \in Id /\ BodyOf(r) \in Body
         /\ Claims(KeyOf(r), request[r].id, BodyOf(r))
BY Writer DEF Claims

\* What the reservations of the next state claim was claimed, but for a new one.
LEMMA ReservationClaims ==
  ASSUME CatalogInv, [Next]_vars, NEW k \in Key, NEW s \in catalog'.reservation[k]
  PROVE  \/ \E t \in catalog.reservation[k] : t.id = s.id /\ t.body = s.body
         \/ \E r \in Request : /\ reserve(r) /\ k = KeyOf(r) /\ catalog.reservation[k] = {}
                               /\ s.id = request[r].id /\ s.body = BodyOf(r)
<1> DEFINE G == \/ \E t \in catalog.reservation[k] : t.id = s.id /\ t.body = s.body
                \/ \E r \in Request : /\ reserve(r) /\ k = KeyOf(r)
                                      /\ catalog.reservation[k] = {}
                                      /\ s.id = request[r].id /\ s.body = BodyOf(r)
<1>0. /\ CatalogTypeOK /\ Writes
      /\ catalog.reservation \in [Key -> SUBSET Reservation]
  BY WritesStep DEF CatalogInv, CatalogTypeOK, CatalogType
<1>1. CASE catalog' = catalog
  BY <1>1
<1>2. ASSUME NEW r \in Request, reserve(r), catalog' # catalog PROVE G
  <2>1. KeyOf(r) \in Key /\ BodyOf(r) \in Body /\ request[r].id \in Id
    BY <1>2, Writer
  <2>2. PICK t \in Reservation :
          /\ t.id = request[r].id /\ t.body = BodyOf(r) /\ catalog.reservation[KeyOf(r)] = {}
          /\ catalog'.reservation = [catalog.reservation EXCEPT ![KeyOf(r)] = {t}]
    BY <1>0, <1>2, <2>1, ReserveEffect
  <2>3. CASE k = KeyOf(r)
    BY <1>0, <1>2, <2>2, <2>3
  <2>4. CASE k # KeyOf(r)
    BY <1>0, <2>2, <2>4
  <2> QED BY <2>3, <2>4
<1>3. ASSUME NEW r \in Request, registerEnvironment(r) PROVE G
  BY <1>0, <1>3, Writer, RegisterEffect
<1>4. ASSUME NEW r \in Request, commit(r), catalog' # catalog PROVE G
  <2>1. KeyOf(r) \in Key
    BY <1>4, Writer
  <2>2. PICK t \in Reservation :
          /\ t.id = Reserved(KeyOf(r)).id /\ t.body = Reserved(KeyOf(r)).body
          /\ catalog.reservation[KeyOf(r)] # {}
          /\ catalog'.reservation = [catalog.reservation EXCEPT ![KeyOf(r)] = {t}]
    BY <1>0, <1>4, <2>1, CommitEffect
  <2>3. Reserved(KeyOf(r)) \in catalog.reservation[KeyOf(r)]
    BY <1>0, <2>1, <2>2, ReservedFound
  <2>4. CASE k = KeyOf(r)
    BY <1>0, <2>2, <2>3, <2>4
  <2>5. CASE k # KeyOf(r)
    BY <1>0, <2>2, <2>5
  <2> QED BY <2>4, <2>5
<1>5. ASSUME NEW r \in Request, undiscover(r) PROVE G
  <2>1. s \in catalog.reservation[k]
    BY <1>0, <1>5, Writer, UndiscoverEffect
  <2> QED BY <2>1
<1> QED BY <1>0, <1>1, <1>2, <1>3, <1>4, <1>5 DEF Writes, CatalogWrites

\* A step claims what was claimed, or what a request reserves.
LEMMA ClaimsStep ==
  ASSUME CatalogInv, [Next]_vars, NEW k \in Key, NEW i \in Id, NEW b \in Body, Claims(k, i, b)'
  PROVE  \/ Claims(k, i, b)
         \/ \E r \in Request : /\ reserve(r) /\ catalog.reservation[k] = {}
                               /\ k = KeyOf(r) /\ i = request[r].id /\ b = BodyOf(r)
<1> DEFINE G == \/ Claims(k, i, b)
                \/ \E r \in Request : /\ reserve(r) /\ catalog.reservation[k] = {}
                                      /\ k = KeyOf(r) /\ i = request[r].id /\ b = BodyOf(r)
<1>0. CatalogTypeOK /\ CatalogTypeOK' /\ Writes /\ \A r \in Request : AsksOnce(r)
  BY TypeStep, WritesStep DEF CatalogInv, CatalogShape
<1>1. ASSUME NEW s \in catalog'.reservation[k], s.id = i, s.body = b PROVE G
  BY <1>1, ReservationClaims DEF Claims
<1>2. ASSUME NEW r \in Request, request'[r].pc \in Claiming, request'[r].id = i,
             request'[r].key = {k}, request'[r].body = {b}
      PROVE  G
  <2>1. CASE request'[r] = request[r]
    BY <1>2, <2>1 DEF Claims
  <2>2. CASE request'[r] # request[r]
    <3>1. Moved(r)
      BY <2>2, MovedStep DEF Moved
    <3>2. /\ request[r].pc \in Asking \cup Naming \cup Claiming
          /\ request[r].key = {k} /\ request[r].body = {b}
          /\ \/ request[r].pc \in Claiming /\ request'[r].id = request[r].id
             \/ /\ request[r].pc \in Naming /\ request'[r].id = request[r].id
                /\ \E s \in catalog'.reservation[KeyOf(r)] :
                     s.id = request[r].id /\ s.body = BodyOf(r)
             \/ \E s \in catalog.reservation[KeyOf(r)] :
                  request'[r].id = s.id /\ s.body = BodyOf(r)
      BY <1>2, <3>1 DEF Moved, Asking, Naming, Claiming, Ending
    <3>3. KeyOf(r) = k /\ BodyOf(r) = b
      BY <3>2, ChooseOne DEF KeyOf, BodyOf
    <3> QED BY <1>1, <1>2, <3>2, <3>3 DEF Claims
  <2> QED BY <2>1, <2>2
<1>3. ASSUME NEW a \in seen'.answers, a.key = k, a.id = i, a.body = b PROVE G
  <2>1. CASE a \in seen.answers
    BY <1>3, <2>1 DEF Claims
  <2>2. CASE a \notin seen.answers
    <3>1. PICK r \in Request : retrieve(r)
      BY <1>0, <1>3, <2>2, Writer, UndiscoverEffect DEF Writes, SeenWrites
    <3>2. a.key = KeyOf(r) /\ a.id = request[r].id /\ a.body = BodyOf(r)
      BY <1>0, <1>3, <2>2, <3>1, Writer, RetrieveEffect
    <3> QED BY <1>3, <3>1, <3>2, Writer, RequestClaims
  <2> QED BY <2>1, <2>2
<1> QED BY <1>1, <1>2, <1>3 DEF Claims

\* A name that is reserved was nobody's, and its key neither if it has not been used again.
LEMMA NewClaim ==
  ASSUME WholeInv, KeysNotReused', [Next]_vars, NEW r \in Request, reserve(r),
         catalog.reservation[KeyOf(r)] = {}
  PROVE  /\ \A l \in Key, c \in Body : ~Claims(l, request[r].id, c)
         /\ \A j \in Id, c \in Body : ~Claims(KeyOf(r), j, c)
         /\ \E s \in catalog'.reservation[KeyOf(r)] :
              s.id = request[r].id /\ s.body = BodyOf(r)
         /\ Fresh(r) /\ request[r].id \in Id /\ KeyOf(r) \in Key /\ BodyOf(r) \in Body
<1> DEFINE k == KeyOf(r)
           i == request[r].id
<1>0. /\ CatalogTypeOK /\ request[r].pc \in Naming /\ Fresh(r) /\ ReservationsMatch
      /\ i \in Id /\ k \in Key /\ BodyOf(r) \in Body /\ seen' = seen
  BY Writer, Quiet DEF WholeInv, CatalogInv, CatalogShape
<1>1. ASSUME NEW l \in Key, NEW c \in Body PROVE ~Claims(l, i, c)
  <2>1. \A s \in catalog.reservation[l] : s.id # i
    BY <1>0 DEF ReservationsMatch, Fresh
  <2>2. \A q \in Request : request[q].pc \in Claiming => request[q].id # i
    BY <1>0 DEF Fresh, Naming, Claiming
  <2>3. \A a \in seen.answers : a.id # i
    BY <1>0 DEF Fresh
  <2> QED BY <2>1, <2>2, <2>3 DEF Claims
<1>2. \E s \in catalog'.reservation[k] : s.id = i /\ s.body = BodyOf(r)
  <2>1. CatalogTypeOK /\ reserve(r) /\ catalog.reservation[k] = {}
    BY <1>0
  <2> QED BY ONLY <1>0, <2>1, r \in Request, ReserveMakes
<1>3. ASSUME NEW j \in Id, NEW c \in Body PROVE ~Claims(k, j, c)
  <2>1. k \notin seen.spent
    BY <1>0, <1>2 DEF KeysNotReused
  <2> QED BY <1>0, <2>1 DEF WholeInv, WholeShape, ClaimsHold, ClaimHolds
<1> QED BY <1>0, <1>1, <1>2, <1>3

\* A step keeps the claims in agreement: only a new reservation claims anything new.
LEMMA AgreeStep ==
  ASSUME WholeInv, KeysNotReused', [Next]_vars
  PROVE  ClaimsAgree'
<1>0. CatalogInv /\ ClaimsAgree
  BY DEF WholeInv, WholeShape
<1>1. ASSUME NEW r \in Request, reserve(r), catalog.reservation[KeyOf(r)] = {},
             NEW q \in Request, reserve(q)
      PROVE  KeyOf(r) = KeyOf(q) /\ request[r].id = request[q].id /\ BodyOf(r) = BodyOf(q)
  <2>1. Goto(r, "establish") /\ "establish" \in Stage
    BY <1>1 DEF reserve, Stage, Claiming
  <2>2. request'[r].pc = "establish" /\ \A x \in Request \ {r} : request'[x] = request[x]
    BY <1>0, <2>1, GotoEffect DEF CatalogInv
  <2>3. request[r].pc = "reserve" /\ request[q].pc = "reserve"
    BY <1>1 DEF reserve, At
  <2>4. request'[q].pc # "reserve"
    <3>1. Goto(q, "establish") \/ Ends(q) \/
             \E s \in Reservation : Recovered(q, s) /\ BodyOf(q) \in Body
                                   /\ request[q].body = {BodyOf(q)}
      <4>1. KeyOf(q) \in Key /\ BodyOf(q) \in Body /\ request[q].body = {BodyOf(q)}
        BY <1>0, <1>1, Writer
      <4> QED BY <1>0, <1>1, <4>1, ReservedFound DEF reserve, CatalogInv
    <3> QED BY <1>0, <2>1, <3>1, GotoEffect, EndsEffect, RecoveredEffect DEF CatalogInv
  <2> QED BY <2>2, <2>3, <2>4
<1>2. ASSUME NEW k \in Key, NEW l \in Key, NEW i \in Id, NEW j \in Id, NEW b \in Body,
             NEW c \in Body, Claims(k, i, b)', Claims(l, j, c)', k = l \/ i = j
      PROVE  k = l /\ i = j /\ b = c
  <2>1. CASE Claims(k, i, b) /\ Claims(l, j, c)
    BY <1>0, <1>2, <2>1 DEF ClaimsAgree
  <2>2. ASSUME NEW r \in Request, reserve(r), catalog.reservation[k] = {},
               k = KeyOf(r), i = request[r].id, b = BodyOf(r)
        PROVE  k = l /\ i = j /\ b = c
    <3>1. ~Claims(l, j, c)
      BY <1>2, <2>2, NewClaim
    <3>2. PICK q \in Request : reserve(q) /\ l = KeyOf(q) /\ j = request[q].id /\ c = BodyOf(q)
      BY <1>0, <1>2, <3>1, ClaimsStep
    <3> QED BY <1>1, <2>2, <3>2
  <2>3. ASSUME NEW r \in Request, reserve(r), catalog.reservation[l] = {},
               l = KeyOf(r), j = request[r].id, c = BodyOf(r)
        PROVE  k = l /\ i = j /\ b = c
    <3>1. ~Claims(k, i, b)
      BY <1>2, <2>3, NewClaim
    <3>2. PICK q \in Request : reserve(q) /\ k = KeyOf(q) /\ i = request[q].id /\ b = BodyOf(q)
      BY <1>0, <1>2, <3>1, ClaimsStep
    <3> QED BY <1>1, <2>3, <3>2
  <2> QED BY <1>0, <1>2, <2>1, <2>2, <2>3, ClaimsStep
<1> QED BY <1>2 DEF ClaimsAgree

\* What was deleted or spent stays so; environments and buckets only gain.
LEMMA OnlyGrows ==
  ASSUME CatalogInv, [Next]_vars
  PROVE  /\ seen.deleted \subseteq seen'.deleted /\ seen.spent \subseteq seen'.spent
         /\ catalog.environments \subseteq catalog'.environments
         /\ bucket \subseteq bucket'
<1>0. CatalogTypeOK /\ Writes
  BY WritesStep DEF CatalogInv
<1>1. seen.deleted \subseteq seen'.deleted /\ seen.spent \subseteq seen'.spent
  BY <1>0, Writer, RetrieveEffect, UndiscoverEffect DEF Writes, SeenWrites
<1>2. catalog.environments \subseteq catalog'.environments
  <2>1. CASE catalog' = catalog
    BY <2>1
  <2>2. ASSUME NEW r \in Request,
               reserve(r) \/ registerEnvironment(r) \/ commit(r) \/ undiscover(r)
        PROVE  catalog.environments \subseteq catalog'.environments
    BY <1>0, <2>2, Writer, ReserveEffect, RegisterEffect, CommitEffect, UndiscoverEffect
  <2> QED BY <1>0, <2>1, <2>2 DEF Writes, CatalogWrites
<1>3. bucket \subseteq bucket'
  BY <1>0 DEF Writes, BucketWrites, configure
<1> QED BY <1>1, <1>2, <1>3

\* A claim that held still holds, or its session was deleted.
LEMMA ClaimKept ==
  ASSUME CatalogInv, [Next]_vars, NEW k \in Key, NEW i \in Id, NEW b \in Body,
         ClaimHolds(k, i, b)
  PROVE  ClaimHolds(k, i, b)'
<1>0. /\ CatalogTypeOK /\ Writes /\ ReservationsMatch
      /\ catalog.reservation \in [Key -> SUBSET Reservation]
  BY WritesStep DEF CatalogInv, CatalogShape, CatalogTypeOK, CatalogType
<1>1. CASE i \in seen.deleted /\ k \in seen.spent
  BY <1>1, OnlyGrows DEF ClaimHolds
<1>2. ASSUME NEW s \in catalog.reservation[k], s.id = i, s.body = b
      PROVE  ClaimHolds(k, i, b)'
  <2>0. catalog.reservation[k] = {s} /\ catalog.session[i] = {k}
    BY <1>0, <1>2 DEF ReservationsMatch
  <2>1. CASE catalog' = catalog
    BY <1>2, <2>1 DEF ClaimHolds
  <2>2. ASSUME NEW r \in Request, reserve(r), catalog' # catalog PROVE ClaimHolds(k, i, b)'
    <3>1. /\ catalog.reservation[KeyOf(r)] = {}
          /\ \E t \in Reservation :
               catalog'.reservation = [catalog.reservation EXCEPT ![KeyOf(r)] = {t}]
      BY <1>0, <2>2, Writer, ReserveEffect
    <3>2. s \in catalog'.reservation[k]
      BY <1>0, <1>2, <3>1
    <3> QED BY <1>2, <3>2 DEF ClaimHolds
  <2>3. ASSUME NEW r \in Request, registerEnvironment(r) PROVE ClaimHolds(k, i, b)'
    BY <1>0, <1>2, <2>3, Writer, RegisterEffect DEF ClaimHolds
  <2>4. ASSUME NEW r \in Request, commit(r), catalog' # catalog PROVE ClaimHolds(k, i, b)'
    <3>1. KeyOf(r) \in Key
      BY <2>4, Writer
    <3>2. PICK t \in Reservation :
            /\ t.id = Reserved(KeyOf(r)).id /\ t.body = Reserved(KeyOf(r)).body
            /\ catalog.reservation[KeyOf(r)] # {}
            /\ catalog'.reservation = [catalog.reservation EXCEPT ![KeyOf(r)] = {t}]
      BY <1>0, <2>4, <3>1, CommitEffect
    <3>3. CASE k = KeyOf(r)
      <4>1. Reserved(k) = s
        BY <2>0, ChooseOne DEF Reserved
      <4>2. t \in catalog'.reservation[k] /\ t.id = i /\ t.body = b
        BY <1>0, <1>2, <3>2, <3>3, <4>1
      <4> QED BY <4>2 DEF ClaimHolds
    <3>4. CASE k # KeyOf(r)
      <4>1. s \in catalog'.reservation[k]
        BY <1>0, <1>2, <3>2, <3>4
      <4> QED BY <1>2, <4>1 DEF ClaimHolds
    <3> QED BY <3>3, <3>4
  <2>5. ASSUME NEW r \in Request, undiscover(r) PROVE ClaimHolds(k, i, b)'
    <3> DEFINE j == request[r].id
    <3>1. /\ j \in Id
          /\ catalog'.reservation[k] =
               IF k \in catalog.session[j] THEN {} ELSE catalog.reservation[k]
          /\ seen'.deleted = seen.deleted \cup {j}
          /\ seen'.spent = seen.spent \cup catalog.session[j]
      BY <1>0, <2>5, Writer, UndiscoverEffect
    <3> HIDE DEF j
    <3>2. CASE k \in catalog.session[j]
      <4>1. \E t \in catalog.reservation[k] : t.id = j
        BY <1>0, <3>1, <3>2 DEF ReservationsMatch
      <4>2. j = i
        BY <1>2, <2>0, <4>1
      <4> QED BY <3>1, <3>2, <4>2 DEF ClaimHolds
    <3>3. CASE k \notin catalog.session[j]
      BY <1>2, <3>1, <3>3 DEF ClaimHolds
    <3> QED BY <3>2, <3>3
  <2> QED BY <1>0, <2>1, <2>2, <2>3, <2>4, <2>5 DEF Writes, CatalogWrites
<1> QED BY <1>1, <1>2 DEF ClaimHolds

\* What a step leaves of a session that is not deleted: what is made stays made, what is
\* settled settled and what is taken taken.
LEMMA ObjectStep ==
  ASSUME WholeInv, [Next]_vars, NEW i \in Id
  PROVE  /\ \/ object'[i].input = object[i].input /\ object'[i].inputs = object[i].inputs
            \/ object'[i].input = {} /\ object'[i].inputs = 0 /\ object'[i].state # "none"
            \/ \E r \in Request : /\ request[r].pc \in Claiming /\ request[r].id = i
                                 /\ KeyOf(r) \in Key /\ KeyOf(r) \notin object[i].input
                                 /\ object'[i].input = object[i].input \cup {KeyOf(r)}
                                 /\ object'[i].inputs = object[i].inputs + 1
                                 /\ object'[i].state # "none"
         /\ object'[i].state = "tombstone" /\ object[i].state # "tombstone" =>
              i \in seen'.deleted
         /\ Made(i) => Made(i)'
         /\ Made(i) /\ i \notin seen.deleted /\ Answers(i)' =>
              /\ Answers(i)
              /\ object[i].environment \in {"connected", "failed"} =>
                   object'[i].environment \in {"connected", "failed"}
              /\ object[i].environment = "failed" => object'[i].environment = "failed"
              /\ object'[i].inputs = object[i].inputs \/ object[i].inputs = 0
<1> DEFINE o == object[i]
           n == object'[i]
           G == /\ \/ n.input = o.input /\ n.inputs = o.inputs
                   \/ n.input = {} /\ n.inputs = 0 /\ n.state # "none"
                   \/ \E r \in Request : /\ request[r].pc \in Claiming /\ request[r].id = i
                                        /\ KeyOf(r) \in Key /\ KeyOf(r) \notin o.input
                                        /\ n.input = o.input \cup {KeyOf(r)}
                                        /\ n.inputs = o.inputs + 1 /\ n.state # "none"
                /\ n.state = "tombstone" /\ o.state # "tombstone" => i \in seen'.deleted
                /\ o.state # "none" => n.state # "none"
                /\ o.state # "none" /\ i \notin seen.deleted /\ n.state = "live" =>
                     /\ o.state = "live"
                     /\ o.environment \in {"connected", "failed"} =>
                          n.environment \in {"connected", "failed"}
                     /\ o.environment = "failed" => n.environment = "failed"
                     /\ n.inputs = o.inputs \/ o.inputs = 0
<1>0. /\ CatalogTypeOK /\ Writes /\ CatalogInv /\ ClaimsHold /\ ObjectsWhole
      /\ o \in ObjectType /\ o.state \in ObjectState /\ o.environment \in Environment
      /\ o.input \subseteq Key /\ o.inputs \in Nat
      /\ o.state = "tombstone" => i \in seen.deleted
  BY WritesStep, ObjectDomain
     DEF WholeInv, WholeShape, CatalogInv, CatalogTypeOK, ObjectsWhole
<1>p. seen.deleted \subseteq seen'.deleted
  BY <1>0, OnlyGrows
<1>1. ASSUME n.state = o.state, n.environment = o.environment, n.input = o.input,
             n.inputs = o.inputs
      PROVE  G
  BY <1>0, <1>1, <1>p
<1>2. ASSUME TurnEnds PROVE G
  <2>1. /\ n.state = o.state /\ n.environment = o.environment /\ n.input = o.input
        /\ n.inputs = o.inputs
    BY <1>0, <1>2, TurnEndsEffect
  <2> QED BY <1>1, <2>1
<1>3. ASSUME NEW r \in Request, initialize(r), request[r].id = i PROVE G
  <2>1. /\ o.state \in {"live", "deleted"} => n = o
        /\ o.state \notin {"live", "deleted"} =>
             n.state = "live" /\ n.environment = "none" /\ n.input = {} /\ n.inputs = 0
    BY <1>0, <1>3, Writer, InitializeEffect
  <2>2. CASE o.state \in {"live", "deleted"}
    BY <1>0, <2>1, <2>2
  <2>3. CASE o.state \notin {"live", "deleted"}
    BY <1>0, <2>1, <2>3 DEF ObjectState
  <2> QED BY <2>2, <2>3
<1>4. ASSUME NEW r \in Request, Pending(r) \/ Connected(r) \/ Failed(r), request[r].id = i
      PROVE  G
  <2>1. PICK status \in {"pending", "connected", "failed"} :
          \E pc, next : environmentStatus(r, pc, status, next)
    BY <1>4 DEF Pending, Connected, Failed
  <2>2. status \in Environment
    BY DEF Environment
  <2>3. /\ n.state = o.state /\ n.input = o.input /\ n.inputs = o.inputs
        /\ n.environment = IF Answers(i) THEN Applied(o.environment, status) ELSE o.environment
    BY <1>0, <1>4, <2>1, <2>2, StatusEffect
  <2>4. /\ o.environment \in {"connected", "failed"} =>
             n.environment \in {"connected", "failed"}
        /\ o.environment = "failed" => n.environment = "failed"
    BY <2>3 DEF Applied
  <2> QED BY <1>0, <2>3, <2>4
<1>5. ASSUME NEW r \in Request, submit(r), request[r].id = i PROVE G
  <2>1. request[r].pc \in Claiming /\ KeyOf(r) \in Key /\ BodyOf(r) \in Body
    BY <1>5, <1>0, Writer
  <2>2. /\ n.state = o.state /\ n.environment = o.environment
        /\ \/ /\ KeyOf(r) \notin o.input /\ Answers(i)
              /\ n.input = o.input \cup {KeyOf(r)} /\ n.inputs = o.inputs + 1
           \/ n = o
    BY <1>0, <1>5, <2>1, SubmitEffect
  <2>3. CASE n = o
    BY <1>0, <2>3
  <2>4. CASE n # o
    <3>1. o.input \subseteq {KeyOf(r)}
      BY <1>0, <1>5, <2>1, RequestClaims DEF ClaimsHold
    <3>2. o.inputs = 0
      BY <1>0, <2>2, <2>4, <3>1 DEF ObjectsWhole
    <3> QED BY <1>0, <1>5, <2>1, <2>2, <2>4, <3>2 DEF Answers
  <2> QED BY <2>3, <2>4
<1>6. ASSUME NEW r \in Request, delete(r), request[r].id = i PROVE G
  <2>1. \/ n = o
        \/ /\ o.state # "none" /\ n.state = "deleted"
           /\ n.input = o.input /\ n.inputs = o.inputs
    BY <1>0, <1>6, Writer, DeletedEffect
  <2> QED BY <1>0, <2>1
<1>7. ASSUME NEW r \in Request, purge(r), request[r].id = i PROVE G
  <2>1. n = o \/ (n.state = "tombstone" /\ n.input = {} /\ n.inputs = 0)
    BY <1>0, <1>7, Writer, PurgeEffect
  <2>2. i \in seen.deleted /\ seen.deleted \subseteq seen'.deleted
    BY <1>0, <1>7, OnlyGrows DEF purge, At, CatalogInv, CatalogShape
  <2> QED BY <1>0, <2>1, <2>2
<1>8. ASSUME NEW r \in Request, request[r].id # i,
             \/ initialize(r) \/ Pending(r) \/ Connected(r) \/ Failed(r)
             \/ submit(r) \/ delete(r) \/ purge(r)
      PROVE  object'[i] = object[i]
  <2>1. \A e \in {"pending", "connected", "failed"} : e \in Environment
    BY DEF Environment
  <2>2. OnlyOf(request[r].id)
    BY <1>0, <1>8, <2>1, Writer, InitializeEffect, StatusEffect, SubmitEffect, DeletedEffect,
       PurgeEffect DEF Pending, Connected, Failed
  <2> QED BY <1>8, <2>2 DEF OnlyOf
<1>a. ASSUME object'[i] = object[i] PROVE G
  <2>1. /\ n.state = o.state /\ n.environment = o.environment /\ n.input = o.input
        /\ n.inputs = o.inputs
    BY <1>a
  <2> HIDE DEF G, n, o
  <2> QED BY <1>1, <2>1
<1>9. G
  <2> HIDE DEF G
  <2>1. ASSUME NEW r \in Request,
               \/ initialize(r) \/ Pending(r) \/ Connected(r) \/ Failed(r)
               \/ submit(r) \/ delete(r) \/ purge(r)
        PROVE  G
    <3>1. CASE request[r].id = i
      BY <1>3, <1>4, <1>5, <1>6, <1>7, <2>1, <3>1
    <3>2. CASE request[r].id # i
      <4>1. object'[i] = object[i]
        BY <1>8, <2>1, <3>2
      <4> QED BY <1>a, <4>1
    <3> QED BY <3>1, <3>2
  <2>2. object' = object => object'[i] = object[i]
    OBVIOUS
  <2>3. object' = object \/ ObjectWrites
    BY <1>0 DEF Writes
  <2> QED BY ONLY <1>a, <1>2, <2>1, <2>2, <2>3 DEF ObjectWrites
<1> QED BY <1>9 DEF Made, Answers

\* A step counts the first input of an object, and no other.
LEMMA ObjectsStep ==
  ASSUME WholeInv, [Next]_vars
  PROVE  ObjectsWhole'
<1> SUFFICES ASSUME NEW i \in Id
             PROVE  /\ \/ object'[i].input = {} /\ object'[i].inputs = 0
                       \/ object'[i].input # {} /\ object'[i].inputs = 1
                    /\ object'[i].state = "none" => object'[i].input = {}
                    /\ object'[i].state = "tombstone" => i \in seen'.deleted
  BY DEF ObjectsWhole
<1>0. /\ CatalogInv /\ ClaimsHold
      /\ \/ object[i].input = {} /\ object[i].inputs = 0
         \/ object[i].input # {} /\ object[i].inputs = 1
      /\ object[i].state = "none" => object[i].input = {}
      /\ object[i].state = "tombstone" => i \in seen.deleted
  BY DEF WholeInv, WholeShape, ObjectsWhole
<1>1. object'[i].state = "tombstone" => i \in seen'.deleted
  BY <1>0, ObjectStep, OnlyGrows
<1>2. CASE object'[i].input = object[i].input /\ object'[i].inputs = object[i].inputs
  BY <1>0, <1>1, <1>2, ObjectStep DEF Made
<1>3. CASE object'[i].input = {} /\ object'[i].inputs = 0
  BY <1>1, <1>3
<1>4. ASSUME NEW r \in Request, request[r].pc \in Claiming, request[r].id = i,
             KeyOf(r) \in Key, KeyOf(r) \notin object[i].input,
             object'[i].input = object[i].input \cup {KeyOf(r)},
             object'[i].inputs = object[i].inputs + 1, object'[i].state # "none"
      PROVE  /\ \/ object'[i].input = {} /\ object'[i].inputs = 0
                \/ object'[i].input # {} /\ object'[i].inputs = 1
             /\ object'[i].state = "none" => object'[i].input = {}
  <2>1. object[i].input \subseteq {KeyOf(r)}
    BY <1>0, <1>4, RequestClaims DEF ClaimsHold
  <2>2. object[i].input = {}
    BY <1>4, <2>1
  <2> QED BY <1>0, <1>4, <2>2
<1> QED BY <1>1, <1>2, <1>3, <1>4, ObjectStep

\* A step keeps what is claimed reserved or deleted.
LEMMA HoldStep ==
  ASSUME WholeInv, KeysNotReused', [Next]_vars
  PROVE  ClaimsHold'
<1> SUFFICES ASSUME NEW k \in Key, NEW i \in Id, NEW b \in Body, Claims(k, i, b)'
             PROVE  /\ ClaimHolds(k, i, b)'
                    /\ object'[i].input \subseteq {k}
                    /\ b.hosted /\ ~b.fork => i \in bucket'
  BY DEF ClaimsHold
<1>0. /\ CatalogInv /\ CatalogTypeOK /\ ClaimsHold /\ ClaimsAgree /\ ObjectsWhole
      /\ \A r \in Request : Configured(r)
  BY DEF WholeInv, WholeShape, CatalogInv
<1>1. CASE Claims(k, i, b)
  <2>1. /\ ClaimHolds(k, i, b) /\ object[i].input \subseteq {k}
        /\ b.hosted /\ ~b.fork => i \in bucket
    BY <1>0, <1>1 DEF ClaimsHold
  <2>2. ASSUME NEW r \in Request, request[r].pc \in Claiming, request[r].id = i,
               KeyOf(r) \in Key
        PROVE  KeyOf(r) = k
    BY <1>0, <1>1, <2>2, RequestClaims DEF ClaimsAgree
  <2>3. object'[i].input \subseteq {k}
    BY <2>1, <2>2, ObjectStep
  <2> QED BY <1>0, <2>1, <2>3, ClaimKept, OnlyGrows
<1>2. ASSUME NEW r \in Request, reserve(r), catalog.reservation[k] = {}, k = KeyOf(r),
             i = request[r].id, b = BodyOf(r)
      PROVE  /\ ClaimHolds(k, i, b)'
             /\ object'[i].input \subseteq {k}
             /\ b.hosted /\ ~b.fork => i \in bucket'
  <2>1. ClaimHolds(k, i, b)' /\ Fresh(r)
    BY <1>2, NewClaim DEF ClaimHolds
  <2>2. object' = object /\ bucket' = bucket
    BY <1>2, Quiet
  <2>3. object'[i].input = {}
    BY <1>0, <1>2, <2>1, <2>2 DEF Fresh, ObjectsWhole
  <2>4. request[r].pc = "reserve" /\ b \in request[r].body
    BY <1>0, <1>2, Writer DEF reserve, At
  <2> QED BY <1>0, <1>2, <2>1, <2>2, <2>3, <2>4 DEF Configured
<1> QED BY <1>0, <1>1, <1>2, ClaimsStep

\* The steps that move a request among the stages that need what others made.
Registers(r) ==
  \/ initialize(r) \/ registerEnvironment(r) \/ Pending(r) \/ Prepared(r) \/ PrepareFails(r)
  \/ Connected(r) \/ Failed(r) \/ submit(r)
Configures(r) == reserveCreation(r) \/ reserveFork(r) \/ configure(r)

\* Only these steps move a request to a stage that needs what others made.
LEMMA StageStep ==
  ASSUME CatalogInv, [Next]_vars, NEW r \in Request
  PROVE  /\ request'[r].pc \in Registering => request'[r] = request[r] \/ Registers(r)
         /\ request'[r].pc = "reserve" => request'[r] = request[r] \/ Configures(r)
<1> DEFINE G == /\ request'[r].pc \in Registering => request'[r] = request[r] \/ Registers(r)
                /\ request'[r].pc = "reserve" => request'[r] = request[r] \/ Configures(r)
           Far(x) == /\ \A q \in Request \ {x} : request'[q] = request[q]
                     /\ request'[x].pc \notin Registering \cup {"reserve"}
<1>0. CatalogTypeOK /\ CatalogShape
  BY DEF CatalogInv
<1>s. /\ {"free", "lookup", "resolve", "establish", "retrieve", "delete", "undiscover", "purge",
          "configure", "initialize", "reserve"} \cup Registering \subseteq Stage
      /\ Registering \cap {"free", "lookup", "resolve", "establish", "retrieve", "delete",
                           "undiscover", "purge", "configure", "initialize",
                           "reserve"} = {}
      /\ {"submit", "commit", "register", "pending", "prepare", "connected", "failed"}
           \subseteq Registering
  BY DEF Stage, Asking, Naming, Claiming, Ending, Registering
<1>f. ASSUME NEW x \in Request, Far(x) PROVE G
  BY <1>f
<1>m. ASSUME NEW x \in Request, Registers(x) \/ Configures(x),
             \A q \in Request \ {x} : request'[q] = request[q],
             Registers(x) => request'[x].pc # "reserve",
             Configures(x) => request'[x].pc \notin Registering
      PROVE  G
  BY <1>m
<1>e. ASSUME NEW x \in Request, Ends(x) PROVE Far(x)
  BY <1>0, <1>s, <1>e, EndsEffect
<1>g. ASSUME NEW x \in Request, NEW p \in Stage, Goto(x, p),
   p \notin Registering \cup {"reserve"}
      PROVE  Far(x)
  BY <1>0, <1>g, GotoEffect
<1>r. ASSUME NEW x \in Request, request[x].pc \in Asking \cup Naming,
             catalog.reservation[KeyOf(x)] # {}, Recovered(x, Reserved(KeyOf(x)))
      PROVE  Far(x)
  <2>1. AsksOnce(x)
    BY <1>0 DEF CatalogShape
  <2>2. KeyOf(x) \in Key /\ request[x].body = {BodyOf(x)}
    BY <1>0, <1>r, <2>1, KeyFound
  <2>3. Reserved(KeyOf(x)) \in Reservation
    BY <1>0, <1>r, <2>2, ReservedFound
  <2> QED BY <1>0, <1>s, <1>r, <2>2, <2>3, RecoveredEffect
<1> HIDE DEF Far, G
<1>1. ASSUME NEW x \in Request, NEW k \in Key, NEW b \in Body, createSession(x, k, b) PROVE G
  <2>1. request' = [request EXCEPT ![x] = [NoRequest EXCEPT !.pc = "lookup", !.key = {k},
                                                            !.body = {b}]]
    BY <1>1 DEF createSession
  <2>2. /\ \A q \in Request \ {x} : request'[q] = request[q]
        /\ request'[x].pc = "lookup"
    BY ONLY <1>0, <2>1, x \in Request, k \in Key, b \in Body, AskEffect
  <2>3. Far(x)
    BY <1>s, <2>2 DEF Far
  <2> QED BY <1>f, <2>3
<1>2. ASSUME NEW x \in Request, reservation(x) PROVE G
  <2>1. \/ Goto(x, "resolve")
        \/ /\ catalog.reservation[KeyOf(x)] # {} /\ Recovered(x, Reserved(KeyOf(x)))
           /\ request[x].pc \in Asking \cup Naming
    BY <1>2 DEF reservation, At, Asking, Naming
  <2> QED BY <1>f, <1>g, <1>r, <1>s, <2>1
<1>3. ASSUME NEW x \in Request, reserveCreation(x) PROVE G
  <2>1. /\ \A q \in Request \ {x} : request'[q] = request[q]
        /\ request'[x].pc \in {"configure", "reserve"}
    BY <1>0, <1>s, <1>3, NamesEffect DEF reserveCreation
  <2>2. ~Registers(x)
    BY <1>3
       DEF Registers, initialize, registerEnvironment, Pending, Prepared, PrepareFails,
           Connected,
       Failed, submit, environmentStatus, At, reserveCreation
  <2>3. Configures(x) /\ request'[x].pc \notin Registering
    BY <1>s, <1>3, <2>1 DEF Configures
  <2> QED BY <1>m, <2>1, <2>2, <2>3
<1>4. ASSUME NEW x \in Request, reserveFork(x) PROVE G
  <2>1. /\ \A q \in Request \ {x} : request'[q] = request[q]
        /\ request'[x].pc \in {"configure", "reserve"}
    BY <1>0, <1>s, <1>4, NamesEffect DEF reserveFork
  <2>2. ~Registers(x)
    BY <1>4
       DEF Registers, initialize, registerEnvironment, Pending, Prepared, PrepareFails,
           Connected,
       Failed, submit, environmentStatus, At, reserveFork
  <2>3. Configures(x) /\ request'[x].pc \notin Registering
    BY <1>s, <1>4, <2>1 DEF Configures
  <2> QED BY <1>m, <2>1, <2>2, <2>3
<1>5. ASSUME NEW x \in Request, validateModel(x) PROVE G
  <2>1. Ends(x)
    BY <1>5 DEF validateModel, Fails
  <2> QED BY <1>e, <1>f, <1>g, <1>s, <2>1
<1>6. ASSUME NEW x \in Request, resolveSkills(x) PROVE G
  <2>1. Ends(x)
    BY <1>6 DEF resolveSkills, Fails
  <2> QED BY <1>e, <1>f, <1>g, <1>s, <2>1
<1>7. ASSUME NEW x \in Request, configure(x) PROVE G
  <2>1. /\ \A q \in Request \ {x} : request'[q] = request[q]
        /\ request'[x].pc \in {"configure", "reserve"}
    BY <1>0, <1>s, <1>7, GotoEffect DEF configure
  <2>2. ~Registers(x)
    BY <1>7
       DEF Registers, initialize, registerEnvironment, Pending, Prepared, PrepareFails,
           Connected,
       Failed, submit, environmentStatus, At, configure
  <2>3. Configures(x) /\ request'[x].pc \notin Registering
    BY <1>s, <1>7, <2>1 DEF Configures
  <2> QED BY <1>m, <2>1, <2>2, <2>3
<1>8. ASSUME NEW x \in Request, reserve(x) PROVE G
  <2>1. \/ Goto(x, "establish")
        \/ /\ catalog.reservation[KeyOf(x)] # {} /\ Recovered(x, Reserved(KeyOf(x)))
           /\ request[x].pc \in Asking \cup Naming
    BY <1>8 DEF reserve, At, Asking, Naming
  <2> QED BY <1>f, <1>g, <1>r, <1>s, <2>1
<1>9. ASSUME NEW x \in Request, establish(x) PROVE G
  <2>1. Goto(x, "retrieve") \/ Goto(x, "initialize")
    BY <1>9 DEF establish
  <2> QED BY <1>e, <1>f, <1>g, <1>s, <2>1
<1>10. ASSUME NEW x \in Request, preflight(x) PROVE G
  <2>1. Ends(x)
    BY <1>10 DEF preflight, Fails
  <2> QED BY <1>e, <1>f, <1>g, <1>s, <2>1
<1>11. ASSUME NEW x \in Request, initialize(x) PROVE G
  <2>1. /\ \A q \in Request \ {x} : request'[q] = request[q]
        /\ request'[x].pc # "reserve" /\ Registers(x)
        /\ request'[x].pc \in Registering \cup {"free"}
    BY <1>0, <1>s, <1>11, GotoEffect, EndsEffect DEF initialize, Registers
  <2>2. CASE Configures(x)
    BY <1>f, <1>0, <1>s, <1>11, <2>1, <2>2
       DEF Configures, reserveCreation, reserveFork, configure, At,
       initialize
  <2>3. CASE ~Configures(x)
    BY <1>m, <2>1, <2>3
  <2> QED BY <2>2, <2>3
<1>12. ASSUME NEW x \in Request, registerEnvironment(x) PROVE G
  <2>1. /\ \A q \in Request \ {x} : request'[q] = request[q]
        /\ request'[x].pc # "reserve" /\ Registers(x)
        /\ request'[x].pc \in Registering \cup {"free"}
    BY <1>0, <1>s, <1>12, GotoEffect, EndsEffect DEF registerEnvironment, Registers
  <2>2. CASE Configures(x)
    BY <1>f, <1>0, <1>s, <1>12, <2>1, <2>2
       DEF Configures, reserveCreation, reserveFork, configure, At,
       registerEnvironment
  <2>3. CASE ~Configures(x)
    BY <1>m, <2>1, <2>3
  <2> QED BY <2>2, <2>3
<1>13. ASSUME NEW x \in Request, Pending(x) PROVE G
  <2>1. /\ \A q \in Request \ {x} : request'[q] = request[q]
        /\ request'[x].pc # "reserve" /\ Registers(x)
        /\ request'[x].pc \in Registering \cup {"free"}
    BY <1>0, <1>s, <1>13, GotoEffect, EndsEffect DEF Pending, environmentStatus, Registers
  <2>2. CASE Configures(x)
    BY <1>f, <1>0, <1>s, <1>13, <2>1, <2>2
       DEF Configures, reserveCreation, reserveFork, configure, At,
       Pending, environmentStatus
  <2>3. CASE ~Configures(x)
    BY <1>m, <2>1, <2>3
  <2> QED BY <2>2, <2>3
<1>14. ASSUME NEW x \in Request, Prepared(x) PROVE G
  <2>1. /\ \A q \in Request \ {x} : request'[q] = request[q]
        /\ request'[x].pc # "reserve" /\ Registers(x)
        /\ request'[x].pc \in Registering \cup {"free"}
    BY <1>0, <1>s, <1>14, GotoEffect, EndsEffect DEF Prepared, Registers
  <2>2. CASE Configures(x)
    BY <1>f, <1>0, <1>s, <1>14, <2>1, <2>2
       DEF Configures, reserveCreation, reserveFork, configure, At,
       Prepared
  <2>3. CASE ~Configures(x)
    BY <1>m, <2>1, <2>3
  <2> QED BY <2>2, <2>3
<1>15. ASSUME NEW x \in Request, PrepareFails(x) PROVE G
  <2>1. /\ \A q \in Request \ {x} : request'[q] = request[q]
        /\ request'[x].pc # "reserve" /\ Registers(x)
        /\ request'[x].pc \in Registering \cup {"free"}
    BY <1>0, <1>s, <1>15, GotoEffect, EndsEffect DEF PrepareFails, Registers
  <2>2. CASE Configures(x)
    BY <1>f, <1>0, <1>s, <1>15, <2>1, <2>2
       DEF Configures, reserveCreation, reserveFork, configure, At,
       PrepareFails
  <2>3. CASE ~Configures(x)
    BY <1>m, <2>1, <2>3
  <2> QED BY <2>2, <2>3
<1>16. ASSUME NEW x \in Request, Connected(x) PROVE G
  <2>1. /\ \A q \in Request \ {x} : request'[q] = request[q]
        /\ request'[x].pc # "reserve" /\ Registers(x)
        /\ request'[x].pc \in Registering \cup {"free"}
    BY <1>0, <1>s, <1>16, GotoEffect, EndsEffect DEF Connected, environmentStatus, Registers
  <2>2. CASE Configures(x)
    BY <1>f, <1>0, <1>s, <1>16, <2>1, <2>2
       DEF Configures, reserveCreation, reserveFork, configure, At,
       Connected, environmentStatus
  <2>3. CASE ~Configures(x)
    BY <1>m, <2>1, <2>3
  <2> QED BY <2>2, <2>3
<1>17. ASSUME NEW x \in Request, Failed(x) PROVE G
  <2>1. /\ \A q \in Request \ {x} : request'[q] = request[q]
        /\ request'[x].pc # "reserve" /\ Registers(x)
        /\ request'[x].pc \in Registering \cup {"free"}
    BY <1>0, <1>s, <1>17, GotoEffect, EndsEffect DEF Failed, environmentStatus, Registers
  <2>2. CASE Configures(x)
    BY <1>f, <1>0, <1>s, <1>17, <2>1, <2>2
       DEF Configures, reserveCreation, reserveFork, configure, At,
       Failed, environmentStatus
  <2>3. CASE ~Configures(x)
    BY <1>m, <2>1, <2>3
  <2> QED BY <2>2, <2>3
<1>18. ASSUME NEW x \in Request, submit(x) PROVE G
  <2>1. /\ \A q \in Request \ {x} : request'[q] = request[q]
        /\ request'[x].pc # "reserve" /\ Registers(x)
        /\ request'[x].pc \in Registering \cup {"free"}
    BY <1>0, <1>s, <1>18, GotoEffect, EndsEffect DEF submit, Registers
  <2>2. CASE Configures(x)
    BY <1>f, <1>0, <1>s, <1>18, <2>1, <2>2
       DEF Configures, reserveCreation, reserveFork, configure, At,
       submit
  <2>3. CASE ~Configures(x)
    BY <1>m, <2>1, <2>3
  <2> QED BY <2>2, <2>3
<1>19. ASSUME NEW x \in Request, commit(x) PROVE G
  <2>1. Ends(x) \/ Goto(x, "retrieve")
    BY <1>19 DEF commit
  <2> QED BY <1>e, <1>f, <1>g, <1>s, <2>1
<1>20. ASSUME NEW x \in Request, retrieve(x) PROVE G
  <2>1. Ends(x)
    BY <1>20 DEF retrieve
  <2> QED BY <1>e, <1>f, <1>g, <1>s, <2>1
<1>21. ASSUME NEW x \in Request, Dies(x) PROVE G
  <2>1. Ends(x)
    BY <1>21 DEF Dies, Fails
  <2> QED BY <1>e, <1>f, <1>g, <1>s, <2>1
<1>22. ASSUME NEW x \in Request, deleteSession(x) PROVE G
  <2>1. PICK i \in {a.id : a \in seen.answers} \cup catalog.listed :
          request' = [request EXCEPT ![x] = [NoRequest EXCEPT !.pc = "delete", !.id = i]]
    BY <1>22 DEF deleteSession
  <2>2. i \in Id
    BY <1>0 DEF CatalogTypeOK, CatalogType, SeenType, Answer
  <2>3. /\ \A q \in Request \ {x} : request'[q] = request[q]
        /\ request'[x].pc = "delete"
    BY ONLY <1>0, <2>1, <2>2, x \in Request, DeleteEffect
  <2>4. Far(x)
    BY <1>s, <2>3 DEF Far
  <2> QED BY <1>f, <2>4
<1>23. ASSUME NEW x \in Request, delete(x) PROVE G
  <2>1. Ends(x) \/ Goto(x, "undiscover")
    BY <1>23 DEF delete
  <2> QED BY <1>e, <1>f, <1>g, <1>s, <2>1
<1>24. ASSUME NEW x \in Request, undiscover(x) PROVE G
  <2>1. Goto(x, "purge")
    BY <1>24 DEF undiscover
  <2> QED BY <1>e, <1>f, <1>g, <1>s, <2>1
<1>25. ASSUME NEW x \in Request, purge(x) PROVE G
  <2>1. Ends(x)
    BY <1>25 DEF purge
  <2> QED BY <1>e, <1>f, <1>g, <1>s, <2>1
<1>26. ASSUME TurnEnds PROVE G
  <2>1. request' = request
    BY <1>26 DEF TurnEnds
  <2> QED BY <2>1 DEF G
<1>27. ASSUME UNCHANGED vars PROVE G
  <2>1. request' = request
    BY <1>27 DEF vars
  <2> QED BY <2>1 DEF G
<1>z. G
  BY <1>1, <1>2, <1>3, <1>4, <1>5, <1>6, <1>7, <1>8, <1>9, <1>10, <1>11, <1>12, <1>13, <1>14,
     <1>15, <1>16, <1>17, <1>18, <1>19, <1>20, <1>21, <1>22, <1>23, <1>24, <1>25, <1>26,
     <1>27
     DEF Next
<1> QED BY <1>z DEF G

\* A hosted environment's configuration is stored before its key is reserved.
LEMMA ConfiguredStep ==
  ASSUME CatalogInv, \A r \in Request : Configured(r), [Next]_vars, NEW r \in Request
  PROVE  Configured(r)'
<1> SUFFICES ASSUME request'[r].pc = "reserve", NEW b \in request'[r].body, b.hosted, ~b.fork
             PROVE  request'[r].id \in bucket'
  BY DEF Configured
<1>0. CatalogTypeOK /\ AsksOnce(r)
  BY DEF CatalogInv, CatalogShape
<1>1. CASE request'[r] = request[r]
  BY <1>1, OnlyGrows DEF Configured
<1>2. ASSUME configure(r) PROVE request'[r].id \in bucket'
  BY <1>0, <1>2, GotoEffect DEF configure, Stage, Naming
<1>3. ASSUME reserveCreation(r) PROVE FALSE
  <2>1. request[r].pc \in Asking
    BY <1>3 DEF reserveCreation, At, Asking
  <2>2. request[r].body = {BodyOf(r)}
    BY <1>0, <2>1, KeyFound
  <2>3. {"configure", "reserve"} \subseteq Stage
    BY DEF Stage, Naming
  <2>4. CASE BodyOf(r).hosted
    BY <1>0, <1>3, <2>3, <2>4, NamesEffect DEF reserveCreation
  <2>5. CASE ~BodyOf(r).hosted
    <3>1. request'[r].body = request[r].body
      BY <1>0, <1>3, <2>3, <2>5, NamesEffect DEF reserveCreation
    <3> QED BY <2>2, <2>5, <3>1
  <2> QED BY <2>4, <2>5
<1>4. ASSUME reserveFork(r) PROVE FALSE
  <2>1. request[r].pc \in Asking /\ BodyOf(r).fork
    BY <1>4 DEF reserveFork, At, Asking
  <2>2. request[r].body = {BodyOf(r)}
    BY <1>0, <2>1, KeyFound
  <2>3. request'[r].body = request[r].body
    BY <1>0, <1>4, NamesEffect DEF reserveFork, Stage, Naming
  <2> QED BY <2>1, <2>2, <2>3
<1> QED BY <1>1, <1>2, <1>3, <1>4, StageStep DEF Configures

\* What is established of a session that is not deleted stays established.
LEMMA Lasts ==
  ASSUME WholeInv, [Next]_vars, NEW i \in Id, NEW b, i \notin seen'.deleted, Made(i)
  PROVE  /\ Made(i)' /\ (Registered(i, b) => Registered(i, b)')
         /\ Settled(i, b) => Settled(i, b)'
         /\ Taken(i, b) => Taken(i, b)'
<1>0. CatalogInv /\ i \notin seen.deleted
  BY OnlyGrows DEF WholeInv
<1>1. Made(i)' /\ (Registered(i, b) => Registered(i, b)')
  BY <1>0, ObjectStep, OnlyGrows DEF Registered
<1>2. Answers(i)' =>
        /\ Answers(i)
        /\ object[i].environment \in {"connected", "failed"} =>
             object'[i].environment \in {"connected", "failed"}
        /\ object[i].environment = "failed" => object'[i].environment = "failed"
        /\ object'[i].inputs = object[i].inputs \/ object[i].inputs = 0
  BY <1>0, ObjectStep
<1>3. Settled(i, b) => Settled(i, b)'
  BY <1>2 DEF Settled
<1>4. Taken(i, b) => Taken(i, b)'
  BY <1>2 DEF Taken
<1> QED BY <1>1, <1>3, <1>4

\* A request establishes the session before it goes on.
LEMMA ProgressStep ==
  ASSUME WholeInv, KeysNotReused', [Next]_vars, NEW r \in Request
  PROVE  Progress(r)'
<1> SUFFICES ASSUME request'[r].pc \in Registering, request'[r].id \notin seen'.deleted,
                    NEW b, b \in request'[r].body, NEW i, i = request'[r].id
             PROVE  /\ Made(i)'
                    /\ request'[r].pc # "register" => Registered(i, b)'
                    /\ request'[r].pc \in {"submit", "commit"} => Settled(i, b)'
                    /\ request'[r].pc = "commit" => Taken(i, b)'
  BY DEF Progress, Registering, Made, Registered, Settled, Taken, Answers
<1>0. /\ CatalogInv /\ CatalogTypeOK /\ CatalogTypeOK' /\ Progress(r) /\ ObjectsWhole'
      /\ seen.deleted \subseteq seen'.deleted
  BY ObjectsStep, OnlyGrows, TypeStep DEF WholeInv, WholeShape, CatalogInv
<1>s. Registering \subseteq Claiming /\ Claiming \subseteq Stage /\ "initialize" \in Claiming
  BY DEF Registering, Claiming, Stage
<1>1. CASE request'[r] = request[r]
  <2>1. i \in Id /\ i = request[r].id
    BY <1>0, <1>s, <1>1, Writer
  <2>2. /\ i \notin seen'.deleted /\ Made(i)
        /\ request[r].pc # "register" => Registered(i, b)
        /\ request[r].pc \in {"submit", "commit"} => Settled(i, b)
        /\ request[r].pc = "commit" => Taken(i, b)
    BY <1>0, <1>1, <2>1 DEF Progress
  <2> QED BY <1>1, <2>1, <2>2, Lasts
<1>2. CASE Registers(r)
  <2>1. /\ request[r].pc \in Claiming /\ BodyOf(r) \in Body /\ request[r].body = {BodyOf(r)}
        /\ KeyOf(r) \in Key /\ request[r].id \in Id
    <3>1. request[r].pc \in Claiming
      BY <1>0, <1>2, Writer DEF Registers, Prepared, PrepareFails, At, Claiming
    <3> QED BY <1>0, <3>1, Writer
  <2>2. request'[r].id = request[r].id /\ request'[r].body = request[r].body
    BY <1>0, <1>2, <1>s, GotoEffect, EndsEffect
       DEF Registers, initialize, registerEnvironment, Pending, Prepared, PrepareFails,
          Connected,
           Failed, submit, environmentStatus, Claiming, Registering
  <2>3. /\ b = BodyOf(r) /\ i = request[r].id /\ i \in Id
        /\ i \notin seen.deleted /\ i \notin seen'.deleted
    BY <1>0, <2>1, <2>2
  <2> DEFINE W == /\ Made(i)'
                  /\ request'[r].pc # "register" => Registered(i, b)'
                  /\ request'[r].pc \in {"submit", "commit"} => Settled(i, b)'
                  /\ request'[r].pc = "commit" => Taken(i, b)'
  <2>i. i \in Id /\ i = request[r].id
    BY <2>3
  <2>4. /\ request[r].pc \in Registering => Made(i)
        /\ request[r].pc \in Registering \ {"register"} => Registered(i, b)
        /\ request[r].pc \in {"submit", "commit"} => Settled(i, b)
    BY <2>1, <2>3, <1>0 DEF Progress
  <2>5. Made(i) => /\ Made(i)' /\ (Registered(i, b) => Registered(i, b)')
                   /\ Settled(i, b) => Settled(i, b)'
    BY <2>3, Lasts
  <2>6. ASSUME initialize(r) PROVE W
    <3>1. Made(i)'
      BY <1>0, <2>1, <2>i, <2>6, InitializeEffect DEF Made
    <3>2. /\ BodyOf(r).hosted => request'[r].pc = "register"
          /\ ~BodyOf(r).hosted => request'[r].pc = "submit"
      BY <1>0, <2>6, <1>s, GotoEffect DEF initialize, Claiming
    <3> QED BY <2>3, <3>1, <3>2 DEF Registered, Settled
  <2>7. ASSUME registerEnvironment(r) PROVE W
    <3>1. request'[r].pc = "pending" /\ request[r].pc = "register"
      BY <1>0, <2>7, <1>s, GotoEffect DEF registerEnvironment, At, Claiming
    <3>2. i \in catalog'.environments
      BY <1>0, <2>1, <2>i, <2>7, RegisterEffect
    <3> QED BY <2>4, <2>5, <3>1, <3>2 DEF Registered, Registering
  <2>8. ASSUME Pending(r) \/ Prepared(r) \/ PrepareFails(r) PROVE W
    <3>1. /\ request'[r].pc \in {"prepare", "connected", "failed"}
          /\ request[r].pc \in {"pending", "prepare"}
      BY <1>0, <2>8, <1>s, GotoEffect, EndsEffect
         DEF Pending, Prepared, PrepareFails, environmentStatus, At, Claiming, Registering
    <3> QED BY <2>4, <2>5, <3>1 DEF Registering
  <2>9. ASSUME Connected(r) PROVE W
    <3>1. request'[r].pc = "submit" /\ request[r].pc = "connected"
      BY <1>0, <2>9, <1>s, GotoEffect, EndsEffect
         DEF Connected, environmentStatus, At, Claiming, Registering
    <3>2. Settled(i, b)'
      <4>1. "connected" \in Environment
        BY DEF Environment
      <4>2. /\ object'[i].state = object[i].state
            /\ object'[i].environment = IF Answers(i) THEN Applied(object[i].environment,
               "connected")
                                        ELSE object[i].environment
        BY <1>0, <2>1, <2>i, <2>9, <4>1, StatusEffect DEF Connected
      <4> QED BY <4>2 DEF Settled, Answers, Applied
    <3> QED BY <2>4, <2>5, <3>1, <3>2 DEF Registering
  <2>10. ASSUME Failed(r) PROVE W
    <3>1. request'[r].pc = "commit" /\ request[r].pc = "failed"
      BY <1>0, <2>10, <1>s, GotoEffect, EndsEffect
         DEF Failed, environmentStatus, At, Claiming, Registering
    <3>2. Answers(i)' => object'[i].environment = "failed"
      <4>1. "failed" \in Environment
        BY DEF Environment
      <4>2. /\ object'[i].state = object[i].state
            /\ object'[i].environment = IF Answers(i) THEN Applied(object[i].environment,
               "failed")
                                        ELSE object[i].environment
        BY <1>0, <2>1, <2>i, <2>10, <4>1, StatusEffect DEF Failed
      <4> QED BY <4>2 DEF Answers, Applied
    <3> QED BY <2>4, <2>5, <3>1, <3>2 DEF Settled, Taken, Registering
  <2>11. ASSUME submit(r) PROVE W
    <3>1. request'[r].pc = "commit" /\ request[r].pc = "submit"
      BY <1>0, <2>11, <1>s, GotoEffect, EndsEffect DEF submit, At, Claiming, Registering
    <3>2. Taken(i, b)'
      <4>1. BodyOf(r).input => KeyOf(r) \in object'[i].input
        BY <1>0, <2>1, <2>i, <2>11, <3>1, SubmitEffect
      <4>2. BodyOf(r).input => object'[i].inputs = 1
        BY <1>0, <2>1, <2>i, <4>1 DEF ObjectsWhole
      <4> QED BY <2>3, <4>2 DEF Taken
    <3> QED BY <2>4, <2>5, <3>1, <3>2 DEF Registering
  <2>12. W
    BY <1>2, <2>6, <2>7, <2>8, <2>9, <2>10, <2>11 DEF Registers
  <2> QED BY <2>12
<1> QED BY <1>0, <1>1, <1>2, StageStep

\* A reservation that is ready was, or the request that commits it established its session.
LEMMA ReadyStep ==
  ASSUME WholeInv, KeysNotReused, [Next]_vars
  PROVE  ReadyWhole'
<1> SUFFICES ASSUME NEW k \in Key, NEW s \in catalog'.reservation[k], s.ready
             PROVE  /\ Made(s.id)' /\ Registered(s.id, s.body)'
                    /\ Settled(s.id, s.body)' /\ Taken(s.id, s.body)'
  BY DEF ReadyWhole, Made, Registered, Settled, Taken, Answers
<1> DEFINE G == \/ s \in catalog.reservation[k]
                \/ \E r \in Request : /\ commit(r) /\ k = KeyOf(r)
                                      /\ \E t \in catalog.reservation[k] :
                                           s.id = t.id /\ s.body = t.body
<1>0. /\ CatalogInv /\ CatalogTypeOK /\ Writes
      /\ catalog.reservation \in [Key -> SUBSET Reservation]
      /\ catalog'.reservation \in [Key -> SUBSET Reservation]
      /\ ReservationsMatch /\ ReservationsMatch' /\ ReadyWhole /\ ClaimsHold
      /\ \A r \in Request : Progress(r)
  BY WritesStep, TypeStep, ReservationsStep
     DEF WholeInv, WholeShape, CatalogInv, CatalogShape, CatalogTypeOK, CatalogType
<1>1. G
  <2>1. CASE catalog' = catalog
    BY <2>1
  <2>2. ASSUME NEW r \in Request, reserve(r), catalog' # catalog PROVE G
    <3>1. KeyOf(r) \in Key /\ BodyOf(r) \in Body /\ request[r].id \in Id
      BY <1>0, <2>2, Writer
    <3>2. PICK t \in Reservation :
            ~t.ready /\ catalog'.reservation = [catalog.reservation EXCEPT ![KeyOf(r)] = {t}]
      BY <1>0, <2>2, <3>1, ReserveEffect
    <3>3. k # KeyOf(r)
      BY <1>0, <3>1, <3>2
    <3> QED BY <1>0, <3>2, <3>3
  <2>3. ASSUME NEW r \in Request, registerEnvironment(r) PROVE G
    BY <1>0, <2>3, Writer, RegisterEffect
  <2>4. ASSUME NEW r \in Request, commit(r), catalog' # catalog PROVE G
    <3>1. KeyOf(r) \in Key
      BY <1>0, <2>4, Writer
    <3>2. PICK t \in Reservation :
            /\ t.id = Reserved(KeyOf(r)).id /\ t.body = Reserved(KeyOf(r)).body
            /\ catalog.reservation[KeyOf(r)] # {}
            /\ catalog'.reservation = [catalog.reservation EXCEPT ![KeyOf(r)] = {t}]
      BY <1>0, <2>4, <3>1, CommitEffect
    <3>3. Reserved(KeyOf(r)) \in catalog.reservation[KeyOf(r)]
      BY <1>0, <3>1, <3>2, ReservedFound
    <3>4. CASE k = KeyOf(r)
      <4>1. s = t
        BY <1>0, <3>2, <3>4
      <4> QED BY <2>4, <3>2, <3>3, <3>4, <4>1
    <3>5. CASE k # KeyOf(r)
      BY <1>0, <3>2, <3>5
    <3> QED BY <3>4, <3>5
  <2>5. ASSUME NEW r \in Request, undiscover(r) PROVE G
    <3>1. s \in catalog.reservation[k]
      BY <1>0, <2>5, Writer, UndiscoverEffect
    <3> QED BY <3>1
  <2> QED BY <1>0, <2>1, <2>2, <2>3, <2>4, <2>5 DEF Writes, CatalogWrites
<1>2. s \in Reservation /\ s.id \in Id /\ s.body \in Body /\ s.id \notin seen'.deleted
  BY <1>0 DEF ReservationsMatch, Reservation
<1>3. CASE s \in catalog.reservation[k]
  <2>1. /\ Made(s.id) /\ Registered(s.id, s.body) /\ Settled(s.id, s.body)
        /\ Taken(s.id, s.body)
    BY <1>0, <1>3 DEF ReadyWhole
  <2> QED BY <1>2, <2>1, Lasts
<1>4. ASSUME NEW r \in Request, commit(r), k = KeyOf(r),
             NEW t \in catalog.reservation[k], s.id = t.id, s.body = t.body
      PROVE  /\ Made(s.id)' /\ Registered(s.id, s.body)'
             /\ Settled(s.id, s.body)' /\ Taken(s.id, s.body)'
  <2>1. /\ request[r].pc = "commit" /\ request[r].pc \in Claiming
        /\ catalog.reservation[k] = {t} /\ t.id \notin seen.deleted
    BY <1>0, <1>4, Writer DEF commit, At, ReservationsMatch
  <2>2. /\ request[r].id \in Id /\ BodyOf(r) \in Body /\ request[r].body = {BodyOf(r)}
        /\ Claims(k, request[r].id, BodyOf(r))
    BY <1>0, <1>4, <2>1, Writer, RequestClaims
  <2>3. ClaimHolds(k, request[r].id, BodyOf(r))
    BY <1>0, <2>2 DEF ClaimsHold
  <2>4. k \notin seen.spent
    BY <2>1 DEF KeysNotReused
  <2>5. s.id = request[r].id /\ s.body = BodyOf(r)
    BY <1>4, <2>1, <2>3, <2>4 DEF ClaimHolds
  <2>6. /\ Made(s.id) /\ Registered(s.id, s.body) /\ Settled(s.id, s.body)
        /\ Taken(s.id, s.body)
    BY <1>0, <1>4, <2>1, <2>2, <2>5 DEF Progress, Registering
  <2> QED BY <1>2, <2>6, Lasts
<1> QED BY <1>1, <1>3, <1>4

\* The invariant holds at first, and a step keeps it while no key is reserved again.
LEMMA WholeInit == Init => WholeInv
<1> SUFFICES ASSUME Init PROVE WholeShape
  BY CatalogInvInit DEF WholeInv
<1>1. /\ \A k \in Key : catalog.reservation[k] = {}
      /\ \A i \in Id : object[i].input = {} /\ object[i].inputs = 0 /\ object[i].state = "none"
      /\ \A r \in Request : request[r].pc = "free"
      /\ seen.answers = {}
  BY DEF Init, NoObject, NoRequest
<1>2. \A k, i, b : k \in Key => ~Claims(k, i, b)
  BY <1>1 DEF Claims, Claiming
<1> QED BY <1>1, <1>2
        DEF WholeShape, ClaimsAgree, ClaimsHold, ObjectsWhole, Configured, Progress,
           Registering,
            ReadyWhole

\* A step keeps the invariant while no key is reserved again.
LEMMA WholeStep == WholeInv /\ KeysNotReused /\ KeysNotReused' /\ [Next]_vars => WholeInv'
<1> SUFFICES ASSUME WholeInv, KeysNotReused, KeysNotReused', [Next]_vars PROVE WholeInv'
  OBVIOUS
<1>1. CatalogInv'
  BY CatalogInvStep DEF WholeInv
<1>2. ClaimsAgree' /\ ClaimsHold' /\ ObjectsWhole' /\ ReadyWhole'
  BY AgreeStep, HoldStep, ObjectsStep, ReadyStep
<1>3. \A r \in Request : Configured(r)' /\ Progress(r)'
  BY ConfiguredStep, ProgressStep DEF WholeInv, WholeShape
<1> QED BY <1>1, <1>2, <1>3 DEF WholeInv, WholeShape

\* The property follows.
LEMMA WholeIsWhole == WholeInv => SessionsWhole
<1> SUFFICES ASSUME WholeInv PROVE SessionsWhole
  OBVIOUS
<1>0. /\ CatalogTypeOK /\ ReservationsMatch /\ ReadyWhole /\ ClaimsHold /\ ClaimsAgree
      /\ ObjectsWhole /\ catalog.reservation \in [Key -> SUBSET Reservation]
      /\ catalog.session \in [Id -> SUBSET Key] /\ catalog.listed \subseteq Id
      /\ seen.answers \subseteq Answer
  BY DEF WholeInv, WholeShape, CatalogInv, CatalogShape, CatalogTypeOK, CatalogType, SeenType
<1>1. DiscoverableIsEstablished
  <2> SUFFICES ASSUME NEW i \in catalog.listed
               PROVE  /\ Made(i)
                      /\ \A b \in BodyFor(i) :
                           /\ b.hosted /\ ~b.fork => i \in bucket
                           /\ Settled(i, b) /\ Registered(i, b) /\ Taken(i, b)
    BY DEF DiscoverableIsEstablished, Made, Settled, Registered, Taken
  <2>1. ASSUME NEW k \in Key, NEW s \in catalog.reservation[k], s.id = i
        PROVE  /\ Made(i) /\ Settled(i, s.body) /\ Registered(i, s.body) /\ Taken(i, s.body)
               /\ s.body.hosted /\ ~s.body.fork => i \in bucket
    <3>1. s.ready
      BY <1>0, <2>1 DEF ReservationsMatch
    <3>2. Claims(k, i, s.body) /\ i \in Id /\ s.body \in Body
      BY <1>0, <2>1 DEF Claims, Reservation
    <3> QED BY <1>0, <2>1, <3>1, <3>2 DEF ReadyWhole, ClaimsHold
  <2>2. PICK k \in Key : \E s \in catalog.reservation[k] : s.id = i
    BY <1>0 DEF ReservationsMatch
  <2>3. \A b \in BodyFor(i) : \E j \in Key : \E s \in catalog.reservation[j] :
          s.id = i /\ s.body = b
    BY DEF BodyFor
  <2> QED BY <2>1, <2>2, <2>3
<1>2. OneSessionPerKey
  <2>1. ASSUME NEW a \in seen.answers, NEW b \in seen.answers, a.key = b.key PROVE a = b
    <3>1. a \in Answer /\ b \in Answer
      BY <1>0
    <3>2. /\ a.key \in Key /\ a.id \in Id /\ b.id \in Id /\ a.body \in Body /\ b.body \in Body
          /\ Claims(a.key, a.id, a.body) /\ Claims(a.key, b.id, b.body)
      BY <2>1, <3>1 DEF Claims, Answer
    <3>3. a.id = b.id /\ a.body = b.body
      BY <1>0, <3>2 DEF ClaimsAgree
    <3> QED BY ONLY <2>1, <3>1, <3>3 DEF Answer
  <2>2. \A i \in Id : object[i].inputs <= 1
    BY <1>0 DEF ObjectsWhole
  <2> QED BY <2>1, <2>2 DEF OneSessionPerKey
<1>3. DeletedStaysHidden
  BY InvHidden DEF WholeInv
<1> QED BY <1>1, <1>2, <1>3 DEF SessionsWhole

\* Creation, fork and deletion are atomic to a client, for any number of requests that
\* interleave and die anywhere, as long as no key is reserved again after its session was
\* deleted: what is listed is established, and a key has one session and one input.
THEOREM SessionsAreWhole == Spec /\ []KeysNotReused => []SessionsWhole
<1>1. Init => WholeInv
  BY WholeInit
<1>2. WholeInv /\ KeysNotReused /\ KeysNotReused' /\ [Next]_vars => WholeInv'
  BY WholeStep
<1>3. WholeInv => SessionsWhole
  BY WholeIsWhole
<1> QED BY <1>1, <1>2, <1>3, PTL DEF Spec

-----------------------------------------------------------------------------
(***************************************************************************)
(* Skills and input files.  A key's reservation names one bundle and one   *)
(* place in the bucket (KeysApart), so whoever puts or adds under it does  *)
(* so with the same bundle (AttemptsHold), and what was put stays what     *)
(* every version made from it names (VersionsStored).                      *)
(***************************************************************************)

\* What the variables range over: what an upload asks for; the row of a key; the row and the
\* versions of a skill; a request; an input file.
Asked == [target : 0..MaxSkill, bundle : Bundle, makeDefault : BOOLEAN]
KeyRow == [body : Asked, key : 1..MaxKey, done : BOOLEAN]
SkillRow == [latest : Nat, default : Nat, name : Bundle]
VersionRow == [number : Nat, key : 1..MaxKey, name : Bundle]
FileRow == [listed : BOOLEAN, stored : BOOLEAN, deleting : BOOLEAN]
UploadRow == [pc : {"free", "put", "add", "save", "forget"}, operation : SUBSET Operation,
              body : SUBSET Asked, key : Nat, file : Nat]
LibraryTypeOK ==
  /\ skill \in [Skill -> SUBSET SkillRow] /\ version \in [Skill -> SUBSET VersionRow]
  /\ counter \in [Skill -> Nat]
  /\ operation \in [Operation -> SUBSET KeyRow] /\ bundle \in [1..MaxKey -> SUBSET Bundle]
  /\ file \in [1..MaxFile -> FileRow] /\ upload \in [Upload -> UploadRow]
  /\ issued \in [skills : 0..MaxSkill, keys : 0..MaxKey, files : 0..MaxFile]
  /\ \A a \in made : a.skill \in Skill /\ a.number \in Nat /\ a.operation \in Operation

\* A key reserves one upload and one place in the bucket, which no other key has.
KeysApart ==
  /\ \A o \in Operation : \A r, t \in operation[o] : r = t
  /\ \A o \in Operation : \A r \in operation[o] : r.key <= issued.keys
  /\ \A o, p \in Operation : \A r \in operation[o], t \in operation[p] : r.key = t.key => o = p

\* A request that uploads does so for a key's reservation; what it put, it put whole.
Holds(u) == \E o \in Operation : \E r \in operation[o] :
  upload[u].operation = {o} /\ upload[u].body = {r.body} /\ upload[u].key = r.key
AttemptsHold ==
  \A u \in Upload :
    /\ upload[u].pc \in {"put", "add"} => Holds(u)
    /\ upload[u].pc = "add" => bundle[upload[u].key] = {UploadBody(u).bundle}

\* A version was made by an upload, from the bundle the key's reservation names.
VersionsStored ==
  \A s \in Skill : \A v \in version[s] :
    /\ bundle[v.key] = {v.name}
    /\ \E o \in Operation : \E r \in operation[o] : r.key = v.key /\ r.body.bundle = v.name

\* A number that is in use was handed out, a skill without a row has no versions, and the row
\* of one that has resolves.
NumbersHandedOut ==
  /\ \A s \in Skill : \A v \in version[s] : v.number <= counter[s] /\ skill[s] # {}
  /\ \A s \in Skill : \A r, t \in skill[s] : r = t
\* An upload that was made is done, and its number was handed out.
MadeOnce ==
  /\ \A a \in made : Done(a.operation) /\ a.number <= counter[a.skill]
  /\ UploadedOnce

\* An object is there when its row is written, or its deletion began.
FilesStored ==
  /\ \A f \in 1..MaxFile : file[f].listed => file[f].stored \/ file[f].deleting
  /\ \A u \in Upload : upload[u].pc \in {"save", "forget"} => upload[u].file \in 1..MaxFile
  /\ \A u \in Upload : upload[u].pc = "save" =>
       file[upload[u].file].stored \/ file[upload[u].file].deleting

LibraryInv ==
  /\ LibraryTypeOK /\ KeysApart /\ AttemptsHold /\ VersionsStored /\ NumbersHandedOut
  /\ VersionsResolve /\ MadeOnce /\ FilesStored

\* The fields of the rows.
LEMMA LibraryRows ==
  /\ \A r \in KeyRow : r.body \in Asked /\ r.key \in 1..MaxKey /\ r.done \in BOOLEAN
  /\ \A b \in Asked : b.target \in 0..MaxSkill /\ b.bundle \in Bundle /\ b.makeDefault \in BOOLEAN
  /\ \A r \in SkillRow : r.latest \in Nat /\ r.default \in Nat /\ r.name \in Bundle
  /\ \A v \in VersionRow : v.number \in Nat /\ v.key \in 1..MaxKey /\ v.name \in Bundle
BY LibraryAssumption DEF KeyRow, Asked, SkillRow, VersionRow

\* A request goes on, or ends; the others do not move.
LEMMA UploadMoves ==
  ASSUME upload \in [Upload -> UploadRow], NEW u \in Upload,
         NEW pc \in {"free", "put", "add", "save", "forget"}, UploadGoto(u, pc)
  PROVE  /\ upload' \in [Upload -> UploadRow]
         /\ upload'[u].pc = pc /\ upload'[u].operation = upload[u].operation
         /\ upload'[u].body = upload[u].body /\ upload'[u].key = upload[u].key
         /\ upload'[u].file = upload[u].file
         /\ \A w \in Upload : w # u => upload'[w] = upload[w]
BY DEF UploadGoto, UploadRow
LEMMA UploadStops ==
  ASSUME upload \in [Upload -> UploadRow], NEW u \in Upload, UploadEnds(u)
  PROVE  /\ upload' \in [Upload -> UploadRow] /\ upload'[u].pc = "free"
         /\ \A w \in Upload : w # u => upload'[w] = upload[w]
BY DEF UploadEnds, NoUpload, UploadRow
LEMMA UploadStarts ==
  ASSUME upload \in [Upload -> UploadRow], NEW u \in Upload, NEW o \in Operation,
         NEW b \in Asked, NEW key \in Nat, Starts(u, o, b, key)
  PROVE  /\ upload' \in [Upload -> UploadRow] /\ upload'[u].pc = "put"
         /\ upload'[u].operation = {o} /\ upload'[u].body = {b} /\ upload'[u].key = key
         /\ \A w \in Upload : w # u => upload'[w] = upload[w]
BY DEF Starts, NoUpload, UploadRow

\* An attempt's bundle is its reservation's.
LEMMA AttemptBody ==
  ASSUME NEW u \in Upload, NEW o, NEW b, upload[u].operation = {o}, upload[u].body = {b}
  PROVE  OpOf(u) = o /\ UploadBody(u) = b
BY DEF OpOf, UploadBody

\* The reservation of a key stays what it is, done or not.
RowsStay ==
  \A o \in Operation : \A r \in operation[o] :
    \E t \in operation'[o] : t.body = r.body /\ t.key = r.key

\* What is put under a reserved key is the bundle it was reserved for.
BucketStays ==
  \A o \in Operation : \A r \in operation[o] :
    bundle'[r.key] = bundle[r.key] \/ bundle'[r.key] = {r.body.bundle}

\* An attempt that holds a reservation, and has put its bundle.
Attempts(u) ==
  /\ upload[u].pc \in {"put", "add"} => Holds(u)
  /\ upload[u].pc = "add" => bundle[upload[u].key] = {UploadBody(u).bundle}

\* Attempts that do not move are what they were.
LEMMA AttemptsStay ==
  ASSUME LibraryInv, RowsStay, BucketStays,
         NEW u \in Upload, \A w \in Upload : w # u => upload'[w] = upload[w], Attempts(u)'
  PROVE  AttemptsHold'
<1> SUFFICES ASSUME NEW w \in Upload, upload'[w].pc \in {"put", "add"}, w # u PROVE Attempts(w)'
  BY DEF AttemptsHold, Attempts
<1>1. upload'[w] = upload[w] /\ upload[w].pc \in {"put", "add"}
  OBVIOUS
<1>2. Holds(w) /\ (upload[w].pc = "add" => bundle[upload[w].key] = {UploadBody(w).bundle})
  BY <1>1 DEF LibraryInv, AttemptsHold
<1>3. PICK o \in Operation : \E r \in operation[o] :
        upload[w].operation = {o} /\ upload[w].body = {r.body} /\ upload[w].key = r.key
  BY <1>2 DEF Holds
<1>4. PICK r \in operation[o] :
        upload[w].operation = {o} /\ upload[w].body = {r.body} /\ upload[w].key = r.key
  BY <1>3
<1>5. PICK t \in operation'[o] : t.body = r.body /\ t.key = r.key
  BY <1>3, <1>4 DEF RowsStay
<1>6. Holds(w)'
  BY <1>1, <1>3, <1>4, <1>5 DEF Holds
<1>7. UploadBody(w)' = r.body /\ UploadBody(w) = r.body
  BY <1>1, <1>4 DEF UploadBody
<1>8. bundle'[r.key] = bundle[r.key] \/ bundle'[r.key] = {r.body.bundle}
  BY <1>3, <1>4 DEF BucketStays
<1> QED BY <1>1, <1>2, <1>4, <1>6, <1>7, <1>8 DEF Attempts

\* Versions that are left stay stored.
LEMMA VersionsStay ==
  ASSUME LibraryInv, RowsStay, BucketStays, NEW s \in Skill, NEW v \in version[s]
  PROVE  /\ bundle'[v.key] = {v.name}
         /\ \E o \in Operation : \E r \in operation'[o] : r.key = v.key /\ r.body.bundle = v.name
<1>2. PICK o \in Operation : \E r \in operation[o] : r.key = v.key /\ r.body.bundle = v.name
  BY DEF LibraryInv, VersionsStored
<1>3. PICK r \in operation[o] : r.key = v.key /\ r.body.bundle = v.name
  BY <1>2
<1>4. PICK t \in operation'[o] : t.body = r.body /\ t.key = r.key
  BY <1>3 DEF RowsStay
<1>5. bundle[v.key] = {v.name}
  BY DEF LibraryInv, VersionsStored
<1>6. bundle'[r.key] = bundle[r.key] \/ bundle'[r.key] = {r.body.bundle}
  BY <1>3 DEF BucketStays
<1> QED BY <1>3, <1>4, <1>5, <1>6

\* Files whose requests do not move.
LEMMA FilesStay ==
  ASSUME LibraryInv, file' = file, NEW u \in Upload,
         \A w \in Upload : w # u => upload'[w] = upload[w], upload'[u].pc \notin {"save", "forget"}
  PROVE  FilesStored'
BY DEF LibraryInv, FilesStored

\* Skills whose tables are not written.
LEMMA SkillsStay ==
  ASSUME LibraryInv, UNCHANGED <<skill, version, counter, operation, bundle, made>>,
         issued'.keys = issued.keys
  PROVE  KeysApart' /\ VersionsStored' /\ NumbersHandedOut' /\ VersionsResolve' /\ MadeOnce'
<1>1. KeysApart'
  BY DEF LibraryInv, KeysApart
<1>2. VersionsStored'
  BY DEF LibraryInv, VersionsStored
<1>3. NumbersHandedOut' /\ VersionsResolve'
  BY DEF LibraryInv, NumbersHandedOut, VersionsResolve, Numbers
<1>4. MadeOnce'
  BY DEF LibraryInv, MadeOnce, Done, UploadedOnce
<1> QED BY <1>1, <1>2, <1>3, <1>4

-----------------------------------------------------------------------------
(* Steps of an upload.                                                      *)

LEMMA PrepareStep ==
  ASSUME LibraryInv, NEW u \in Upload, NEW o \in Operation, NEW b \in Asked, prepare(u, o, b)
  PROVE  LibraryInv'
<1>0. LibraryTypeOK /\ KeysApart
  BY DEF LibraryInv
<1>1. /\ skill' = skill /\ version' = version /\ counter' = counter /\ bundle' = bundle
      /\ file' = file /\ made' = made
  BY DEF prepare
<1>2. CASE operation[o] # {}
  <2>1. PICK r \in operation[o] : operation[o] = {r}
    BY <1>0, <1>2 DEF KeysApart
  <2>2. ReservedUpload(o) = r
    BY <2>1 DEF ReservedUpload
  <2>3. r.body = b /\ Starts(u, o, b, r.key) /\ operation' = operation /\ issued' = issued
    BY <1>2, <2>2 DEF prepare
  <2>4. r.key \in Nat
    BY <1>0, <2>1, LibraryRows DEF LibraryTypeOK
  <2>5. /\ upload' \in [Upload -> UploadRow] /\ upload'[u].pc = "put"
        /\ upload'[u].operation = {o} /\ upload'[u].body = {b} /\ upload'[u].key = r.key
        /\ \A w \in Upload : w # u => upload'[w] = upload[w]
    BY <1>0, <2>3, <2>4, UploadStarts DEF LibraryTypeOK
  <2>6. RowsStay /\ BucketStays
    BY <1>1, <2>3 DEF RowsStay, BucketStays
  <2>7. Attempts(u)'
    BY <2>1, <2>3, <2>5 DEF Attempts, Holds
  <2>8. AttemptsHold' /\ FilesStored'
    BY <1>1, <2>5, <2>6, <2>7, AttemptsStay, FilesStay
  <2>9. LibraryTypeOK'
    BY <1>0, <1>1, <2>3, <2>5 DEF LibraryTypeOK
  <2> QED BY <1>1, <2>3, <2>8, <2>9, SkillsStay DEF LibraryInv
<1>3. CASE operation[o] = {}
  <2> DEFINE row == [body |-> b, key |-> issued.keys + 1, done |-> FALSE]
  <2>1. /\ issued.keys < MaxKey /\ issued' = [issued EXCEPT !.keys = issued.keys + 1]
        /\ operation' = [operation EXCEPT ![o] = {row}] /\ Starts(u, o, b, issued.keys + 1)
    BY <1>3 DEF prepare, Reserves
  <2>2. issued.keys \in 0..MaxKey /\ MaxKey \in Nat
    BY <1>0, LibraryAssumption DEF LibraryTypeOK
  <2> DEFINE next == issued.keys + 1
  <2>3. next \in 1..MaxKey /\ next \in 0..MaxKey
    BY <2>1, <2>2
  <2>4. row \in KeyRow /\ row.body = b /\ row.key = next
    BY <2>3 DEF KeyRow
  <2>5. issued'.keys = next
         /\ issued' \in [skills : 0..MaxSkill, keys : 0..MaxKey, files : 0..MaxFile]
    <3> HIDE DEF next
    <3>1. issued' = [issued EXCEPT !.keys = next]
      BY <2>1 DEF next
    <3> QED BY <1>0, <2>3, <3>1 DEF LibraryTypeOK
  <2>6. /\ row \in KeyRow /\ row.body = b /\ row.key = issued.keys + 1
        /\ issued.keys + 1 \in Nat /\ issued'.keys = issued.keys + 1
        /\ issued' \in [skills : 0..MaxSkill, keys : 0..MaxKey, files : 0..MaxFile]
    BY <2>2, <2>3, <2>4, <2>5
  <2> HIDE DEF row
  <2>7. /\ upload' \in [Upload -> UploadRow] /\ upload'[u].pc = "put"
        /\ upload'[u].operation = {o} /\ upload'[u].body = {b} /\ upload'[u].key = row.key
        /\ \A w \in Upload : w # u => upload'[w] = upload[w]
    BY <1>0, <2>1, <2>6, UploadStarts DEF LibraryTypeOK
  <2>8. operation'[o] = {row} /\ \A p \in Operation : p # o => operation'[p] = operation[p]
    BY <1>0, <2>1 DEF LibraryTypeOK
  <2>9. RowsStay /\ BucketStays
    BY <1>1, <1>3, <2>8 DEF RowsStay, BucketStays
  <2>10. Attempts(u)'
    BY <2>6, <2>7, <2>8 DEF Attempts, Holds
  <2>11. AttemptsHold' /\ FilesStored'
    BY <1>1, <2>7, <2>9, <2>10, AttemptsStay, FilesStay
  <2>12. LibraryTypeOK'
    BY <1>0, <1>1, <2>1, <2>6, <2>7 DEF LibraryTypeOK
  <2>13. KeysApart'
    <3>1. \A p \in Operation : \A r \in operation[p] : r.key <= issued.keys /\ r.key \in Nat
      BY <1>0, LibraryRows DEF KeysApart, LibraryTypeOK
    <3> QED BY <1>0, <2>2, <2>6, <2>8, <3>1 DEF KeysApart
  <2>14. VersionsStored'
    BY <1>1, <2>9, VersionsStay DEF VersionsStored
  <2>15. NumbersHandedOut' /\ VersionsResolve'
    BY <1>1 DEF LibraryInv, NumbersHandedOut, VersionsResolve, Numbers
  <2>16. MadeOnce'
    BY <1>1, <1>3, <2>8 DEF LibraryInv, MadeOnce, Done, UploadedOnce, LibraryTypeOK
  <2> QED BY <2>11, <2>12, <2>13, <2>14, <2>15, <2>16 DEF LibraryInv
<1> QED BY <1>2, <1>3

LEMMA PutStep ==
  ASSUME LibraryInv, NEW u \in Upload, put(u)
  PROVE  LibraryInv'
<1>0. LibraryTypeOK /\ KeysApart
  BY DEF LibraryInv
<1>1. /\ skill' = skill /\ version' = version /\ counter' = counter /\ operation' = operation
      /\ file' = file /\ made' = made /\ issued' = issued
  BY DEF put
<1>2. PICK o \in Operation : \E r \in operation[o] :
        upload[u].operation = {o} /\ upload[u].body = {r.body} /\ upload[u].key = r.key
  BY DEF put, UploadAt, LibraryInv, AttemptsHold, Holds
<1>3. PICK r \in operation[o] :
        upload[u].operation = {o} /\ upload[u].body = {r.body} /\ upload[u].key = r.key
  BY <1>2
<1>4. UploadBody(u) = r.body /\ r.key \in 1..MaxKey /\ r.body.bundle \in Bundle
  BY <1>0, <1>3, AttemptBody, LibraryRows DEF LibraryTypeOK
<1>5. bundle' = [bundle EXCEPT ![r.key] = {r.body.bundle}] /\ UploadGoto(u, "add")
  BY <1>3, <1>4 DEF put
<1>6. bundle' \in [1..MaxKey -> SUBSET Bundle] /\ bundle'[r.key] = {r.body.bundle}
      /\ \A k \in 1..MaxKey : k # r.key => bundle'[k] = bundle[k]
  BY <1>0, <1>4, <1>5 DEF LibraryTypeOK
<1>7. /\ upload' \in [Upload -> UploadRow] /\ upload'[u].pc = "add"
      /\ upload'[u].operation = {o} /\ upload'[u].body = {r.body} /\ upload'[u].key = r.key
      /\ \A w \in Upload : w # u => upload'[w] = upload[w]
  BY <1>0, <1>3, <1>5, UploadMoves DEF LibraryTypeOK
<1>8. RowsStay
  BY <1>1 DEF RowsStay
<1>9. BucketStays
  <2> SUFFICES ASSUME NEW p \in Operation, NEW t \in operation[p], t.key = r.key
               PROVE  t = r
    BY <1>0, <1>6, LibraryRows DEF BucketStays, LibraryTypeOK
  <2>1. p = o
    BY <1>0, <1>3 DEF KeysApart
  <2> QED BY <1>0, <2>1 DEF KeysApart
<1>10. Attempts(u)'
  <2>1. UploadBody(u)' = r.body
    BY <1>7 DEF UploadBody
  <2> QED BY <1>1, <1>6, <1>7, <2>1 DEF Attempts, Holds
<1>11. AttemptsHold' /\ FilesStored'
  BY <1>1, <1>7, <1>8, <1>9, <1>10, AttemptsStay, FilesStay
<1>12. LibraryTypeOK' /\ KeysApart'
  BY <1>0, <1>1, <1>6, <1>7 DEF LibraryTypeOK, KeysApart
<1>13. VersionsStored'
  BY <1>1, <1>8, <1>9, VersionsStay DEF VersionsStored
<1>14. NumbersHandedOut' /\ VersionsResolve' /\ MadeOnce'
  BY <1>1 DEF LibraryInv, NumbersHandedOut, VersionsResolve, Numbers, MadeOnce, Done, UploadedOnce
<1> QED BY <1>11, <1>12, <1>13, <1>14 DEF LibraryInv

\* A request that only leaves.
LEMMA LeavesStep ==
  ASSUME LibraryInv, NEW u \in Upload, UploadEnds(u),
         UNCHANGED <<skill, version, counter, operation, bundle, file, issued, made>>
  PROVE  LibraryInv'
<1>1. /\ upload' \in [Upload -> UploadRow] /\ upload'[u].pc = "free"
      /\ \A w \in Upload : w # u => upload'[w] = upload[w]
  BY UploadStops DEF LibraryInv, LibraryTypeOK
<1>2. RowsStay /\ BucketStays /\ Attempts(u)'
  BY <1>1 DEF RowsStay, BucketStays, Attempts
<1>3. AttemptsHold' /\ FilesStored'
  BY <1>1, <1>2, AttemptsStay, FilesStay
<1>4. LibraryTypeOK'
  BY <1>1 DEF LibraryInv, LibraryTypeOK
<1> QED BY <1>3, <1>4, SkillsStay DEF LibraryInv

-----------------------------------------------------------------------------
(* The tables of skills.                                                    *)

\* The greatest of some numbers and one above them.
LEMMA NewestIsLast ==
  ASSUME NEW S \in SUBSET Nat, NEW n \in Nat, \A m \in S : m < n
  PROVE  Max(S \cup {n}) = n
<1> DEFINE T == S \cup {n}
<1>1. n \in T /\ \A y \in T : n >= y
  OBVIOUS
<1>2. \A x \in T : (\A y \in T : x >= y) => x = n
  <2> SUFFICES ASSUME NEW x \in T, \A y \in T : x >= y PROVE x = n
    OBVIOUS
  <2>1. x >= n /\ n >= x
    BY <1>1
  <2> QED BY <2>1
<1>3. Max(T) = CHOOSE x \in T : \A y \in T : x >= y
  BY DEF Max
<1> HIDE DEF T
<1>4. Max(T) = n
  BY <1>1, <1>2, <1>3
<1> QED BY <1>4 DEF T

\* Bounded numbers have a greatest.
LEMMA NewestExists ==
  ASSUME NEW S \in SUBSET Nat, NEW m \in S, NEW c \in Nat, \A n \in S : n <= c
  PROVE  Max(S) \in Nat
<1> DEFINE D == {d \in Nat : d <= c /\ c - d \in S}
<1>1. c - m \in D
  <2>1. m \in Nat /\ m <= c
    OBVIOUS
  <2>2. c - m \in Nat /\ c - m <= c /\ c - (c - m) = m
    BY <2>1
  <2> QED BY <2>2
<1>2. D \subseteq Nat
  OBVIOUS
<1> HIDE DEF D
<1>3. PICK d \in D : \A e \in D : ~(<<e, d>> \in OpToRel(<, Nat))
  BY <1>1, <1>2, NatLessThanWellFounded, WFMin
<1>4. d \in Nat /\ d <= c /\ c - d \in S
  BY <1>3 DEF D
<1>5. \A n \in S : c - d >= n
  <2> SUFFICES ASSUME NEW n \in S, c - d < n PROVE FALSE
    BY <1>4
  <2>1. n \in Nat /\ n <= c
    OBVIOUS
  <2>2. c - n \in Nat /\ c - n <= c /\ c - (c - n) = n /\ c - n < d
    BY <1>4, <2>1
  <2>3. c - n \in D
    BY <2>2 DEF D
  <2> QED BY <1>3, <1>4, <2>2, <2>3 DEF OpToRel
<1>6. \E x \in S : \A y \in S : x >= y
  BY <1>4, <1>5
<1>7. Max(S) = CHOOSE x \in S : \A y \in S : x >= y
  BY DEF Max
<1> QED BY <1>6, <1>7

\* A version that is added has the next number of its skill, is its latest, and its default if
\* it is the first or was asked to be.
LEMMA AddedEffect ==
  ASSUME LibraryInv, NEW o \in Operation, NEW b \in Asked, NEW s \in Skill, NEW key \in 1..MaxKey,
         skill[s] = {} => version[s] = {}, Added(o, b, s, key)
  PROVE  LET n == counter[s] + 1
         IN  /\ n \in Nat
             /\ counter' \in [Skill -> Nat] /\ counter'[s] = n
             /\ version' \in [Skill -> SUBSET VersionRow]
             /\ \E v \in VersionRow : v.number = n /\ v.key = key /\ v.name = b.bundle
                                      /\ version'[s] = version[s] \cup {v}
             /\ skill' \in [Skill -> SUBSET SkillRow]
             /\ \E r \in SkillRow : skill'[s] = {r} /\ r.latest = n
                  /\ \/ r.default = n /\ r.name = b.bundle
                     \/ \E t \in skill[s] : r.default = t.default /\ r.name = t.name
             /\ \A x \in Skill : x # s => /\ counter'[x] = counter[x] /\ version'[x] = version[x]
                                          /\ skill'[x] = skill[x]
<1> DEFINE n == counter[s] + 1
           v == [number |-> n, key |-> key, name |-> b.bundle]
           promoted == skill[s] = {} \/ b.makeDefault
           r == [latest |-> n, default |-> IF promoted THEN n ELSE Row(s).default,
                 name |-> IF promoted THEN b.bundle ELSE Row(s).name]
<1>0. LibraryTypeOK /\ n \in Nat /\ b.bundle \in Bundle
  BY LibraryRows DEF LibraryInv, LibraryTypeOK
<1>1. /\ counter' = [counter EXCEPT ![s] = n]
      /\ version' = [version EXCEPT ![s] = version[s] \cup {v}]
      /\ skill' = [skill EXCEPT ![s] = {r}]
  BY DEF Added, nextNumber
<1>2. v \in VersionRow /\ v.number = n /\ v.key = key /\ v.name = b.bundle
  BY <1>0 DEF VersionRow
<1>3. ~promoted => Row(s) \in skill[s]
  BY DEF Row
<1>4. r \in SkillRow /\ r.latest = n
      /\ (\/ r.default = n /\ r.name = b.bundle
          \/ \E t \in skill[s] : r.default = t.default /\ r.name = t.name)
  <2>1. CASE promoted
    BY <1>0, <2>1 DEF SkillRow
  <2>2. CASE ~promoted
    <3>1. Row(s).default \in Nat /\ Row(s).name \in Bundle
      BY <1>0, <1>3, <2>2, LibraryRows DEF LibraryTypeOK
    <3>2. r = [latest |-> n, default |-> Row(s).default, name |-> Row(s).name]
      BY <2>2
    <3> QED BY <1>0, <1>3, <2>2, <3>1, <3>2 DEF SkillRow
  <2> QED BY <2>1, <2>2
<1> HIDE DEF n, v, r, promoted
<1>5. counter' \in [Skill -> Nat] /\ counter'[s] = n
  BY <1>0, <1>1 DEF LibraryTypeOK
<1>6. version' \in [Skill -> SUBSET VersionRow] /\ version'[s] = version[s] \cup {v}
  BY <1>0, <1>1, <1>2 DEF LibraryTypeOK
<1>7. skill' \in [Skill -> SUBSET SkillRow] /\ skill'[s] = {r}
  BY <1>0, <1>1, <1>4 DEF LibraryTypeOK
<1>8. \A x \in Skill : x # s => /\ counter'[x] = counter[x] /\ version'[x] = version[x]
                                /\ skill'[x] = skill[x]
  BY <1>0, <1>1 DEF LibraryTypeOK
<1> QED BY <1>0, <1>2, <1>4, <1>5, <1>6, <1>7, <1>8 DEF n

LEMMA AddedResolves ==
  ASSUME LibraryInv, NEW o \in Operation, NEW b \in Asked, NEW s \in Skill, NEW key \in 1..MaxKey,
         Added(o, b, s, key)
  PROVE  NumbersHandedOut' /\ VersionsResolve'
<1> DEFINE n == counter[s] + 1
<1>0. LibraryTypeOK /\ NumbersHandedOut /\ VersionsResolve
  BY DEF LibraryInv
<1>1. skill[s] = {} => version[s] = {}
  BY <1>0 DEF NumbersHandedOut
<1>2. /\ n \in Nat /\ counter' \in [Skill -> Nat] /\ counter'[s] = n
      /\ \A x \in Skill : x # s => /\ counter'[x] = counter[x] /\ version'[x] = version[x]
                                   /\ skill'[x] = skill[x]
  BY <1>1, AddedEffect
<1>3. PICK v \in VersionRow : v.number = n /\ v.key = key /\ v.name = b.bundle
                              /\ version'[s] = version[s] \cup {v}
  BY <1>1, AddedEffect
<1>4. PICK r \in SkillRow : skill'[s] = {r} /\ r.latest = n
                  /\ \/ r.default = n /\ r.name = b.bundle
                     \/ \E t \in skill[s] : r.default = t.default /\ r.name = t.name
  BY <1>1, AddedEffect
<1>5. counter[s] \in Nat /\ n = counter[s] + 1
  BY <1>0 DEF LibraryTypeOK
<1> HIDE DEF n
<1>6. \A w \in version[s] : w.number \in Nat /\ w.number <= counter[s]
  BY <1>0, LibraryRows DEF LibraryTypeOK, NumbersHandedOut
<1>7. NumbersHandedOut'
  BY <1>0, <1>2, <1>3, <1>4, <1>5, <1>6 DEF NumbersHandedOut
<1>8. VersionsResolve'
  <2> SUFFICES ASSUME NEW x \in Skill, NEW t \in skill'[x]
               PROVE  /\ t.latest = Max(Numbers(x)')
                      /\ \E w \in version'[x] : w.number = t.default /\ w.name = t.name
    BY DEF VersionsResolve
  <2>1. CASE x # s
    <3>1. Numbers(x)' = Numbers(x) /\ t \in skill[x] /\ version'[x] = version[x]
      BY <1>2, <2>1 DEF Numbers
    <3> QED BY <1>0, <3>1 DEF VersionsResolve
  <2>2. CASE x = s
    <3>1. t = r /\ Numbers(x)' = Numbers(s) \cup {n}
      BY <1>3, <1>4, <2>2 DEF Numbers
    <3>2. Numbers(s) \in SUBSET Nat /\ \A m \in Numbers(s) : m < n
      BY <1>5, <1>6 DEF Numbers
    <3>3. r.latest = Max(Numbers(x)')
      BY <1>2, <1>4, <3>1, <3>2, NewestIsLast
    <3>4. \E w \in version'[x] : w.number = r.default /\ w.name = r.name
      <4>1. CASE r.default = n /\ r.name = b.bundle
        BY <1>3, <2>2, <4>1
      <4>2. CASE \E q \in skill[s] : r.default = q.default /\ r.name = q.name
        BY <1>0, <1>3, <2>2, <4>2 DEF VersionsResolve
      <4> QED BY <1>4, <4>1, <4>2
    <3> QED BY <3>1, <3>3, <3>4
  <2> QED BY <2>1, <2>2
<1> QED BY <1>7, <1>8

\* The key of an upload that was added is done.
LEMMA DoneEffect ==
  ASSUME LibraryInv, NEW o \in Operation, NEW q \in operation[o],
         operation' = [operation EXCEPT ![o] = {[r EXCEPT !.done = TRUE] : r \in operation[o]}]
  PROVE  /\ operation' \in [Operation -> SUBSET KeyRow]
         /\ \E t \in KeyRow : operation'[o] = {t} /\ t.done /\ t.body = q.body /\ t.key = q.key
         /\ \A p \in Operation : p # o => operation'[p] = operation[p]
<1> DEFINE t == [q EXCEPT !.done = TRUE]
<1>0. LibraryTypeOK /\ q \in KeyRow
  BY DEF LibraryInv, LibraryTypeOK
<1>1. operation[o] = {q}
  BY DEF LibraryInv, KeysApart
<1>2. t \in KeyRow /\ t.done /\ t.body = q.body /\ t.key = q.key
  BY <1>0 DEF KeyRow
<1>3. {[r EXCEPT !.done = TRUE] : r \in operation[o]} = {t}
  BY <1>1
<1> HIDE DEF t
<1>4. operation' = [operation EXCEPT ![o] = {t}]
  BY <1>3
<1>5. operation \in [Operation -> SUBSET KeyRow]
  BY <1>0 DEF LibraryTypeOK
<1>6. operation'[o] = {t} /\ \A p \in Operation : p # o => operation'[p] = operation[p]
  BY <1>4, <1>5
<1>7. operation' \in [Operation -> SUBSET KeyRow]
  BY <1>2, <1>4, <1>5
<1> QED BY <1>2, <1>6, <1>7

\* What was added is written down once.
LEMMA AddedOnce ==
  ASSUME LibraryInv, NEW o \in Operation, NEW b \in Asked, NEW s \in Skill, NEW key \in 1..MaxKey,
         Added(o, b, s, key), ~Done(o), operation[o] # {}
  PROVE  /\ MadeOnce'
         /\ \A a \in made' : a.skill \in Skill /\ a.number \in Nat /\ a.operation \in Operation
<1> DEFINE n == counter[s] + 1
           new == [skill |-> s, number |-> n, operation |-> o, attempt |-> Cardinality(made)]
<1>0. LibraryTypeOK /\ MadeOnce
  BY DEF LibraryInv
<1>1. /\ counter' = [counter EXCEPT ![s] = n] /\ made' = made \cup {new}
      /\ operation' = [operation EXCEPT ![o] = {[r EXCEPT !.done = TRUE] : r \in operation[o]}]
  BY DEF Added, nextNumber
<1>2. n \in Nat /\ counter[s] < n
  BY <1>0 DEF LibraryTypeOK
<1>3. new.skill = s /\ new.number = n /\ new.operation = o
  OBVIOUS
<1> HIDE DEF new
<1>4. counter' \in [Skill -> Nat] /\ counter'[s] = n
      /\ \A x \in Skill : counter'[x] \in Nat /\ counter[x] \in Nat /\ counter[x] <= counter'[x]
  BY <1>0, <1>1, <1>2 DEF LibraryTypeOK
<1>5. Done(o)' /\ \A p \in Operation : Done(p) => Done(p)'
  <2>1. PICK q \in operation[o] : TRUE
    OBVIOUS
  <2> QED BY <1>1, <2>1, DoneEffect DEF Done
<1> HIDE DEF n
<1>6. \A a \in made' : a.skill \in Skill /\ a.number \in Nat /\ a.operation \in Operation
  BY <1>0, <1>1, <1>2, <1>3 DEF LibraryTypeOK
<1>7. ASSUME NEW a \in made' PROVE Done(a.operation)' /\ a.number <= counter'[a.skill]
  <2>1. CASE a = new
    BY <1>2, <1>3, <1>4, <1>5, <2>1
  <2>2. CASE a \in made
    <3>1. a.skill \in Skill /\ a.number \in Nat /\ a.operation \in Operation
      BY <1>6
    <3>2. Done(a.operation) /\ a.number <= counter[a.skill]
      BY <1>0, <2>2 DEF MadeOnce
    <3> QED BY <1>4, <1>5, <3>1, <3>2
  <2> QED BY <1>1, <2>1, <2>2
<1>8. \A a \in made : a.operation # o /\ (a.skill = s => a.number < n)
  BY <1>0, <1>2 DEF MadeOnce, LibraryTypeOK
<1>9. ASSUME NEW a \in made', NEW c \in made',
             a.operation = c.operation \/ (a.skill = c.skill /\ a.number = c.number)
      PROVE  a = c
  <2>1. CASE a \in made /\ c \in made
    BY <1>0, <1>9, <2>1 DEF MadeOnce, UploadedOnce
  <2>2. CASE a = new /\ c \in made
    BY <1>2, <1>3, <1>6, <1>8, <1>9, <2>2
  <2>3. CASE c = new /\ a \in made
    BY <1>2, <1>3, <1>6, <1>8, <1>9, <2>3
  <2> QED BY <1>1, <2>1, <2>2, <2>3
<1> QED BY <1>6, <1>7, <1>9 DEF MadeOnce, UploadedOnce

LEMMA AddStep ==
  ASSUME LibraryInv, NEW u \in Upload, add(u)
  PROVE  LibraryInv'
<1>0. LibraryTypeOK /\ KeysApart
  BY DEF LibraryInv
<1>1. PICK o \in Operation : \E r \in operation[o] :
        upload[u].operation = {o} /\ upload[u].body = {r.body} /\ upload[u].key = r.key
  BY DEF add, UploadAt, LibraryInv, AttemptsHold, Holds
<1>2. PICK q \in operation[o] :
        upload[u].operation = {o} /\ upload[u].body = {q.body} /\ upload[u].key = q.key
  BY <1>1
<1> DEFINE b == q.body
<1>3. OpOf(u) = o /\ UploadBody(u) = b
  BY <1>2, AttemptBody
<1>4. q.key \in 1..MaxKey /\ b \in Asked /\ b.bundle \in Bundle /\ b.target \in 0..MaxSkill
  BY <1>0, <1>2, LibraryRows DEF LibraryTypeOK
<1>5. UploadEnds(u) /\ bundle' = bundle /\ file' = file /\ bundle[q.key] = {b.bundle}
  BY <1>2, <1>3 DEF add, LibraryInv, AttemptsHold, UploadAt
<1>6. /\ upload' \in [Upload -> UploadRow] /\ upload'[u].pc = "free"
      /\ \A w \in Upload : w # u => upload'[w] = upload[w]
  BY <1>0, <1>5, UploadStops DEF LibraryTypeOK
<1>7. CASE UNCHANGED <<skill, version, counter, operation, issued, made>>
  BY <1>5, <1>7, LeavesStep
<1>8. ASSUME NEW s \in Skill, Added(o, b, s, q.key), ~Done(o),
             issued' \in [skills : 0..MaxSkill, keys : 0..MaxKey, files : 0..MaxFile],
             issued'.keys = issued.keys
      PROVE  LibraryInv'
  <2>1. /\ operation' \in [Operation -> SUBSET KeyRow]
        /\ \E t \in KeyRow : operation'[o] = {t} /\ t.done /\ t.body = q.body /\ t.key = q.key
        /\ \A p \in Operation : p # o => operation'[p] = operation[p]
    BY <1>8, DoneEffect DEF Added
  <2>2. PICK t \in KeyRow : operation'[o] = {t} /\ t.body = q.body /\ t.key = q.key
    BY <2>1
  <2>3. operation[o] = {q}
    BY <1>0 DEF KeysApart
  <2>4. RowsStay /\ BucketStays
    BY <1>5, <2>1, <2>2, <2>3 DEF RowsStay, BucketStays
  <2>5. Attempts(u)'
    BY <1>6 DEF Attempts
  <2>6. AttemptsHold' /\ FilesStored'
    BY <1>5, <1>6, <2>4, <2>5, AttemptsStay, FilesStay
  <2>7. KeysApart'
    BY <1>0, <1>8, <2>1, <2>2, <2>3 DEF KeysApart
  <2>8. NumbersHandedOut' /\ VersionsResolve'
    BY <1>4, <1>8, AddedResolves
  <2>9. /\ MadeOnce'
        /\ \A a \in made' : a.skill \in Skill /\ a.number \in Nat /\ a.operation \in Operation
    BY <1>4, <1>8, <2>3, AddedOnce
  <2>10. skill[s] = {} => version[s] = {}
    BY DEF LibraryInv, NumbersHandedOut
  <2>11. /\ counter' \in [Skill -> Nat] /\ version' \in [Skill -> SUBSET VersionRow]
         /\ skill' \in [Skill -> SUBSET SkillRow]
         /\ \A x \in Skill : x # s => version'[x] = version[x]
    BY <1>4, <1>8, <2>10, AddedEffect
  <2>12. LibraryTypeOK'
    BY <1>0, <1>5, <1>6, <1>8, <2>1, <2>9, <2>11 DEF LibraryTypeOK
  <2>13. VersionsStored'
    <3>1. PICK v \in VersionRow : v.key = q.key /\ v.name = b.bundle
                                  /\ version'[s] = version[s] \cup {v}
      BY <1>4, <1>8, <2>10, AddedEffect
    <3>2. /\ bundle'[v.key] = {v.name}
          /\ \E p \in Operation : \E r \in operation'[p] : r.key = v.key /\ r.body.bundle = v.name
      BY <1>5, <2>2, <3>1
    <3>3. ASSUME NEW x \in Skill, NEW w \in version'[x]
          PROVE  w \in version[x] \/ w = v
      BY <2>11, <3>1
    <3> QED BY <2>4, <3>2, <3>3, VersionsStay DEF VersionsStored
  <2> QED BY <2>6, <2>7, <2>8, <2>9, <2>12, <2>13 DEF LibraryInv
<1>9. CASE b.target # 0 /\ skill[b.target] # {} /\ ~Done(o)
           /\ Added(o, b, b.target, q.key) /\ issued' = issued
  <2>1. b.target \in Skill
    BY <1>4, <1>9, LibraryAssumption DEF Skill
  <2> QED BY <1>0, <1>8, <1>9, <2>1 DEF LibraryTypeOK
<1>10. CASE /\ issued.skills < MaxSkill /\ issued' = [issued EXCEPT !.skills = issued.skills + 1]
            /\ ~Done(o) /\ Added(o, b, issued.skills + 1, q.key)
  <2>1. issued.skills \in 0..MaxSkill /\ MaxSkill \in Nat
    BY <1>0, LibraryAssumption DEF LibraryTypeOK
  <2>2. issued.skills + 1 \in Skill /\ issued.skills + 1 \in 0..MaxSkill
    BY <1>10, <2>1 DEF Skill
  <2>3. issued' \in [skills : 0..MaxSkill, keys : 0..MaxKey, files : 0..MaxFile]
        /\ issued'.keys = issued.keys
    BY <1>0, <1>10, <2>2 DEF LibraryTypeOK
  <2> QED BY <1>8, <1>10, <2>2, <2>3
<1> HIDE DEF b
<1> QED BY <1>2, <1>3, <1>7, <1>9, <1>10 DEF add

-----------------------------------------------------------------------------
(* Updates and deletions of skills.                                         *)

\* A skill has one row, of the versions it has: its latest and its default among them.
RowHolds(V, K) ==
  /\ K = {} => V = {}
  /\ \A r, t \in K : r = t
  /\ \A r \in K : /\ r.latest = newest(V)
                 /\ \E v \in V : v.number = r.default /\ v.name = r.name

\* A step of the rows of one skill that adds no version leaves attempts, keys and files alone.
LEMMA RowStep ==
  ASSUME LibraryInv, NEW s \in Skill, NEW V \in SUBSET version[s], NEW K \in SUBSET SkillRow,
         version' = [version EXCEPT ![s] = V], skill' = [skill EXCEPT ![s] = K],
         RowHolds(V, K),
         UNCHANGED <<counter, operation, bundle, file, upload, issued, made>>
  PROVE  LibraryInv'
<1>0. LibraryTypeOK
  BY DEF LibraryInv
<1>1. version[s] \in SUBSET VersionRow
  BY <1>0 DEF LibraryTypeOK
<1>2. /\ version' \in [Skill -> SUBSET VersionRow] /\ version'[s] = V
      /\ skill' \in [Skill -> SUBSET SkillRow] /\ skill'[s] = K
      /\ \A x \in Skill : x # s => version'[x] = version[x] /\ skill'[x] = skill[x]
  BY <1>0, <1>1 DEF LibraryTypeOK
<1>3. LibraryTypeOK'
  BY <1>0, <1>2 DEF LibraryTypeOK
<1>4. KeysApart' /\ FilesStored'
  BY DEF LibraryInv, KeysApart, FilesStored
<1>5. AttemptsHold'
  <2>1. AttemptsHold
    BY DEF LibraryInv
  <2> QED BY ONLY <2>1, UNCHANGED <<operation, bundle, upload>> DEF AttemptsHold, Holds, UploadBody
<1>6. MadeOnce'
  BY DEF LibraryInv, MadeOnce, Done, UploadedOnce
<1>7. \A x \in Skill : version'[x] \subseteq version[x]
  BY <1>2
<1>8. RowsStay /\ BucketStays
  BY DEF RowsStay, BucketStays
<1>9. VersionsStored'
  BY <1>7, <1>8, VersionsStay DEF VersionsStored
<1>10. NumbersHandedOut'
  <2>1. \A x \in Skill : \A v \in version'[x] : v.number <= counter[x] /\ v \in version[x]
    BY <1>7 DEF LibraryInv, NumbersHandedOut
  <2>2. \A x \in Skill : version[x] # {} => skill[x] # {}
    BY DEF LibraryInv, NumbersHandedOut
  <2>3. \A x \in Skill : version'[x] # {} => skill'[x] # {}
    BY <1>2, <2>2 DEF RowHolds
  <2>4. \A x \in Skill : \A t, u \in skill[x] : t = u
    BY DEF LibraryInv, NumbersHandedOut
  <2>5. \A x \in Skill : \A t, u \in skill'[x] : t = u
    BY <1>2, <2>4 DEF RowHolds
  <2> QED BY <2>1, <2>3, <2>5 DEF NumbersHandedOut
<1>11. VersionsResolve'
  <2> SUFFICES ASSUME NEW x \in Skill, NEW t \in skill'[x]
               PROVE  /\ t.latest = Max(Numbers(x)')
                      /\ \E w \in version'[x] : w.number = t.default /\ w.name = t.name
    BY DEF VersionsResolve
  <2>1. CASE x # s
    <3>1. Numbers(x)' = Numbers(x) /\ t \in skill[x] /\ version'[x] = version[x]
      BY <1>2, <2>1 DEF Numbers
    <3> QED BY <3>1 DEF LibraryInv, VersionsResolve
  <2>2. CASE x = s
    <3>1. Numbers(x)' = {v.number : v \in V} /\ t \in K /\ version'[x] = V
      BY <1>2, <2>2 DEF Numbers
    <3> QED BY <3>1 DEF RowHolds, newest
  <2> QED BY <2>1, <2>2
<1> QED BY <1>3, <1>4, <1>5, <1>6, <1>9, <1>10, <1>11 DEF LibraryInv

LEMMA UpdateStep ==
  ASSUME LibraryInv, NEW s \in Skill, NEW v \in version[s], update(s, v)
  PROVE  LibraryInv'
<1> DEFINE r == Row(s)
           t == [r EXCEPT !.default = v.number, !.name = v.name]
<1>0. LibraryTypeOK /\ v \in VersionRow /\ r \in skill[s] /\ r \in SkillRow
  BY DEF LibraryInv, LibraryTypeOK, update, Row
<1>1. r.latest = Max(Numbers(s))
  BY <1>0 DEF LibraryInv, VersionsResolve
<1>2. v.number \in Nat /\ v.name \in Bundle
  BY <1>0, LibraryRows
<1>3. skill' = [skill EXCEPT ![s] = {t}]
  BY DEF update
<1> HIDE DEF r
<1>4. t \in SkillRow /\ t.latest = r.latest /\ t.default = v.number /\ t.name = v.name
  BY <1>0, <1>2 DEF SkillRow
<1> HIDE DEF t
<1>5. version' = [version EXCEPT ![s] = version[s]]
  BY <1>0 DEF update, LibraryTypeOK
<1>6. t.latest = newest(version[s])
  BY <1>1, <1>4 DEF Numbers, newest
<1>7. RowHolds(version[s], {t})
  BY <1>4, <1>6 DEF RowHolds
<1>8. UNCHANGED <<counter, operation, bundle, file, upload, issued, made>>
  BY DEF update
<1>9. {t} \in SUBSET SkillRow /\ version[s] \in SUBSET version[s]
  BY <1>4
<1> QED BY <1>3, <1>5, <1>7, <1>8, <1>9, RowStep

LEMMA DeleteVersionStep ==
  ASSUME LibraryInv, NEW s \in Skill, NEW v \in version[s], deleteVersion(s, v)
  PROVE  LibraryInv'
<1> DEFINE r == Row(s)
           V == version[s] \ {v}
           t == [r EXCEPT !.latest = newest(V)]
<1>0. LibraryTypeOK /\ r \in skill[s] /\ r \in SkillRow
  BY DEF LibraryInv, LibraryTypeOK, deleteVersion, Row
<1>1. PICK w \in version[s] : w.number = r.default /\ w.name = r.name
  BY <1>0 DEF LibraryInv, VersionsResolve
<1>2. w \in V
  BY <1>1 DEF deleteVersion
<1>3. skill' = [skill EXCEPT ![s] = {t}] /\ version' = [version EXCEPT ![s] = V]
  BY DEF deleteVersion
<1>4. newest(V) \in Nat
  <2> DEFINE S == {x.number : x \in V}
  <2>1. \A x \in V : x \in VersionRow /\ x.number <= counter[s]
    BY <1>0 DEF LibraryInv, NumbersHandedOut, LibraryTypeOK
  <2>2. counter[s] \in Nat
    BY <1>0 DEF LibraryTypeOK
  <2>3. S \in SUBSET Nat /\ w.number \in S /\ \A n \in S : n <= counter[s]
    BY <1>2, <2>1, LibraryRows
  <2> HIDE DEF V
  <2>4. newest(V) = Max(S)
    BY DEF newest
  <2> HIDE DEF S
  <2> QED BY <2>2, <2>3, <2>4, NewestExists
<1> HIDE DEF r
<1>5. t \in SkillRow /\ t.latest = newest(V) /\ t.default = r.default /\ t.name = r.name
  BY <1>0, <1>4 DEF SkillRow
<1> HIDE DEF t
<1>6. RowHolds(V, {t})
  BY <1>1, <1>2, <1>5 DEF RowHolds
<1>7. V \in SUBSET version[s] /\ {t} \in SUBSET SkillRow
  BY <1>5
<1> HIDE DEF V
<1>8. UNCHANGED <<counter, operation, bundle, file, upload, issued, made>>
  BY DEF deleteVersion
<1> QED BY ONLY LibraryInv, s \in Skill, <1>3, <1>6, <1>7, <1>8, RowStep

LEMMA DeleteSkillStep ==
  ASSUME LibraryInv, NEW s \in Skill, deleteSkill(s)
  PROVE  LibraryInv'
<1>1. /\ version' = [version EXCEPT ![s] = {}] /\ skill' = [skill EXCEPT ![s] = {}]
      /\ UNCHANGED <<counter, operation, bundle, file, upload, issued, made>>
  BY DEF deleteSkill
<1>2. RowHolds({}, {})
  BY DEF RowHolds
<1> QED BY <1>1, <1>2, RowStep

-----------------------------------------------------------------------------
(* Input files.                                                             *)

LEMMA FileFields ==
  \A f \in FileRow : f.listed \in BOOLEAN /\ f.stored \in BOOLEAN /\ f.deleting \in BOOLEAN
BY DEF FileRow

\* A step of a file and of its request leaves the skills alone.
LEMMA FileStep ==
  ASSUME LibraryInv, NEW u \in Upload, upload' \in [Upload -> UploadRow],
         \A w \in Upload : w # u => upload'[w] = upload[w], upload'[u].pc \notin {"put", "add"},
         file' \in [1..MaxFile -> FileRow], FilesStored',
         issued' \in [skills : 0..MaxSkill, keys : 0..MaxKey, files : 0..MaxFile],
         issued'.keys = issued.keys,
         UNCHANGED <<skill, version, counter, operation, bundle, made>>
  PROVE  LibraryInv'
<1>1. RowsStay /\ BucketStays /\ Attempts(u)'
  BY DEF RowsStay, BucketStays, Attempts
<1>2. AttemptsHold'
  BY <1>1, AttemptsStay
<1>3. LibraryTypeOK'
  BY DEF LibraryInv, LibraryTypeOK
<1> QED BY <1>2, <1>3, SkillsStay DEF LibraryInv

\* What one file may become: stored or on its way out stays so.
LEMMA OneFile ==
  ASSUME LibraryInv, NEW u \in Upload, NEW f \in 1..MaxFile, file' \in [1..MaxFile -> FileRow],
         \A g \in 1..MaxFile : g # f => file'[g] = file[g],
         file'[f].listed \/ file[f].stored \/ file[f].deleting
           => file'[f].stored \/ file'[f].deleting,
         \A w \in Upload : w # u => upload'[w] = upload[w],
         upload'[u].pc \in {"save", "forget"} => upload'[u].file \in 1..MaxFile,
         upload'[u].pc = "save"
           => upload'[u].file = f /\ (file'[f].stored \/ file'[f].deleting)
  PROVE  FilesStored'
<1>0. FilesStored
  BY DEF LibraryInv
<1>1. \A g \in 1..MaxFile : file'[g].listed => file'[g].stored \/ file'[g].deleting
  BY <1>0 DEF FilesStored
<1>2. \A w \in Upload : upload'[w].pc \in {"save", "forget"} => upload'[w].file \in 1..MaxFile
  BY <1>0 DEF FilesStored
<1>3. ASSUME NEW w \in Upload, upload'[w].pc = "save"
      PROVE  file'[upload'[w].file].stored \/ file'[upload'[w].file].deleting
  <2>1. CASE w = u
    BY <1>3, <2>1
  <2>2. CASE w # u
    <3>1. upload'[w] = upload[w] /\ upload[w].file \in 1..MaxFile
          /\ (file[upload[w].file].stored \/ file[upload[w].file].deleting)
      BY <1>0, <1>3, <2>2 DEF FilesStored
    <3> QED BY <3>1
  <2> QED BY <2>1, <2>2
<1> QED BY <1>1, <1>2, <1>3 DEF FilesStored

LEMMA UploadFileStep ==
  ASSUME LibraryInv, NEW u \in Upload, uploadInputFile(u)
  PROVE  LibraryInv'
<1> DEFINE f == issued.files + 1
<1>0. LibraryTypeOK
  BY DEF LibraryInv
<1>1. issued.files \in 0..MaxFile /\ MaxFile \in Nat /\ issued.files < MaxFile
  BY <1>0, LibraryAssumption DEF LibraryTypeOK, uploadInputFile
<1>2. f \in 1..MaxFile /\ f \in 0..MaxFile /\ f \in Nat
  BY <1>1
<1>3. /\ issued' = [issued EXCEPT !.files = f] /\ file' = [file EXCEPT ![f].stored = TRUE]
      /\ upload' = [upload EXCEPT ![u] = [NoUpload EXCEPT !.pc = "save", !.file = f]]
      /\ UNCHANGED <<skill, version, counter, operation, bundle, made>>
  BY DEF uploadInputFile
<1> HIDE DEF f
<1>4. /\ issued' \in [skills : 0..MaxSkill, keys : 0..MaxKey, files : 0..MaxFile]
      /\ issued'.keys = issued.keys
  BY <1>0, <1>2, <1>3 DEF LibraryTypeOK
<1>5. upload \in [Upload -> UploadRow]
  BY <1>0 DEF LibraryTypeOK
<1>6. /\ upload' \in [Upload -> UploadRow] /\ upload'[u].pc = "save" /\ upload'[u].file = f
      /\ \A w \in Upload : w # u => upload'[w] = upload[w]
  BY ONLY <1>2, <1>3, <1>5, u \in Upload DEF NoUpload, UploadRow
<1>7. file \in [1..MaxFile -> FileRow]
  BY <1>0 DEF LibraryTypeOK
<1>8. /\ file' \in [1..MaxFile -> FileRow] /\ file'[f].stored
      /\ \A g \in 1..MaxFile : g # f => file'[g] = file[g]
  BY <1>2, <1>3, <1>7 DEF FileRow
<1>9. FilesStored'
  BY <1>2, <1>6, <1>8, OneFile
<1> QED BY <1>3, <1>4, <1>6, <1>8, <1>9, FileStep

LEMMA SaveFileStep ==
  ASSUME LibraryInv, NEW u \in Upload, saveFile(u)
  PROVE  LibraryInv'
<1> DEFINE f == upload[u].file
<1>0. LibraryTypeOK /\ FilesStored
  BY DEF LibraryInv
<1>1. f \in 1..MaxFile /\ (file[f].stored \/ file[f].deleting)
  BY <1>0 DEF saveFile, UploadAt, FilesStored
<1>2. /\ file' = [file EXCEPT ![f].listed = TRUE] /\ UploadEnds(u)
      /\ UNCHANGED <<skill, version, counter, operation, bundle, issued, made>>
  BY DEF saveFile
<1> HIDE DEF f
<1>3. /\ upload' \in [Upload -> UploadRow] /\ upload'[u].pc = "free"
      /\ \A w \in Upload : w # u => upload'[w] = upload[w]
  BY <1>0, <1>2, UploadStops DEF LibraryTypeOK
<1>4. file \in [1..MaxFile -> FileRow]
  BY <1>0 DEF LibraryTypeOK
<1>5. /\ file' \in [1..MaxFile -> FileRow]
      /\ file'[f].stored = file[f].stored /\ file'[f].deleting = file[f].deleting
      /\ \A g \in 1..MaxFile : g # f => file'[g] = file[g]
  BY <1>1, <1>2, <1>4 DEF FileRow
<1>6. FilesStored'
  BY <1>1, <1>3, <1>5, OneFile
<1>7. /\ issued' \in [skills : 0..MaxSkill, keys : 0..MaxKey, files : 0..MaxFile]
      /\ issued'.keys = issued.keys
  BY <1>0, <1>2 DEF LibraryTypeOK
<1> QED BY <1>2, <1>3, <1>5, <1>6, <1>7, FileStep

LEMMA DeleteObjectStep ==
  ASSUME LibraryInv, NEW u \in Upload, NEW f \in 1..MaxFile, deleteObject(u, f)
  PROVE  LibraryInv'
<1>0. LibraryTypeOK /\ FilesStored
  BY DEF LibraryInv
<1>1. /\ file' = [file EXCEPT ![f].stored = FALSE, ![f].deleting = TRUE]
      /\ upload' = [upload EXCEPT ![u] = [NoUpload EXCEPT !.pc = "forget", !.file = f]]
      /\ UNCHANGED <<skill, version, counter, operation, bundle, issued, made>>
  BY DEF deleteObject
<1>2. upload \in [Upload -> UploadRow] /\ file \in [1..MaxFile -> FileRow] /\ f \in Nat
  BY <1>0 DEF LibraryTypeOK
<1>3. /\ upload' \in [Upload -> UploadRow] /\ upload'[u].pc = "forget" /\ upload'[u].file = f
      /\ \A w \in Upload : w # u => upload'[w] = upload[w]
  BY ONLY <1>1, <1>2, u \in Upload DEF NoUpload, UploadRow
<1>4. /\ file' \in [1..MaxFile -> FileRow] /\ file'[f].deleting
      /\ \A g \in 1..MaxFile : g # f => file'[g] = file[g]
  BY <1>1, <1>2 DEF FileRow
<1>5. FilesStored'
  BY <1>3, <1>4, OneFile
<1>6. /\ issued' \in [skills : 0..MaxSkill, keys : 0..MaxKey, files : 0..MaxFile]
      /\ issued'.keys = issued.keys
  BY <1>0, <1>1 DEF LibraryTypeOK
<1> QED BY <1>1, <1>3, <1>4, <1>5, <1>6, FileStep

LEMMA DeleteFileStep ==
  ASSUME LibraryInv, NEW u \in Upload, deleteFile(u)
  PROVE  LibraryInv'
<1> DEFINE f == upload[u].file
<1>0. LibraryTypeOK /\ FilesStored
  BY DEF LibraryInv
<1>1. f \in 1..MaxFile
  BY <1>0 DEF deleteFile, UploadAt, FilesStored
<1>2. /\ file' = [file EXCEPT ![f].listed = FALSE] /\ UploadEnds(u)
      /\ UNCHANGED <<skill, version, counter, operation, bundle, issued, made>>
  BY DEF deleteFile
<1> HIDE DEF f
<1>3. /\ upload' \in [Upload -> UploadRow] /\ upload'[u].pc = "free"
      /\ \A w \in Upload : w # u => upload'[w] = upload[w]
  BY <1>0, <1>2, UploadStops DEF LibraryTypeOK
<1>4. file \in [1..MaxFile -> FileRow]
  BY <1>0 DEF LibraryTypeOK
<1>5. /\ file' \in [1..MaxFile -> FileRow] /\ ~file'[f].listed
      /\ file'[f].stored = file[f].stored /\ file'[f].deleting = file[f].deleting
      /\ \A g \in 1..MaxFile : g # f => file'[g] = file[g]
  BY <1>1, <1>2, <1>4 DEF FileRow
<1>6. FilesStored'
  BY <1>1, <1>3, <1>5, OneFile
<1>7. /\ issued' \in [skills : 0..MaxSkill, keys : 0..MaxKey, files : 0..MaxFile]
      /\ issued'.keys = issued.keys
  BY <1>0, <1>2 DEF LibraryTypeOK
<1> QED BY <1>2, <1>3, <1>5, <1>6, <1>7, FileStep

-----------------------------------------------------------------------------
LEMMA LibraryInitInv == LibraryInit => LibraryInv
<1> SUFFICES ASSUME LibraryInit PROVE LibraryInv
  OBVIOUS
<1>1. MaxSkill \in Nat /\ MaxKey \in Nat /\ MaxFile \in Nat
  BY LibraryAssumption
<1>2. NoUpload \in UploadRow /\ NoUpload.pc = "free"
  BY DEF NoUpload, UploadRow
<1>3. NoFile \in FileRow /\ ~NoFile.listed
  BY DEF NoFile, FileRow
<1>4. LibraryTypeOK
  BY <1>1, <1>2, <1>3 DEF LibraryInit, LibraryTypeOK
<1>5. KeysApart /\ AttemptsHold /\ VersionsStored /\ FilesStored
  BY <1>2, <1>3 DEF LibraryInit, KeysApart, AttemptsHold, VersionsStored, FilesStored
<1>6. NumbersHandedOut /\ VersionsResolve /\ MadeOnce
  BY DEF LibraryInit, NumbersHandedOut, VersionsResolve, MadeOnce, UploadedOnce
<1> QED BY <1>4, <1>5, <1>6 DEF LibraryInv

LEMMA LibraryInvStep == LibraryInv /\ [SkillNext \/ FileNext]_libraryVars => LibraryInv'
<1> SUFFICES ASSUME LibraryInv, [SkillNext \/ FileNext]_libraryVars PROVE LibraryInv'
  OBVIOUS
<1>1. ASSUME NEW u \in Upload, NEW o \in Operation, NEW target \in 0..issued.skills,
             NEW b \in Bundle, NEW d \in BOOLEAN,
             prepare(u, o, [target |-> target, bundle |-> b, makeDefault |-> d])
      PROVE  LibraryInv'
  <2>1. issued.skills \in 0..MaxSkill /\ MaxSkill \in Nat
    BY LibraryAssumption DEF LibraryInv, LibraryTypeOK
  <2>2. [target |-> target, bundle |-> b, makeDefault |-> d] \in Asked
    BY <2>1 DEF Asked
  <2> QED BY <1>1, <2>2, PrepareStep
<1>2. ASSUME NEW u \in Upload, UploadDies(u) PROVE LibraryInv'
  BY <1>2, LeavesStep DEF UploadDies
<1>3. CASE SkillNext
  BY <1>1, <1>2, <1>3, PutStep, AddStep, UpdateStep, DeleteVersionStep, DeleteSkillStep
     DEF SkillNext
<1>4. CASE FileNext
  BY <1>2, <1>4, UploadFileStep, SaveFileStep, DeleteFileStep, DeleteObjectStep DEF FileNext
<1>5. CASE UNCHANGED libraryVars
  <2>1. UNCHANGED <<skill, version, counter, operation, bundle, file, upload, issued, made>>
    BY <1>5 DEF libraryVars
  <2>2. LibraryTypeOK'
    BY <2>1 DEF LibraryInv, LibraryTypeOK
  <2>3. AttemptsHold' /\ FilesStored'
    BY <2>1 DEF LibraryInv, AttemptsHold, Holds, UploadBody, FilesStored
  <2> QED BY <2>1, <2>2, <2>3, SkillsStay DEF LibraryInv
<1> QED BY <1>3, <1>4, <1>5

LEMMA InvIsWhole == LibraryInv => LibraryWhole
BY DEF LibraryInv, LibraryWhole, VersionsStored, FilesStored, MadeOnce, ContentStored

\* However uploads of skills and files interleave, die and are repeated, with updates and
\* deletions between them: what a skill names resolves to stored content it was made from,
\* an upload adds one version, and a file that is listed is stored or on its way out.
THEOREM LibraryIsWhole == LibrarySpec => []LibraryWhole
<1>1. LibraryInit => LibraryInv
  BY LibraryInitInv
<1>2. LibraryInv /\ [SkillNext \/ FileNext]_libraryVars => LibraryInv'
  BY LibraryInvStep
<1>3. LibraryInv => LibraryWhole
  BY InvIsWhole
<1> QED BY <1>1, <1>2, <1>3, PTL DEF LibrarySpec
=============================================================================
