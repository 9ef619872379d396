---------------------------- MODULE HarnessProofs ----------------------------
(***************************************************************************)
(* Proofs about Harness, for any number of turns, uploads and failures.    *)
(*                                                                         *)
(* HarnessInv is inductive.  Typed, Named and Coupled say what the rows,   *)
(* the call that has the permit and its caller are; Dispatched that a turn *)
(* is posted at most once and that a call knows whether it was.  On them   *)
(* rest two bounds on what the sandbox holds.  From above (Untouched): as  *)
(* long as every stop was confirmed, a sandbox no job of the session's     *)
(* turn has reached holds nothing but what the last checkpoint committed,  *)
(* uploads and the hook's result.  From below (Kept): a container that was *)
(* set up on purpose holds all of the last checkpoint, and what the turn   *)
(* put there since; one that replaced it by itself was noticed (torn).     *)
(***************************************************************************)
EXTENDS Harness, SequenceTheorems, TLAPS

RowType == [workspace : Nat, provisioned : BOOLEAN]
CheckpointType == [turn : Turn, workspace : Nat, version : 0..MaxUpload, artifacts : SUBSET Mark]
Op == {"none", "start", "checkpoint", "stop", "release", "prepare", "upload", "files"}
Pc == {"none", "holds", "stopbox", "restore", "mark", "row", "provision", "apply", "dispatch",
       "post", "backup", "publish", "upload", "lease", "forget", "retire", "retirebox", "adopt",
       "setup", "connect", "tail"}
\* The calls of the reconciler, which it waits for, and the phase that sends each.
Awaited == {"start", "checkpoint", "stop", "release"}
PhaseOf(op) == CASE op = "start" -> "starting" [] op = "checkpoint" -> "checkpointing"
                 [] op = "stop" -> "stopping" [] OTHER -> "deleting"
\* Where a call may be.
Placed ==
  \/ call.op = "none" /\ call.pc = "none"
  \/ call.op = "start" /\ call.pc \in {"holds", "stopbox", "restore", "mark", "row", "provision",
                                      "apply", "dispatch", "post"}
  \/ call.op = "checkpoint" /\ call.pc \in {"backup", "mark", "row", "publish", "upload"}
  \/ call.op = "stop" /\ call.pc \in {"lease", "forget", "stopbox"}
  \/ call.op = "release" /\ call.pc \in {"retire", "retirebox"}
  \/ call.op = "prepare" /\ call.pc \in {"adopt", "setup", "backup", "connect", "tail", "mark",
                                        "row"}
  \/ call.op \in {"upload", "files"} /\ call.pc = "apply"

StoreType ==
  [assignment : [turn : 0..MaxTurn, dispatched : BOOLEAN, revoked : BOOLEAN],
   sandbox : SUBSET RowType, checkpoint : [Turn -> SUBSET CheckpointType],
   manifest : [Turn -> SUBSET Mark],
   environment : {"none", "pending", "connected", "failed"}, base : Nat,
   inherited : BOOLEAN, fileVersion : 0..MaxUpload, applied : 0..MaxUpload]
BoxType ==
  [state : {"off", "running", "ending", "retired"}, files : SUBSET Mark,
   marker : SUBSET Nat, socket : 0..MaxTurn, good : BOOLEAN]
JobType ==
  [turn : 0..MaxTurn, state : {"none", "running", "completed", "failed", "cancelled"},
   ending : BOOLEAN]
CallType ==
  [op : Op, pc : Pc, turn : 0..MaxTurn,
   ck : SUBSET CheckpointType, orphan : BOOLEAN, row : SUBSET RowType,
   next : {"none", "provision", "apply", "publish", "return"}, workspace : Nat,
   after : 0..MaxUpload, artifacts : SUBSET Mark]
SessionType ==
  [phase : {"creating", "ended", "starting", "running", "checkpointing", "stopping",
            "failed", "deleting", "released"},
   turn : 0..MaxTurn, ck : SUBSET CheckpointType, fork : BOOLEAN, waiting : BOOLEAN,
   reported : BOOLEAN, stopFailed : BOOLEAN]
SeenType ==
  [posts : [Turn -> Nat], torn : BOOLEAN, unconfirmed : BOOLEAN, acked : SUBSET (0..MaxUpload),
   wrote : SUBSET Turn, setups : Nat]

Typed ==
  /\ store \in StoreType /\ box \in BoxType /\ job \in JobType /\ call \in CallType
  /\ buckets \in [backups : Seq(SUBSET Mark), artifacts : SUBSET (Turn \X Mark)]
  /\ tool \in SUBSET [turn : 0..MaxTurn, by : 0..MaxTurn]
  /\ session \in SessionType /\ seen \in SeenType /\ faults \in 0..MaxFault

\* Every workspace named is in the bucket, and every optional value is one at most.
One(value) == \A x, y \in value : x = y
Known(records) == \A r \in records : r.workspace \in Workspace
Named ==
  /\ One(store.sandbox) /\ Known(store.sandbox)
  /\ \A t \in Turn : One(store.checkpoint[t]) /\ Known(store.checkpoint[t])
  /\ store.base \in Workspace /\ call.workspace \in Workspace
  /\ One(box.marker) /\ box.marker \subseteq Workspace
  /\ One(call.row) /\ Known(call.row) /\ One(call.ck) /\ Known(call.ck)
  /\ One(session.ck) /\ Known(session.ck)

\* The call that has the permit, and the caller that waits for it.
Coupled ==
  /\ Placed
  /\ session.waiting => /\ call.op \in Awaited /\ ~call.orphan
                        /\ call.turn = session.turn /\ session.phase = PhaseOf(call.op)
  /\ call.op \in Awaited /\ ~call.orphan => session.waiting
  /\ call.orphan => call.op \in Awaited
  /\ call.op \in {"start", "checkpoint"} => call.ck = session.ck /\ call.turn \in Turn
  /\ call.op \in {"start", "checkpoint", "stop"} => call.turn = store.assignment.turn
  /\ call.pc \in {"mark", "row"} =>
       /\ call.row # {}
       /\ \/ call.op = "start" /\ call.next \in {"provision", "apply"}
          \/ call.op = "checkpoint" /\ call.next = "publish"
          \/ call.op = "prepare" /\ call.next = "return"
  /\ session.phase \in {"starting", "running", "checkpointing"} => ~session.stopFailed
  /\ session.phase = "stopping" /\ session.stopFailed => call.op # "start"
  /\ store.assignment.turn <= session.turn
  /\ session.phase \in {"running", "checkpointing"} => store.assignment.turn = session.turn
  /\ session.phase \in {"starting", "running", "checkpointing", "stopping"} => session.turn \in Turn

\* A turn is posted once: after its tombstone, and never by a call that was not
\* the first to write it.
Dispatched ==
  /\ \A t \in Turn : seen.posts[t] <= 1
  /\ \A t \in Turn : seen.posts[t] = 1 =>
       \/ t < store.assignment.turn
       \/ t = store.assignment.turn /\ store.assignment.dispatched
  /\ call.op = "start" => seen.posts[call.turn] = 0
  /\ call.op = "start" => (store.assignment.dispatched <=> call.pc = "post")
  /\ job.turn # 0 => seen.posts[job.turn] = 1 /\ \A t \in Turn : seen.posts[t] = 1 => t <= job.turn
  /\ job.turn = 0 => job.state = "none"
  /\ \A x \in tool : x.by # 0 /\ seen.posts[x.by] = 1
  /\ job.state = "completed" => \A x \in tool : x.by # job.turn
  /\ \A t \in seen.wrote : seen.posts[t] = 1

\* The environment is set up at most once, before the first turn.
Created ==
  /\ seen.setups <= 1
  /\ store.environment = "none" => seen.setups = 0 /\ call.op # "prepare"
  /\ At("prepare", "setup") => seen.setups = 0
  /\ session.phase = "creating" => session.turn = 0
  /\ store.environment # "connected" =>
       /\ store.base = 0 /\ ~store.inherited /\ store.sandbox = {} /\ session.ck = {}
       /\ session.turn = 0 /\ store.fileVersion = 0 /\ seen.acked = {}
       /\ session.phase \in {"creating", "failed", "deleting", "released"}
       /\ call.op \notin {"start", "checkpoint", "upload", "files"}
  /\ call.op = "prepare" =>
       IF call.pc \in {"adopt", "setup", "backup", "connect"}
       THEN store.environment = "pending" /\ session.phase = "creating"
       ELSE store.environment = "connected"
  /\ At("prepare", "adopt") => session.fork
  /\ At("prepare", "setup") \/ At("prepare", "backup") => ~session.fork
  /\ session.fork => Len(buckets.backups) >= 1 /\ Hook \in buckets.backups[1]
  /\ store.inherited => Hook \in Content(store.base)
  /\ At("prepare", "connect") =>
       /\ session.fork => call.workspace = 1
       /\ box.state = "running" => box.files \subseteq Content(call.workspace)
       /\ box.good => Content(call.workspace) \subseteq box.files

\* Nothing of the turn's job can reach the sandbox any more.
Quiet(t) ==
  /\ seen.posts[t] = 1
  /\ job.turn = t => job.state # "running"
  /\ \A x \in tool : x.by # t
Works == {Work(t) : t \in Turn}
\* What the session's turn starts from, or the next one.
Began == Content(previousWorkspace(session.ck))
\* What a turn that did nothing finds: the workspace, the hook's result and uploads.
Extras == {Hook} \cup {Upload(v) : v \in 1..store.fileVersion}
\* The files have what the session's turn started from and what it wrote.
Continues(files) ==
  Began \subseteq files /\ (session.turn \in seen.wrote => Work(session.turn) \in files)
\* They have the hook's result and the acknowledged uploads up to a version.
Provisioned(files, version) ==
  Hook \in files /\ \A v \in seen.acked : v <= version => Upload(v) \in files
Confirmed == ~seen.torn /\ ~seen.unconfirmed

\* What is recorded for a turn, and what the session has of it.
Recorded ==
  \A t \in Turn : \A c \in store.checkpoint[t] :
    /\ c.turn = t /\ c.version <= store.fileVersion /\ Uploaded(t, c.artifacts)
    /\ t <= store.assignment.turn /\ Quiet(t)
    /\ call.op = "upload" => c.version < store.fileVersion
Listed == \A t \in Turn : store.manifest[t] # {} => t <= store.assignment.turn /\ Quiet(t)
Continued == \A c \in session.ck : c.turn <= session.turn /\ c \in store.checkpoint[c.turn]
Ended == call.op = "checkpoint" => Quiet(call.turn) /\ store.checkpoint[call.turn] = {}
Committed == Recorded /\ Listed /\ Continued /\ Ended

\* From below: a container that was set up on purpose has all the session has.
Purposed ==
  /\ box.good => box.state \in {"running", "ending"}
  /\ ~seen.torn /\ box.marker # {} => box.good
Whole == box.good => Continues(box.files)
Hooked ==
  ~seen.torn /\ box.good =>
    /\ (\E r \in store.sandbox : r.provisioned) => Hook \in box.files
    /\ call.pc \in {"mark", "row"} /\ (\E r \in call.row : r.provisioned) => Hook \in box.files
    /\ store.assignment.turn \in Turn /\ seen.posts[store.assignment.turn] = 1 =>
         Provisioned(box.files, MaxUpload)
Prepared == call.pc \in {"mark", "row"} /\ call.next = "apply"
Started ==
  call.op = "start" =>
    /\ call.pc \in {"stopbox", "restore"} => store.sandbox = {}
    /\ call.pc \notin {"holds", "stopbox", "restore"} =>
         (~seen.torn /\ box.state = "running" => box.good)
    /\ Prepared => \E r \in call.row : r.provisioned
    /\ call.pc \in {"apply", "dispatch", "post"} \/ Prepared =>
         (~seen.torn /\ box.good => Provisioned(box.files, call.after))
    /\ call.pc \in {"dispatch", "post"} => call.after >= store.fileVersion
Journal ==
  /\ call.op \in {"upload", "files"} => call.after <= store.fileVersion
  /\ call.op = "upload" /\ call.after = store.fileVersion /\ box.good =>
       Upload(store.fileVersion) \in box.files
  /\ call.op = "upload" => store.fileVersion >= 1
  /\ \A v \in seen.acked : v >= 1 /\ v <= store.fileVersion
  /\ store.applied <= store.fileVersion
Kept == Purposed /\ Whole /\ Hooked /\ Started /\ Journal

\* The checkpoint of the session's turn, while it is made and when it is recorded.
Provided == ~seen.torn => \A c \in session.ck : Provisioned(Content(c.workspace), c.version)
Made(workspace) ==
  /\ box.good => Content(workspace) \subseteq box.files
  /\ ~seen.torn => Continues(Content(workspace))
Snapped ==
  session.turn \in Turn => \A c \in store.checkpoint[session.turn] :
    /\ Made(c.workspace)
    /\ ~seen.torn => Provisioned(Content(c.workspace), c.version)
    /\ ~seen.unconfirmed /\ box.state = "running" =>
         box.files \subseteq Content(c.workspace) \cup Extras
    /\ Confirmed => c.artifacts = Content(c.workspace) \cap Works
Snapping ==
  call.op = "checkpoint" /\ call.turn = session.turn /\ call.pc # "backup" =>
    /\ Made(call.workspace)
    /\ box.state = "running" => box.files \subseteq Content(call.workspace)
    /\ ~seen.torn => Provisioned(Content(call.workspace), MaxUpload)
    /\ Confirmed /\ call.pc = "upload" => call.artifacts = Content(call.workspace) \cap Works
Manifested ==
  Confirmed /\ box.good /\ session.turn \in Turn =>
    store.manifest[session.turn] = {} \/ store.manifest[session.turn] = box.files \cap Works
Snapshotted == Provided /\ Snapped /\ Snapping /\ Manifested

\* From above: nothing reached the sandbox since the last checkpoint.
NotReached ==
  \/ session.phase = "creating" /\ store.environment = "connected"
  \/ session.phase = "ended"
  \/ call.op = "start"
  \/ session.phase \in {"starting", "stopping"} /\ store.assignment.turn # session.turn
  \/ session.phase = "starting" /\ ~store.assignment.dispatched
Followed ==
  ~seen.unconfirmed =>
    /\ job.state = "running" => job.turn = store.assignment.turn /\ job.turn = session.turn
    /\ \A x \in tool : x.by = x.turn
    /\ call.op = "start" => session.turn = call.turn /\ session.phase \in {"starting", "stopping"}
    /\ call.op = "stop" => /\ store.assignment.revoked
                           /\ call.pc \in {"forget", "stopbox"} => job.state # "running"
Unreached ==
  ~seen.unconfirmed /\ NotReached =>
    /\ job.state # "running"
    /\ \A x \in tool : ~stillAssigned(x.turn)
Clean ==
  ~seen.unconfirmed /\ NotReached /\ box.state = "running" =>
    box.files \subseteq Began \cup Extras
\* A sandbox that is off holds nothing, and none is destroyed while a turn is put in it.
Housed ==
  /\ box.state \in {"off", "retired"} => box.files = {}
  /\ call.op = "start" /\ call.pc \notin {"holds", "stopbox", "restore"} => box.state # "ending"
Untouched == Followed /\ Unreached /\ Clean /\ Housed

HarnessInv ==
  /\ Typed /\ Named /\ Coupled /\ Dispatched /\ Created
  /\ Committed /\ Snapshotted /\ Kept /\ Untouched

-----------------------------------------------------------------------------
(***************************************************************************)
(* What the types say of each record, and what the parts of the steps      *)
(* change: an answer, an error, a container that is reached, a backup.     *)
(***************************************************************************)

\* The fields of the records, for the updates of one of them.
LEMMA Domains ==
  ASSUME Typed
  PROVE  /\ DOMAIN store = {"assignment", "sandbox", "checkpoint", "manifest", "environment",
                "base", "inherited", "fileVersion", "applied"}
         /\ DOMAIN store.assignment = {"turn", "dispatched", "revoked"}
         /\ DOMAIN box = {"state", "files", "marker", "socket", "good"}
         /\ DOMAIN job = {"turn", "state", "ending"}
         /\ DOMAIN call = {"op", "pc", "turn", "ck", "orphan", "row", "next", "workspace",
                "after", "artifacts"}
         /\ DOMAIN session = {"phase", "turn", "ck", "fork", "waiting", "reported", "stopFailed"}
         /\ DOMAIN seen = {"posts", "torn", "unconfirmed", "acked", "wrote", "setups"}
         /\ DOMAIN buckets = {"backups", "artifacts"}
<1>1. DOMAIN store = {"assignment", "sandbox", "checkpoint", "manifest", "environment", "base",
          "inherited", "fileVersion", "applied"}
  BY DEF Typed, StoreType
<1>2. DOMAIN store.assignment = {"turn", "dispatched", "revoked"}
  <2>1. store.assignment \in [turn : 0..MaxTurn, dispatched : BOOLEAN, revoked : BOOLEAN]
    BY DEF Typed, StoreType
  <2> QED BY <2>1
<1>3. DOMAIN box = {"state", "files", "marker", "socket", "good"}
  BY DEF Typed, BoxType
<1>4. DOMAIN job = {"turn", "state", "ending"}
  BY DEF Typed, JobType
<1>5. DOMAIN call = {"op", "pc", "turn", "ck", "orphan", "row", "next", "workspace", "after",
          "artifacts"}
  BY DEF Typed, CallType
<1>6. DOMAIN session = {"phase", "turn", "ck", "fork", "waiting", "reported", "stopFailed"}
  BY DEF Typed, SessionType
<1>7. DOMAIN seen = {"posts", "torn", "unconfirmed", "acked", "wrote", "setups"}
  BY DEF Typed, SeenType
<1>8. DOMAIN buckets = {"backups", "artifacts"}
  BY DEF Typed
<1> QED BY <1>1, <1>2, <1>3, <1>4, <1>5, <1>6, <1>7, <1>8

\* The turns and the bounds are numbers.
LEMMA Numbers ==
  ASSUME Typed
  PROVE  /\ MaxTurn \in Nat /\ MaxUpload \in Nat
         /\ store.assignment.turn \in 0..MaxTurn /\ session.turn \in 0..MaxTurn
<1>1. store.assignment \in [turn : 0..MaxTurn, dispatched : BOOLEAN, revoked : BOOLEAN]
  BY DEF Typed, StoreType
<1>2. session.turn \in 0..MaxTurn
  BY DEF Typed, SessionType
<1> QED BY <1>1, <1>2, HarnessAssumption

\* What each field of the object's rows may be.
LEMMA StoreFields ==
  ASSUME Typed
  PROVE  /\ store.assignment.turn \in 0..MaxTurn /\ store.assignment.dispatched \in BOOLEAN
         /\ store.assignment.revoked \in BOOLEAN
         /\ store.sandbox \in SUBSET RowType
         /\ DOMAIN store.checkpoint = Turn /\ DOMAIN store.manifest = Turn
         /\ \A t \in Turn : /\ store.checkpoint[t] \in SUBSET CheckpointType
                           /\ store.manifest[t] \in SUBSET Mark
         /\ store.base \in Nat /\ store.fileVersion \in 0..MaxUpload
                /\ store.applied \in 0..MaxUpload
  BY DEF Typed, StoreType

\* What each field of the sandbox may be.
LEMMA BoxFields ==
  ASSUME Typed
  PROVE  box.files \in SUBSET Mark /\ box.marker \in SUBSET Nat /\ box.socket \in 0..MaxTurn
         /\ box.state \in {"off", "running", "ending", "retired"}
  BY DEF Typed, BoxType

\* The turn of the job in the harness container.
LEMMA JobFields ==
  ASSUME Typed
  PROVE  job.turn \in 0..MaxTurn
  BY DEF Typed, JobType

\* What each field of the call that has the permit may be.
LEMMA CallFields ==
  ASSUME Typed
  PROVE  /\ call.turn \in 0..MaxTurn /\ call.ck \in SUBSET CheckpointType
         /\ call.row \in SUBSET RowType /\ call.workspace \in Nat
         /\ call.after \in 0..MaxUpload /\ call.artifacts \in SUBSET Mark
  BY DEF Typed, CallType

\* The session's turn and the checkpoint it continues from.
LEMMA SessionFields ==
  ASSUME Typed
  PROVE  session.turn \in 0..MaxTurn /\ session.ck \in SUBSET CheckpointType
  BY DEF Typed, SessionType

\* What the history of posts, uploads, work and setups may be.
LEMMA SeenFields ==
  ASSUME Typed
  PROVE  /\ DOMAIN seen.posts = Turn /\ \A t \in Turn : seen.posts[t] \in Nat
         /\ seen.acked \in SUBSET (0..MaxUpload) /\ seen.wrote \in SUBSET Turn
         /\ seen.setups \in Nat
  BY DEF Typed, SeenType

\* The backups are a sequence of sets of files.
LEMMA BucketFields ==
  ASSUME Typed
  PROVE  buckets.backups \in Seq(SUBSET Mark) /\ Len(buckets.backups) \in Nat
  BY DEF Typed

\* The turns a tool call is of.
LEMMA ToolFields ==
  ASSUME Typed, NEW x \in tool
  PROVE  x.turn \in 0..MaxTurn /\ x.by \in 0..MaxTurn
  BY DEF Typed

\* What the fields of a checkpoint may be.
LEMMA Checkpoints ==
  ASSUME NEW c \in CheckpointType
  PROVE  c.turn \in Turn /\ c.workspace \in Nat /\ c.version \in 0..MaxUpload
             /\ c.artifacts \in SUBSET Mark
  BY DEF CheckpointType

\* What the fields of a row of the sandbox may be.
LEMMA Rows ==
  ASSUME NEW r \in RowType
  PROVE  r.workspace \in Nat /\ r.provisioned \in BOOLEAN
  BY DEF RowType

\* previousWorkspace and previousVersion, with a checkpoint and without one.
LEMMA Previous ==
  ASSUME NEW ck
  PROVE  /\ ck = {} => previousWorkspace(ck) = store.base /\ previousVersion(ck) = 0
         /\ One(ck) => \A c \in ck : previousWorkspace(ck) = c.workspace
                /\ previousVersion(ck) = c.version
  BY DEF previousWorkspace, previousVersion, One

\* The permit is free after the step.
NoCallAfter ==
  /\ DOMAIN call' = DOMAIN call
  /\ call'.op = "none" /\ call'.pc = "none" /\ call'.turn = 0 /\ call'.ck = {} /\ ~call'.orphan
  /\ call'.row = {} /\ call'.next = "none" /\ call'.workspace = 0 /\ call'.after = 0
         /\ call'.artifacts = {}

\* The step leaves the session its turn, its origin and what it was told.
SessionKept ==
  /\ DOMAIN session' = DOMAIN session
  /\ session'.turn = session.turn /\ session'.fork = session.fork
  /\ session'.reported = session.reported

\* The call that has the permit answers, whatever the answer.
Returned == \E result : Return(result)

\* NoCall, field by field.
LEMMA NoCalls ==
  ASSUME Typed, call' = NoCall PROVE NoCallAfter
  BY Domains DEF NoCall, NoCallAfter

\* What an answer changes: the session of a caller that still waits, by operation.
LEMMA Answers ==
  ASSUME Typed, Placed, ~Free, Returned
  PROVE  /\ NoCallAfter
         /\ SessionKept
         /\ session'.stopFailed = session.stopFailed
         /\ call.op # "checkpoint" \/ call.orphan => session'.ck = session.ck
         /\ call.orphan => session'.phase = session.phase /\ session'.waiting = session.waiting
         /\ ~call.orphan =>
              /\ call.op \in Awaited => ~session'.waiting
              /\ call.op \notin Awaited => session'.waiting = session.waiting
              /\ call.op = "start" => session'.phase = "running"
              /\ call.op \in {"checkpoint", "stop"} => session'.phase = "ended"
              /\ call.op = "release" => session'.phase = "released"
              /\ call.op = "prepare" =>
                   \/ session.phase = "creating" /\ session'.phase = "ended"
                   \/ session.phase # "creating" /\ session'.phase = session.phase
              /\ call.op \in {"upload", "files"} => session'.phase = session.phase
<1>0. session.waiting \in BOOLEAN
  BY DEF Typed, SessionType
<1>r. PICK result : Return(result)
  BY DEF Returned
<1>n. NoCallAfter
  BY <1>r, NoCalls DEF Return
<1>d. DOMAIN session = {"phase", "turn", "ck", "fork", "waiting", "reported", "stopFailed"}
  BY Domains
<1>s. session' = Answered(result)
  BY <1>r DEF Return
<1>1. CASE call.orphan
  <2>1. session' = session  BY <1>1, <1>s DEF Answered
  <2> QED BY <1>1, <2>1, <1>n DEF SessionKept, Awaited
<1>2. CASE ~call.orphan /\ call.op = "start"
  <2>1. session' = [session EXCEPT !.waiting = FALSE, !.phase = "running"]  BY <1>2,
            <1>s DEF Answered
  <2> QED BY <1>2, <2>1, <1>d, <1>n DEF SessionKept, Awaited
<1>3. CASE ~call.orphan /\ call.op = "checkpoint"
  <2>1. session' = [session EXCEPT !.waiting = FALSE, !.phase = "ended", !.ck = result]  BY <1>3,
            <1>s DEF Answered
  <2> QED BY <1>3, <2>1, <1>d, <1>n DEF SessionKept, Awaited
<1>4. CASE ~call.orphan /\ call.op = "stop"
  <2>1. session' = [session EXCEPT !.waiting = FALSE, !.phase = "ended"]  BY <1>4,
            <1>s DEF Answered
  <2> QED BY <1>4, <2>1, <1>d, <1>n DEF SessionKept, Awaited
<1>5. CASE ~call.orphan /\ call.op = "release"
  <2>1. session' = [session EXCEPT !.waiting = FALSE, !.phase = "released"]  BY <1>5,
            <1>s DEF Answered
  <2> QED BY <1>5, <2>1, <1>d, <1>n DEF SessionKept, Awaited
<1>6. CASE ~call.orphan /\ call.op = "prepare" /\ session.phase = "creating"
  <2>1. session' = [session EXCEPT !.phase = "ended"]  BY <1>6, <1>s DEF Answered
  <2> QED BY <1>6, <2>1, <1>d, <1>n, <1>0 DEF SessionKept, Awaited
<1>7. CASE ~call.orphan /\ call.op \in {"prepare", "upload", "files"} /\ ~(call.op = "prepare"
          /\ session.phase = "creating")
  <2>1. session' = session  BY <1>7, <1>s DEF Answered
  <2> QED BY <1>7, <2>1, <1>n, <1>0 DEF SessionKept, Awaited
<1> QED BY <1>1, <1>2, <1>3, <1>4, <1>5, <1>6, <1>7 DEF Free, Placed, Awaited

\* What an error changes: the caller stops waiting, and knows that a stop failed.
LEMMA Throws ==
  ASSUME Typed, Throw
  PROVE  /\ NoCallAfter
         /\ SessionKept
         /\ session'.ck = session.ck /\ session'.phase = session.phase
         /\ ~call.orphan => ~session'.waiting
         /\ ~session.stopFailed /\ (call.op # "stop" \/ call.orphan \/ ~session.waiting)
                => ~session'.stopFailed
         /\ call.orphan => session'.waiting = session.waiting
<1>0. session.waiting \in BOOLEAN
  BY DEF Typed, SessionType
<1>n. NoCallAfter
  BY NoCalls DEF Throw
<1>d. DOMAIN session = {"phase", "turn", "ck", "fork", "waiting", "reported", "stopFailed"}
  BY Domains
<1>s. session' = Unanswered
  BY DEF Throw
<1>1. CASE call.orphan \/ ~session.waiting
  <2>1. session' = session  BY <1>1, <1>s DEF Unanswered
  <2> QED BY <1>1, <2>1, <1>n, <1>0 DEF SessionKept, Awaited
<1>2. CASE ~call.orphan /\ session.waiting
  <2>1. session' = [session EXCEPT !.waiting = FALSE, !.stopFailed = @
            \/ call.op = "stop"]  BY <1>2, <1>s DEF Unanswered
  <2> QED BY <1>2, <2>1, <1>d, <1>n DEF SessionKept, Awaited
<1> QED BY <1>1, <1>2

\* A container that is off starts empty, any other stays as it is.
LEMMA Boots ==
  ASSUME Typed
  PROVE  /\ DOMAIN Booted = DOMAIN box
         /\ box.state # "off" => Booted = box
         /\ box.state = "off" => /\ Booted.files = {} /\ Booted.marker = {} /\ Booted.socket = 0
                                 /\ ~Booted.good /\ Booted.state = "running"
  BY Domains DEF Booted, Off

\* A step in a container that was not set up on purpose is noticed, and nothing else is.
LEMMA Notices ==
  ASSUME Typed
  PROVE  /\ DOMAIN Noticed = DOMAIN seen
         /\ Noticed.posts = seen.posts /\ Noticed.acked = seen.acked /\ Noticed.wrote = seen.wrote
         /\ Noticed.setups = seen.setups /\ Noticed.unconfirmed = seen.unconfirmed
         /\ ~Noticed.torn => ~seen.torn /\ Booted.good
         /\ Booted.good => Noticed.torn = seen.torn
  BY Domains DEF Noticed

\* The step leaves the call what it was asked.
CallKept ==
  /\ DOMAIN call' = DOMAIN call /\ call'.op = call.op /\ call'.turn = call.turn
  /\ call'.ck = call.ck /\ call'.orphan = call.orphan /\ call'.artifacts = call.artifacts

\* startExecution restores the workspace of the checkpoint into a fresh container.
LEMMA Restores ==
  ASSUME Typed, StartRestore
  PROVE  /\ At("start", "restore") /\ Usable
         /\ box'.files = Content(previousWorkspace(call.ck)) /\ box'.good
         /\ box'.state = "running" /\ box'.marker \in {{}, box.marker}
         /\ UNCHANGED <<store, buckets, job, tool, session, seen>>
         /\ CallKept /\ call'.workspace = call.workspace /\ call'.after = call.after
         /\ call'.pc = "mark" /\ call'.next = "provision"
         /\ \E r : /\ call'.row = {r} /\ r.workspace = previousWorkspace(call.ck)
                   /\ (r.provisioned => call.ck # {} \/ store.inherited)
<1>1. PICK r : /\ r = [workspace |-> previousWorkspace(call.ck), provisioned |-> call.ck # {}
                   \/ store.inherited]
               /\ Remember(r, "provision")
  BY DEF StartRestore
<1>2. call' = [call EXCEPT !.pc = "mark", !.row = {r}, !.next = "provision"]
  BY <1>1 DEF Remember
<1>3. r.workspace = previousWorkspace(call.ck)
  BY <1>1, Zenon
<1>4. r.provisioned => call.ck # {} \/ store.inherited
  BY <1>1, Zenon
<1>5. CallKept /\ call'.workspace = call.workspace /\ call'.after = call.after /\ call'.row = {r}
      /\ call'.pc = "mark" /\ call'.next = "provision"
  BY <1>2, Domains DEF CallKept
<1>6. /\ At("start", "restore") /\ Usable
      /\ box' = [Booted EXCEPT !.files = Content(previousWorkspace(call.ck)), !.good = TRUE]
      /\ UNCHANGED <<store, buckets, job, tool, session, seen>>
  BY Zenon DEF StartRestore
<1>7. /\ box'.files = Content(previousWorkspace(call.ck)) /\ box'.good
      /\ box'.state = "running" /\ box'.marker \in {{}, box.marker}
  BY <1>6, Boots, Domains DEF Usable
<1> QED BY <1>3, <1>4, <1>5, <1>6, <1>7

\* The deployment's hook runs in the sandbox, and the row is to say so.
LEMMA Hooks ==
  ASSUME Typed, StartHook
  PROVE  /\ At("start", "provision") /\ Usable /\ ~ \E row \in store.sandbox : row.provisioned
         /\ box' = [Booted EXCEPT !.files = @ \cup {Hook}] /\ seen' = Noticed
         /\ UNCHANGED <<store, buckets, job, tool, session>>
         /\ CallKept /\ call'.workspace = call.workspace /\ call'.after = previousVersion(call.ck)
         /\ call'.pc = "mark" /\ call'.next = "apply"
         /\ \E r : call'.row = {r} /\ r.workspace = previousWorkspace(call.ck) /\ r.provisioned
<1>1. PICK r : /\ r = [workspace |-> previousWorkspace(call.ck), provisioned |-> TRUE]
               /\ call' = [call EXCEPT !.pc = "mark", !.next = "apply",
                      !.after = previousVersion(call.ck), !.row = {r}]
  BY Zenon DEF StartHook
<1>2. r.workspace = previousWorkspace(call.ck) /\ r.provisioned
  BY <1>1, Zenon
<1>3. /\ CallKept /\ call'.workspace = call.workspace /\ call'.after = previousVersion(call.ck)
      /\ call'.row = {r} /\ call'.pc = "mark" /\ call'.next = "apply"
  <2>1. call' = [call EXCEPT !.pc = "mark", !.next = "apply", !.after = previousVersion(call.ck),
            !.row = {r}]
    BY <1>1
  <2> QED BY <2>1, Domains DEF CallKept
<1>4. /\ At("start", "provision") /\ Usable /\ ~ \E row \in store.sandbox : row.provisioned
      /\ box' = [Booted EXCEPT !.files = @ \cup {Hook}] /\ seen' = Noticed
      /\ UNCHANGED <<store, buckets, job, tool, session>>
  BY Zenon DEF StartHook
<1> QED BY <1>2, <1>3, <1>4

\* The snapshot backs up what the sandbox holds, and the row is to name the backup.
LEMMA Backups ==
  ASSUME Typed, SnapshotBackup
  PROVE  /\ At("checkpoint", "backup") /\ Usable
         /\ box' = Booted /\ seen' = Noticed
         /\ buckets' = [buckets EXCEPT !.backups = Append(buckets.backups, Booted.files)]
         /\ UNCHANGED <<store, job, tool, session>>
         /\ CallKept /\ call'.workspace = Len(buckets'.backups) /\ call'.after = call.after
         /\ call'.pc = "mark" /\ call'.next = "publish"
         /\ \E r : call'.row = {r} /\ r.workspace = Len(buckets'.backups) /\ r.provisioned
<1>1. PICK r, n : /\ r = [workspace |-> n, provisioned |-> TRUE] /\ n = Len(buckets'.backups)
               /\ call' = [call EXCEPT !.pc = "mark", !.next = "publish", !.workspace = n,
                      !.row = {r}]
  BY Zenon DEF SnapshotBackup
<1>2. r.workspace = n /\ r.provisioned
  BY <1>1, Zenon
<1>3. /\ CallKept /\ call'.workspace = n /\ call'.after = call.after
      /\ call'.row = {r} /\ call'.pc = "mark" /\ call'.next = "publish"
  <2>1. call' = [call EXCEPT !.pc = "mark", !.next = "publish", !.workspace = n, !.row = {r}]
    BY <1>1
  <2> QED BY <2>1, Domains DEF CallKept
<1>4. /\ At("checkpoint", "backup") /\ Usable
      /\ box' = Booted /\ seen' = Noticed
      /\ buckets' = [buckets EXCEPT !.backups = Append(buckets.backups, Booted.files)]
      /\ UNCHANGED <<store, job, tool, session>>
  BY Zenon DEF SnapshotBackup
<1> QED BY <1>1, <1>2, <1>3, <1>4

\* What a step that fails changes, of each operation.
LEMMA Fails ==
  ASSUME Typed, StepFails
  PROVE  /\ ~Free \/ call.pc # "none"
         /\ \/ call.op = "prepare" /\ call.pc # "mark"
                   /\ store' = [store EXCEPT !.environment = "failed"]
            \/ (call.op # "prepare" \/ call.pc = "mark") /\ store' = store
         /\ call.pc \in {"stopbox", "restore", "mark", "provision", "apply", "dispatch", "backup",
                  "publish", "upload", "setup", "adopt", "retirebox"}
         /\ NoCallAfter /\ SessionKept /\ session'.ck = session.ck
         /\ ~session.stopFailed /\ (call.op # "stop" \/ call.orphan \/ ~session.waiting)
                => ~session'.stopFailed
         /\ \/ /\ call.op = "prepare" /\ session.phase \in {"creating", "ended"}
               /\ session'.phase = "failed" /\ session'.waiting = session.waiting
            \/ /\ call.op # "prepare" \/ session.phase \notin {"creating", "ended"}
               /\ session'.phase = session.phase
               /\ ~call.orphan => ~session'.waiting
               /\ call.orphan => session'.waiting = session.waiting
         /\ UNCHANGED <<box, buckets, job, tool, seen>>
<1>1. NoCallAfter
  BY NoCalls, Zenon DEF StepFails
<1>2. /\ ~Free \/ call.pc # "none"
      /\ call.pc \in {"stopbox", "restore", "mark", "provision", "apply", "dispatch", "backup",
                  "publish", "upload", "setup", "adopt", "retirebox"}
      /\ UNCHANGED <<box, buckets, job, tool, seen>>
  <2>1. /\ call.pc \in {"stopbox", "restore", "mark", "provision", "apply", "dispatch", "backup",
                  "publish", "upload", "setup", "adopt", "retirebox"}
        /\ UNCHANGED <<box, buckets, job, tool, seen>>
    BY Zenon DEF StepFails
  <2> QED BY <2>1
<1>3. \/ call.op = "prepare" /\ call.pc # "mark"
             /\ store' = [store EXCEPT !.environment = "failed"]
      \/ (call.op # "prepare" \/ call.pc = "mark") /\ store' = store
  BY Zenon DEF StepFails
<1>4. CASE call.op = "prepare" /\ session.phase \in {"creating", "ended"}
  <2>1. session' = [session EXCEPT !.phase = "failed"]
    BY <1>4, Zenon DEF StepFails
  <2> QED BY <2>1, <1>1, <1>2, <1>3, <1>4, Domains DEF SessionKept
<1>5. CASE ~(call.op = "prepare" /\ session.phase \in {"creating", "ended"})
  <2>1. call' = NoCall /\ session' = Unanswered
    BY <1>5, Zenon DEF StepFails
  <2>2. Throw
    BY <2>1 DEF Throw
  <2> QED BY <2>2, <1>1, <1>2, <1>3, <1>5, Throws
<1> QED BY <1>4, <1>5

\* prepareEnvironment goes on to remember the sandbox it set up.
LEMMA Remembers ==
  ASSUME Typed, PrepareTail, store.sandbox = {}
  PROVE  /\ DOMAIN call' = DOMAIN call /\ call'.op = call.op /\ call'.turn = call.turn
         /\ call'.ck = call.ck /\ call'.orphan = call.orphan /\ call'.after = call.after
         /\ call'.workspace = call.workspace /\ call'.artifacts = call.artifacts
         /\ call'.pc = "mark" /\ call'.next = "return" /\ UNCHANGED session
         /\ \E r : /\ call'.row = {r} /\ r.workspace = store.base
                   /\ (r.provisioned => store.inherited)
<1>1. PICK r : /\ r = [workspace |-> store.base, provisioned |-> store.inherited]
               /\ Remember(r, "return") /\ UNCHANGED session
  BY DEF PrepareTail
<1>2. call' = [call EXCEPT !.pc = "mark", !.row = {r}, !.next = "return"]
  BY <1>1 DEF Remember
<1>3. r.workspace = store.base
  BY <1>1, Zenon
<1>4. r.provisioned => store.inherited
  BY <1>1, Zenon
<1>5. UNCHANGED session
  BY <1>1
<1> QED BY <1>2, <1>3, <1>4, <1>5, Domains

\* A backup is appended: the earlier ones stay.
LEMMA Appends ==
  ASSUME Typed, NEW files \in SUBSET Mark,
         buckets' = [buckets EXCEPT !.backups = Append(buckets.backups, files)]
  PROVE  /\ Len(buckets'.backups) = Len(buckets.backups) + 1
         /\ \A w \in 1..Len(buckets.backups) : buckets'.backups[w] = buckets.backups[w]
         /\ buckets'.backups[Len(buckets.backups) + 1] = files
         /\ buckets'.artifacts = buckets.artifacts
<1>1. buckets'.backups = Append(buckets.backups, files) /\ buckets'.artifacts = buckets.artifacts
  BY Domains
<1> QED BY <1>1, BucketFields

\* What a container holds when it is reached.
LEMMA Booteds ==
  ASSUME Typed PROVE Booted.files \in SUBSET Mark
  BY Boots, BoxFields

\* The workspaces hold what they held when the backups stay.
LEMMA SameContent ==
  ASSUME buckets'.backups = buckets.backups
  PROVE  \A w : Content(w)' = Content(w)
  BY DEF Content

\* A new backup adds a workspace and leaves the others.
LEMMA MoreContent ==
  ASSUME Typed, NEW files \in SUBSET Mark,
         buckets' = [buckets EXCEPT !.backups = Append(buckets.backups, files)]
  PROVE  /\ \A w \in Workspace : Content(w)' = Content(w)
         /\ \A w : w = Len(buckets.backups) + 1 => Content(w)' = files
<1>1. Len(buckets.backups) \in Nat
  BY BucketFields
<1>2. \A w \in 1..Len(buckets.backups) : buckets'.backups[w] = buckets.backups[w]
  BY Appends
<1>3. Len(buckets'.backups) = Len(buckets.backups) + 1
          /\ buckets'.backups[Len(buckets.backups) + 1] = files
  BY Appends
<1>4. ASSUME NEW w \in Workspace PROVE Content(w)' = Content(w)
  <2>1. w = 0 \/ w \in 1..Len(buckets.backups)
    BY <1>1 DEF Workspace
  <2> QED BY <2>1, <1>2 DEF Content
<1>5. ASSUME NEW w, w = Len(buckets.backups) + 1 PROVE Content(w)' = files
  BY <1>1, <1>3, <1>5 DEF Content
<1> QED BY <1>4, <1>5

\* The session continues from the same files when its checkpoint and the base stay.
LEMMA SameBegan ==
  ASSUME Typed, Named, session'.ck = session.ck, store'.base = store.base,
         \A w \in Workspace : Content(w)' = Content(w)
  PROVE  Began' = Began
<1>1. previousWorkspace(session.ck)' = previousWorkspace(session.ck)
  BY DEF previousWorkspace
<1>2. previousWorkspace(session.ck) \in Workspace
  BY Previous DEF Named, Known
<1> QED BY <1>1, <1>2 DEF Began

\* What the session continues from: its checkpoint, or the base.
LEMMA BeganOf ==
  ASSUME Typed, Named
  PROVE  /\ session.ck = {} => Began = Content(store.base)
         /\ \A c \in session.ck : Began = Content(c.workspace)
         /\ previousWorkspace(session.ck) \in Workspace
  BY Previous DEF Named, Known, Began

\* What the end of a turn whose stop failed changes.
LEMMA Seals ==
  ASSUME Typed, SealAnyway
  PROVE  /\ session.phase = "stopping" /\ ~session.waiting
         /\ session.stopFailed /\ session'.stopFailed
         /\ SessionKept /\ session'.ck = session.ck /\ session'.waiting = session.waiting
         /\ \/ session.reported /\ session'.phase = "ended" /\ seen'.unconfirmed
            \/ session'.phase = "failed"
         /\ DOMAIN seen' = DOMAIN seen /\ seen'.posts = seen.posts /\ seen'.torn = seen.torn
         /\ seen'.acked = seen.acked /\ seen'.wrote = seen.wrote /\ seen'.setups = seen.setups
         /\ ~seen'.unconfirmed => ~seen.unconfirmed
         /\ UNCHANGED <<store, box, buckets, job, call, tool>>
<1> DEFINE b == seen.unconfirmed \/ session.reported
<1>0. b \in BOOLEAN /\ (b <=> seen.unconfirmed \/ session.reported)
  BY Zenon
<1>1. seen' = [seen EXCEPT !.unconfirmed = b]
  BY Zenon DEF SealAnyway
<1> HIDE DEF b
<1>2. PICK p : /\ session' = [session EXCEPT !.phase = p]
               /\ p = IF session.reported THEN "ended" ELSE "failed"
  BY Zenon DEF SealAnyway
<1>3. /\ session.phase = "stopping" /\ ~session.waiting /\ session.stopFailed
      /\ UNCHANGED <<store, box, buckets, job, call, tool>>
  BY Zenon DEF SealAnyway
<1>4. /\ DOMAIN seen' = DOMAIN seen /\ seen'.posts = seen.posts /\ seen'.torn = seen.torn
      /\ seen'.acked = seen.acked /\ seen'.wrote = seen.wrote /\ seen'.setups = seen.setups
      /\ seen'.unconfirmed = b
  BY <1>1, Domains
<1>5. /\ SessionKept /\ session'.ck = session.ck /\ session'.waiting = session.waiting
      /\ session'.phase = p /\ session'.stopFailed = session.stopFailed
  BY <1>2, Domains DEF SessionKept
<1> QED BY <1>0, <1>2, <1>3, <1>4, <1>5

\* No upload was added.
LEMMA SameExtras ==
  ASSUME store'.fileVersion = store.fileVersion
  PROVE  Extras' = Extras
  BY DEF Extras

\* The hook's result and the uploads are extras.
LEMMA InExtras ==
  Hook \in Extras /\ \A v \in 1..store.fileVersion : Upload(v) \in Extras
  BY DEF Extras

\* An upload adds to the extras.
LEMMA MoreExtras ==
  ASSUME Typed, store'.fileVersion = store.fileVersion + 1
  PROVE  Extras \subseteq Extras'
  BY StoreFields DEF Extras

\* What the dispatch of a job changes, whether it arrived and whether the answer did.
LEMMA Posts ==
  ASSUME Typed, Coupled, StartPost
  PROVE  /\ At("start", "post") /\ NoCallAfter /\ SessionKept
         /\ session'.ck = session.ck
         /\ session'.phase = session.phase \/ (~call.orphan /\ session'.phase = "running")
         /\ ~call.orphan => ~session'.waiting
         /\ call.orphan => session'.waiting = session.waiting
         /\ ~session.stopFailed => ~session'.stopFailed
         /\ UNCHANGED <<store, box, buckets, tool>>
         /\ DOMAIN seen' = DOMAIN seen
         /\ seen'.torn = seen.torn /\ seen'.unconfirmed = seen.unconfirmed
         /\ seen'.acked = seen.acked /\ seen'.wrote = seen.wrote /\ seen'.setups = seen.setups
         /\ \/ seen'.posts = seen.posts /\ UNCHANGED job
            \/ /\ seen'.posts = [seen.posts EXCEPT ![call.turn] = @ + 1]
               /\ job'.turn = call.turn /\ job'.state = "running"
<1>1. /\ At("start", "post") /\ UNCHANGED <<store, box, buckets, tool>>
      /\ Return({}) \/ Throw
      /\ Posted \/ UNCHANGED <<job, seen>>
  BY Zenon DEF StartPost
<1>2. call.op = "start" /\ Placed /\ ~Free
  BY <1>1 DEF At, Free, Coupled
<1>3. /\ NoCallAfter /\ SessionKept
      /\ session'.ck = session.ck
      /\ session'.phase = session.phase \/ (~call.orphan /\ session'.phase = "running")
      /\ ~call.orphan => ~session'.waiting
      /\ call.orphan => session'.waiting = session.waiting
      /\ ~session.stopFailed => ~session'.stopFailed
  <2>1. CASE Return({})
    <3>1. Returned
      BY <2>1 DEF Returned
    <3> QED BY <1>2, <3>1, Answers DEF Awaited
  <2>2. CASE Throw
    BY <1>2, <2>2, Throws
  <2> QED BY <1>1, <2>1, <2>2
<1>4. /\ DOMAIN seen' = DOMAIN seen
      /\ seen'.torn = seen.torn /\ seen'.unconfirmed = seen.unconfirmed
      /\ seen'.acked = seen.acked /\ seen'.wrote = seen.wrote /\ seen'.setups = seen.setups
      /\ \/ seen'.posts = seen.posts /\ UNCHANGED job
         \/ /\ seen'.posts = [seen.posts EXCEPT ![call.turn] = @ + 1]
            /\ job'.turn = call.turn /\ job'.state = "running"
  <2>1. CASE Posted
    <3>1. job' = [turn |-> call.turn, state |-> "running", ending |-> FALSE]
      BY <2>1 DEF Posted
    <3>2. seen' = [seen EXCEPT !.posts[call.turn] = @ + 1]
      BY <2>1 DEF Posted
    <3> QED BY <3>1, <3>2, Domains
  <2>2. CASE UNCHANGED <<job, seen>>
    BY <2>2
  <2> QED BY <1>1, <2>1, <2>2
<1> QED BY <1>1, <1>3, <1>4

\* What the commit of a checkpoint changes, in the rows and in the session.
LEMMA Commits ==
  ASSUME Typed, SnapshotCommit
  PROVE  /\ At("checkpoint", "upload") /\ Uploaded(call.turn, call.artifacts)
         /\ NoCallAfter /\ SessionKept /\ session'.stopFailed = session.stopFailed
         /\ UNCHANGED <<box, buckets, job, tool, seen>>
         /\ DOMAIN store' = DOMAIN store
         /\ store'.assignment = store.assignment /\ store'.sandbox = store.sandbox
         /\ store'.manifest = store.manifest /\ store'.environment = store.environment
         /\ store'.base = store.base /\ store'.inherited = store.inherited
         /\ store'.fileVersion = store.fileVersion /\ store'.applied = store.applied
         /\ \E c : /\ c.turn = call.turn /\ c.workspace = call.workspace
                   /\ c.version = store.fileVersion /\ c.artifacts = call.artifacts
                   /\ store'.checkpoint = [store.checkpoint EXCEPT ![call.turn] = {c}]
                   /\ ~call.orphan => session'.ck = {c}
         /\ call.orphan => session'.ck = session.ck /\ session'.phase = session.phase
                            /\ session'.waiting = session.waiting
         /\ ~call.orphan => session'.phase = "ended" /\ ~session'.waiting
<1>1. PICK c : /\ c = [turn |-> call.turn, workspace |-> call.workspace,
                      version |-> store.fileVersion, artifacts |-> call.artifacts]
               /\ store' = [store EXCEPT !.checkpoint[call.turn] = {c}]
               /\ Return({c})
  BY Zenon DEF SnapshotCommit
<1>2. /\ At("checkpoint", "upload") /\ Uploaded(call.turn, call.artifacts)
      /\ UNCHANGED <<box, buckets, job, tool, seen>>
  BY Zenon DEF SnapshotCommit
<1>3. NoCallAfter
  BY <1>1, NoCalls DEF Return
<1>4. session' = IF call.orphan THEN session
                 ELSE [session EXCEPT !.waiting = FALSE, !.phase = "ended", !.ck = {c}]
  BY <1>1, <1>2 DEF Return, Answered, At
<1>5. /\ c.turn = call.turn /\ c.workspace = call.workspace
      /\ c.version = store.fileVersion /\ c.artifacts = call.artifacts
  BY <1>1
<1>6. /\ DOMAIN store' = DOMAIN store
      /\ store'.assignment = store.assignment /\ store'.sandbox = store.sandbox
      /\ store'.manifest = store.manifest /\ store'.environment = store.environment
      /\ store'.base = store.base /\ store'.inherited = store.inherited
      /\ store'.fileVersion = store.fileVersion /\ store'.applied = store.applied
      /\ store'.checkpoint = [store.checkpoint EXCEPT ![call.turn] = {c}]
  <2>1. store' = [store EXCEPT !.checkpoint[call.turn] = {c}]
    BY <1>1
  <2> QED BY <2>1, Domains
<1>7. /\ SessionKept /\ session'.stopFailed = session.stopFailed
      /\ call.orphan => session'.ck = session.ck /\ session'.phase = session.phase
                         /\ session'.waiting = session.waiting
      /\ ~call.orphan => session'.ck = {c} /\ session'.phase = "ended" /\ ~session'.waiting
  BY <1>4, Domains DEF SessionKept
<1> QED BY <1>2, <1>3, <1>5, <1>6, <1>7

\* What the session continues from after a step that gave it a checkpoint.
LEMMA BeganNext ==
  /\ session'.ck = {} => Began' = Content(store.base)'
  /\ \A c : session'.ck = {c} => Began' = Content(c.workspace)'
<1>1. session'.ck = {} => Began' = Content(store.base)'
  BY DEF Began, previousWorkspace
<1>2. ASSUME NEW c, session'.ck = {c} PROVE Began' = Content(c.workspace)'
  <2>1. previousWorkspace(session.ck)' = c.workspace
    BY <1>2 DEF previousWorkspace
  <2> QED BY <2>1 DEF Began
<1> QED BY <1>1, <1>2

\* Work, uploads, setup and hook are told apart.
LEMMA Marks ==
  /\ \A v, t : Upload(v) # Work(t)
  /\ \A t : Hook # Work(t) /\ Setup # Work(t)
  /\ \A t, u : Work(t) = Work(u) => t = u
  /\ Works \subseteq Mark
BY DEF Upload, Work, Hook, Setup, Works, Mark

\* What the end of applyUploads changes, for a start, an upload and a listing.
LEMMA Applieds ==
  ASSUME Typed, Coupled, AppliedUploads
  PROVE  /\ ~Free /\ call.pc = "apply" /\ call.after >= store.fileVersion
         /\ UNCHANGED <<store, box, buckets, job, tool>>
         /\ SessionKept /\ session'.ck = session.ck
         /\ DOMAIN seen' = DOMAIN seen /\ seen'.posts = seen.posts /\ seen'.torn = seen.torn
         /\ seen'.unconfirmed = seen.unconfirmed /\ seen'.wrote = seen.wrote
         /\ seen'.setups = seen.setups
         /\ \A v \in seen'.acked : v \in seen.acked \/ (v = store.fileVersion
                /\ call.op = "upload")
         /\ call'.op \in {"start", "none"} /\ call'.pc \in {"dispatch", "none"}
         /\ call'.row \in {{}, call.row} /\ call'.ck \in {{}, call.ck}
         /\ call'.workspace \in {0, call.workspace}
<1>1. /\ call.pc = "apply" /\ call.after >= store.fileVersion
      /\ UNCHANGED <<store, box, buckets, job, tool>>
  BY Zenon DEF AppliedUploads
<1>2. ~Free /\ Placed /\ call.op \in {"start", "upload", "files"}
  BY <1>1 DEF Free, Coupled, Placed
<1>3. CASE call.op = "start"
  <2>1. Goto("dispatch") /\ UNCHANGED <<session, seen>>
    BY <1>3, Zenon DEF AppliedUploads
  <2> QED BY <1>1, <1>2, <1>3, <2>1, Domains DEF Goto, SessionKept
<1>4. CASE call.op # "start"
  <2>1. /\ Returned
        /\ seen' = IF call.op = "upload" THEN [seen EXCEPT !.acked = @ \cup {store.fileVersion}]
                   ELSE seen
    BY <1>4, Zenon DEF AppliedUploads, Returned
  <2>2. /\ SessionKept /\ session'.ck = session.ck /\ NoCallAfter
    BY <1>2, <1>4, <2>1, Answers
  <2>3. /\ DOMAIN seen' = DOMAIN seen /\ seen'.posts = seen.posts /\ seen'.torn = seen.torn
        /\ seen'.unconfirmed = seen.unconfirmed /\ seen'.wrote = seen.wrote
               /\ seen'.setups = seen.setups
        /\ \A v \in seen'.acked : v \in seen.acked \/ (v = store.fileVersion /\ call.op = "upload")
    BY <2>1, Domains
  <2> QED BY <1>1, <1>2, <2>2, <2>3 DEF NoCallAfter
<1> QED BY <1>3, <1>4

\* The step posts no job, records no checkpoint and gives the session none.
Unrecorded ==
  /\ seen'.posts = seen.posts /\ store'.checkpoint = store.checkpoint /\ session'.ck = session.ck

\* What writing the row of the sandbox changes, and where the call goes on.
LEMMA RowsKept ==
  ASSUME Typed, Coupled, RememberRow
  PROVE  /\ call.pc = "row" /\ ~Free
         /\ store' = [store EXCEPT !.sandbox = call.row]
         /\ UNCHANGED <<box, buckets, job, tool, seen>>
         /\ SessionKept /\ session'.ck = session.ck
         /\ call'.op \in {"none", call.op} /\ call'.workspace \in {0, call.workspace}
         /\ call'.op = call.op => CallKept /\ call'.pc = call.next
                /\ call'.workspace = call.workspace
         /\ call'.row \in {{}, call.row} /\ call'.ck \in {{}, call.ck}
<1>1. /\ call.pc = "row" /\ store' = [store EXCEPT !.sandbox = call.row]
      /\ UNCHANGED <<box, buckets, job, tool, seen>>
  BY Zenon DEF RememberRow
<1>2. ~Free /\ Placed /\ (call.next = "return" <=> call.op = "prepare") /\ call.op # "none"
  BY <1>1 DEF Coupled, Placed, Free
<1>3. CASE call.next = "return"
  <2>1. Returned /\ call.op = "prepare"
    BY <1>2, <1>3 DEF RememberRow, Returned
  <2> QED BY <1>1, <1>2, <2>1, Answers DEF NoCallAfter
<1>4. CASE call.next # "return"
  <2>1. Goto(call.next) /\ UNCHANGED session
    BY <1>4, Zenon DEF RememberRow
  <2> QED BY <1>1, <1>2, <2>1, Domains DEF Goto, SessionKept, CallKept
<1> QED BY <1>3, <1>4

-----------------------------------------------------------------------------
(***************************************************************************)
(* The types.                                                              *)
(***************************************************************************)

\* The permit that is free is a call.
LEMMA NoCallTyped == ASSUME Typed PROVE NoCall \in CallType
  BY HarnessAssumption DEF NoCall, CallType, Op, Pc

\* An answer keeps the types.
LEMMA ReturnTyped ==
  ASSUME Typed, NEW result \in SUBSET CheckpointType, Return(result)
  PROVE  call' \in CallType /\ session' \in SessionType
  BY NoCallTyped DEF Return, Answered, Typed, SessionType

\* An error keeps the types.
LEMMA ThrowTyped ==
  ASSUME Typed, Throw
  PROVE  call' \in CallType /\ session' \in SessionType
<1>1. session' = session \/ \E b \in BOOLEAN : session' = [session EXCEPT !.waiting = FALSE,
          !.stopFailed = b]
  <2> DEFINE b == session.stopFailed \/ call.op = "stop"
  <2>1. b \in BOOLEAN
    BY Zenon
  <2>2. session' = session \/ session' = [session EXCEPT !.waiting = FALSE, !.stopFailed = b]
    BY Zenon DEF Throw, Unanswered
  <2> QED BY <2>1, <2>2
<1> QED BY <1>1, NoCallTyped DEF Throw, Typed, SessionType

\* A call that goes on to another place, or that is taken up, keeps the type.
LEMMA GotoTyped == ASSUME Typed, NEW pc \in Pc, Goto(pc) PROVE call' \in CallType
<1>1. call \in CallType
  BY DEF Typed
<1> QED BY ONLY <1>1, pc \in Pc, Goto(pc) DEF Goto, CallType

LEMMA TakeTyped ==
  ASSUME Typed, NEW op \in Op, NEW pc \in Pc PROVE Take(op, pc) \in CallType
<1>1. session.turn \in 0..MaxTurn /\ session.ck \in SUBSET CheckpointType
  BY SessionFields
<1> DEFINE c1 == [NoCall EXCEPT !.op = op, !.pc = pc]
<1>2. c1 \in CallType
  BY NoCallTyped DEF CallType
<1>3. Take(op, pc) = [c1 EXCEPT !.turn = session.turn, !.ck = session.ck]
  BY DEF Take, NoCall
<1> HIDE DEF c1
<1> QED BY ONLY <1>1, <1>2, <1>3 DEF CallType

\* A container that is off is a sandbox.
LEMMA OffTyped == ASSUME Typed PROVE Off \in BoxType
<1>1. 0 \in 0..MaxTurn
  BY HarnessAssumption
<1> QED BY <1>1 DEF Off, BoxType

\* A container that is reached is a sandbox.
LEMMA BootedTyped == ASSUME Typed PROVE Booted \in BoxType
  BY OffTyped DEF Booted, Typed, BoxType

\* No job is a job.
LEMMA NoJobTyped == ASSUME Typed PROVE NoJob \in JobType
<1>1. 0 \in 0..MaxTurn
  BY HarnessAssumption
<1> QED BY <1>1 DEF NoJob, JobType

\* What a step notices is a history.
LEMMA NoticedTyped == ASSUME Typed PROVE Noticed \in SeenType
  BY DEF Noticed, Typed, SeenType

\* The faults stay within their bound.
LEMMA FaultsTyped ==
  ASSUME Typed, Fault \/ NoFault \/ UNCHANGED faults
  PROVE  faults' \in 0..MaxFault
  BY HarnessAssumption DEF Fault, NoFault, Typed

\* What may be in a sandbox.
LEMMA MarksTyped ==
  /\ Setup \in Mark /\ Hook \in Mark
  /\ \A t \in Turn : Work(t) \in Mark
  /\ \A v \in 1..MaxUpload : Upload(v) \in Mark
  BY DEF Mark

\* A backup more keeps the types.
LEMMA BackupTyped ==
  ASSUME Typed, NEW files \in SUBSET Mark,
      buckets' = [buckets EXCEPT !.backups = Append(buckets.backups, files)]
  PROVE buckets' \in [backups : Seq(SUBSET Mark), artifacts : SUBSET (Turn \X Mark)]
<1>1. Append(buckets.backups, files) \in Seq(SUBSET Mark)
  BY BucketFields
<1> QED BY <1>1 DEF Typed

\* The assignment is of the session's turn.
LEMMA StartAssignedTypes == ASSUME Typed, StartAssigned PROVE store' \in StoreType
<1>1. PICK a \in [turn : 0..MaxTurn, dispatched : BOOLEAN,
          revoked : BOOLEAN] : store' = [store EXCEPT !.assignment = a]
  BY SessionFields DEF StartAssigned
<1> QED BY <1>1 DEF Typed, StoreType

\* The workspace that is restored is in the bucket.
LEMMA StartRestoreTypesBox == ASSUME Typed, Named, StartRestore PROVE box' \in BoxType
<1>1. Content(previousWorkspace(call.ck)) \in SUBSET Mark
  BY BucketFields, Previous DEF Named, Known, Content, Workspace
<1> QED BY <1>1, BootedTyped DEF StartRestore, BoxType

\* The workspace that is restored is in the bucket.
LEMMA StartRestoreTypesCall == ASSUME Typed, Named, StartRestore PROVE call' \in CallType
<1>1. PICK r \in RowType : call' = [call EXCEPT !.pc = "mark", !.row = {r}, !.next = "provision"]
  <2>1. PICK b \in BOOLEAN : call' = [call EXCEPT !.pc = "mark",
            !.row = {[workspace |-> previousWorkspace(call.ck), provisioned |-> b]},
            !.next = "provision"]
    BY Zenon DEF StartRestore, Remember
  <2>2. previousWorkspace(call.ck) \in Nat
    BY Previous, BucketFields DEF Named, Known, Workspace
  <2> QED BY <2>1, <2>2 DEF RowType
<1> QED BY <1>1 DEF Typed, CallType, Pc

\* The uploads the checkpoint has.
LEMMA StartProvisionedTypes == ASSUME Typed, Named, StartProvisioned PROVE call' \in CallType
<1>1. previousVersion(call.ck) \in 0..MaxUpload
  BY Previous, CallFields, Checkpoints, HarnessAssumption DEF Named
<1> QED BY <1>1 DEF Typed, StartProvisioned, CallType, Pc

\* The job that is posted is of the call's turn.
LEMMA StartPostTypesJob == ASSUME Typed, StartPost PROVE job' \in JobType
<1>1. CASE UNCHANGED job
  BY <1>1 DEF Typed
<1>2. CASE job' = [turn |-> call.turn, state |-> "running", ending |-> FALSE]
  BY <1>2, CallFields DEF JobType
<1> QED BY <1>1, <1>2 DEF StartPost, Posted

\* The job that is posted is of the call's turn.
LEMMA StartPostTypesSeen == ASSUME Typed, StartPost PROVE seen' \in SeenType
  BY DEF Typed, StartPost, Posted, SeenType

\* The checkpoint recorded for the turn.
LEMMA SnapshotCommittedTypes ==
  ASSUME Typed, Coupled, SnapshotCommitted
  PROVE  session' \in SessionType
<1>1. store.checkpoint[session.turn] \in SUBSET CheckpointType
  BY StoreFields DEF SnapshotCommitted, Coupled
<1> QED BY <1>1 DEF Typed, SnapshotCommitted, SessionType

\* The row that names the new backup.
LEMMA SnapshotBackupTypes == ASSUME Typed, SnapshotBackup PROVE call' \in CallType
<1>1. Len(buckets'.backups) \in Nat
  BY Backups, Appends, Booteds, BucketFields
<1>2. PICK r \in RowType, n \in Nat : call' = [call EXCEPT !.pc = "mark", !.next = "publish",
          !.workspace = n, !.row = {r}]
  <2>1. [workspace |-> Len(buckets'.backups), provisioned |-> TRUE] \in RowType
    BY <1>1 DEF RowType
  <2> QED BY <1>1, <2>1, Zenon DEF SnapshotBackup
<1> QED BY <1>2 DEF Typed, CallType, Pc

\* The manifest lists files of the sandbox.
LEMMA SnapshotManifestTypes ==
  ASSUME Typed, Coupled, SnapshotManifest
  PROVE  call' \in CallType /\ store' \in StoreType
<1>0. call.turn \in Turn
  BY DEF SnapshotManifest, At, Coupled
<1>1. Booted.files \cap {Work(t) : t \in Turn} \in SUBSET Mark
          /\ store.manifest[call.turn] \in SUBSET Mark
  BY <1>0, StoreFields, Booteds
<1>2. PICK m \in SUBSET Mark, n \in SUBSET Mark :
          /\ store' = [store EXCEPT !.manifest[call.turn] = n]
                              /\ call' = [call EXCEPT !.pc = "upload", !.artifacts = m]
  BY <1>1, Zenon DEF SnapshotManifest
<1>3. call' \in CallType
  BY <1>2 DEF Typed, CallType, Pc
<1>4. store' \in StoreType
  BY <1>2 DEF Typed, StoreType
<1> QED BY <1>3, <1>4

\* An artifact is a file under its turn.
LEMMA SnapshotUploadTypes ==
  ASSUME Typed, Coupled, SnapshotUpload
  PROVE  buckets' \in [backups : Seq(SUBSET Mark), artifacts : SUBSET (Turn \X Mark)]
<1>1. call.turn \in Turn /\ call.artifacts \in SUBSET Mark
  BY CallFields DEF SnapshotUpload, At, Coupled
<1>2. PICK x \in Turn \X Mark : buckets' = [buckets EXCEPT !.artifacts = @ \cup {x}]
  BY <1>1 DEF SnapshotUpload
<1> QED BY <1>2 DEF Typed

\* The checkpoint that is recorded.
LEMMA SnapshotCommitTypes ==
  ASSUME Typed, Coupled, SnapshotCommit
  PROVE  call' \in CallType /\ session' \in SessionType /\ store' \in StoreType
<1>1. PICK c : /\ c = [turn |-> call.turn, workspace |-> call.workspace,
                      version |-> store.fileVersion, artifacts |-> call.artifacts]
               /\ store' = [store EXCEPT !.checkpoint[call.turn] = {c}]
               /\ Return({c})
  BY Zenon DEF SnapshotCommit
<1>2. c \in CheckpointType
  BY <1>1, CallFields, StoreFields DEF CheckpointType, Coupled, SnapshotCommit, At
<1>3. call' \in CallType /\ session' \in SessionType
  BY <1>1, <1>2, ReturnTyped
<1>4. store' \in StoreType
  BY <1>1, <1>2 DEF Typed, StoreType
<1> QED BY <1>3, <1>4

\* The workspace that is adopted is in the bucket.
LEMMA PrepareAdoptTypes == ASSUME Typed, Created, PrepareAdopt PROVE box' \in BoxType
<1>1. buckets.backups[1] \in SUBSET Mark
  BY BucketFields DEF PrepareAdopt, At, Created
<1> QED BY <1>1, BootedTyped DEF PrepareAdopt, BoxType

\* Setup leaves its mark.
LEMMA PrepareSetupTypes == ASSUME Typed, PrepareSetup PROVE box' \in BoxType /\ seen' \in SeenType
<1>1. seen.setups + 1 \in Nat
  BY SeenFields
<1>2. seen' \in SeenType
  BY <1>1 DEF Typed, PrepareSetup, SeenType
<1>3. box' \in BoxType
  BY BootedTyped, MarksTyped DEF PrepareSetup, BoxType
<1> QED BY <1>2, <1>3

\* The backup of the setup.
LEMMA PrepareBackupTypes == ASSUME Typed, PrepareBackup PROVE call' \in CallType
<1>1. Len(buckets'.backups) \in Nat
  BY Appends, Booteds, BucketFields DEF PrepareBackup
<1> QED BY <1>1 DEF Typed, PrepareBackup, CallType, Pc

\* The base is a workspace.
LEMMA PrepareConnectTypes == ASSUME Typed, PrepareConnect PROVE store' \in StoreType
<1>1. call.workspace \in Nat /\ session.fork \in BOOLEAN
  BY DEF Typed, CallType, SessionType
<1> QED BY <1>1 DEF Typed, PrepareConnect, StoreType

\* The row of the sandbox that was set up.
LEMMA PrepareTailTypes == ASSUME Typed, PrepareTail PROVE call' \in CallType
<1>1. CASE store.sandbox # {}
  BY <1>1, ReturnTyped DEF PrepareTail
<1>2. CASE store.sandbox = {}
  <2>1. [workspace |-> store.base, provisioned |-> store.inherited] \in RowType
    BY DEF Typed, StoreType, RowType
  <2>2. PICK r \in RowType : call' = [call EXCEPT !.pc = "mark", !.row = {r}, !.next = "return"]
    BY <1>2, <2>1, Zenon DEF PrepareTail, Remember
  <2> QED BY <2>2 DEF Typed, CallType, Pc
<1> QED BY <1>1, <1>2

\* A call that applies uploads starts after the last one applied.
LEMMA UploadsCallTypes == ASSUME Typed, UploadCommit \/ FilesListed PROVE call' \in CallType
<1>1. Take("upload", "apply") \in CallType /\ Take("files", "apply") \in CallType
  BY NoCallTyped, SessionFields DEF Take, CallType, Op, Pc
<1>2. store.applied \in 0..MaxUpload
  BY StoreFields
<1> QED BY <1>1, <1>2 DEF UploadCommit, FilesListed, CallType

\* The journal grows by a row.
LEMMA UploadCommitTypes == ASSUME Typed, UploadCommit PROVE store' \in StoreType
<1>1. store.fileVersion + 1 \in 0..MaxUpload
  BY StoreFields, HarnessAssumption DEF UploadCommit
<1> QED BY <1>1 DEF Typed, UploadCommit, StoreType

\* The next upload of the journal.
LEMMA ApplyUploadTypes ==
  ASSUME Typed, ApplyUpload
  PROVE  box' \in BoxType /\ call' \in CallType /\ store' \in StoreType /\ seen' \in SeenType
<1>1. call.after + 1 \in 1..MaxUpload /\ call.after + 1 \in 0..MaxUpload
  BY StoreFields, CallFields, HarnessAssumption DEF ApplyUpload
<1>2. box' \in BoxType
  BY <1>1, BootedTyped, MarksTyped DEF ApplyUpload, BoxType
<1>3. call' \in CallType
  BY <1>1 DEF Typed, ApplyUpload, CallType
<1>4. store' \in StoreType
  BY <1>1 DEF Typed, ApplyUpload, StoreType
<1>5. seen' \in SeenType
  BY NoticedTyped DEF Typed, ApplyUpload
<1> QED BY <1>2, <1>3, <1>4, <1>5

\* An upload that is acknowledged is in the journal.
LEMMA AppliedUploadsTypes == ASSUME Typed, AppliedUploads PROVE seen' \in SeenType
<1>1. CASE UNCHANGED seen
  BY <1>1 DEF Typed
<1>2. CASE seen' = [seen EXCEPT !.acked = @ \cup {store.fileVersion}]
  BY <1>2, StoreFields DEF Typed, SeenType
<1> QED BY <1>1, <1>2, Zenon DEF AppliedUploads

\* The marker names a workspace.
LEMMA RememberMarkTypes == ASSUME Typed, Named, RememberMark PROVE box' \in BoxType
<1>1. PICK row \in call.row : box' = [Booted EXCEPT !.marker = {row.workspace}]
  BY DEF RememberMark
<1>2. row.workspace \in Nat
  BY CallFields, Rows
<1> QED BY <1>1, <1>2, BootedTyped DEF BoxType

\* The row that is written.
LEMMA RememberRowTypes == ASSUME Typed, RememberRow PROVE store' \in StoreType
<1>1. call.row \in SUBSET RowType
  BY CallFields
<1> QED BY <1>1 DEF Typed, RememberRow, StoreType

\* A step that fails frees the permit.
LEMMA StepFailsTypes ==
  ASSUME Typed, StepFails
  PROVE  call' \in CallType /\ session' \in SessionType
<1>1. CASE call.op = "prepare" /\ session.phase \in {"creating", "ended"}
  <2>1. call' = NoCall /\ session' = [session EXCEPT !.phase = "failed"]
    BY <1>1, Zenon DEF StepFails
  <2> QED BY <2>1, NoCallTyped DEF Typed, SessionType
<1>2. CASE ~(call.op = "prepare" /\ session.phase \in {"creating", "ended"})
  <2>1. Throw
    BY <1>2, Zenon DEF StepFails, Throw
  <2> QED BY <2>1, ThrowTyped
<1> QED BY <1>1, <1>2

\* A tool call is of the job's turn.
LEMMA ToolArrivesTypes ==
  ASSUME Typed, ToolArrives
  PROVE  tool' \in SUBSET [turn : 0..MaxTurn, by : 0..MaxTurn]
<1>1. [turn |-> store.assignment.turn, by |-> job.turn] \in [turn : 0..MaxTurn, by : 0..MaxTurn]
  BY StoreFields, JobFields
<1> QED BY <1>1, Zenon DEF ToolArrives

\* A tool call leaves the work of its turn.
LEMMA ToolRunsTypes ==
  ASSUME Typed, Dispatched, ToolRuns
  PROVE  box' \in BoxType /\ seen' \in SeenType
<1>1. PICK t \in tool : /\ box' = [Booted EXCEPT !.files = @ \cup {Work(t.by)}]
                        /\ seen' = [Noticed EXCEPT !.wrote = @ \cup {t.by}]
  BY DEF ToolRuns
<1>2. t.by \in Turn
  BY ToolFields DEF Dispatched, Turn
<1>3. box' \in BoxType
  BY <1>1, <1>2, BootedTyped, MarksTyped DEF BoxType
<1>4. seen' \in SeenType
  BY <1>1, <1>2, NoticedTyped DEF SeenType
<1> QED BY <1>3, <1>4

\* The socket is of the job's turn.
LEMMA SocketOpensTypes == ASSUME Typed, SocketOpens PROVE box' \in BoxType
  BY BootedTyped, JobFields DEF SocketOpens, BoxType

\* The socket leaves the work of the job's turn.
LEMMA SocketWritesTypes ==
  ASSUME Typed, Dispatched, SocketWrites
  PROVE  box' \in BoxType /\ seen' \in SeenType
<1>1. job.turn \in Turn
  BY JobFields DEF SocketWrites, Dispatched, Turn
<1>2. box' \in BoxType
  BY <1>1, MarksTyped DEF Typed, SocketWrites, BoxType
<1>3. seen' \in SeenType
  BY <1>1 DEF Typed, SocketWrites, SeenType
<1> QED BY <1>2, <1>3

\* The turns stay within their bound.
LEMMA NextTurnTypes == ASSUME Typed, NextTurn PROVE session' \in SessionType
<1>1. session.turn + 1 \in 0..MaxTurn
  BY SessionFields, HarnessAssumption DEF NextTurn
<1> QED BY <1>1 DEF Typed, NextTurn, SessionType

\* The row that says the hook ran.
LEMMA StartHookTypes == ASSUME Typed, Named, StartHook PROVE call' \in CallType
<1>1. previousVersion(call.ck) \in 0..MaxUpload /\ previousWorkspace(call.ck) \in Nat
  BY Previous, CallFields, Checkpoints, StoreFields, HarnessAssumption DEF Named
<1>2. [workspace |-> previousWorkspace(call.ck), provisioned |-> TRUE] \in RowType
  BY <1>1 DEF RowType
<1>3. PICK r \in RowType, v \in 0..MaxUpload : call' = [call EXCEPT !.pc = "mark",
          !.next = "apply", !.after = v, !.row = {r}]
  BY <1>1, <1>2, Zenon DEF StartHook
<1> QED BY <1>3 DEF Typed, CallType, Pc

\* The object's rows keep their types.
LEMMA StoreNext == ASSUME Typed, Coupled, Next PROVE (store \in StoreType)'
<1>1. CASE StartRetried \/ StartReuse \/ StartStopBox \/ StartRestore \/ StartProvisioned
           \/ StartHook \/ StartPost \/ SnapshotCommitted \/ SnapshotNative \/ SnapshotBackup
           \/ SnapshotUpload \/ StopSuperseded \/ StopUnassigned \/ StopLease \/ StopStopBox
           \/ ReleaseRetireBox
  BY <1>1
    DEF Typed, StartRetried, StartReuse, StartStopBox, StartRestore, StartProvisioned, StartHook,
        StartPost, SnapshotCommitted, SnapshotNative, SnapshotBackup, SnapshotUpload,
        StopSuperseded, StopUnassigned, StopLease, StopStopBox, ReleaseRetireBox
<1>2. CASE StartAssigned
  BY <1>2, StartAssignedTypes
<1>3. CASE StartForget \/ SnapshotUnmarked \/ StopForget \/ ReleaseRetire \/ PrepareReserve
           \/ StepFails \/ SocketOpens \/ SocketWrites \/ JobEnds \/ NextTurn \/ Poll \/ GiveUp
           \/ SealAnyway \/ SealUnavailable \/ Delete
  BY <1>3 DEF Typed, StartForget, StoreType, SnapshotUnmarked, StopForget, StepFails, SocketOpens,
         SocketWrites, JobEnds, NextTurn, Poll, GiveUp, SealAnyway, SealUnavailable, Delete,
         ReleaseRetire, PrepareReserve
<1>4. CASE StartDispatch
  BY <1>4 DEF Typed, StartDispatch, StoreType
<1>5. CASE SnapshotManifest
  BY <1>5, SnapshotManifestTypes
<1>6. CASE SnapshotCommit
  BY <1>6, SnapshotCommitTypes
<1>7. CASE StopRevoke
  BY <1>7 DEF Typed, StopRevoke, StoreType
<1>8. CASE ReleaseRevoke
  BY <1>8 DEF Typed, ReleaseRevoke, StoreType
<1>9. CASE PrepareAdopt \/ PrepareSetup \/ PrepareBackup \/ PrepareTail \/ PrepareRetried
           \/ PrepareIndeterminate \/ FilesListed \/ AppliedUploads \/ RememberMark \/ Evict
           \/ Abandon \/ LoseBox \/ LoseHarness \/ ToolArrives \/ ToolRuns \/ ToolRefused
  BY <1>9 DEF Typed, PrepareAdopt, PrepareSetup, PrepareBackup, PrepareTail, PrepareRetried,
         PrepareIndeterminate, FilesListed, AppliedUploads, RememberMark, Evict, Abandon,
         LoseBox, LoseHarness, ToolArrives, ToolRuns, ToolRefused
<1>10. CASE PrepareConnect
  BY <1>10, PrepareConnectTypes
<1>11. CASE UploadCommit
  BY <1>11, UploadCommitTypes
<1>12. CASE ApplyUpload
  BY <1>12, ApplyUploadTypes
<1>13. CASE RememberRow
  BY <1>13, RememberRowTypes
<1>14. CASE CodeUncertain
  BY <1>14 DEF Typed, CodeUncertain, StoreType
<1> QED BY <1>1, <1>2, <1>3, <1>4, <1>5, <1>6, <1>7, <1>8, <1>9, <1>10, <1>11, <1>12, <1>13,
           <1>14
    DEF Next, Start, Snapshot, Stop, Release, Environment, Prepare, Failure, Job, Session

\* The sandbox keeps its type.
LEMMA BoxNext == ASSUME Typed, Named, Dispatched, Created, Next PROVE (box \in BoxType)'
<1>1. CASE StartRetried \/ StartAssigned \/ StartReuse \/ StartForget \/ StartProvisioned
           \/ StartDispatch \/ StartPost \/ SnapshotCommitted \/ SnapshotNative
           \/ SnapshotUnmarked \/ SnapshotUpload \/ SnapshotCommit \/ StopSuperseded
           \/ StopUnassigned \/ StopRevoke \/ StopLease
  BY <1>1 DEF Typed, StartRetried, StartAssigned, StartReuse, StartForget, StartProvisioned,
         StartDispatch, StartPost, SnapshotCommitted, SnapshotNative, SnapshotUnmarked,
         SnapshotUpload, SnapshotCommit, StopSuperseded, StopUnassigned, StopRevoke, StopLease
<1>2. CASE StartStopBox \/ StopStopBox \/ ReleaseRetireBox \/ LoseBox \/ ToolArrives
           \/ ToolRefused \/ CodeUncertain \/ JobEnds \/ NextTurn \/ Poll \/ GiveUp \/ SealAnyway
           \/ SealUnavailable \/ Delete
  BY <1>2, OffTyped
    DEF Typed, StartStopBox, StopBox, BoxType, StopStopBox, CodeUncertain, Delete, ToolArrives,
        ToolRefused, JobEnds, NextTurn, Poll, GiveUp, SealAnyway, SealUnavailable,
        ReleaseRetireBox, LoseBox
<1>3. CASE StartRestore
  BY <1>3, StartRestoreTypesBox
<1>4. CASE StartHook \/ SnapshotBackup \/ SnapshotManifest \/ PrepareBackup
  BY <1>4, BootedTyped, MarksTyped
    DEF Typed, StartHook, BoxType, SnapshotBackup, SnapshotManifest, PrepareBackup
<1>5. CASE StopForget \/ ReleaseRevoke \/ ReleaseRetire \/ PrepareReserve \/ PrepareConnect
           \/ PrepareTail \/ PrepareRetried \/ PrepareIndeterminate \/ UploadCommit
           \/ FilesListed \/ AppliedUploads \/ RememberRow \/ StepFails \/ Evict \/ Abandon
           \/ LoseHarness
  BY <1>5 DEF Typed, StopForget, ReleaseRevoke, ReleaseRetire, PrepareReserve, PrepareConnect,
         PrepareTail, PrepareRetried, PrepareIndeterminate, UploadCommit, FilesListed,
         AppliedUploads, RememberRow, StepFails, Evict, Abandon, LoseHarness
<1>6. CASE PrepareAdopt
  BY <1>6, PrepareAdoptTypes
<1>7. CASE PrepareSetup
  BY <1>7, PrepareSetupTypes
<1>8. CASE ApplyUpload
  BY <1>8, ApplyUploadTypes
<1>9. CASE RememberMark
  BY <1>9, RememberMarkTypes
<1>10. CASE ToolRuns
  BY <1>10, ToolRunsTypes
<1>11. CASE SocketOpens
  BY <1>11, SocketOpensTypes
<1>12. CASE SocketWrites
  BY <1>12, SocketWritesTypes
<1> QED BY <1>1, <1>2, <1>3, <1>4, <1>5, <1>6, <1>7, <1>8, <1>9, <1>10, <1>11, <1>12
    DEF Next, Start, Snapshot, Stop, Release, Environment, Prepare, Failure, Job, Session

\* The job keeps its type.
LEMMA JobNext == ASSUME Typed, Next PROVE (job \in JobType)'
<1>1. CASE StartRetried \/ StartAssigned \/ StartReuse \/ StartForget \/ StartStopBox
           \/ StartRestore \/ StartProvisioned \/ StartHook \/ StartDispatch \/ SnapshotCommitted
           \/ SnapshotNative \/ SnapshotBackup \/ SnapshotUnmarked \/ SnapshotManifest
           \/ SnapshotUpload \/ SnapshotCommit
  BY <1>1
    DEF Typed, StartRetried, StartAssigned, StartReuse, StartForget, StartStopBox, StartRestore,
        StartProvisioned, StartHook, StartDispatch, SnapshotCommitted, SnapshotNative,
        SnapshotBackup, SnapshotUnmarked, SnapshotManifest, SnapshotUpload, SnapshotCommit
<1>2. CASE StartPost
  BY <1>2, StartPostTypesJob
<1>3. CASE StopSuperseded \/ StopUnassigned \/ StopRevoke \/ StopForget \/ StopStopBox
           \/ ReleaseRevoke \/ ReleaseRetireBox \/ PrepareReserve \/ PrepareAdopt \/ PrepareSetup
           \/ PrepareBackup \/ PrepareConnect \/ PrepareTail \/ PrepareRetried
           \/ PrepareIndeterminate \/ UploadCommit
  BY <1>3
    DEF Typed, StopSuperseded, StopUnassigned, StopRevoke, StopForget, StopStopBox,
        ReleaseRevoke, ReleaseRetireBox, PrepareReserve, PrepareAdopt, PrepareSetup,
        PrepareBackup, PrepareConnect, PrepareTail, PrepareRetried, PrepareIndeterminate,
        UploadCommit
<1>4. CASE StopLease \/ ReleaseRetire \/ LoseHarness \/ CodeUncertain \/ JobEnds \/ GiveUp
           \/ SealAnyway \/ SealUnavailable \/ Delete
  BY <1>4, NoJobTyped
    DEF Typed, LoseHarness, JobType, GiveUp, SealAnyway, SealUnavailable, Delete, CodeUncertain,
        JobEnds, StopLease, ReleaseRetire
<1>5. CASE FilesListed \/ ApplyUpload \/ AppliedUploads \/ RememberMark \/ RememberRow
           \/ StepFails \/ Evict \/ Abandon \/ LoseBox \/ ToolArrives \/ ToolRuns \/ ToolRefused
           \/ SocketOpens \/ SocketWrites \/ NextTurn \/ Poll
  BY <1>5
    DEF Typed, FilesListed, ApplyUpload, AppliedUploads, RememberMark, RememberRow, StepFails,
        Evict, Abandon, LoseBox, ToolArrives, ToolRuns, ToolRefused, SocketOpens, SocketWrites,
        NextTurn, Poll
<1> QED BY <1>1, <1>2, <1>3, <1>4, <1>5
    DEF Next, Start, Snapshot, Stop, Release, Environment, Prepare, Failure, Job, Session

\* The call that has the permit keeps its type.
LEMMA CallNext == ASSUME Typed, Named, Coupled, Next PROVE (call \in CallType)'
<1>1. CASE StartRetried \/ SnapshotCommitted \/ SnapshotUpload \/ StopSuperseded
           \/ StopUnassigned \/ PrepareIndeterminate \/ LoseBox \/ LoseHarness \/ ToolArrives
           \/ ToolRuns \/ ToolRefused \/ SocketOpens \/ SocketWrites \/ CodeUncertain \/ JobEnds
           \/ NextTurn \/ Poll \/ GiveUp \/ SealAnyway \/ SealUnavailable \/ Delete
  BY <1>1
    DEF Typed, Poll, GiveUp, SealAnyway, SealUnavailable, Delete, StartRetried,
        SnapshotCommitted, SnapshotUpload, StopSuperseded, StopUnassigned, PrepareIndeterminate,
        LoseBox, LoseHarness, ToolArrives, ToolRuns, ToolRefused, SocketOpens, SocketWrites,
        CodeUncertain, JobEnds, NextTurn
<1>2. CASE StartAssigned
  BY <1>2, TakeTyped DEF StartAssigned, Pc, Op
<1>3. CASE StartReuse \/ StartForget \/ StartStopBox \/ StartDispatch \/ SnapshotUnmarked
           \/ StopLease \/ StopForget \/ ReleaseRetire \/ PrepareSetup \/ PrepareConnect
           \/ RememberMark
  <2>1. PICK pc \in Pc : Goto(pc)
    BY <1>3
      DEF Pc, PrepareConnect, PrepareSetup, RememberMark, StartReuse, StartForget,
          StartStopBox, StartDispatch, SnapshotUnmarked, StopLease, StopForget, ReleaseRetire
  <2> QED BY <2>1, GotoTyped
<1>4. CASE StartRestore
  BY <1>4, StartRestoreTypesCall
<1>5. CASE StartProvisioned
  BY <1>5, StartProvisionedTypes
<1>6. CASE StartHook
  BY <1>6, StartHookTypes
<1>7. CASE StartPost
  BY <1>7, ReturnTyped, ThrowTyped DEF StartPost
<1>8. CASE SnapshotNative
  BY <1>8, TakeTyped DEF SnapshotNative, Pc, Op
<1>9. CASE SnapshotBackup
  BY <1>9, SnapshotBackupTypes
<1>10. CASE SnapshotManifest
  BY <1>10, SnapshotManifestTypes
<1>11. CASE SnapshotCommit
  BY <1>11, SnapshotCommitTypes
<1>12. CASE StopRevoke
  BY <1>12, TakeTyped DEF StopRevoke, Pc, Op
<1>13. CASE StopStopBox \/ ReleaseRevoke \/ ReleaseRetireBox \/ Abandon
  <2>1. CASE StopStopBox \/ ReleaseRetireBox
    BY <2>1, ReturnTyped DEF StopStopBox, ReleaseRetireBox
  <2>2. CASE ReleaseRevoke
    BY <2>2, TakeTyped DEF ReleaseRevoke, Pc, Op
  <2>3. CASE Abandon
    BY <2>3 DEF Typed, Abandon, CallType
  <2> QED BY <1>13, <2>1, <2>2, <2>3
<1>14. CASE PrepareReserve
  BY <1>14, TakeTyped DEF PrepareReserve, Pc, Op
<1>15. CASE PrepareAdopt
  BY <1>15, Booteds DEF Typed, PrepareAdopt, CallType, Pc, Op
<1>16. CASE PrepareBackup
  BY <1>16, PrepareBackupTypes
<1>17. CASE PrepareTail
  BY <1>17, PrepareTailTypes
<1>18. CASE PrepareRetried
  BY <1>18, TakeTyped DEF PrepareRetried, Pc, Op
<1>19. CASE UploadCommit \/ FilesListed
  BY <1>19, UploadsCallTypes
<1>20. CASE ApplyUpload
  BY <1>20, ApplyUploadTypes
<1>21. CASE AppliedUploads \/ RememberRow
  <2>1. CASE AppliedUploads
    <3>1. Goto("dispatch") \/ Return({})
      BY <2>1 DEF AppliedUploads
    <3> QED BY <3>1, GotoTyped, ReturnTyped DEF Pc
  <2>2. CASE RememberRow
    <3>1. Goto(call.next) \/ Return({})
      BY <2>2 DEF RememberRow
    <3>2. call.next \in Pc \/ call.next = "return"
      BY DEF Typed, CallType, Pc
    <3>3. CASE call.next = "return"
      BY <2>2, <3>3, ReturnTyped DEF RememberRow
    <3> QED BY <3>1, <3>2, <3>3, GotoTyped, ReturnTyped
  <2> QED BY <1>21, <2>1, <2>2
<1>22. CASE StepFails
  BY <1>22, StepFailsTypes
<1>23. CASE Evict
  BY <1>23, ThrowTyped DEF Evict
<1> QED BY <1>1, <1>2, <1>3, <1>4, <1>5, <1>6, <1>7, <1>8, <1>9, <1>10, <1>11, <1>12, <1>13,
           <1>14, <1>15, <1>16, <1>17, <1>18, <1>19, <1>20, <1>21, <1>22, <1>23
    DEF Next, Start, Snapshot, Stop, Release, Environment, Prepare, Failure, Job, Session

\* The session keeps its type.
LEMMA SessionNext == ASSUME Typed, Coupled, Next PROVE (session \in SessionType)'
<1>1. CASE StartRetried \/ StartAssigned \/ SnapshotNative \/ StopSuperseded \/ StopUnassigned
           \/ StopRevoke \/ StopStopBox \/ ReleaseRevoke \/ PrepareTail \/ PrepareIndeterminate
           \/ AppliedUploads \/ RememberRow \/ Abandon \/ Poll \/ GiveUp \/ SealAnyway
  <2>0. session \in SessionType
    BY DEF Typed
  <2>1. CASE StopStopBox \/ PrepareTail \/ AppliedUploads \/ RememberRow
    <3>1. Return({}) \/ session' = session
      BY <2>1 DEF StopStopBox, PrepareTail, AppliedUploads, RememberRow
    <3> QED BY <2>0, <3>1, ReturnTyped
  <2>2. CASE StartRetried \/ StopSuperseded \/ PrepareIndeterminate \/ GiveUp \/ SealAnyway
    <3>1. \E phase \in {"running", "ended", "failed", "stopping"} :
            session' = [session EXCEPT !.phase = phase]
      BY <2>2 DEF StartRetried, StopSuperseded, PrepareIndeterminate, GiveUp, SealAnyway
    <3> QED BY ONLY <2>0, <3>1 DEF SessionType
  <2>3. CASE StartAssigned \/ SnapshotNative \/ StopRevoke \/ ReleaseRevoke \/ Abandon
    <3>1. \E waiting \in BOOLEAN : session' = [session EXCEPT !.waiting = waiting]
      BY <2>3 DEF StartAssigned, SnapshotNative, StopRevoke, ReleaseRevoke, Abandon
    <3> QED BY ONLY <2>0, <3>1 DEF SessionType
  <2>4. CASE StopUnassigned \/ Poll
    <3>1. \/ session' = [session EXCEPT !.stopFailed = TRUE]
          \/ \E reported \in BOOLEAN, phase \in {"checkpointing", "stopping"} :
               session' = [session EXCEPT !.reported = reported, !.phase = phase]
      BY <2>4 DEF StopUnassigned, Poll
    <3> QED BY ONLY <2>0, <3>1 DEF SessionType
  <2> QED BY <1>1, <2>1, <2>2, <2>3, <2>4
<1>2. CASE StartReuse \/ StartForget \/ StartStopBox \/ StartRestore \/ StartProvisioned
           \/ StartHook \/ StartDispatch \/ SnapshotBackup \/ SnapshotUnmarked
           \/ SnapshotManifest \/ SnapshotUpload \/ StopLease \/ StopForget \/ ReleaseRetire
           \/ PrepareReserve \/ PrepareAdopt
  BY <1>2
    DEF Typed, StartReuse, StartForget, StartStopBox, StartRestore, StartProvisioned, StartHook,
        StartDispatch, SnapshotBackup, SnapshotUnmarked, SnapshotManifest, SnapshotUpload,
        StopLease, StopForget, ReleaseRetire, PrepareReserve, PrepareAdopt
<1>3. CASE StartPost \/ ReleaseRetireBox \/ Evict \/ JobEnds \/ SealUnavailable \/ Delete
  BY <1>3, ReturnTyped, ThrowTyped, OffTyped
    DEF Typed, StartPost, SessionType, ReleaseRetireBox, SealUnavailable, Delete, Evict, JobEnds
<1>4. CASE SnapshotCommitted
  BY <1>4, SnapshotCommittedTypes
<1>5. CASE SnapshotCommit
  BY <1>5, SnapshotCommitTypes
<1>6. CASE PrepareSetup \/ PrepareBackup \/ PrepareConnect \/ PrepareRetried \/ UploadCommit
           \/ FilesListed \/ ApplyUpload \/ RememberMark \/ LoseBox \/ LoseHarness \/ ToolArrives
           \/ ToolRuns \/ ToolRefused \/ SocketOpens \/ SocketWrites \/ CodeUncertain
  BY <1>6 DEF Typed, PrepareSetup, PrepareBackup, PrepareConnect, PrepareRetried, UploadCommit,
         FilesListed, ApplyUpload, RememberMark, LoseBox, LoseHarness, ToolArrives, ToolRuns,
         ToolRefused, SocketOpens, SocketWrites, CodeUncertain
<1>7. CASE StepFails
  BY <1>7, StepFailsTypes
<1>8. CASE NextTurn
  BY <1>8, NextTurnTypes
<1> QED BY <1>1, <1>2, <1>3, <1>4, <1>5, <1>6, <1>7, <1>8
    DEF Next, Start, Snapshot, Stop, Release, Environment, Prepare, Failure, Job, Session

\* The history keeps its type.
LEMMA SeenNext == ASSUME Typed, Dispatched, Next PROVE (seen \in SeenType)'
<1>1. CASE StartRetried \/ StartAssigned \/ StartReuse \/ StartForget \/ StartStopBox
           \/ StartRestore \/ StartProvisioned \/ StartDispatch \/ SnapshotCommitted
           \/ SnapshotNative \/ SnapshotUnmarked \/ SnapshotUpload \/ SnapshotCommit
           \/ StopSuperseded \/ StopUnassigned \/ StopRevoke
  BY <1>1
    DEF Typed, StartRetried, StartAssigned, StartReuse, StartForget, StartStopBox, StartRestore,
        StartProvisioned, StartDispatch, SnapshotCommitted, SnapshotNative, SnapshotUnmarked,
        SnapshotUpload, SnapshotCommit, StopSuperseded, StopUnassigned, StopRevoke
<1>2. CASE StartHook \/ SnapshotBackup \/ SnapshotManifest \/ StopLease \/ PrepareBackup \/ Poll
           \/ GiveUp \/ SealAnyway \/ SealUnavailable \/ Delete
  BY <1>2, NoticedTyped
    DEF Typed, StopLease, SeenType, SealAnyway, SealUnavailable, Poll, GiveUp, Delete, StartHook,
        SnapshotBackup, SnapshotManifest, PrepareBackup
<1>3. CASE StartPost
  BY <1>3, StartPostTypesSeen
<1>4. CASE StopForget \/ StopStopBox \/ ReleaseRevoke \/ ReleaseRetire \/ ReleaseRetireBox
           \/ PrepareReserve \/ PrepareAdopt \/ PrepareConnect \/ PrepareTail \/ PrepareRetried
           \/ PrepareIndeterminate \/ UploadCommit \/ FilesListed \/ RememberRow \/ StepFails
           \/ Evict
  BY <1>4 DEF Typed, StopForget, StopStopBox, ReleaseRevoke, ReleaseRetire, ReleaseRetireBox,
         PrepareReserve, PrepareAdopt, PrepareConnect, PrepareTail, PrepareRetried,
         PrepareIndeterminate, UploadCommit, FilesListed, RememberRow, StepFails, Evict
<1>5. CASE PrepareSetup
  BY <1>5, PrepareSetupTypes
<1>6. CASE ApplyUpload
  BY <1>6, ApplyUploadTypes
<1>7. CASE AppliedUploads
  BY <1>7, AppliedUploadsTypes
<1>8. CASE RememberMark \/ Abandon \/ LoseBox \/ LoseHarness \/ ToolArrives \/ ToolRefused
           \/ SocketOpens \/ CodeUncertain \/ JobEnds \/ NextTurn
  BY <1>8, NoticedTyped
    DEF Typed, Abandon, LoseBox, LoseHarness, ToolArrives, ToolRefused, CodeUncertain, JobEnds,
        NextTurn, RememberMark, SeenType, SocketOpens
<1>9. CASE ToolRuns
  BY <1>9, ToolRunsTypes
<1>10. CASE SocketWrites
  BY <1>10, SocketWritesTypes
<1> QED BY <1>1, <1>2, <1>3, <1>4, <1>5, <1>6, <1>7, <1>8, <1>9, <1>10
    DEF Next, Start, Snapshot, Stop, Release, Environment, Prepare, Failure, Job, Session

\* The tool calls keep their type.
LEMMA ToolNext == ASSUME Typed, Next PROVE (tool \in SUBSET [turn : 0..MaxTurn, by : 0..MaxTurn])'
<1>1. CASE StartRetried \/ StartAssigned \/ StartReuse \/ StartForget \/ StartStopBox
           \/ StartRestore \/ StartProvisioned \/ StartHook \/ StartDispatch \/ StartPost
           \/ SnapshotCommitted \/ SnapshotNative \/ SnapshotBackup \/ SnapshotUnmarked
           \/ SnapshotManifest \/ SnapshotUpload
  BY <1>1
    DEF Typed, StartRetried, StartAssigned, StartReuse, StartForget, StartStopBox, StartRestore,
        StartProvisioned, StartHook, StartDispatch, StartPost, SnapshotCommitted, SnapshotNative,
        SnapshotBackup, SnapshotUnmarked, SnapshotManifest, SnapshotUpload
<1>2. CASE SnapshotCommit \/ StopSuperseded \/ StopUnassigned \/ StopRevoke \/ StopLease
           \/ StopForget \/ StopStopBox \/ ReleaseRevoke \/ ReleaseRetire \/ ReleaseRetireBox
           \/ PrepareReserve \/ PrepareAdopt \/ PrepareSetup \/ PrepareBackup \/ PrepareConnect
           \/ PrepareTail
  BY <1>2
    DEF Typed, SnapshotCommit, StopSuperseded, StopUnassigned, StopRevoke, StopLease, StopForget,
        StopStopBox, ReleaseRevoke, ReleaseRetire, ReleaseRetireBox, PrepareReserve,
        PrepareAdopt, PrepareSetup, PrepareBackup, PrepareConnect, PrepareTail
<1>3. CASE PrepareRetried \/ PrepareIndeterminate \/ UploadCommit \/ FilesListed \/ ApplyUpload
           \/ AppliedUploads \/ RememberMark \/ RememberRow \/ StepFails \/ Abandon \/ LoseBox
           \/ LoseHarness \/ SocketOpens \/ SocketWrites \/ CodeUncertain \/ JobEnds
  BY <1>3 DEF Typed, PrepareRetried, PrepareIndeterminate, UploadCommit, FilesListed, ApplyUpload,
         AppliedUploads, RememberMark, RememberRow, StepFails, Abandon, LoseBox, LoseHarness,
         SocketOpens, SocketWrites, CodeUncertain, JobEnds
<1>4. CASE Evict \/ ToolRuns \/ ToolRefused \/ NextTurn \/ Poll \/ GiveUp \/ SealAnyway
           \/ SealUnavailable \/ Delete
  BY <1>4
    DEF Typed, Evict, ToolRuns, NextTurn, Poll, GiveUp, SealAnyway, ToolRefused, SealUnavailable,
        Delete
<1>5. CASE ToolArrives
  BY <1>5, ToolArrivesTypes
<1> QED BY <1>1, <1>2, <1>3, <1>4, <1>5
    DEF Next, Start, Snapshot, Stop, Release, Environment, Prepare, Failure, Job, Session

\* The backups and the artifacts keep their types.
LEMMA BucketsNext ==
  ASSUME Typed, Coupled, Next
  PROVE  (buckets \in [backups : Seq(SUBSET Mark), artifacts : SUBSET (Turn \X Mark)])'
<1>0. UNCHANGED buckets
        => (buckets \in [backups : Seq(SUBSET Mark), artifacts : SUBSET (Turn \X Mark)])'
  BY DEF Typed
<1>1. CASE StartRetried \/ StartAssigned \/ StartReuse
  BY <1>1, <1>0 DEF StartRetried, StartAssigned, StartReuse
<1>2. CASE StartForget \/ StartStopBox \/ StartRestore
  BY <1>2, <1>0 DEF StartForget, StartStopBox, StartRestore
<1>3. CASE StartProvisioned \/ StartHook \/ StartDispatch \/ StartPost \/ SnapshotCommitted
           \/ SnapshotNative \/ SnapshotUnmarked \/ SnapshotManifest \/ SnapshotCommit
           \/ StopSuperseded
  BY <1>3, <1>0
    DEF StartProvisioned, StartHook, StartDispatch, StartPost, SnapshotCommitted, SnapshotNative,
        SnapshotUnmarked, SnapshotManifest, SnapshotCommit, StopSuperseded
<1>4. CASE SnapshotBackup
  BY <1>4, Backups, Booteds, BackupTyped
<1>5. CASE SnapshotUpload
  BY <1>5, SnapshotUploadTypes
<1>6. CASE StopUnassigned \/ StopRevoke \/ StopLease
  BY <1>6, <1>0 DEF StopUnassigned, StopRevoke, StopLease
<1>7. CASE StopForget \/ StopStopBox \/ ReleaseRevoke
  BY <1>7, <1>0 DEF StopForget, StopStopBox, ReleaseRevoke
<1>8. CASE ReleaseRetire \/ ReleaseRetireBox \/ PrepareReserve \/ PrepareAdopt \/ PrepareSetup
           \/ PrepareConnect \/ PrepareTail \/ PrepareRetried \/ PrepareIndeterminate
           \/ UploadCommit
  BY <1>8, <1>0
    DEF ReleaseRetire, ReleaseRetireBox, PrepareReserve, PrepareAdopt, PrepareSetup,
        PrepareConnect, PrepareTail, PrepareRetried, PrepareIndeterminate, UploadCommit
<1>9. CASE PrepareBackup
  BY <1>9, Booteds, BackupTyped DEF PrepareBackup
<1>10. CASE FilesListed \/ ApplyUpload \/ AppliedUploads
  BY <1>10, <1>0 DEF FilesListed, ApplyUpload, AppliedUploads
<1>11. CASE RememberMark \/ RememberRow \/ StepFails
  BY <1>11, <1>0 DEF RememberMark, RememberRow, StepFails
<1>12. CASE Evict \/ Abandon \/ LoseBox \/ LoseHarness \/ ToolArrives \/ ToolRuns \/ ToolRefused
            \/ SocketOpens \/ SocketWrites \/ CodeUncertain
  BY <1>12, <1>0
    DEF Evict, Abandon, LoseBox, LoseHarness, ToolArrives, ToolRuns, ToolRefused, SocketOpens,
        SocketWrites, CodeUncertain
<1>13. CASE JobEnds \/ NextTurn \/ Poll
  BY <1>13, <1>0 DEF JobEnds, NextTurn, Poll
<1>14. CASE GiveUp \/ SealAnyway \/ SealUnavailable \/ Delete
  BY <1>14, <1>0 DEF GiveUp, SealAnyway, SealUnavailable, Delete
<1> QED BY <1>1, <1>2, <1>3, <1>4, <1>5, <1>6, <1>7, <1>8, <1>9, <1>10, <1>11, <1>12, <1>13,
           <1>14
    DEF Next, Start, Snapshot, Stop, Release, Environment, Prepare, Failure, Job, Session

\* The faults stay within their bound.
LEMMA FaultsNext == ASSUME Typed, Next PROVE (faults \in 0..MaxFault)'
<1>1. CASE StartRetried \/ StartAssigned \/ StartReuse \/ StartForget \/ StartDispatch
           \/ StartPost \/ SnapshotCommitted \/ SnapshotNative \/ SnapshotBackup
           \/ SnapshotUnmarked \/ SnapshotManifest \/ SnapshotUpload \/ SnapshotCommit
           \/ StopSuperseded \/ StopUnassigned \/ StopRevoke
  BY <1>1, FaultsTyped
    DEF StartRetried, StartAssigned, StartReuse, StartForget, StartDispatch, StartPost,
        SnapshotCommitted, SnapshotNative, SnapshotBackup, SnapshotUnmarked, SnapshotManifest,
        SnapshotUpload, SnapshotCommit, StopSuperseded, StopUnassigned, StopRevoke
<1>2. CASE StartStopBox \/ StartRestore \/ StartProvisioned \/ StartHook \/ StopLease
           \/ StopForget \/ StopStopBox \/ ReleaseRevoke \/ SocketOpens \/ SocketWrites
           \/ CodeUncertain \/ JobEnds
  BY <1>2, FaultsTyped
    DEF SocketOpens, SocketWrites, CodeUncertain, JobEnds, StopBox, StartStopBox, StartRestore,
        StartProvisioned, StartHook, StopLease, StopForget, StopStopBox, ReleaseRevoke
<1>3. CASE ReleaseRetire \/ ReleaseRetireBox \/ PrepareReserve \/ PrepareAdopt \/ PrepareSetup
           \/ PrepareBackup \/ PrepareConnect \/ PrepareTail \/ PrepareRetried
           \/ PrepareIndeterminate \/ UploadCommit \/ FilesListed \/ ApplyUpload
           \/ AppliedUploads \/ RememberMark \/ RememberRow
  BY <1>3, FaultsTyped
    DEF ReleaseRetire, ReleaseRetireBox, PrepareReserve, PrepareAdopt, PrepareSetup,
        PrepareBackup, PrepareConnect, PrepareTail, PrepareRetried, PrepareIndeterminate,
        UploadCommit, FilesListed, ApplyUpload, AppliedUploads, RememberMark, RememberRow
<1>4. CASE StepFails \/ Evict \/ Abandon \/ LoseBox \/ LoseHarness \/ ToolArrives \/ ToolRuns
           \/ ToolRefused \/ NextTurn \/ Poll \/ GiveUp \/ SealAnyway \/ SealUnavailable
           \/ Delete
  BY <1>4, FaultsTyped
    DEF StepFails, Evict, Abandon, LoseBox, LoseHarness, ToolArrives, ToolRuns, ToolRefused,
        NextTurn, Poll, GiveUp, SealAnyway, SealUnavailable, Delete
<1> QED BY <1>1, <1>2, <1>3, <1>4
    DEF Next, Start, Snapshot, Stop, Release, Environment, Prepare, Failure, Job, Session

\* Every step keeps the types.
LEMMA TypedNext == ASSUME Typed, Named, Coupled, Dispatched, Created, Next PROVE Typed'
  BY StoreNext, BoxNext, JobNext, CallNext, SessionNext, SeenNext, ToolNext, BucketsNext, FaultsNext
  DEF Typed

-----------------------------------------------------------------------------
(***************************************************************************)
(* The call, its caller and the rows they go by.                           *)
(***************************************************************************)

\* The row that is written names a workspace of the bucket.
LEMMA NamedRow == ASSUME Typed, Named, Coupled, RememberRow PROVE Named'
<1>1. Workspace' = Workspace /\ 0 \in Workspace
  BY RowsKept, BucketFields DEF Workspace
<1>2. /\ store'.sandbox = call.row /\ store'.checkpoint = store.checkpoint
             /\ store'.base = store.base
      /\ UNCHANGED box
  BY RowsKept, Domains
<1> QED BY <1>1, <1>2, RowsKept DEF Named, One, Known

\* A step that fails names no workspace.
LEMMA NamedFailure == ASSUME Typed, Named, StepFails PROVE Named'
<1>1. 0 \in Workspace /\ Workspace' = Workspace
  BY Fails, BucketFields DEF Workspace
<1>2. /\ store'.sandbox = store.sandbox /\ store'.checkpoint = store.checkpoint
             /\ store'.base = store.base
      /\ UNCHANGED box
  BY Fails, Domains
<1> QED BY <1>1, <1>2, Fails DEF Named, One, Known, NoCallAfter

\* The checkpoint that is recorded names a workspace of the bucket.
LEMMA NamedCommit == ASSUME Typed, Named, Coupled, SnapshotCommit PROVE Named'
<1>1. PICK k : /\ k.turn = call.turn /\ k.workspace = call.workspace
               /\ store'.checkpoint = [store.checkpoint EXCEPT ![call.turn] = {k}]
               /\ ~call.orphan => session'.ck = {k}
  BY Commits
<1>2. /\ UNCHANGED <<box, buckets>> /\ store'.sandbox = store.sandbox /\ store'.base = store.base
      /\ NoCallAfter /\ (call.orphan => session'.ck = session.ck)
  BY Commits
<1>3. 0 \in Workspace /\ Workspace' = Workspace
  BY <1>2, BucketFields DEF Workspace
<1>4. One({k}) /\ Known({k})
  BY <1>1 DEF Named, One, Known
<1>5. \A t \in Turn : store'.checkpoint[t] \in {{k}, store.checkpoint[t]}
  BY <1>1, StoreFields
<1>6. session'.ck \in {{k}, session.ck}
  BY <1>1, <1>2
<1> QED BY <1>2, <1>3, <1>4, <1>5, <1>6 DEF Named, One, Known, NoCallAfter

\* The end of applyUploads names no workspace.
LEMMA NamedUploads == ASSUME Typed, Named, Coupled, AppliedUploads PROVE Named'
<1>1. /\ UNCHANGED <<store, box, buckets>> /\ session'.ck = session.ck
      /\ call'.row \in {{}, call.row} /\ call'.ck \in {{}, call.ck}
      /\ call'.workspace \in {0, call.workspace}
  BY Applieds
<1>2. 0 \in Workspace /\ Workspace' = Workspace
  BY <1>1, BucketFields DEF Workspace
<1> QED BY <1>1, <1>2 DEF Named, One, Known

\* Every step leaves the optional values one at most, and their workspaces in the bucket.
LEMMA NamedNext == ASSUME Typed, Named, Coupled, Created, Next PROVE Named'
<1>1. CASE StartRetried
  BY <1>1 DEF Named, Known, Workspace, StartRetried
<1>2. CASE StartAssigned
  BY <1>2 DEF Named, One, Known, Workspace, StartAssigned, Take, NoCall
<1>3. CASE StartReuse
  BY <1>3 DEF Named, One, Known, Workspace, StartReuse, Goto
<1>4. CASE StartForget
  BY <1>4 DEF Named, One, Known, Workspace, Goto, StartForget
<1>5. CASE StartStopBox \/ SnapshotBackup \/ ToolRefused \/ SocketOpens
  BY <1>5, Domains, Boots, Backups
    DEF Named, One, Known, Workspace, CallKept, ToolRefused, SocketOpens, StartStopBox, Goto,
        StopBox, Off
<1>6. CASE StartRestore \/ StartHook
  BY <1>6, Domains, Boots, Hooks, Previous, Restores DEF Named, One, Known, Workspace, CallKept
<1>7. CASE StartProvisioned
  BY <1>7 DEF Named, Known, Workspace, StartProvisioned
<1>8. CASE StartDispatch
  BY <1>8 DEF Named, Known, Workspace, StartDispatch, Goto
<1>9. CASE StartPost \/ Evict \/ LoseBox \/ LoseHarness \/ ToolArrives \/ ToolRuns
  BY <1>9, Domains, Boots, Throws, Posts
    DEF Named, One, Known, Workspace, LoseBox, Off, LoseHarness, ToolArrives, ToolRuns, Evict,
        NoCallAfter
<1>10. CASE SnapshotCommitted
  BY <1>10 DEF Named, Known, Workspace, Coupled, SnapshotCommitted
<1>11. CASE SnapshotNative
  BY <1>11 DEF Named, One, Known, Workspace, SnapshotNative, Take, NoCall
<1>12. CASE SnapshotUnmarked
  BY <1>12 DEF Named, One, Known, Workspace, SnapshotUnmarked, Goto
<1>13. CASE SnapshotManifest
  BY <1>13, Boots DEF Named, One, Known, Workspace, SnapshotManifest
<1>14. CASE SnapshotUpload
  BY <1>14 DEF Named, Known, Workspace, SnapshotUpload
<1>15. CASE SnapshotCommit
  BY <1>15, NamedCommit
<1>16. CASE StopSuperseded
  BY <1>16 DEF Named, Known, Workspace, StopSuperseded
<1>17. CASE StopUnassigned
  BY <1>17 DEF Named, Known, Workspace, StopUnassigned
<1>18. CASE StopRevoke
  BY <1>18 DEF Named, One, Known, Workspace, StopRevoke, Take, NoCall
<1>19. CASE StopLease \/ StopForget \/ Abandon \/ SealUnavailable \/ Delete
  BY <1>19, Domains
    DEF Named, One, Known, Workspace, StopLease, Goto, StopForget, Abandon, SealUnavailable,
        Delete
<1>20. CASE StopStopBox \/ ReleaseRetireBox \/ PrepareTail
  BY <1>20, Domains, Answers, Remembers
    DEF Named, One, Known, Workspace, Placed, Free, StopStopBox, At, Returned, NoCallAfter,
        StopBox, Off, ReleaseRetireBox, PrepareTail
<1>21. CASE ReleaseRevoke
  BY <1>21 DEF Named, One, Known, Workspace, ReleaseRevoke, Take, NoCall
<1>22. CASE ReleaseRetire
  BY <1>22 DEF Named, One, Known, Workspace, ReleaseRetire, Goto
<1>23. CASE PrepareReserve
  BY <1>23 DEF Named, One, Known, Workspace, PrepareReserve, Take, NoCall
<1>24. CASE PrepareAdopt
  BY <1>24, Boots DEF Named, One, Known, Workspace, Created, PrepareAdopt
<1>25. CASE PrepareSetup
  BY <1>25, Boots DEF Named, One, Known, Workspace, PrepareSetup, Goto
<1>26. CASE PrepareBackup
  BY <1>26, Boots DEF Named, One, Known, Workspace, PrepareBackup
<1>27. CASE PrepareConnect
  BY <1>27 DEF Named, Known, Workspace, PrepareConnect, Goto
<1>28. CASE PrepareRetried
  BY <1>28 DEF Named, One, Known, Workspace, PrepareRetried, Take, NoCall
<1>29. CASE PrepareIndeterminate
  BY <1>29 DEF Named, Known, Workspace, PrepareIndeterminate
<1>30. CASE UploadCommit
  BY <1>30 DEF Named, One, Known, Workspace, UploadCommit, Take, NoCall
<1>31. CASE FilesListed
  BY <1>31 DEF Named, One, Known, Workspace, FilesListed, Take, NoCall
<1>32. CASE ApplyUpload
  BY <1>32, Boots DEF Named, One, Known, Workspace, ApplyUpload
<1>33. CASE AppliedUploads
  BY <1>33, NamedUploads
<1>34. CASE RememberMark
  BY <1>34 DEF Named, One, Known, Workspace, RememberMark, Goto
<1>35. CASE RememberRow
  BY <1>35, NamedRow
<1>36. CASE StepFails
  BY <1>36, NamedFailure
<1>37. CASE SocketWrites
  BY <1>37 DEF Named, Known, Workspace, SocketWrites
<1>38. CASE CodeUncertain
  BY <1>38, Domains DEF Named, One, Known, Workspace, CodeUncertain, StopBox, Off
<1>39. CASE JobEnds
  BY <1>39 DEF Named, Known, Workspace, JobEnds
<1>40. CASE NextTurn
  BY <1>40 DEF Named, Known, Workspace, NextTurn
<1>41. CASE Poll
  BY <1>41 DEF Named, Known, Workspace, Poll
<1>42. CASE GiveUp
  BY <1>42 DEF Named, Known, Workspace, GiveUp
<1>43. CASE SealAnyway
  BY <1>43, Seals DEF Named, Known, Workspace
<1> QED BY <1>1, <1>2, <1>3, <1>4, <1>5, <1>6, <1>7, <1>8, <1>9, <1>10, <1>11, <1>12, <1>13,
           <1>14, <1>15, <1>16, <1>17, <1>18, <1>19, <1>20, <1>21, <1>22, <1>23, <1>24, <1>25,
           <1>26, <1>27, <1>28, <1>29, <1>30, <1>31, <1>32, <1>33, <1>34, <1>35, <1>36, <1>37,
           <1>38, <1>39, <1>40, <1>41, <1>42, <1>43
    DEF Next, Start, Snapshot, Stop, Release, Environment, Prepare, Failure, Job, Session

\* A snapshot goes on to write its marker.
LEMMA CoupledBackup == ASSUME Typed, Coupled, SnapshotBackup PROVE Coupled'
<1>1. /\ call.op = "checkpoint" /\ call'.op = "checkpoint" /\ call.pc = "backup"
      /\ call'.pc = "mark" /\ call'.next = "publish" /\ call'.row # {}
      /\ call'.turn = call.turn /\ call'.ck = call.ck /\ call'.orphan = call.orphan
      /\ UNCHANGED <<store, session>>
  BY Backups DEF CallKept, At
<1> QED BY <1>1 DEF Coupled, Placed

\* Every step leaves the call with the permit and its caller in agreement.
LEMMA CoupledNext == ASSUME Typed, Coupled, Next PROVE Coupled'
<1>1. CASE StartRetried
  BY <1>1 DEF Coupled, Placed, StartRetried, startAdmission
<1>2. CASE StartAssigned
  BY <1>2 DEF Coupled, Placed, Awaited, PhaseOf, Turn, StartAssigned, Take, NoCall
<1>3. CASE StartReuse \/ StartForget \/ StartDispatch \/ StopSuperseded \/ StopUnassigned
           \/ RememberMark \/ Abandon \/ LoseBox \/ LoseHarness
  BY <1>3, Domains
    DEF Coupled, Placed, StartDispatch, At, Goto, Turn, StopSuperseded, StopUnassigned,
        StartReuse, StartForget, RememberMark, Abandon, LoseBox, LoseHarness
<1>4. CASE StartStopBox
  BY <1>4 DEF Coupled, Placed, StartStopBox, At, Goto
<1>5. CASE StartRestore \/ StartHook
  BY <1>5, Hooks, Restores DEF Coupled, Placed, At, CallKept
<1>6. CASE StartProvisioned
  BY <1>6 DEF Coupled, Placed, StartProvisioned, At
<1>7. CASE StartPost \/ SnapshotCommit \/ ReleaseRetire \/ PrepareSetup \/ StepFails \/ Evict
           \/ SealUnavailable \/ Delete
  BY <1>7, Commits, Posts, Domains, Fails, Throws
    DEF Coupled, Placed, Awaited, NoCallAfter, SessionKept, PhaseOf, At, Evict, PrepareSetup,
        Goto, ReleaseRetire, SealUnavailable, Active, Delete
<1>8. CASE SnapshotCommitted
  BY <1>8 DEF Coupled, Placed, Free, SnapshotCommitted
<1>9. CASE SnapshotNative
  BY <1>9 DEF Coupled, Placed, Awaited, PhaseOf, SnapshotNative, Take, NoCall
<1>10. CASE SnapshotBackup
  BY <1>10, CoupledBackup
<1>11. CASE SnapshotUnmarked
  BY <1>11 DEF Coupled, Placed, SnapshotUnmarked, At, Goto
<1>12. CASE SnapshotManifest
  BY <1>12 DEF Coupled, Placed, SnapshotManifest, At
<1>13. CASE SnapshotUpload \/ SocketWrites \/ JobEnds
  BY <1>13 DEF Coupled, Placed, SnapshotUpload, SocketWrites, JobEnds
<1>14. CASE StopRevoke
  BY <1>14, Domains DEF Coupled, Placed, Awaited, PhaseOf, StopRevoke, Take, NoCall, superseded
<1>15. CASE StopLease
  BY <1>15 DEF Coupled, Placed, StopLease, At, Goto
<1>16. CASE StopForget
  BY <1>16 DEF Coupled, Placed, StopForget, At, Goto
<1>17. CASE StopStopBox \/ ReleaseRetireBox \/ PrepareTail \/ AppliedUploads \/ RememberRow
  BY <1>17, Domains, Answers, Remembers
    DEF Coupled, Placed, Awaited, Free, StopStopBox, At, Returned, NoCallAfter, SessionKept,
        ReleaseRetireBox, AppliedUploads, Goto, RememberRow, PrepareTail
<1>18. CASE ReleaseRevoke
  BY <1>18, Domains DEF Coupled, Placed, Awaited, PhaseOf, ReleaseRevoke, Take, NoCall
<1>19. CASE PrepareReserve
  BY <1>19 DEF Coupled, Placed, Awaited, PhaseOf, PrepareReserve, Take, NoCall
<1>20. CASE PrepareAdopt
  BY <1>20 DEF Coupled, Placed, PrepareAdopt, At
<1>21. CASE PrepareBackup
  BY <1>21 DEF Coupled, Placed, PrepareBackup, At
<1>22. CASE PrepareConnect
  BY <1>22 DEF Coupled, Placed, PrepareConnect, At, Goto
<1>23. CASE PrepareRetried
  BY <1>23 DEF Coupled, Placed, Awaited, Free, PrepareRetried, Take, NoCall
<1>24. CASE PrepareIndeterminate
  BY <1>24 DEF Coupled, Placed, PhaseOf, PrepareIndeterminate
<1>25. CASE UploadCommit
  BY <1>25 DEF Coupled, Placed, Awaited, Free, UploadCommit, Take, NoCall
<1>26. CASE FilesListed
  BY <1>26 DEF Coupled, Placed, Awaited, Free, FilesListed, Take, NoCall
<1>27. CASE ApplyUpload
  BY <1>27 DEF Coupled, Placed, ApplyUpload
<1>28. CASE ToolArrives \/ ToolRuns \/ ToolRefused \/ SocketOpens \/ SealAnyway
  BY <1>28, Seals
    DEF Coupled, Placed, ToolArrives, ToolRuns, ToolRefused, SocketOpens, SessionKept
<1>29. CASE CodeUncertain
  BY <1>29, Domains DEF Coupled, Placed, CodeUncertain
<1>30. CASE NextTurn
  BY <1>30, Numbers DEF Coupled, Placed, PhaseOf, Turn, NextTurn
<1>31. CASE Poll
  BY <1>31 DEF Coupled, Placed, PhaseOf, Poll
<1>32. CASE GiveUp
  BY <1>32 DEF Coupled, Placed, GiveUp, Active
<1> QED BY <1>1, <1>2, <1>3, <1>4, <1>5, <1>6, <1>7, <1>8, <1>9, <1>10, <1>11, <1>12, <1>13,
           <1>14, <1>15, <1>16, <1>17, <1>18, <1>19, <1>20, <1>21, <1>22, <1>23, <1>24, <1>25,
           <1>26, <1>27, <1>28, <1>29, <1>30, <1>31, <1>32
    DEF Next, Start, Snapshot, Stop, Release, Environment, Prepare, Failure, Job, Session

\* The POST is the first of its turn.
LEMMA DispatchedPost == ASSUME Typed, Coupled, Dispatched, StartPost PROVE Dispatched'
<1>1. /\ call.op = "start" /\ call.pc = "post" /\ UNCHANGED <<store, tool>> /\ call'.op = "none"
      /\ seen'.wrote = seen.wrote
  BY Posts DEF At, NoCallAfter
<1>2. /\ call.turn \in Turn /\ call.turn = store.assignment.turn /\ store.assignment.dispatched
      /\ seen.posts[call.turn] = 0
  BY <1>1 DEF Coupled, Dispatched
<1>3. CASE seen'.posts = seen.posts /\ UNCHANGED job
  BY <1>1, <1>3 DEF Dispatched
<1>4. CASE /\ seen'.posts = [seen.posts EXCEPT ![call.turn] = @ + 1]
           /\ job'.turn = call.turn /\ job'.state = "running"
  <2>1. \A t \in Turn : seen'.posts[t] = IF t = call.turn THEN 1 ELSE seen.posts[t]
    BY <1>2, <1>4, SeenFields
  <2>2. 0 \notin Turn /\ \A t \in Turn : t \in Nat
    BY DEF Turn
  <2>3. \A t \in Turn : seen'.posts[t] = 1 => t <= call.turn
    BY <1>2, <2>1, <2>2 DEF Dispatched
  <2>4. \A x \in tool : x.by \in Turn /\ seen'.posts[x.by] = 1
    BY <2>1, ToolFields, Numbers DEF Dispatched, Turn
  <2> QED BY <1>1, <1>2, <1>4, <2>1, <2>2, <2>3, <2>4, SeenFields DEF Dispatched
<1> QED BY <1>3, <1>4, Posts

\* The row is not written between the tombstone and the POST.
LEMMA DispatchedRow == ASSUME Typed, Coupled, Dispatched, RememberRow PROVE Dispatched'
<1>1. /\ call'.op = "start" => call.op = "start" /\ call'.turn = call.turn /\ call'.pc # "post"
             /\ call.pc # "post"
      /\ store'.assignment = store.assignment /\ UNCHANGED <<job, tool, seen>>
  BY RowsKept, Domains DEF CallKept, Coupled
<1> QED BY <1>1 DEF Dispatched

\* A start that applied the uploads has not written its tombstone.
LEMMA DispatchedUploads == ASSUME Typed, Coupled, Dispatched, AppliedUploads PROVE Dispatched'
<1>1. CASE call.op = "start"
  <2>1. /\ call'.op = "start" /\ call'.turn = call.turn /\ call'.pc = "dispatch"
               /\ call.pc = "apply"
        /\ UNCHANGED <<store, job, tool, seen>>
    BY <1>1, Domains, Zenon DEF AppliedUploads, Goto
  <2> QED BY <1>1, <2>1 DEF Dispatched
<1>2. CASE call.op # "start"
  <2>1. /\ call'.op = "none"
        /\ UNCHANGED <<store, job, tool>> /\ seen'.posts = seen.posts /\ seen'.wrote = seen.wrote
    <3>1. Returned
      BY <1>2, Zenon DEF AppliedUploads, Returned
    <3> QED BY <3>1, Applieds, Answers DEF NoCallAfter, Coupled
  <2> QED BY <1>2, <2>1 DEF Dispatched
<1> QED BY <1>1, <1>2

\* No step posts a turn twice, or without its tombstone.
LEMMA DispatchedNext == ASSUME Typed, Coupled, Dispatched, Next PROVE Dispatched'
<1>1. CASE StartRetried \/ StartReuse \/ StartForget \/ StartStopBox \/ StopLease \/ StopForget
           \/ Abandon \/ LoseBox \/ LoseHarness \/ ToolArrives \/ ToolRuns \/ ToolRefused
           \/ SocketOpens \/ SocketWrites
  BY <1>1, Domains, Notices
    DEF Dispatched, StopLease, At, Goto, NoJob, StopForget, StartRetried, StartReuse,
        StartForget, StartStopBox, Abandon, LoseBox, LoseHarness, ToolArrives, ToolRuns,
        ToolRefused, SocketOpens, SocketWrites
<1>2. CASE StartAssigned
  BY <1>2, Numbers, SeenFields DEF Dispatched, Coupled, Turn, StartAssigned, Take, startAdmission
<1>3. CASE StartRestore \/ Evict
  BY <1>3, Restores, Throws DEF Dispatched, At, CallKept, Evict, NoCallAfter
<1>4. CASE StartProvisioned
  BY <1>4 DEF Dispatched, StartProvisioned, At
<1>5. CASE StartHook \/ SnapshotBackup \/ StopStopBox \/ ReleaseRetireBox \/ PrepareTail
  BY <1>5, Notices, Backups, Hooks, Answers, Remembers
    DEF Dispatched, At, CallKept, Coupled, Free, StopStopBox, Returned, NoCallAfter,
        ReleaseRetireBox, Placed, PrepareTail
<1>6. CASE StartDispatch \/ SnapshotUnmarked \/ SnapshotCommit \/ ReleaseRetire \/ ApplyUpload
           \/ RememberMark \/ StepFails \/ GiveUp \/ SealUnavailable \/ Delete
  BY <1>6, Commits, Domains, Fails, Notices
    DEF Dispatched, ReleaseRetire, At, Goto, NoJob, SnapshotUnmarked, NoCallAfter, GiveUp,
        SealUnavailable, Delete, StartDispatch, ApplyUpload, RememberMark
<1>7. CASE StartPost
  BY <1>7, DispatchedPost
<1>8. CASE SnapshotCommitted \/ SnapshotUpload \/ StopSuperseded \/ StopUnassigned
           \/ PrepareIndeterminate \/ NextTurn \/ Poll \/ SealAnyway
  BY <1>8, Seals DEF Dispatched, SnapshotUpload, StopSuperseded, NextTurn, Poll, StopUnassigned,
         PrepareIndeterminate, SnapshotCommitted
<1>9. CASE SnapshotNative
  BY <1>9 DEF Dispatched, SnapshotNative, Take
<1>10. CASE SnapshotManifest
  BY <1>10, Notices DEF Dispatched, SnapshotManifest, At
<1>11. CASE StopRevoke
  BY <1>11, Domains DEF Dispatched, StopRevoke, Take
<1>12. CASE ReleaseRevoke
  BY <1>12, Domains DEF Dispatched, ReleaseRevoke, Take
<1>13. CASE PrepareReserve
  BY <1>13 DEF Dispatched, PrepareReserve, Take
<1>14. CASE PrepareAdopt
  BY <1>14 DEF Dispatched, PrepareAdopt, At
<1>15. CASE PrepareSetup
  BY <1>15 DEF Dispatched, PrepareSetup, At, Goto
<1>16. CASE PrepareBackup
  BY <1>16, Notices DEF Dispatched, PrepareBackup, At
<1>17. CASE PrepareConnect
  BY <1>17 DEF Dispatched, PrepareConnect, At, Goto
<1>18. CASE PrepareRetried
  BY <1>18 DEF Dispatched, PrepareRetried, Take
<1>19. CASE UploadCommit
  BY <1>19 DEF Dispatched, UploadCommit, Take
<1>20. CASE FilesListed
  BY <1>20 DEF Dispatched, FilesListed, Take
<1>21. CASE AppliedUploads
  BY <1>21, DispatchedUploads
<1>22. CASE RememberRow
  BY <1>22, DispatchedRow
<1>23. CASE CodeUncertain
  BY <1>23, Domains DEF Dispatched, CodeUncertain
<1>24. CASE JobEnds
  BY <1>24 DEF Dispatched, JobEnds
<1> QED BY <1>1, <1>2, <1>3, <1>4, <1>5, <1>6, <1>7, <1>8, <1>9, <1>10, <1>11, <1>12, <1>13,
           <1>14, <1>15, <1>16, <1>17, <1>18, <1>19, <1>20, <1>21, <1>22, <1>23, <1>24
    DEF Next, Start, Snapshot, Stop, Release, Environment, Prepare, Failure, Job, Session

\* The backup of the setup is what the sandbox holds, and becomes the base.
LEMMA CreatedBase == ASSUME Typed, Named, Coupled, Created, Purposed, PrepareBackup PROVE Created'
<1>1. /\ At("prepare", "backup") /\ Usable /\ box' = Booted /\ seen' = Noticed
      /\ buckets' = [buckets EXCEPT !.backups = Append(buckets.backups, Booted.files)]
      /\ call' = [call EXCEPT !.pc = "connect", !.workspace = Len(buckets'.backups)]
      /\ UNCHANGED <<store, job, tool, session>>
  BY DEF PrepareBackup
<1>2. call'.pc = "connect" /\ call'.op = "prepare" /\ call'.workspace = Len(buckets.backups) + 1
  BY <1>1, Domains, Appends, Booteds DEF At
<1>3. Len(buckets'.backups) = Len(buckets.backups) + 1 /\ Len(buckets.backups) \in Nat
  BY <1>1, Appends, Booteds, BucketFields
<1>4. /\ \A w \in Workspace : Content(w)' = Content(w)
      /\ Content(call.workspace)' = Booted.files
  BY <1>1, <1>2, Booteds, MoreContent
<1>5. Len(buckets.backups) >= 1 => buckets'.backups[1] = buckets.backups[1]
  BY <1>1, <1>3, Appends, Booteds
<1>6. store.base \in Workspace BY DEF Named
<1> QED BY <1>1, <1>2, <1>3, <1>4, <1>5, <1>6, Domains, Boots, Notices DEF Created, At, Coupled

\* The backup of a turn leaves the workspace of a fork and the base.
LEMMA CreatedBackup == ASSUME Typed, Named, Coupled, Created, SnapshotBackup PROVE Created'
<1>1. /\ buckets' = [buckets EXCEPT !.backups = Append(buckets.backups, Booted.files)]
      /\ seen' = Noticed /\ UNCHANGED <<store, session>> /\ CallKept /\ call.op = "checkpoint"
             /\ call'.pc = "mark"
  BY Backups DEF At
<1>2. \A w \in Workspace : Content(w)' = Content(w)
  BY <1>1, Booteds, MoreContent
<1>3. /\ Len(buckets'.backups) = Len(buckets.backups) + 1 /\ Len(buckets.backups) \in Nat
      /\ Len(buckets.backups) >= 1 => buckets'.backups[1] = buckets.backups[1]
  BY <1>1, Appends, Booteds, BucketFields
<1>4. store.base \in Workspace
  BY DEF Named
<1> QED BY <1>1, <1>2, <1>3, <1>4, Notices DEF Created, At, CallKept

\* No step sets the environment up again, or uses it before it is connected.
LEMMA CreatedNext ==
  ASSUME Typed, Named, Coupled, Dispatched, Created, Purposed, Next
  PROVE  Created'
<1>1. CASE StartRetried
  BY <1>1, SameContent DEF Created, At, StartRetried
<1>2. CASE StartAssigned
  BY <1>2, SameContent DEF Created, At, StartAssigned, Take
<1>3. CASE StartReuse \/ StartForget \/ SnapshotCommit \/ StopSuperseded \/ StopUnassigned
           \/ StopLease \/ Evict \/ GiveUp \/ SealUnavailable
  BY <1>3, Commits, SameContent, Throws, Domains
    DEF Created, At, NoCallAfter, SessionKept, Evict, StopLease, Goto, StopSuperseded,
        StopUnassigned, StartReuse, StartForget, GiveUp, Active, SealUnavailable
<1>4. CASE StartStopBox
  BY <1>4, SameContent DEF Created, At, StartStopBox, Goto
<1>5. CASE StartRestore \/ JobEnds
  BY <1>5, Restores, SameContent DEF Created, At, JobEnds
<1>6. CASE StartProvisioned
  BY <1>6, SameContent DEF Created, At, StartProvisioned
<1>7. CASE StartHook \/ SealAnyway
  BY <1>7, Notices, Hooks, SameContent, Seals DEF Created, At, SessionKept
<1>8. CASE StartDispatch
  BY <1>8, SameContent DEF Created, At, StartDispatch, Goto
<1>9. CASE StartPost \/ StepFails
  BY <1>9, Domains, Fails, SameContent, Posts
    DEF Created, At, Coupled, Placed, NoCallAfter, SessionKept
<1>10. CASE SnapshotCommitted
  BY <1>10, SameContent DEF Created, At, SnapshotCommitted
<1>11. CASE SnapshotNative
  BY <1>11, SameContent DEF Created, At, SnapshotNative, Take
<1>12. CASE SnapshotBackup
  BY <1>12, CreatedBackup
<1>13. CASE SnapshotUnmarked
  BY <1>13, SameContent DEF Created, At, SnapshotUnmarked, Goto
<1>14. CASE SnapshotManifest
  BY <1>14, Notices, SameContent DEF Created, At, SnapshotManifest
<1>15. CASE SnapshotUpload
  BY <1>15, SameContent DEF Created, At, SnapshotUpload
<1>16. CASE StopRevoke
  BY <1>16, SameContent DEF Created, At, StopRevoke, Take
<1>17. CASE StopForget
  BY <1>17, SameContent DEF Created, At, StopForget, Goto
<1>18. CASE StopStopBox \/ ReleaseRetireBox \/ PrepareTail \/ AppliedUploads \/ RememberRow
  BY <1>18, Domains, Answers, SameContent, Remembers
    DEF Created, At, Coupled, Placed, Awaited, PhaseOf, Free, StopStopBox, Returned, NoCallAfter,
        SessionKept, ReleaseRetireBox, AppliedUploads, Goto, RememberRow, PrepareTail
<1>19. CASE ReleaseRevoke
  BY <1>19, SameContent DEF Created, At, ReleaseRevoke, Take
<1>20. CASE ReleaseRetire
  BY <1>20, SameContent DEF Created, At, ReleaseRetire, Goto
<1>21. CASE PrepareReserve
  BY <1>21 DEF Created, At, PrepareReserve, Take
<1>22. CASE PrepareAdopt
  BY <1>22 DEF Created, At, PrepareAdopt, Content
<1>23. CASE PrepareSetup
  BY <1>23 DEF Created, At, PrepareSetup, Goto
<1>24. CASE PrepareBackup
  BY <1>24, CreatedBase
<1>25. CASE PrepareConnect
  BY <1>25 DEF Created, At, PrepareConnect, Goto, Content
<1>26. CASE PrepareRetried
  BY <1>26, SameContent DEF Created, At, PrepareRetried, Take
<1>27. CASE PrepareIndeterminate
  BY <1>27 DEF Created, At, PrepareIndeterminate, Free
<1>28. CASE UploadCommit
  BY <1>28, SameContent DEF Created, At, UploadCommit, Take
<1>29. CASE FilesListed
  BY <1>29, SameContent DEF Created, At, FilesListed, Take
<1>30. CASE ApplyUpload
  BY <1>30, Notices, SameContent DEF Created, At, ApplyUpload
<1>31. CASE RememberMark \/ Abandon \/ LoseBox \/ LoseHarness \/ ToolArrives \/ ToolRuns
            \/ ToolRefused \/ SocketOpens
  BY <1>31, Domains, SameContent, Boots, Notices
    DEF Created, At, ToolRefused, SocketOpens, RememberMark, Goto, Abandon, LoseBox, Off,
        LoseHarness, ToolArrives, ToolRuns, Free
<1>32. CASE SocketWrites
  BY <1>32, SameContent, Numbers, JobFields
    DEF Created, At, Coupled, Turn, Dispatched, SocketWrites
<1>33. CASE CodeUncertain
  BY <1>33, Domains, SameContent DEF Created, At, CodeUncertain, StopBox, Off
<1>34. CASE NextTurn
  BY <1>34, SameContent DEF Created, At, NextTurn
<1>35. CASE Poll
  BY <1>35, SameContent DEF Created, At, Poll
<1>36. CASE Delete
  BY <1>36, SameContent DEF Created, At, Delete
<1> QED BY <1>1, <1>2, <1>3, <1>4, <1>5, <1>6, <1>7, <1>8, <1>9, <1>10, <1>11, <1>12, <1>13,
           <1>14, <1>15, <1>16, <1>17, <1>18, <1>19, <1>20, <1>21, <1>22, <1>23, <1>24, <1>25,
           <1>26, <1>27, <1>28, <1>29, <1>30, <1>31, <1>32, <1>33, <1>34, <1>35, <1>36
    DEF Next, Start, Snapshot, Stop, Release, Environment, Prepare, Failure, Job, Session

-----------------------------------------------------------------------------
(***************************************************************************)
(* What is recorded for a turn.                                            *)
(***************************************************************************)

\* No step records a checkpoint of a turn that may still work, or without its artifacts.
LEMMA RecordedNext == ASSUME Typed, Coupled, Dispatched, Recorded, Ended, Next PROVE Recorded'
<1>1. CASE StartRetried \/ StartReuse \/ StartForget \/ StartStopBox \/ StartDispatch
           \/ StopUnassigned \/ ReleaseRetire \/ UploadCommit \/ NextTurn \/ Poll \/ GiveUp
           \/ SealUnavailable
  BY <1>1, Domains, StoreFields, Checkpoints
    DEF Recorded, Quiet, Uploaded, ReleaseRetire, Goto, NoJob, StartDispatch, StartRetried,
        StartReuse, StartForget, StartStopBox, NextTurn, Poll, GiveUp, SealUnavailable,
        StopUnassigned, UploadCommit
<1>2. CASE StartAssigned
  BY <1>2, Numbers DEF Recorded, Quiet, Uploaded, Turn, StartAssigned, Take, startAdmission
<1>3. CASE StartRestore
  BY <1>3, Restores DEF Recorded, Quiet, Uploaded, CallKept
<1>4. CASE StartProvisioned
  BY <1>4 DEF Recorded, Quiet, Uploaded, StartProvisioned
<1>5. CASE StartHook \/ SnapshotBackup \/ StopLease \/ SocketOpens \/ SocketWrites
  BY <1>5, Domains, Notices, Backups, Hooks
    DEF Recorded, Quiet, Uploaded, CallKept, SocketOpens, SocketWrites, StopLease, Goto, NoJob
<1>6. CASE StartPost \/ AppliedUploads \/ RememberRow
  BY <1>6, Domains, Answers, Posts, SeenFields, Numbers
    DEF Recorded, Quiet, Uploaded, Coupled, Placed, Free, AppliedUploads, Goto, Returned,
        NoCallAfter, RememberRow, Dispatched, At
<1>7. CASE SnapshotCommitted \/ PrepareIndeterminate \/ SealAnyway \/ Delete
  BY <1>7, Seals DEF Recorded, Quiet, Uploaded, SnapshotCommitted, PrepareIndeterminate, Delete
<1>8. CASE SnapshotNative
  BY <1>8 DEF Recorded, Quiet, Uploaded, SnapshotNative, Take
<1>9. CASE SnapshotUnmarked
  BY <1>9 DEF Recorded, Quiet, Uploaded, SnapshotUnmarked, Goto
<1>10. CASE SnapshotManifest
  BY <1>10, Notices DEF Recorded, Quiet, Uploaded, SnapshotManifest
<1>11. CASE SnapshotUpload \/ StopSuperseded \/ PrepareSetup
  BY <1>11, Domains
    DEF Recorded, Quiet, Uploaded, PrepareSetup, Goto, SnapshotUpload, StopSuperseded
<1>12. CASE SnapshotCommit
  BY <1>12, Answers, StoreFields
    DEF Recorded, Quiet, Uploaded, Ended, Coupled, Free, SnapshotCommit, At, Returned,
        NoCallAfter
<1>13. CASE StopRevoke
  BY <1>13, Domains DEF Recorded, Quiet, Uploaded, StopRevoke, Take
<1>14. CASE StopForget
  BY <1>14 DEF Recorded, Quiet, Uploaded, StopForget, Goto
<1>15. CASE StopStopBox \/ ReleaseRetireBox \/ PrepareTail
  BY <1>15, Answers, Remembers
    DEF Recorded, Quiet, Uploaded, Coupled, Free, StopStopBox, At, Returned, NoCallAfter,
        ReleaseRetireBox, Placed, PrepareTail
<1>16. CASE ReleaseRevoke
  BY <1>16, Domains DEF Recorded, Quiet, Uploaded, ReleaseRevoke, Take
<1>17. CASE PrepareReserve
  BY <1>17 DEF Recorded, Quiet, Uploaded, PrepareReserve, Take
<1>18. CASE PrepareAdopt
  BY <1>18 DEF Recorded, Quiet, Uploaded, PrepareAdopt
<1>19. CASE PrepareBackup
  BY <1>19, Notices DEF Recorded, Quiet, Uploaded, PrepareBackup
<1>20. CASE PrepareConnect
  BY <1>20 DEF Recorded, Quiet, Uploaded, PrepareConnect, Goto
<1>21. CASE PrepareRetried
  BY <1>21 DEF Recorded, Quiet, Uploaded, PrepareRetried, Take
<1>22. CASE FilesListed
  BY <1>22 DEF Recorded, Quiet, Uploaded, FilesListed, Take
<1>23. CASE ApplyUpload \/ RememberMark \/ StepFails \/ Evict \/ Abandon \/ LoseBox
            \/ LoseHarness \/ ToolArrives \/ ToolRuns \/ ToolRefused
  BY <1>23, Domains, Fails, Throws, Notices
    DEF Recorded, Quiet, Uploaded, NoCallAfter, Evict, ApplyUpload, RememberMark, Goto, Abandon,
        LoseBox, LoseHarness, NoJob, ToolArrives, ToolRuns, ToolRefused
<1>24. CASE CodeUncertain
  BY <1>24, Domains DEF Recorded, Quiet, Uploaded, CodeUncertain
<1>25. CASE JobEnds
  BY <1>25 DEF Recorded, Quiet, Uploaded, JobEnds
<1> QED BY <1>1, <1>2, <1>3, <1>4, <1>5, <1>6, <1>7, <1>8, <1>9, <1>10, <1>11, <1>12, <1>13,
           <1>14, <1>15, <1>16, <1>17, <1>18, <1>19, <1>20, <1>21, <1>22, <1>23, <1>24, <1>25
    DEF Next, Start, Snapshot, Stop, Release, Environment, Prepare, Failure, Job, Session

\* A turn's manifest is written when nothing of the turn works any more.
LEMMA ListedNext == ASSUME Typed, Coupled, Dispatched, Listed, Ended, Next PROVE Listed'
<1>1. CASE StartRetried \/ StartAssigned \/ StartReuse \/ StartForget \/ StartStopBox
           \/ StartProvisioned \/ StartDispatch \/ SnapshotCommitted \/ SnapshotNative
           \/ SnapshotCommit \/ StopStopBox \/ ReleaseRetireBox \/ AppliedUploads \/ RememberRow
  BY <1>1, Domains, Commits, Numbers
    DEF Listed, Quiet, StopStopBox, ReleaseRetireBox, AppliedUploads, RememberRow, StartRetried,
        StartReuse, StartForget, StartStopBox, StartProvisioned, StartDispatch,
        SnapshotCommitted, SnapshotNative, Coupled, Turn, StartAssigned
<1>2. CASE StartRestore \/ SnapshotUnmarked \/ SnapshotUpload \/ StopSuperseded \/ StopUnassigned
           \/ StopRevoke \/ StopLease \/ StopForget \/ ReleaseRevoke \/ PrepareTail \/ StepFails
  BY <1>2, Domains, Fails, Restores
    DEF Listed, Quiet, SnapshotUnmarked, SnapshotUpload, StopSuperseded, StopUnassigned,
        StopRevoke, StopLease, NoJob, StopForget, ReleaseRevoke, PrepareTail
<1>3. CASE StartHook \/ SnapshotBackup \/ PrepareBackup \/ FilesListed \/ ApplyUpload
           \/ RememberMark \/ Abandon \/ LoseBox \/ LoseHarness \/ ToolArrives \/ ToolRuns
           \/ ToolRefused \/ SocketOpens
  BY <1>3, Notices, Backups, Hooks, Domains
    DEF Listed, Quiet, ToolRefused, SocketOpens, PrepareBackup, FilesListed, ApplyUpload,
        RememberMark, Abandon, LoseBox, LoseHarness, NoJob, ToolArrives, ToolRuns
<1>4. CASE StartPost
  BY <1>4, Posts, SeenFields DEF Listed, Quiet, Dispatched, At
<1>5. CASE SnapshotManifest
  BY <1>5, Notices, StoreFields DEF Listed, Quiet, Ended, Turn, Dispatched, SnapshotManifest, At
<1>6. CASE ReleaseRetire \/ PrepareReserve \/ PrepareAdopt \/ PrepareSetup
           \/ PrepareIndeterminate \/ UploadCommit \/ SocketWrites \/ JobEnds \/ NextTurn \/ Poll
           \/ GiveUp \/ SealAnyway \/ SealUnavailable \/ Delete
  BY <1>6, Domains
    DEF Listed, Quiet, SocketWrites, PrepareIndeterminate, UploadCommit, ReleaseRetire, NoJob,
        PrepareReserve, PrepareAdopt, PrepareSetup, SealAnyway, SealUnavailable, Delete, JobEnds,
        NextTurn, Poll, GiveUp
<1>7. CASE PrepareConnect
  BY <1>7 DEF Listed, Quiet, PrepareConnect
<1>8. CASE PrepareRetried \/ Evict
  BY <1>8 DEF Listed, Quiet, Evict, PrepareRetried
<1>9. CASE CodeUncertain
  BY <1>9, Domains DEF Listed, Quiet, CodeUncertain
<1> QED BY <1>1, <1>2, <1>3, <1>4, <1>5, <1>6, <1>7, <1>8, <1>9
    DEF Next, Start, Snapshot, Stop, Release, Environment, Prepare, Failure, Job, Session

\* The commit gives the session the checkpoint it records.
LEMMA ContinuedCommit == ASSUME Typed, Coupled, Continued, Ended, SnapshotCommit PROVE Continued'
<1>1. PICK k : /\ k.turn = call.turn
               /\ store'.checkpoint = [store.checkpoint EXCEPT ![call.turn] = {k}]
               /\ ~call.orphan => session'.ck = {k}
  BY Commits
<1>2. /\ At("checkpoint", "upload") /\ SessionKept
      /\ call.orphan => session'.ck = session.ck
  BY Commits
<1>3. store.checkpoint[call.turn] = {} /\ call.turn \in Turn /\ (~call.orphan
          => call.turn = session.turn)
  BY <1>2 DEF Ended, Coupled, At, Awaited
<1>4. CASE ~call.orphan
  <2>1. session.turn <= session.turn
    BY SessionFields, HarnessAssumption
  <2> QED BY <1>1, <1>2, <1>3, <1>4, <2>1, StoreFields DEF Continued, SessionKept
<1>5. CASE call.orphan
  <2>1. ASSUME NEW c \in session.ck PROVE c \in store'.checkpoint[c.turn]
    <3>1. c \in store.checkpoint[c.turn] /\ c.turn \in Turn
      BY SessionFields, Checkpoints DEF Continued
    <3> QED BY <1>1, <1>3, <3>1, StoreFields
  <2> QED BY <1>2, <1>5, <2>1 DEF Continued, SessionKept
<1> QED BY <1>4, <1>5

\* The session's checkpoint stays the one recorded for its turn.
LEMMA ContinuedNext == ASSUME Typed, Coupled, Recorded, Continued, Ended, Next PROVE Continued'
<1>1. CASE StartRetried \/ StartAssigned \/ StartReuse \/ StartForget \/ StartStopBox
           \/ StartProvisioned \/ StartDispatch \/ SnapshotNative \/ SnapshotUnmarked
           \/ SnapshotManifest \/ SnapshotUpload \/ StopSuperseded \/ StopUnassigned
           \/ StopRevoke \/ StopLease \/ StopForget
  BY <1>1, Domains
    DEF Continued, StartRetried, StartAssigned, StartReuse, StartForget, StartStopBox,
        StartProvisioned, StartDispatch, SnapshotNative, SnapshotUnmarked, SnapshotManifest,
        SnapshotUpload, StopSuperseded, StopUnassigned, StopRevoke, StopLease, StopForget
<1>2. CASE StartRestore \/ StartHook \/ SnapshotBackup \/ ReleaseRevoke \/ ReleaseRetire
           \/ PrepareReserve \/ PrepareAdopt \/ PrepareBackup \/ PrepareRetried
           \/ PrepareIndeterminate \/ ToolRuns \/ ToolRefused \/ SocketOpens \/ SocketWrites
           \/ GiveUp \/ SealAnyway \/ SealUnavailable \/ Delete
  BY <1>2, Backups, Hooks, Restores, Domains
    DEF Continued, PrepareBackup, GiveUp, PrepareRetried, PrepareIndeterminate, ReleaseRevoke,
        ReleaseRetire, PrepareReserve, PrepareAdopt, ToolRuns, ToolRefused, SocketOpens,
        SocketWrites, SealAnyway, SealUnavailable, Delete
<1>3. CASE StartPost \/ UploadCommit \/ FilesListed \/ ApplyUpload \/ RememberMark \/ StepFails
           \/ Evict \/ Abandon \/ LoseBox \/ LoseHarness \/ ToolArrives
  BY <1>3, Domains, Fails, Throws, Posts
    DEF Continued, SessionKept, Evict, UploadCommit, FilesListed, ApplyUpload, RememberMark,
        Abandon, LoseBox, LoseHarness, ToolArrives
<1>4. CASE SnapshotCommitted
  BY <1>4 DEF Continued, Recorded, Coupled, SnapshotCommitted
<1>5. CASE SnapshotCommit
  BY <1>5, ContinuedCommit
<1>6. CASE StopStopBox \/ ReleaseRetireBox \/ PrepareTail \/ AppliedUploads \/ RememberRow
  BY <1>6, Answers, Domains
    DEF Continued, Coupled, Free, PrepareTail, At, Returned, SessionKept, Placed, StopStopBox,
        ReleaseRetireBox, AppliedUploads, RememberRow
<1>7. CASE PrepareSetup \/ JobEnds
  BY <1>7 DEF Continued, PrepareSetup, JobEnds
<1>8. CASE PrepareConnect
  BY <1>8 DEF Continued, PrepareConnect
<1>9. CASE CodeUncertain
  BY <1>9 DEF Continued, CodeUncertain
<1>10. CASE NextTurn
  BY <1>10, Checkpoints, SessionFields DEF Continued, Turn, NextTurn
<1>11. CASE Poll
  BY <1>11 DEF Continued, Poll
<1> QED BY <1>1, <1>2, <1>3, <1>4, <1>5, <1>6, <1>7, <1>8, <1>9, <1>10, <1>11
    DEF Next, Start, Snapshot, Stop, Release, Environment, Prepare, Failure, Job, Session

\* A snapshot has the permit only for a turn that ended and has no checkpoint yet.
LEMMA EndedNext == ASSUME Typed, Coupled, Dispatched, Ended, Next PROVE Ended'
<1>1. CASE StartRetried \/ StartHook \/ SnapshotBackup \/ SnapshotUpload \/ StopSuperseded
           \/ StopUnassigned \/ PrepareIndeterminate \/ StepFails \/ NextTurn \/ Poll
  BY <1>1, Notices, Backups, Hooks, Fails
    DEF Ended, Quiet, StopUnassigned, PrepareIndeterminate, SnapshotUpload, StopSuperseded,
        NextTurn, Poll, CallKept, StartRetried, Free, NoCallAfter
<1>2. CASE StartAssigned
  BY <1>2 DEF Ended, StartAssigned, Take
<1>3. CASE StartReuse \/ StartForget \/ StartStopBox \/ StartDispatch \/ SnapshotCommitted
           \/ SnapshotUnmarked \/ StopLease \/ StopForget \/ ReleaseRetire \/ PrepareSetup
           \/ PrepareConnect
  BY <1>3, Domains
    DEF Ended, StartStopBox, At, Goto, ReleaseRetire, Quiet, SnapshotUnmarked, StartReuse,
        StartForget, StopLease, StopForget, StartDispatch, SnapshotCommitted, PrepareSetup,
        PrepareConnect
<1>4. CASE StartRestore \/ StartPost \/ Evict
  BY <1>4, Restores, Throws, Posts DEF Ended, At, CallKept, Evict, NoCallAfter
<1>5. CASE StartProvisioned
  BY <1>5 DEF Ended, StartProvisioned, At
<1>6. CASE SnapshotNative
  BY <1>6 DEF Ended, Quiet, Dispatched, SnapshotNative, Take
<1>7. CASE SnapshotManifest
  BY <1>7, Notices DEF Ended, Quiet, SnapshotManifest
<1>8. CASE SnapshotCommit \/ StopStopBox \/ ReleaseRetireBox \/ PrepareTail \/ AppliedUploads
           \/ RememberRow
  BY <1>8, Domains, Commits, Answers, Remembers
    DEF Ended, Quiet, Coupled, Placed, Free, At, NoCallAfter, StopStopBox, Returned,
        ReleaseRetireBox, AppliedUploads, Goto, RememberRow, PrepareTail
<1>9. CASE StopRevoke
  BY <1>9 DEF Ended, StopRevoke, Take
<1>10. CASE ReleaseRevoke
  BY <1>10 DEF Ended, ReleaseRevoke, Take
<1>11. CASE PrepareReserve
  BY <1>11 DEF Ended, PrepareReserve, Take
<1>12. CASE PrepareAdopt
  BY <1>12 DEF Ended, PrepareAdopt, At
<1>13. CASE PrepareBackup
  BY <1>13 DEF Ended, PrepareBackup, At
<1>14. CASE PrepareRetried
  BY <1>14 DEF Ended, PrepareRetried, Take
<1>15. CASE UploadCommit
  BY <1>15 DEF Ended, UploadCommit, Take
<1>16. CASE FilesListed
  BY <1>16 DEF Ended, FilesListed, Take
<1>17. CASE ApplyUpload \/ RememberMark \/ Abandon \/ LoseBox \/ LoseHarness \/ ToolArrives
            \/ ToolRuns \/ ToolRefused \/ SocketOpens \/ SocketWrites \/ GiveUp \/ SealAnyway
            \/ SealUnavailable \/ Delete
  BY <1>17, Domains, Notices
    DEF Ended, Quiet, GiveUp, SealAnyway, SealUnavailable, Delete, Abandon, LoseBox, LoseHarness,
        NoJob, ToolArrives, ApplyUpload, RememberMark, Goto, ToolRuns, ToolRefused, SocketOpens,
        SocketWrites
<1>18. CASE CodeUncertain
  BY <1>18 DEF Ended, Quiet, CodeUncertain
<1>19. CASE JobEnds
  BY <1>19 DEF Ended, Quiet, JobEnds
<1> QED BY <1>1, <1>2, <1>3, <1>4, <1>5, <1>6, <1>7, <1>8, <1>9, <1>10, <1>11, <1>12, <1>13,
           <1>14, <1>15, <1>16, <1>17, <1>18, <1>19
    DEF Next, Start, Snapshot, Stop, Release, Environment, Prepare, Failure, Job, Session

-----------------------------------------------------------------------------
(***************************************************************************)
(* From below: a container that was set up keeps what was put there.       *)
(***************************************************************************)

\* A container with a marker was set up on purpose, or its loss was noticed.
LEMMA PurposedNext == ASSUME Typed, Coupled, Purposed, Next PROVE Purposed'
<1>1. CASE StartRetried \/ StartAssigned \/ StartReuse \/ StartForget \/ StartStopBox
           \/ StartProvisioned \/ StartDispatch \/ SnapshotCommitted \/ SnapshotCommit
           \/ StopStopBox \/ ReleaseRetireBox \/ AppliedUploads \/ RememberRow
  BY <1>1, Domains, Commits
    DEF Purposed, StopStopBox, StopBox, Off, ReleaseRetireBox, AppliedUploads, RememberRow,
        StartRetried, StartAssigned, StartReuse, StartForget, StartStopBox, StartProvisioned,
        StartDispatch, SnapshotCommitted
<1>2. CASE StartRestore \/ SnapshotBackup \/ StopForget \/ ReleaseRevoke \/ ReleaseRetire
           \/ PrepareReserve \/ PrepareBackup \/ PrepareConnect \/ PrepareTail \/ PrepareRetried
           \/ StepFails \/ Evict
  BY <1>2, Boots, Notices, Backups, Fails, Restores
    DEF Purposed, PrepareConnect, PrepareRetried, StopForget, ReleaseRevoke, ReleaseRetire,
        PrepareReserve, PrepareBackup, Evict, PrepareTail
<1>3. CASE StartHook \/ PrepareIndeterminate \/ UploadCommit \/ FilesListed \/ ApplyUpload
           \/ RememberMark \/ Abandon \/ LoseBox \/ LoseHarness \/ Poll \/ GiveUp \/ SealAnyway
           \/ SealUnavailable \/ Delete
  BY <1>3, Domains, Boots, Notices, Hooks
    DEF Purposed, Poll, GiveUp, SealAnyway, SealUnavailable, Delete, PrepareIndeterminate,
        UploadCommit, FilesListed, ApplyUpload, RememberMark, Abandon, LoseBox, Off, LoseHarness
<1>4. CASE StartPost \/ SnapshotNative \/ SnapshotUnmarked \/ SnapshotManifest \/ SnapshotUpload
           \/ StopSuperseded \/ StopUnassigned \/ StopRevoke \/ StopLease
  BY <1>4, Domains, Boots, Notices, Posts
    DEF Purposed, SnapshotNative, SnapshotUnmarked, SnapshotManifest, SnapshotUpload,
        StopSuperseded, StopUnassigned, StopRevoke, StopLease
<1>5. CASE PrepareAdopt
  BY <1>5, Boots DEF Purposed, PrepareAdopt, Usable
<1>6. CASE PrepareSetup
  BY <1>6, Boots DEF Purposed, PrepareSetup, Usable
<1>7. CASE ToolArrives \/ ToolRuns \/ ToolRefused \/ SocketOpens \/ SocketWrites \/ CodeUncertain
           \/ JobEnds \/ NextTurn
  BY <1>7, Domains, Boots, Notices
    DEF Purposed, ToolArrives, ToolRuns, ToolRefused, SocketOpens, SocketWrites, CodeUncertain,
        StopBox, Off, JobEnds, NextTurn
<1> QED BY <1>1, <1>2, <1>3, <1>4, <1>5, <1>6, <1>7
    DEF Next, Start, Snapshot, Stop, Release, Environment, Prepare, Failure, Job, Session

\* The backup of the setup leaves what the session continues from.
LEMMA WholeBase == ASSUME Typed, Named, Whole, PrepareBackup PROVE Whole'
<1>1. /\ box' = Booted /\ seen' = Noticed /\ UNCHANGED <<store, session>>
      /\ \A w \in Workspace : Content(w)' = Content(w)
  BY Booteds, MoreContent DEF PrepareBackup
<1>2. Began' = Began
  BY <1>1, SameBegan
<1> QED BY <1>1, <1>2, Boots, Notices DEF Whole, Continues

\* A container that was set up keeps what the session continues from and the turn's work.
LEMMA WholeNext ==
  ASSUME Typed, Named, Coupled, Dispatched, Created, Whole, Snapped, Snapping, Next
  PROVE  Whole'
<1>1. CASE StartRetried \/ StartAssigned \/ StartReuse \/ StartForget \/ StartStopBox
           \/ PrepareAdopt \/ PrepareSetup
  BY <1>1, Domains, SameContent, SameBegan, SeenFields, BeganNext
    DEF Whole, Continues, StartRetried, StartAssigned, StartReuse, StartForget, StartStopBox,
        StopBox, Off, Created, At, Turn, PrepareAdopt, Content, PrepareSetup
<1>2. CASE StartRestore \/ StartPost
  BY <1>2, Posts, SameContent, SameBegan, Restores, Numbers
    DEF Whole, Continues, SessionKept, Dispatched, Coupled, Turn, At, Began
<1>3. CASE StartProvisioned \/ StartDispatch \/ SnapshotNative \/ SnapshotUnmarked
           \/ SnapshotManifest \/ PrepareIndeterminate \/ UploadCommit \/ FilesListed
           \/ ApplyUpload \/ RememberMark
  BY <1>3, Domains, SameContent, SameBegan, Boots, Notices
    DEF Whole, Continues, StartProvisioned, StartDispatch, SnapshotNative, SnapshotUnmarked,
        SnapshotManifest, PrepareIndeterminate, UploadCommit, FilesListed, ApplyUpload,
        RememberMark
<1>4. CASE StartHook
  BY <1>4, Domains, Boots, Notices, Hooks, SameContent, SameBegan DEF Whole, Continues
<1>5. CASE SnapshotCommitted
  BY <1>5, SameContent, BeganNext
    DEF Whole, Continues, Snapped, Made, Named, One, Coupled, SnapshotCommitted
<1>6. CASE SnapshotBackup
  BY <1>6, Domains, Boots, Notices, Backups, Booteds, MoreContent, SameBegan DEF Whole, Continues
<1>7. CASE SnapshotUpload
  BY <1>7, SameContent, SameBegan DEF Whole, Continues, SnapshotUpload
<1>8. CASE SnapshotCommit
  BY <1>8, Domains, Commits, SameContent, SameBegan, BeganNext
    DEF Whole, Continues, Snapping, Made, Coupled, Awaited, At, SessionKept
<1>9. CASE StopSuperseded
  BY <1>9, SameContent, SameBegan DEF Whole, Continues, StopSuperseded
<1>10. CASE StopUnassigned
  BY <1>10, SameContent, SameBegan DEF Whole, Continues, StopUnassigned
<1>11. CASE StopRevoke \/ StopLease \/ StopForget \/ ReleaseRevoke \/ ReleaseRetire
            \/ PrepareReserve \/ PrepareRetried \/ StepFails \/ JobEnds \/ SealUnavailable
            \/ Delete
  BY <1>11, Domains, Fails, SameContent, SameBegan
    DEF Whole, Continues, SessionKept, StopForget, ReleaseRevoke, ReleaseRetire, PrepareReserve,
        PrepareRetried, StopRevoke, StopLease, SealUnavailable, Delete, JobEnds
<1>12. CASE StopStopBox \/ PrepareTail \/ AppliedUploads \/ RememberRow
  BY <1>12, Domains, Answers, SameContent, SameBegan
    DEF Whole, Continues, Placed, Free, StopStopBox, At, Returned, SessionKept, StopBox, Off,
        Coupled, AppliedUploads, PrepareTail, RememberRow
<1>13. CASE ReleaseRetireBox \/ Abandon \/ LoseBox \/ LoseHarness \/ ToolArrives \/ ToolRuns
            \/ ToolRefused \/ SocketOpens \/ SocketWrites
  BY <1>13, Domains, SameContent, SameBegan, Boots, Notices
    DEF Whole, ReleaseRetireBox, Off, Continues, ToolRefused, SocketOpens, SocketWrites, Abandon,
        LoseBox, LoseHarness, ToolArrives, ToolRuns
<1>14. CASE PrepareBackup
  BY <1>14, WholeBase
<1>15. CASE PrepareConnect
  BY <1>15, SameContent, BeganNext DEF Whole, Continues, Created, At, PrepareConnect
<1>16. CASE Evict
  BY <1>16, Throws, SameContent, SameBegan DEF Whole, Continues, Evict, SessionKept
<1>17. CASE CodeUncertain
  BY <1>17, Domains, SameContent, SameBegan DEF Whole, Continues, CodeUncertain, StopBox, Off
<1>18. CASE NextTurn
  BY <1>18, SameContent, SameBegan, SeenFields, Numbers
    DEF Whole, Continues, Coupled, Dispatched, NextTurn
<1>19. CASE Poll
  BY <1>19, SameContent, SameBegan DEF Whole, Continues, Poll
<1>20. CASE GiveUp
  BY <1>20, SameContent, SameBegan DEF Whole, Continues, GiveUp
<1>21. CASE SealAnyway
  BY <1>21, SameContent, SameBegan DEF Whole, Continues, SealAnyway
<1> QED BY <1>1, <1>2, <1>3, <1>4, <1>5, <1>6, <1>7, <1>8, <1>9, <1>10, <1>11, <1>12, <1>13,
           <1>14, <1>15, <1>16, <1>17, <1>18, <1>19, <1>20, <1>21
    DEF Next, Start, Snapshot, Stop, Release, Environment, Prepare, Failure, Job, Session

\* The job is posted when the sandbox has the hook's result and every acknowledged upload.
LEMMA HookedPost ==
  ASSUME Typed, Coupled, Dispatched, Purposed, Hooked, Started, Journal, StartPost
  PROVE  Hooked'
<1>1. call.op = "start" /\ call.pc = "post" /\ call.turn = store.assignment.turn
  BY Posts DEF At, Coupled
<1>2. ~seen.torn /\ box.good => Provisioned(box.files, MaxUpload)
  <2>1. ~seen.torn /\ box.good => Provisioned(box.files, call.after)
    BY <1>1 DEF Started
  <2>2. \A v \in seen.acked : v <= call.after
    BY <1>1, StoreFields, CallFields, SeenFields DEF Started, Journal
  <2> QED BY <2>1, <2>2 DEF Provisioned
<1> QED BY <1>2, Posts DEF Hooked, NoCallAfter, Provisioned

\* An upload is acknowledged when the sandbox has it.
LEMMA HookedUploads == ASSUME Typed, Coupled, Hooked, Journal, AppliedUploads PROVE Hooked'
<1>1. \A v \in seen'.acked : v \in seen.acked \/ (v = store.fileVersion /\ call.op = "upload")
  BY Applieds
<1>2. box.good => \A v \in seen'.acked : v \in seen.acked \/ Upload(v) \in box.files
  BY <1>1, Applieds, StoreFields, CallFields DEF Journal
<1>3. /\ UNCHANGED <<store, box>> /\ seen'.posts = seen.posts /\ seen'.torn = seen.torn
      /\ call'.pc \notin {"mark", "row"}
  BY Applieds
<1>4. ASSUME Provisioned(box.files, MaxUpload), box.good PROVE Provisioned(box.files, MaxUpload)'
  BY <1>2, <1>3, <1>4, SeenFields DEF Provisioned
<1> QED BY <1>3, <1>4, HarnessAssumption DEF Hooked

\* A container has the hook's result when its row says so, and the uploads when its turn
\* runs.
LEMMA HookedNext ==
  ASSUME Typed, Named, Coupled, Dispatched, Created, Ended, Purposed, Whole, Hooked, Started,
         Journal, Provided, Next
  PROVE  Hooked'
<1>1. CASE StartRetried \/ StartReuse \/ StartForget \/ StartStopBox \/ ReleaseRetireBox \/ Evict
  BY <1>1, Domains, Throws
    DEF Hooked, Provisioned, StartRetried, StartReuse, Goto, StartForget, StartStopBox, StopBox,
        Off, ReleaseRetireBox, Evict, NoCallAfter
<1>2. CASE StartAssigned
  BY <1>2, Numbers DEF Hooked, Provisioned, Coupled, Dispatched, StartAssigned, Take
<1>3. CASE StartRestore \/ PrepareTail
  BY <1>3, Answers, Remembers, BeganOf, Restores
    DEF Hooked, Provisioned, Provided, Created, At, Whole, Continues, Placed, Free, PrepareTail,
        Returned, NoCallAfter, Started, Dispatched, Coupled, Began
<1>4. CASE StartProvisioned \/ StartHook \/ StartDispatch \/ SnapshotCommitted
           \/ SnapshotUnmarked \/ StopUnassigned \/ StopLease \/ StopForget
           \/ PrepareIndeterminate \/ SocketOpens \/ SocketWrites \/ JobEnds \/ SealAnyway
           \/ Delete
  BY <1>4, Domains, Boots, Notices, Hooks, Seals
    DEF Hooked, Provisioned, SocketOpens, SocketWrites, SnapshotUnmarked, Goto, StartProvisioned,
        StartDispatch, StopLease, StopForget, PrepareIndeterminate, JobEnds, SnapshotCommitted,
        StopUnassigned, Delete
<1>5. CASE StartPost
  BY <1>5, HookedPost
<1>6. CASE SnapshotNative
  BY <1>6 DEF Hooked, Provisioned, SnapshotNative, Take
<1>7. CASE SnapshotBackup \/ ApplyUpload \/ RememberMark \/ Abandon \/ LoseBox \/ LoseHarness
           \/ ToolArrives \/ ToolRuns \/ ToolRefused
  BY <1>7, Domains, Boots, Notices, Backups
    DEF Hooked, Provisioned, ApplyUpload, RememberMark, Goto, Abandon, LoseBox, Off, LoseHarness,
        ToolArrives, ToolRuns, ToolRefused, Ended, Quiet, Coupled, At
<1>8. CASE SnapshotManifest
  BY <1>8, Boots, Notices DEF Hooked, Provisioned, SnapshotManifest
<1>9. CASE SnapshotUpload \/ SnapshotCommit \/ StopSuperseded \/ StepFails \/ NextTurn \/ Poll
           \/ GiveUp \/ SealUnavailable
  BY <1>9, Commits, Domains, Fails
    DEF Hooked, Provisioned, SnapshotUpload, StopSuperseded, NoCallAfter, NextTurn, Poll, GiveUp,
        SealUnavailable
<1>10. CASE StopRevoke
  BY <1>10, Domains DEF Hooked, Provisioned, StopRevoke, Take
<1>11. CASE StopStopBox \/ PrepareSetup \/ RememberRow
  BY <1>11, Domains, Answers
    DEF Hooked, Provisioned, Coupled, Free, StopStopBox, At, Returned, NoCallAfter, StopBox, Off,
        RememberRow, Goto, Turn, Created, PrepareSetup
<1>12. CASE ReleaseRevoke
  BY <1>12, Domains DEF Hooked, Provisioned, ReleaseRevoke, Take
<1>13. CASE ReleaseRetire
  BY <1>13 DEF Hooked, Provisioned, ReleaseRetire, Goto
<1>14. CASE PrepareReserve
  BY <1>14 DEF Hooked, Provisioned, PrepareReserve, Take
<1>15. CASE PrepareAdopt
  BY <1>15 DEF Hooked, Provisioned, Created, At, PrepareAdopt
<1>16. CASE PrepareBackup
  BY <1>16, Boots, Notices DEF Hooked, Provisioned, PrepareBackup
<1>17. CASE PrepareConnect
  BY <1>17 DEF Hooked, Provisioned, PrepareConnect, Goto
<1>18. CASE PrepareRetried
  BY <1>18 DEF Hooked, Provisioned, PrepareRetried, Take
<1>19. CASE UploadCommit
  BY <1>19 DEF Hooked, Provisioned, UploadCommit, Take
<1>20. CASE FilesListed
  BY <1>20 DEF Hooked, Provisioned, FilesListed, Take
<1>21. CASE AppliedUploads
  BY <1>21, HookedUploads
<1>22. CASE CodeUncertain
  BY <1>22, Domains DEF Hooked, Provisioned, CodeUncertain, StopBox, Off
<1> QED BY <1>1, <1>2, <1>3, <1>4, <1>5, <1>6, <1>7, <1>8, <1>9, <1>10, <1>11, <1>12, <1>13,
           <1>14, <1>15, <1>16, <1>17, <1>18, <1>19, <1>20, <1>21, <1>22
    DEF Next, Start, Snapshot, Stop, Release, Environment, Prepare, Failure, Job, Session

\* After the hook the sandbox has the checkpoint's uploads and the hook's result.
LEMMA StartedHook ==
  ASSUME Typed, Named, Coupled, Purposed, Whole, Started, Journal, Provided, StartHook
  PROVE  Started'
<1>1. /\ At("start", "provision") /\ UNCHANGED <<store, session>>
             /\ call'.after = previousVersion(call.ck)
      /\ call'.pc = "mark" /\ call'.next = "apply" /\ call.ck = session.ck
      /\ \E r : call'.row = {r} /\ r.provisioned
  BY Hooks DEF At, Coupled
<1>2. box'.files = Booted.files \cup {Hook} /\ box'.good = Booted.good
          /\ box'.state = Booted.state /\ seen' = Noticed
  BY Hooks, Boots, Domains
<1>3. ~Noticed.torn => ~seen.torn /\ Booted = box /\ box.good
  BY Boots, Notices
<1>4. ASSUME ~seen.torn, box.good, NEW v \in seen.acked,
          v <= previousVersion(call.ck) PROVE Upload(v) \in box.files
  <2>1. CASE session.ck = {}
    <3>1. v <= 0 /\ v >= 1 /\ v \in 0..MaxUpload
      BY <1>1, <1>4, <2>1, Previous, SeenFields DEF Journal
    <3> QED BY <3>1, HarnessAssumption
  <2>2. ASSUME NEW c \in session.ck PROVE Upload(v) \in box.files
    <3>1. previousVersion(call.ck) = c.version /\ Began = Content(c.workspace)
      BY <1>1, <2>2, Previous, BeganOf DEF Named
    <3>2. Upload(v) \in Content(c.workspace)
      BY <1>4, <2>2, <3>1 DEF Provided, Provisioned
    <3> QED BY <1>4, <3>1, <3>2 DEF Whole, Continues
  <2> QED BY <2>1, <2>2
<1>5. ~seen'.torn => /\ box'.good
                     /\ Hook \in box'.files /\ \A v \in seen'.acked : v <= call'.after
                            => Upload(v) \in box'.files
  BY <1>1, <1>2, <1>3, <1>4, Notices
<1> QED BY <1>1, <1>5, Hooks DEF Started, Prepared, Provisioned, CallKept, At

\* A start knows what it has prepared, at every step of it.
LEMMA StartedNext ==
  ASSUME Typed, Named, Coupled, Purposed, Whole, Hooked, Started, Journal, Provided, Next
  PROVE  Started'
<1>1. CASE StartRetried \/ PrepareIndeterminate
  BY <1>1 DEF Started, StartRetried, Free, PrepareIndeterminate
<1>2. CASE StartAssigned
  BY <1>2 DEF Started, Prepared, StartAssigned, Take
<1>3. CASE StartReuse
  BY <1>3 DEF Started, Prepared, Purposed, StartReuse, Goto, sandboxHolds
<1>4. CASE StartForget \/ StartStopBox \/ StartDispatch \/ SnapshotCommitted \/ SnapshotUnmarked
           \/ Abandon \/ LoseBox \/ NextTurn \/ Poll \/ GiveUp \/ SealAnyway \/ SealUnavailable
           \/ Delete
  BY <1>4, Domains
    DEF Started, SnapshotUnmarked, At, Goto, Prepared, StartForget, StartStopBox, Provisioned,
        StartDispatch, SnapshotCommitted, Abandon, LoseBox, Off, SealUnavailable, Delete,
        NextTurn, Poll, GiveUp, SealAnyway
<1>5. CASE StartRestore \/ SnapshotUpload \/ StepFails \/ Evict \/ JobEnds
  BY <1>5, Fails, Restores, Throws
    DEF Started, NoCallAfter, Prepared, Provisioned, SnapshotUpload, JobEnds, Evict
<1>6. CASE StartProvisioned
  BY <1>6, SeenFields, BeganOf, Previous
    DEF Started, Prepared, Provisioned, Hooked, Provided, Whole, Continues, Coupled, Journal,
        Named, StartProvisioned, At
<1>7. CASE StartHook
  BY <1>7, StartedHook
<1>8. CASE StartPost \/ PrepareTail
  BY <1>8, Answers, Remembers, Posts
    DEF Started, Placed, Free, PrepareTail, At, Returned, NoCallAfter
<1>9. CASE SnapshotNative
  BY <1>9 DEF Started, SnapshotNative, Take
<1>10. CASE SnapshotBackup \/ StopSuperseded \/ StopUnassigned \/ PrepareConnect \/ LoseHarness
            \/ ToolArrives \/ ToolRuns \/ ToolRefused \/ SocketOpens \/ SocketWrites
  BY <1>10, Backups, Domains, Boots, Notices
    DEF Started, PrepareConnect, At, Goto, StopSuperseded, Free, StopUnassigned, CallKept,
        Prepared, Provisioned, LoseHarness, ToolArrives, ToolRuns, ToolRefused, SocketOpens,
        SocketWrites
<1>11. CASE SnapshotManifest
  BY <1>11 DEF Started, SnapshotManifest, At
<1>12. CASE SnapshotCommit \/ StopStopBox \/ ReleaseRetireBox \/ AppliedUploads \/ RememberMark
            \/ RememberRow
  BY <1>12, Boots, Notices, Domains, Commits, Answers
    DEF Started, Prepared, Provisioned, RememberMark, Goto, Coupled, Placed, Free, At,
        NoCallAfter, StopStopBox, Returned, ReleaseRetireBox, AppliedUploads, RememberRow
<1>13. CASE StopRevoke
  BY <1>13 DEF Started, StopRevoke, Take
<1>14. CASE StopLease
  BY <1>14 DEF Started, StopLease, At, Goto
<1>15. CASE StopForget
  BY <1>15 DEF Started, StopForget, At, Goto
<1>16. CASE ReleaseRevoke
  BY <1>16 DEF Started, ReleaseRevoke, Take
<1>17. CASE ReleaseRetire
  BY <1>17 DEF Started, ReleaseRetire, At, Goto
<1>18. CASE PrepareReserve
  BY <1>18 DEF Started, PrepareReserve, Take
<1>19. CASE PrepareAdopt
  BY <1>19 DEF Started, Prepared, PrepareAdopt
<1>20. CASE PrepareSetup
  BY <1>20 DEF Started, PrepareSetup, At, Goto
<1>21. CASE PrepareBackup
  BY <1>21 DEF Started, PrepareBackup, At
<1>22. CASE PrepareRetried
  BY <1>22 DEF Started, PrepareRetried, Take
<1>23. CASE UploadCommit
  BY <1>23 DEF Started, UploadCommit, Take
<1>24. CASE FilesListed
  BY <1>24 DEF Started, FilesListed, Take
<1>25. CASE ApplyUpload
  BY <1>25, Boots, Notices, SeenFields, CallFields DEF Started, Prepared, Provisioned, ApplyUpload
<1>26. CASE CodeUncertain
  BY <1>26, Domains DEF Started, Prepared, Provisioned, CodeUncertain, StopBox, Off
<1> QED BY <1>1, <1>2, <1>3, <1>4, <1>5, <1>6, <1>7, <1>8, <1>9, <1>10, <1>11, <1>12, <1>13,
           <1>14, <1>15, <1>16, <1>17, <1>18, <1>19, <1>20, <1>21, <1>22, <1>23, <1>24, <1>25,
           <1>26
    DEF Next, Start, Snapshot, Stop, Release, Environment, Prepare, Failure, Job, Session

\* Uploads are applied in order, and acknowledged when they are in the sandbox.
LEMMA JournalNext == ASSUME Typed, Coupled, Journal, Next PROVE Journal'
<1>1. CASE StartRetried \/ SnapshotUpload \/ SnapshotCommit \/ StopSuperseded \/ StopUnassigned
           \/ PrepareIndeterminate \/ SealAnyway
  BY <1>1, Commits, Seals
    DEF Journal, NoCallAfter, SnapshotUpload, PrepareIndeterminate, StopSuperseded,
        StopUnassigned, StartRetried
<1>2. CASE StartAssigned
  BY <1>2 DEF Journal, StartAssigned, Take
<1>3. CASE StartReuse \/ StartForget \/ StartRestore \/ StartHook \/ StartDispatch
           \/ SnapshotCommitted \/ SnapshotBackup \/ StopLease \/ JobEnds \/ NextTurn \/ Poll
           \/ GiveUp \/ SealUnavailable \/ Delete
  BY <1>3, Notices, Backups, Hooks, Domains, Restores
    DEF Journal, At, CallKept, StopLease, Goto, StartReuse, StartForget, StartDispatch,
        SnapshotCommitted, JobEnds, NextTurn, Poll, GiveUp, SealUnavailable, Delete
<1>4. CASE StartStopBox
  BY <1>4 DEF Journal, StartStopBox, At, Goto
<1>5. CASE StartProvisioned
  BY <1>5 DEF Journal, StartProvisioned, At
<1>6. CASE StartPost \/ StopStopBox \/ ReleaseRetireBox \/ PrepareTail \/ AppliedUploads
           \/ RememberRow
  BY <1>6, Domains, Answers, StoreFields, Remembers, Posts
    DEF Journal, Coupled, Free, RememberRow, Goto, Returned, NoCallAfter, Placed, AppliedUploads,
        StopStopBox, At, ReleaseRetireBox, PrepareTail
<1>7. CASE SnapshotNative
  BY <1>7 DEF Journal, SnapshotNative, Take
<1>8. CASE SnapshotUnmarked
  BY <1>8 DEF Journal, SnapshotUnmarked, Goto
<1>9. CASE SnapshotManifest
  BY <1>9, Notices DEF Journal, SnapshotManifest, At
<1>10. CASE StopRevoke
  BY <1>10 DEF Journal, StopRevoke, Take
<1>11. CASE StopForget
  BY <1>11 DEF Journal, StopForget, Goto
<1>12. CASE ReleaseRevoke
  BY <1>12 DEF Journal, ReleaseRevoke, Take
<1>13. CASE ReleaseRetire
  BY <1>13 DEF Journal, ReleaseRetire, Goto
<1>14. CASE PrepareReserve
  BY <1>14 DEF Journal, PrepareReserve, Take
<1>15. CASE PrepareAdopt
  BY <1>15 DEF Journal, PrepareAdopt, At
<1>16. CASE PrepareSetup \/ StepFails \/ Evict
  BY <1>16, Domains, Fails, Throws DEF Journal, PrepareSetup, At, Goto, NoCallAfter, Evict
<1>17. CASE PrepareBackup
  BY <1>17, Notices DEF Journal, PrepareBackup, At
<1>18. CASE PrepareConnect
  BY <1>18 DEF Journal, PrepareConnect, Goto
<1>19. CASE PrepareRetried
  BY <1>19 DEF Journal, PrepareRetried, Take
<1>20. CASE UploadCommit
  BY <1>20, SeenFields, StoreFields DEF Journal, UploadCommit
<1>21. CASE FilesListed
  BY <1>21 DEF Journal, FilesListed, Take
<1>22. CASE ApplyUpload \/ RememberMark \/ Abandon \/ LoseBox \/ LoseHarness \/ ToolArrives
            \/ ToolRuns \/ ToolRefused \/ SocketOpens
  BY <1>22, Domains, Boots, Notices, CallFields, StoreFields
    DEF Journal, RememberMark, Goto, Abandon, ToolRefused, SocketOpens, LoseBox, Off,
        LoseHarness, ToolArrives, ToolRuns, Free, ApplyUpload
<1>23. CASE SocketWrites
  BY <1>23 DEF Journal, SocketWrites
<1>24. CASE CodeUncertain
  BY <1>24, Domains DEF Journal, CodeUncertain, StopBox, Off
<1> QED BY <1>1, <1>2, <1>3, <1>4, <1>5, <1>6, <1>7, <1>8, <1>9, <1>10, <1>11, <1>12, <1>13,
           <1>14, <1>15, <1>16, <1>17, <1>18, <1>19, <1>20, <1>21, <1>22, <1>23, <1>24
    DEF Next, Start, Snapshot, Stop, Release, Environment, Prepare, Failure, Job, Session

-----------------------------------------------------------------------------
(***************************************************************************)
(* The checkpoint of the session's turn.                                   *)
(***************************************************************************)

\* An upload that is acknowledged is later than any checkpoint of the session.
LEMMA ProvidedUploads ==
  ASSUME Typed, Named, Coupled, Recorded, Continued, Journal, Provided, AppliedUploads
  PROVE  Provided'
<1>1. \A w : Content(w)' = Content(w)
  BY Applieds, SameContent
<1>2. ASSUME NEW c \in session.ck PROVE call.op = "upload" => c.version < store.fileVersion
  <2>1. c \in CheckpointType /\ c.turn \in Turn BY SessionFields, Checkpoints
  <2>2. c \in store.checkpoint[c.turn] BY DEF Continued
  <2> QED BY <2>1, <2>2 DEF Recorded
<1>3. ASSUME NEW c \in session.ck, NEW v, v \in seen'.acked, v <= c.version PROVE v \in seen.acked
  <2>1. c \in CheckpointType BY SessionFields
  <2> QED BY <1>3, <2>1, <1>2, Applieds, StoreFields, Checkpoints
<1> QED BY <1>1, <1>3, Applieds DEF Provided, Provisioned

\* The session's checkpoint has the hook's result and the uploads up to its version.
LEMMA ProvidedNext ==
  ASSUME Typed, Named, Coupled, Created, Recorded, Continued, Journal, Provided, Snapped,
         Snapping, Next
  PROVE  Provided'
<1>1. CASE StartRetried \/ StartAssigned \/ StartReuse \/ StartForget \/ StartStopBox
           \/ StopForget \/ ReleaseRevoke \/ ReleaseRetire \/ PrepareReserve \/ PrepareAdopt
           \/ LoseHarness \/ ToolArrives \/ ToolRuns \/ ToolRefused \/ SocketOpens
  BY <1>1, Domains, SameContent, Notices
    DEF Provided, Provisioned, LoseHarness, ToolArrives, ToolRuns, ToolRefused, SocketOpens,
        StartRetried, StartAssigned, StartReuse, StartForget, StartStopBox, StopForget,
        ReleaseRevoke, ReleaseRetire, PrepareReserve, PrepareAdopt
<1>2. CASE StartRestore \/ StartHook \/ StepFails
  BY <1>2, Fails, SameContent, Restores, Notices, Hooks DEF Provided, Provisioned
<1>3. CASE StartProvisioned \/ StartDispatch \/ SnapshotNative \/ SnapshotUnmarked
           \/ SnapshotManifest \/ PrepareBackup \/ FilesListed \/ ApplyUpload \/ RememberMark
           \/ Abandon \/ LoseBox
  BY <1>3, Domains, SameContent, Notices
    DEF Provided, Provisioned, StartProvisioned, StartDispatch, SnapshotNative, SnapshotUnmarked,
        SnapshotManifest, FilesListed, ApplyUpload, RememberMark, Abandon, LoseBox, Created, At,
        PrepareBackup
<1>4. CASE StartPost \/ StopStopBox \/ ReleaseRetireBox \/ PrepareTail \/ RememberRow \/ Evict
  BY <1>4, Answers, SameContent, Throws, Posts
    DEF Provided, Provisioned, Coupled, Free, PrepareTail, At, Returned, StopStopBox,
        ReleaseRetireBox, RememberRow, Evict
<1>5. CASE SnapshotCommitted
  BY <1>5, SameContent DEF Provided, Provisioned, Coupled, Snapped, SnapshotCommitted
<1>6. CASE SnapshotBackup
  BY <1>6, Domains, Notices, Backups, Booteds, MoreContent DEF Named, Known, Provided, Provisioned
<1>7. CASE SnapshotUpload
  BY <1>7, SameContent DEF Provided, Provisioned, SnapshotUpload
<1>8. CASE SnapshotCommit
  BY <1>8, Domains, Commits, SeenFields, SameContent
    DEF Provided, Provisioned, Snapping, Coupled, Awaited, At
<1>9. CASE StopSuperseded
  BY <1>9, SameContent DEF Provided, Provisioned, StopSuperseded
<1>10. CASE StopUnassigned \/ StopRevoke \/ StopLease \/ PrepareSetup \/ PrepareConnect
            \/ PrepareRetried \/ PrepareIndeterminate \/ UploadCommit \/ SocketWrites
            \/ CodeUncertain \/ JobEnds \/ GiveUp \/ SealAnyway \/ SealUnavailable \/ Delete
  BY <1>10, Domains, SameContent
    DEF Provided, Provisioned, StopRevoke, StopLease, SocketWrites, CodeUncertain, JobEnds,
        GiveUp, SealAnyway, SealUnavailable, Delete, PrepareSetup, PrepareConnect,
        PrepareRetried, PrepareIndeterminate, UploadCommit, StopUnassigned
<1>11. CASE AppliedUploads
  BY <1>11, ProvidedUploads
<1>12. CASE NextTurn
  BY <1>12, SameContent DEF Provided, Provisioned, NextTurn
<1>13. CASE Poll
  BY <1>13, SameContent DEF Provided, Provisioned, Poll
<1> QED BY <1>1, <1>2, <1>3, <1>4, <1>5, <1>6, <1>7, <1>8, <1>9, <1>10, <1>11, <1>12, <1>13
    DEF Next, Start, Snapshot, Stop, Release, Environment, Prepare, Failure, Job, Session

\* An upload that is acknowledged is later than the checkpoint of the turn.
LEMMA SnappedUploads ==
  ASSUME Typed, Named, Coupled, Recorded, Journal, Snapped, AppliedUploads
  PROVE  Snapped'
<1>1. \A w : Content(w)' = Content(w)
  BY Applieds, SameContent
<1>2. Began' = Began /\ Extras' = Extras
  BY <1>1, Applieds, SameBegan, SameExtras
<1>3. ASSUME session.turn \in Turn, NEW c \in store.checkpoint[session.turn], NEW v,
          v \in seen'.acked, v <= c.version
      PROVE  v \in seen.acked
  <2>1. c \in CheckpointType BY <1>3, StoreFields
  <2>2. call.op = "upload" => c.version < store.fileVersion BY <1>3 DEF Recorded
  <2> QED BY <1>3, <2>1, <2>2, Applieds, StoreFields, Checkpoints
<1>4. session'.turn = session.turn /\ UNCHANGED <<store, box>>
  BY Applieds DEF SessionKept
<1>5. \A w : Made(w)' <=> Made(w)
  BY <1>1, <1>2, <1>4, Applieds DEF Made, Continues
<1> QED BY <1>1, <1>2, <1>3, <1>4, <1>5, Applieds DEF Snapped, Provisioned, Confirmed

\* A sandbox that is destroyed takes nothing from the checkpoint of the turn.
LEMMA SnappedStopped ==
  ASSUME Typed, Named, Coupled, Snapped, StartStopBox \/ StopStopBox
  PROVE  Snapped'
<1>1. /\ UNCHANGED <<store, buckets, seen>> /\ session'.ck = session.ck
             /\ session'.turn = session.turn
  <2>1. CASE StartStopBox
    BY <2>1 DEF StartStopBox
  <2>2. CASE StopStopBox
    <3>1. Returned /\ ~Free /\ Placed /\ call.op = "stop"
      BY <2>2 DEF StopStopBox, Returned, At, Free, Coupled
    <3> QED BY <2>2, <3>1, Answers DEF StopStopBox, SessionKept
  <2> QED BY <2>1, <2>2
<1>2. box'.state # "running" /\ (box'.good => box.good) /\ (box'.good => box'.files = box.files)
  BY Domains DEF StartStopBox, StopStopBox, StopBox, Off
<1>3. Began' = Began /\ Extras' = Extras /\ \A w : Content(w)' = Content(w)
  BY <1>1, SameContent, SameBegan, SameExtras
<1> QED BY <1>1, <1>2, <1>3 DEF Snapped, Made, Continues, Provisioned, Confirmed

\* The checkpoint recorded by a snapshot whose answer was lost is the session's.
LEMMA SnappedCommitted == ASSUME Typed, Named, Coupled, Snapped, SnapshotCommitted PROVE Snapped'
<1>1. /\ session.turn \in Turn /\ UNCHANGED <<store, box, buckets, seen>>
      /\ session'.turn = session.turn /\ session'.ck = store.checkpoint[session.turn]
      /\ store.checkpoint[session.turn] # {}
  BY Domains DEF SnapshotCommitted, Coupled
<1>2. PICK k \in store.checkpoint[session.turn] : session'.ck = {k}
  BY <1>1 DEF Named, One
<1>3. Began' = Content(k.workspace)
  BY <1>1, <1>2, BeganNext, SameContent
<1>4. \A c \in store.checkpoint[session.turn] : c = k
  BY <1>1, <1>2 DEF Named, One
<1>5. Extras' = Extras /\ \A w : Content(w)' = Content(w)
  BY <1>1, SameContent, SameExtras
<1>6. Made(k.workspace)'
  BY <1>1, <1>3, <1>5 DEF Snapped, Made, Continues
<1> QED BY <1>1, <1>4, <1>5, <1>6 DEF Snapped, Provisioned, Confirmed

\* The checkpoint that is recorded is the backup that was made.
LEMMA SnappedCommit ==
  ASSUME Typed, Named, Coupled, Ended, Snapped, Snapping, SnapshotCommit
  PROVE  Snapped'
<1>1. PICK k : /\ k.turn = call.turn /\ k.workspace = call.workspace
                   /\ k.artifacts = call.artifacts
               /\ k.version = store.fileVersion
               /\ store'.checkpoint = [store.checkpoint EXCEPT ![call.turn] = {k}]
               /\ ~call.orphan => session'.ck = {k}
  BY Commits
<1>2. /\ At("checkpoint", "upload") /\ UNCHANGED <<box, buckets, seen>>
             /\ store'.fileVersion = store.fileVersion
      /\ store'.base = store.base /\ session'.turn = session.turn
      /\ call.orphan => session'.ck = session.ck
      /\ call.turn \in Turn
  BY Commits DEF SessionKept, Coupled, At
<1>3. Extras' = Extras /\ \A w : Content(w)' = Content(w)
  BY <1>2, SameContent, SameExtras
<1>4. CASE call.turn = session.turn
  <2>1. session.turn \in Turn => store'.checkpoint[session.turn] = {k}
    BY <1>1, <1>4, StoreFields
  <2>2. /\ Made(k.workspace)
        /\ box.state = "running" => box.files \subseteq Content(k.workspace)
        /\ ~seen.torn => Provisioned(Content(k.workspace), MaxUpload)
        /\ Confirmed => k.artifacts = Content(k.workspace) \cap Works
    BY <1>1, <1>2, <1>4 DEF Snapping, At
  <2>3. Made(k.workspace)'
    <3>1. CASE call.orphan
      <4>1. Began' = Began
        BY <1>2, <1>3, <3>1, SameBegan
      <4> QED BY <1>2, <1>3, <2>2, <4>1 DEF Made, Continues
    <3>2. CASE ~call.orphan
      <4>1. Began' = Content(k.workspace)
        BY <1>1, <1>3, <3>2, BeganNext
      <4> QED BY <1>2, <1>3, <2>2, <4>1 DEF Made, Continues
    <3> QED BY <3>1, <3>2
  <2>4. ~seen.torn => Provisioned(Content(k.workspace), k.version)
    <3>1. \A v \in seen.acked : v <= MaxUpload
      BY SeenFields, HarnessAssumption
    <3> QED BY <2>2, <3>1 DEF Provisioned
  <2> QED BY <1>2, <1>3, <2>1, <2>2, <2>3, <2>4 DEF Snapped, Provisioned, Confirmed
<1>5. CASE call.turn # session.turn
  <2>1. call.orphan /\ Began' = Began
    BY <1>2, <1>3, <1>5, SameBegan DEF Coupled, At, Awaited
  <2>2. session.turn \in Turn => store'.checkpoint[session.turn] = store.checkpoint[session.turn]
    BY <1>1, <1>5, StoreFields
  <2> QED BY <1>2, <1>3, <2>1, <2>2 DEF Snapped, Made, Continues, Provisioned, Confirmed
<1> QED BY <1>4, <1>5

\* An upload applied after the checkpoint is an extra of the sandbox.
LEMMA SnappedUpload == ASSUME Typed, Named, Coupled, Snapped, ApplyUpload PROVE Snapped'
<1>1. /\ box'.files = Booted.files \cup {Upload(call.after + 1)} /\ box'.good = Booted.good
             /\ box'.state = Booted.state
      /\ store'.checkpoint = store.checkpoint /\ store'.base = store.base
             /\ store'.fileVersion = store.fileVersion
      /\ UNCHANGED <<buckets, session>>
  BY Boots, Domains DEF ApplyUpload
<1>2. Upload(call.after + 1) \in Extras
  BY InExtras, CallFields, StoreFields DEF ApplyUpload
<1>3. Began' = Began /\ Extras' = Extras /\ \A w : Content(w)' = Content(w)
  BY <1>1, SameContent, SameBegan, SameExtras
<1>4. /\ seen'.acked = seen.acked /\ seen'.wrote = seen.wrote
             /\ seen'.unconfirmed = seen.unconfirmed
      /\ ~seen'.torn => ~seen.torn
  BY Notices DEF ApplyUpload
<1>5. box'.good => box.good /\ box.files \subseteq box'.files
  BY <1>1, Boots
<1>6. box'.state = "running" => \/ box.state = "running"
                                    /\ box'.files = box.files \cup {Upload(call.after + 1)}
                                \/ box'.files = {Upload(call.after + 1)}
  BY <1>1, Boots
<1> QED BY <1>1, <1>2, <1>3, <1>4, <1>5, <1>6 DEF Snapped, Made, Continues, Provisioned, Confirmed

\* What is recorded for the session's turn keeps the files, and still has all that the
\* sandbox holds.
LEMMA SnappedNext ==
  ASSUME Typed, Named, Coupled, Dispatched, Created, Recorded, Ended, Journal, Snapped, Snapping,
         Followed, Next
  PROVE  Snapped'
<1>1. CASE StartRetried
  BY <1>1, SameContent, SameBegan, SameExtras
    DEF Snapped, Made, Continues, Provisioned, Confirmed, StartRetried
<1>2. CASE StartAssigned
  BY <1>2, SameContent, SameBegan, SameExtras
    DEF Snapped, Made, Continues, Provisioned, Confirmed, StartAssigned
<1>3. CASE StartReuse
  BY <1>3, SameContent, SameBegan, SameExtras
    DEF Snapped, Made, Continues, Provisioned, Confirmed, StartReuse
<1>4. CASE StartForget
  BY <1>4, SameContent, SameBegan, SameExtras
    DEF Snapped, Made, Continues, Provisioned, Confirmed, StartForget
<1>5. CASE StartStopBox \/ StopStopBox
  BY <1>5, SnappedStopped
<1>6. CASE StartRestore \/ StartHook \/ PrepareReserve \/ PrepareAdopt \/ PrepareSetup
           \/ PrepareBackup \/ PrepareConnect \/ PrepareIndeterminate \/ SocketWrites
  BY <1>6, Hooks, Restores, StoreFields, JobFields
    DEF Snapped, Recorded, Quiet, Dispatched, Coupled, Turn, At, SocketWrites, Created,
        PrepareBackup, PrepareReserve, PrepareAdopt, PrepareSetup, PrepareConnect,
        PrepareIndeterminate
<1>7. CASE StartProvisioned \/ FilesListed \/ LoseHarness \/ ToolArrives \/ SealAnyway
  BY <1>7, SameContent, SameBegan, SameExtras, Seals
    DEF Snapped, Made, Continues, Provisioned, Confirmed, StartProvisioned, FilesListed,
        LoseHarness, ToolArrives, SessionKept
<1>8. CASE StartDispatch \/ SnapshotUnmarked \/ SnapshotManifest
  BY <1>8, Domains, SameContent, SameBegan, SameExtras, Boots, Notices
    DEF Snapped, Made, Continues, Provisioned, Confirmed, StartDispatch, SnapshotUnmarked,
        SnapshotManifest
<1>9. CASE StartPost
  BY <1>9, Posts, SameContent, BeganOf, BeganNext, SameExtras
    DEF Snapped, Made, Continues, Provisioned, Confirmed, Named, One, SessionKept
<1>10. CASE SnapshotCommitted
  BY <1>10, SnappedCommitted
<1>11. CASE SnapshotNative \/ StopLease \/ StopForget \/ ReleaseRevoke \/ ReleaseRetire
            \/ PrepareRetried \/ StepFails \/ LoseBox \/ SealUnavailable
  BY <1>11, Domains, Fails, SameContent, SameBegan, SameExtras
    DEF Snapped, Made, Continues, Provisioned, Confirmed, SessionKept, SnapshotNative, LoseBox,
        Off, SealUnavailable, StopLease, StopForget, ReleaseRevoke, ReleaseRetire, PrepareRetried
<1>12. CASE SnapshotBackup
  BY <1>12, Domains, Boots, Notices, Backups, Booteds, MoreContent, SameBegan, SameExtras
    DEF Named, Known, Snapped, Made, Continues, Provisioned, Confirmed
<1>13. CASE SnapshotUpload
  BY <1>13, SameContent, SameBegan, SameExtras
    DEF Snapped, Made, Continues, Provisioned, Confirmed, SnapshotUpload
<1>14. CASE SnapshotCommit
  BY <1>14, SnappedCommit
<1>15. CASE StopSuperseded
  BY <1>15, StoreFields DEF Snapped, Coupled, Turn, Recorded, StopSuperseded, superseded
<1>16. CASE StopUnassigned \/ RememberRow
  BY <1>16, RowsKept, Domains, SameContent, SameBegan, SameExtras
    DEF Snapped, Turn, Recorded, StopUnassigned, Made, Continues, Provisioned, Confirmed,
        SessionKept
<1>17. CASE StopRevoke
  BY <1>17, SameContent, SameBegan, SameExtras
    DEF Snapped, Made, Continues, Provisioned, Confirmed, StopRevoke
<1>18. CASE ReleaseRetireBox \/ PrepareTail \/ Evict
  BY <1>18, Throws, SameContent, SameBegan, SameExtras, Answers
    DEF Snapped, Made, Continues, Provisioned, Confirmed, Evict, SessionKept, Coupled, Free,
        ReleaseRetireBox, At, Returned, Off, PrepareTail
<1>19. CASE UploadCommit
  BY <1>19, SameContent, SameBegan, MoreExtras
    DEF Snapped, Made, Continues, Provisioned, Confirmed, UploadCommit
<1>20. CASE ApplyUpload
  BY <1>20, SnappedUpload
<1>21. CASE AppliedUploads
  BY <1>21, SnappedUploads
<1>22. CASE RememberMark
  BY <1>22, SameContent, SameBegan, SameExtras, Boots, Notices
    DEF Snapped, Made, Continues, Provisioned, Confirmed, RememberMark
<1>23. CASE Abandon
  BY <1>23, SameContent, SameBegan, SameExtras
    DEF Snapped, Made, Continues, Provisioned, Confirmed, Abandon
<1>24. CASE ToolRuns
  BY <1>24, Boots, Notices, Numbers, SameContent, SameBegan
    DEF Snapped, Made, Continues, Provisioned, Confirmed, Recorded, Quiet, Followed, Coupled,
        ToolRuns, stillAssigned, superseded
<1>25. CASE ToolRefused \/ SocketOpens \/ JobEnds
  BY <1>25, Domains, SameContent, SameBegan, SameExtras, Boots, Notices
    DEF Snapped, Made, Continues, Provisioned, Confirmed, ToolRefused, SocketOpens, JobEnds
<1>26. CASE CodeUncertain
  BY <1>26, StoreFields DEF Snapped, Coupled, Turn, Recorded, Quiet, CodeUncertain, superseded
<1>27. CASE NextTurn
  BY <1>27, Numbers DEF Snapped, Coupled, Recorded, NextTurn
<1>28. CASE Poll
  BY <1>28, SameContent, SameBegan, SameExtras
    DEF Snapped, Made, Continues, Provisioned, Confirmed, Poll
<1>29. CASE GiveUp
  BY <1>29, SameContent, SameBegan, SameExtras
    DEF Snapped, Made, Continues, Provisioned, Confirmed, GiveUp
<1>30. CASE Delete
  BY <1>30, SameContent, SameBegan, SameExtras
    DEF Snapped, Made, Continues, Provisioned, Confirmed, Delete
<1> QED BY <1>1, <1>2, <1>3, <1>4, <1>5, <1>6, <1>7, <1>8, <1>9, <1>10, <1>11, <1>12, <1>13,
           <1>14, <1>15, <1>16, <1>17, <1>18, <1>19, <1>20, <1>21, <1>22, <1>23, <1>24, <1>25,
           <1>26, <1>27, <1>28, <1>29, <1>30
    DEF Next, Start, Snapshot, Stop, Release, Environment, Prepare, Failure, Job, Session

\* The manifest, new or kept from an interrupted snapshot, lists the backup's outputs.
LEMMA SnappingManifest ==
  ASSUME Typed, Named, Coupled, Purposed, Snapping, Manifested, SnapshotManifest
  PROVE  Snapping'
<1> DEFINE outputs == Booted.files \cap Works
<1>1. PICK m : /\ call' = [call EXCEPT !.pc = "upload", !.artifacts = m]
              /\ m = IF outputs = {} THEN {}
                     ELSE IF store.manifest[call.turn] # {} THEN store.manifest[call.turn]
                     ELSE outputs
  BY Zenon DEF SnapshotManifest, Works
<1>2. /\ call'.op = "checkpoint" /\ call'.turn = call.turn /\ call'.workspace = call.workspace
             /\ call'.artifacts = m
      /\ call.op = "checkpoint" /\ call.pc = "publish"
  BY <1>1, Domains DEF SnapshotManifest, At
<1>3. /\ box' = Booted /\ seen' = Noticed /\ UNCHANGED <<buckets, session>>
             /\ store'.base = store.base
  BY Domains DEF SnapshotManifest
<1>4. ASSUME call.turn = session.turn, Confirmed' PROVE m = Content(call.workspace) \cap Works
  <2>1. Booted = box /\ box.good /\ Confirmed /\ box.state = "running"
    BY <1>3, <1>4, Boots, Notices DEF Confirmed, Purposed, SnapshotManifest, Usable
  <2>2. box.files = Content(call.workspace)
    BY <2>1, <1>2, <1>4 DEF Snapping, Made
  <2>3. session.turn \in Turn
    BY <1>2, <1>4 DEF Coupled
  <2> QED BY <1>1, <1>4, <2>1, <2>2, <2>3 DEF Manifested
<1>5. Began' = Began /\ \A w : Content(w)' = Content(w)
  BY <1>3, SameContent, SameBegan
<1> QED BY <1>2, <1>3, <1>4, <1>5, Boots, Notices DEF Snapping, Made, Continues, Provisioned,
    Confirmed

\* The row is written after the backup, and changes neither.
LEMMA SnappingRow == ASSUME Typed, Named, Coupled, Snapping, RememberRow PROVE Snapping'
<1>1. Began' = Began /\ \A w : Content(w)' = Content(w)
  BY RowsKept, SameContent, SameBegan, Domains
<1> QED BY <1>1, RowsKept DEF Snapping, Made, Continues, Provisioned, Confirmed, SessionKept,
    CallKept, Coupled

\* The backup has all the sandbox has: the files, the turn's work, the hook and the
\* uploads.
LEMMA SnappingBackup ==
  ASSUME Typed, Named, Coupled, Ended, Purposed, Whole, Hooked, SnapshotBackup
  PROVE  Snapping'
<1>0. /\ buckets' = [buckets EXCEPT !.backups = Append(buckets.backups, Booted.files)]
      /\ box' = Booted /\ seen' = Noticed /\ UNCHANGED <<store, session>>
      /\ call'.workspace = Len(buckets'.backups) /\ call'.pc = "mark" /\ CallKept
             /\ call.op = "checkpoint"
  BY Backups DEF At
<1>1. call'.workspace = Len(buckets.backups) + 1
  BY <1>0, Appends, Booteds
<1>2. /\ \A w \in Workspace : Content(w)' = Content(w)
      /\ Content(call.workspace)' = Booted.files
  BY <1>0, <1>1, Booteds, MoreContent
<1>3. Began' = Began
  BY <1>0, <1>2, SameBegan
<1>4. ~Noticed.torn => /\ ~seen.torn /\ Booted = box /\ box.good
                       /\ Noticed.acked = seen.acked /\ Noticed.wrote = seen.wrote
  BY Boots, Notices
<1>5. call.turn = session.turn => store.assignment.turn \in Turn
          /\ seen.posts[store.assignment.turn] = 1
  BY <1>0 DEF Coupled, Ended, Quiet
<1>6. ASSUME call.turn = session.turn, ~Noticed.torn
      PROVE  /\ Began \subseteq Booted.files /\ (session.turn \in seen.wrote
                    => Work(session.turn) \in Booted.files)
             /\ Provisioned(Booted.files, MaxUpload)
  BY <1>4, <1>5, <1>6 DEF Whole, Continues, Hooked
<1>7. call.turn = session.turn /\ Booted.good => Began \subseteq Booted.files
          /\ (session.turn \in seen.wrote => Work(session.turn) \in Booted.files)
  BY <1>5, <1>6, Boots DEF Whole, Continues
<1>8. Noticed.acked = seen.acked /\ Noticed.wrote = seen.wrote
  BY Notices
<1> QED BY <1>0, <1>2, <1>3, <1>6, <1>7, <1>8 DEF Snapping, Made, Continues, Provisioned,
    Confirmed, CallKept

\* The backup of a snapshot has all the sandbox holds, until the checkpoint is recorded.
LEMMA SnappingNext ==
  ASSUME Typed, Named, Coupled, Dispatched, Ended, Purposed, Whole, Hooked, Snapping, Manifested,
         Next
  PROVE  Snapping'
<1>1. CASE StartRetried \/ SnapshotCommitted \/ StopUnassigned \/ PrepareIndeterminate
  BY <1>1
    DEF Snapping, SnapshotCommitted, Free, StopUnassigned, PrepareIndeterminate, StartRetried
<1>2. CASE StartAssigned
  BY <1>2 DEF Snapping, StartAssigned, Take
<1>3. CASE StartReuse
  BY <1>3 DEF Snapping, StartReuse, At, Goto
<1>4. CASE StartForget \/ StartStopBox \/ StopSuperseded \/ StopLease \/ ReleaseRetire
           \/ PrepareSetup \/ PrepareConnect \/ Evict
  BY <1>4, Domains, Throws
    DEF Snapping, StopLease, At, Goto, ReleaseRetire, StartForget, StartStopBox, PrepareSetup,
        PrepareConnect, StopSuperseded, Free, Evict, NoCallAfter
<1>5. CASE StartRestore \/ StartHook \/ SocketWrites
  BY <1>5, Hooks, Restores, JobFields
    DEF Snapping, At, CallKept, Ended, Quiet, Dispatched, Coupled, Turn, SocketWrites
<1>6. CASE StartProvisioned
  BY <1>6 DEF Snapping, StartProvisioned, At
<1>7. CASE StartDispatch
  BY <1>7 DEF Snapping, StartDispatch, At, Goto
<1>8. CASE StartPost \/ SnapshotCommit \/ StopStopBox \/ ReleaseRetireBox \/ PrepareTail
           \/ ApplyUpload \/ AppliedUploads
  BY <1>8, Commits, Answers, Remembers, Domains, Posts
    DEF Snapping, Placed, Free, At, NoCallAfter, StopStopBox, Returned, ReleaseRetireBox,
        PrepareTail, Coupled, ApplyUpload, AppliedUploads, Goto
<1>9. CASE SnapshotNative
  BY <1>9 DEF Snapping, SnapshotNative, Take
<1>10. CASE SnapshotBackup
  BY <1>10, SnappingBackup
<1>11. CASE SnapshotUnmarked
  BY <1>11, SameContent, SameBegan
    DEF Snapping, Made, Continues, Provisioned, SnapshotUnmarked, At, Goto
<1>12. CASE SnapshotManifest
  BY <1>12, SnappingManifest
<1>13. CASE SnapshotUpload
  BY <1>13, SameContent, SameBegan
    DEF Snapping, Made, Continues, Provisioned, Confirmed, SnapshotUpload
<1>14. CASE StopRevoke
  BY <1>14 DEF Snapping, StopRevoke, Take
<1>15. CASE StopForget
  BY <1>15 DEF Snapping, StopForget, At, Goto
<1>16. CASE ReleaseRevoke
  BY <1>16 DEF Snapping, ReleaseRevoke, Take
<1>17. CASE PrepareReserve
  BY <1>17 DEF Snapping, PrepareReserve, Take
<1>18. CASE PrepareAdopt
  BY <1>18 DEF Snapping, PrepareAdopt, At
<1>19. CASE PrepareBackup
  BY <1>19 DEF Snapping, PrepareBackup, At
<1>20. CASE PrepareRetried
  BY <1>20 DEF Snapping, PrepareRetried, Take
<1>21. CASE UploadCommit
  BY <1>21 DEF Snapping, UploadCommit, Take
<1>22. CASE FilesListed
  BY <1>22 DEF Snapping, FilesListed, Take
<1>23. CASE RememberMark
  BY <1>23, Boots, Notices, SameContent, SameBegan
    DEF Snapping, Made, Continues, Provisioned, RememberMark, Goto
<1>24. CASE RememberRow
  BY <1>24, SnappingRow
<1>25. CASE StepFails
  BY <1>25, Fails DEF Snapping, NoCallAfter
<1>26. CASE Abandon
  BY <1>26, SameContent, SameBegan DEF Snapping, Made, Continues, Provisioned, Confirmed, Abandon
<1>27. CASE LoseBox \/ LoseHarness \/ SocketOpens \/ SealUnavailable \/ Delete
  BY <1>27, Boots, Notices, SameContent, SameBegan, Domains
    DEF Snapping, Made, Continues, Provisioned, Confirmed, SocketOpens, SealUnavailable, Delete,
        LoseBox, Off, LoseHarness
<1>28. CASE ToolArrives \/ ToolRuns \/ ToolRefused \/ JobEnds \/ SealAnyway
  BY <1>28, SameContent, SameBegan, Seals
    DEF Snapping, Made, Continues, Provisioned, Confirmed, JobEnds, ToolArrives, ToolRuns, Free,
        ToolRefused, SessionKept
<1>29. CASE CodeUncertain
  BY <1>29, Domains, SameContent, SameBegan
    DEF Snapping, Made, Continues, Provisioned, Confirmed, CodeUncertain, StopBox, Off
<1>30. CASE NextTurn
  BY <1>30, Numbers DEF Snapping, Coupled, NextTurn
<1>31. CASE Poll
  BY <1>31, SameContent, SameBegan DEF Snapping, Made, Continues, Provisioned, Confirmed, Poll
<1>32. CASE GiveUp
  BY <1>32, SameContent, SameBegan DEF Snapping, Made, Continues, Provisioned, Confirmed, GiveUp
<1> QED BY <1>1, <1>2, <1>3, <1>4, <1>5, <1>6, <1>7, <1>8, <1>9, <1>10, <1>11, <1>12, <1>13,
           <1>14, <1>15, <1>16, <1>17, <1>18, <1>19, <1>20, <1>21, <1>22, <1>23, <1>24, <1>25,
           <1>26, <1>27, <1>28, <1>29, <1>30, <1>31, <1>32
    DEF Next, Start, Snapshot, Stop, Release, Environment, Prepare, Failure, Job, Session

\* A manifest that is kept from an interrupted snapshot is still the list of the outputs.
LEMMA ManifestedManifest ==
  ASSUME Typed, Coupled, Purposed, Manifested, SnapshotManifest
  PROVE  Manifested'
<1> DEFINE outputs == Booted.files \cap Works
<1>1. PICK m : /\ store' = [store EXCEPT !.manifest[call.turn] = m]
              /\ m = IF outputs = {} THEN store.manifest[call.turn]
                     ELSE IF store.manifest[call.turn] # {} THEN store.manifest[call.turn]
                     ELSE outputs
  BY Zenon DEF SnapshotManifest, Works
<1>2. /\ box' = Booted /\ seen' = Noticed /\ UNCHANGED session /\ call.turn \in Turn
  BY DEF SnapshotManifest, At, Coupled
<1>3. ASSUME Confirmed', box'.good PROVE Booted = box /\ Confirmed /\ box.good
  BY <1>2, <1>3, Boots, Notices DEF Confirmed
<1>4. \A t \in Turn : store'.manifest[t] = IF t = call.turn THEN m ELSE store.manifest[t]
  BY <1>1, StoreFields, Domains
<1> QED BY <1>1, <1>2, <1>3, <1>4 DEF Manifested

\* The manifest of the session's turn stays the list of the turn's outputs.
LEMMA ManifestedNext ==
  ASSUME Typed, Coupled, Dispatched, Created, Listed, Purposed, Manifested, Followed, Next
  PROVE  Manifested'
<1>1. CASE StartRetried \/ StartAssigned \/ StartReuse \/ StartForget \/ ReleaseRevoke
           \/ ReleaseRetire \/ PrepareRetried \/ PrepareIndeterminate \/ UploadCommit
           \/ FilesListed \/ ApplyUpload \/ SealUnavailable \/ Delete
  BY <1>1, Domains, Boots, Notices, Marks
    DEF Manifested, Confirmed, SealUnavailable, Delete, ReleaseRevoke, ReleaseRetire,
        StartRetried, StartAssigned, StartReuse, StartForget, PrepareRetried,
        PrepareIndeterminate, UploadCommit, FilesListed, ApplyUpload, Works
<1>2. CASE StartStopBox \/ StartProvisioned \/ StepFails \/ Evict \/ SocketWrites
  BY <1>2, Domains, Fails, Throws
    DEF Manifested, Confirmed, StartStopBox, StopBox, Off, StartProvisioned, SessionKept, Evict,
        Listed, Quiet, Followed, SocketWrites
<1>3. CASE StartRestore \/ StartHook
  BY <1>3, Hooks, Numbers, Restores DEF Manifested, Coupled, Listed, Quiet, Dispatched, At, Turn
<1>4. CASE StartDispatch
  BY <1>4 DEF Manifested, Confirmed, StartDispatch
<1>5. CASE StartPost \/ SnapshotCommit \/ PrepareTail
  BY <1>5, Answers, Commits, Posts
    DEF Manifested, Confirmed, Placed, Free, PrepareTail, At, Returned, SessionKept
<1>6. CASE SnapshotCommitted
  BY <1>6 DEF Manifested, Confirmed, SnapshotCommitted
<1>7. CASE SnapshotNative \/ SnapshotUnmarked \/ SnapshotUpload \/ StopSuperseded
           \/ StopUnassigned \/ StopRevoke \/ StopLease \/ StopForget \/ RememberMark \/ Abandon
           \/ LoseBox \/ LoseHarness
  BY <1>7, Domains, Boots, Notices
    DEF Manifested, Confirmed, RememberMark, Abandon, LoseBox, Off, LoseHarness, SnapshotNative,
        SnapshotUnmarked, SnapshotUpload, StopSuperseded, StopUnassigned, StopRevoke, StopLease,
        StopForget
<1>8. CASE SnapshotBackup \/ ReleaseRetireBox \/ PrepareBackup
  BY <1>8, Boots, Notices, Backups DEF Manifested, ReleaseRetireBox, Off, Confirmed, PrepareBackup
<1>9. CASE SnapshotManifest
  BY <1>9, ManifestedManifest
<1>10. CASE StopStopBox \/ PrepareAdopt \/ PrepareSetup \/ AppliedUploads
  BY <1>10, Domains, Answers
    DEF Created, At, Turn, Manifested, PrepareAdopt, PrepareSetup, Confirmed, Placed, Free,
        StopStopBox, Returned, SessionKept, StopBox, Off, Coupled, AppliedUploads
<1>11. CASE PrepareReserve
  BY <1>11 DEF Manifested, Confirmed, PrepareReserve
<1>12. CASE PrepareConnect
  BY <1>12 DEF Manifested, Confirmed, PrepareConnect
<1>13. CASE RememberRow
  BY <1>13, Answers DEF Manifested, Confirmed, Coupled, Free, RememberRow, Returned, SessionKept
<1>14. CASE ToolArrives \/ ToolRefused \/ JobEnds
  BY <1>14 DEF Manifested, Confirmed, JobEnds, ToolArrives, ToolRefused
<1>15. CASE ToolRuns
  BY <1>15, Notices, StoreFields
    DEF Manifested, Confirmed, Listed, Quiet, Followed, Coupled, Turn, ToolRuns, stillAssigned,
        superseded
<1>16. CASE SocketOpens
  BY <1>16, Boots, Notices DEF Manifested, Confirmed, SocketOpens
<1>17. CASE CodeUncertain
  BY <1>17, Domains DEF Manifested, Confirmed, CodeUncertain, StopBox, Off
<1>18. CASE NextTurn
  BY <1>18, Numbers DEF Manifested, Coupled, Listed, NextTurn
<1>19. CASE Poll
  BY <1>19 DEF Manifested, Confirmed, Poll
<1>20. CASE GiveUp
  BY <1>20 DEF Manifested, Confirmed, GiveUp
<1>21. CASE SealAnyway
  BY <1>21, Numbers, StoreFields
    DEF Manifested, Confirmed, Coupled, Listed, Quiet, Dispatched, SealAnyway
<1> QED BY <1>1, <1>2, <1>3, <1>4, <1>5, <1>6, <1>7, <1>8, <1>9, <1>10, <1>11, <1>12, <1>13,
           <1>14, <1>15, <1>16, <1>17, <1>18, <1>19, <1>20, <1>21
    DEF Next, Start, Snapshot, Stop, Release, Environment, Prepare, Failure, Job, Session

-----------------------------------------------------------------------------
(***************************************************************************)
(* From above: nothing reaches the sandbox of a turn that is prepared.     *)
(***************************************************************************)

\* The job and the tool calls are of the session's turn while every stop was confirmed.
LEMMA FollowedNext ==
  ASSUME Typed, Coupled, Dispatched, Created, Followed, Unreached, Next
  PROVE  Followed'
<1>1. CASE StartRetried
  BY <1>1 DEF Followed, StartRetried, Free
<1>2. CASE StartAssigned
  BY <1>2 DEF Followed, StartAssigned, Take
<1>3. CASE StartReuse \/ StartForget \/ StartPost \/ StepFails \/ Evict \/ NextTurn \/ SealAnyway
  BY <1>3, Domains, Fails, Throws, Posts, Seals
    DEF Followed, NoCallAfter, SessionKept, Evict, Coupled, At, StartReuse, Goto, StartForget,
        Unreached, NotReached, NextTurn
<1>4. CASE StartStopBox
  BY <1>4 DEF Followed, StartStopBox, Goto
<1>5. CASE StartRestore
  BY <1>5, Restores DEF Followed, CallKept
<1>6. CASE StartProvisioned
  BY <1>6 DEF Followed, StartProvisioned
<1>7. CASE StartHook \/ StartDispatch \/ SnapshotBackup \/ StopSuperseded \/ StopUnassigned
           \/ StopLease \/ StopForget \/ ReleaseRetire \/ GiveUp \/ SealUnavailable \/ Delete
  BY <1>7, Notices, Backups, Hooks, Domains
    DEF Followed, CallKept, StopSuperseded, Free, StopUnassigned, GiveUp, SealUnavailable,
        Delete, StopForget, At, Goto, StartDispatch, ReleaseRetire, NoJob, StopLease
<1>8. CASE SnapshotCommitted
  BY <1>8 DEF Followed, SnapshotCommitted
<1>9. CASE SnapshotNative
  BY <1>9 DEF Followed, SnapshotNative, Take
<1>10. CASE SnapshotUnmarked
  BY <1>10 DEF Followed, SnapshotUnmarked, Goto
<1>11. CASE SnapshotManifest
  BY <1>11, Notices DEF Followed, SnapshotManifest
<1>12. CASE SnapshotUpload
  BY <1>12 DEF Followed, SnapshotUpload
<1>13. CASE SnapshotCommit \/ StopStopBox \/ ReleaseRetireBox \/ PrepareTail \/ AppliedUploads
            \/ RememberRow
  BY <1>13, Domains, Commits, Answers, Remembers
    DEF Followed, Coupled, Placed, Free, At, NoCallAfter, SessionKept, StopStopBox, Returned,
        ReleaseRetireBox, AppliedUploads, Goto, RememberRow, PrepareTail
<1>14. CASE StopRevoke
  BY <1>14, Domains DEF Followed, StopRevoke, Take
<1>15. CASE ReleaseRevoke
  BY <1>15, Domains DEF Followed, ReleaseRevoke, Take
<1>16. CASE PrepareReserve
  BY <1>16 DEF Followed, PrepareReserve, Take
<1>17. CASE PrepareAdopt
  BY <1>17 DEF Followed, PrepareAdopt
<1>18. CASE PrepareSetup
  BY <1>18 DEF Followed, PrepareSetup, Goto
<1>19. CASE PrepareBackup
  BY <1>19, Notices DEF Followed, PrepareBackup
<1>20. CASE PrepareConnect
  BY <1>20 DEF Followed, PrepareConnect, Goto
<1>21. CASE PrepareRetried
  BY <1>21 DEF Followed, PrepareRetried, Take
<1>22. CASE PrepareIndeterminate
  BY <1>22 DEF Followed, PrepareIndeterminate
<1>23. CASE UploadCommit
  BY <1>23 DEF Followed, UploadCommit, Take
<1>24. CASE FilesListed
  BY <1>24 DEF Followed, FilesListed, Take
<1>25. CASE ApplyUpload
  BY <1>25, Notices DEF Followed, ApplyUpload
<1>26. CASE RememberMark \/ Abandon \/ LoseBox \/ LoseHarness \/ ToolArrives \/ ToolRuns
            \/ ToolRefused \/ SocketOpens \/ SocketWrites \/ CodeUncertain \/ JobEnds \/ Poll
  BY <1>26, Domains, Notices
    DEF Followed, RememberMark, Goto, Abandon, LoseBox, LoseHarness, NoJob, ToolArrives,
        Authorized, ToolRuns, ToolRefused, SocketOpens, SocketWrites, CodeUncertain, JobEnds,
        Poll
<1> QED BY <1>1, <1>2, <1>3, <1>4, <1>5, <1>6, <1>7, <1>8, <1>9, <1>10, <1>11, <1>12, <1>13,
           <1>14, <1>15, <1>16, <1>17, <1>18, <1>19, <1>20, <1>21, <1>22, <1>23, <1>24, <1>25,
           <1>26
    DEF Next, Start, Snapshot, Stop, Release, Environment, Prepare, Failure, Job, Session

\* The turn of a snapshot left nothing that could reach the sandbox.
LEMMA UnreachedCommit ==
  ASSUME Typed, Coupled, Dispatched, Recorded, Ended, Followed, Unreached, SnapshotCommit
  PROVE  Unreached'
<1>1. /\ At("checkpoint", "upload") /\ NoCallAfter /\ SessionKept
             /\ UNCHANGED <<box, buckets, job, tool, seen>>
      /\ store'.assignment = store.assignment /\ store'.environment = store.environment
      /\ call.orphan => session'.phase = session.phase
      /\ ~call.orphan => session'.phase = "ended"
  BY Commits
<1>2. Quiet(call.turn) /\ call.turn = store.assignment.turn
  BY <1>1 DEF Ended, At, Coupled
<1>3. ~seen.unconfirmed => job.state # "running"
  BY <1>2 DEF Followed, Quiet
<1>4. ~seen.unconfirmed => \A x \in tool : x.turn # store.assignment.turn
  BY <1>2 DEF Followed, Quiet
<1> QED BY <1>1, <1>3, <1>4 DEF Unreached, stillAssigned, Authorized, superseded

\* Nothing that could reach the sandbox is left when a turn is prepared.
LEMMA UnreachedNext ==
  ASSUME Typed, Coupled, Dispatched, Created, Recorded, Ended, Followed, Unreached, Next
  PROVE  Unreached'
<1>1. CASE StartRetried \/ StartReuse \/ StartForget \/ StartStopBox \/ StartProvisioned
           \/ StartDispatch \/ StepFails \/ Evict
  BY <1>1, Domains, Fails, Throws
    DEF Unreached, NotReached, stillAssigned, Authorized, superseded, StartProvisioned, At,
        StartDispatch, StartRetried, StartReuse, Goto, StartForget, StartStopBox, NoCallAfter,
        SessionKept, Evict
<1>2. CASE StartAssigned
  BY <1>2, Numbers
    DEF Unreached, stillAssigned, superseded, Followed, Turn, Dispatched, StartAssigned,
        startAdmission
<1>3. CASE StartRestore \/ SnapshotUpload \/ SealAnyway
  BY <1>3, Restores, Seals
    DEF Unreached, NotReached, stillAssigned, Authorized, superseded, At, SnapshotUpload
<1>4. CASE StartHook \/ SnapshotBackup \/ SocketOpens \/ SocketWrites
  BY <1>4, Notices, Backups, Hooks, Domains
    DEF Unreached, NotReached, stillAssigned, Authorized, superseded, CallKept, SocketOpens,
        SocketWrites
<1>5. CASE StartPost \/ SnapshotCommitted \/ StopStopBox
  BY <1>5, Posts
    DEF Unreached, stillAssigned, Authorized, Followed, At, StopStopBox, superseded, Coupled,
        Recorded, Quiet, SnapshotCommitted, NotReached, Dispatched, NoCallAfter, SessionKept
<1>6. CASE SnapshotNative
  BY <1>6 DEF Unreached, NotReached, SnapshotNative, Take
<1>7. CASE SnapshotUnmarked
  BY <1>7 DEF Unreached, NotReached, stillAssigned, Authorized, superseded, SnapshotUnmarked, Goto
<1>8. CASE SnapshotManifest
  BY <1>8, Notices
    DEF Unreached, NotReached, stillAssigned, Authorized, superseded, SnapshotManifest
<1>9. CASE SnapshotCommit
  BY <1>9, UnreachedCommit
<1>10. CASE StopSuperseded \/ StopUnassigned \/ StopLease \/ ReleaseRetire
            \/ PrepareIndeterminate \/ NextTurn \/ SealUnavailable \/ Delete
  BY <1>10, Domains
    DEF Unreached, NotReached, PrepareIndeterminate, Free, stillAssigned, Authorized, superseded,
        ReleaseRetire, Goto, NoJob, StopLease, StopSuperseded, StopUnassigned, NextTurn,
        SealUnavailable, Delete
<1>11. CASE StopRevoke
  BY <1>11, Domains DEF Unreached, NotReached, superseded, StopRevoke, Take
<1>12. CASE StopForget
  BY <1>12 DEF Unreached, NotReached, stillAssigned, Authorized, superseded, StopForget, Goto
<1>13. CASE ReleaseRevoke
  BY <1>13 DEF Unreached, NotReached, ReleaseRevoke, Take
<1>14. CASE ReleaseRetireBox \/ AppliedUploads \/ GiveUp
  BY <1>14, Domains, Answers
    DEF Unreached, NotReached, stillAssigned, Authorized, superseded, Coupled, GiveUp, Active,
        Placed, Free, ReleaseRetireBox, At, Returned, NoCallAfter, SessionKept, AppliedUploads
<1>15. CASE PrepareReserve
  BY <1>15 DEF Unreached, NotReached, PrepareReserve, Take
<1>16. CASE PrepareAdopt
  BY <1>16 DEF Unreached, NotReached, stillAssigned, Authorized, superseded, PrepareAdopt
<1>17. CASE PrepareSetup
  BY <1>17 DEF Unreached, NotReached, stillAssigned, Authorized, superseded, PrepareSetup, Goto
<1>18. CASE PrepareBackup
  BY <1>18, Notices
    DEF Unreached, NotReached, stillAssigned, Authorized, superseded, PrepareBackup
<1>19. CASE PrepareConnect
  BY <1>19, Numbers
    DEF Unreached, stillAssigned, superseded, Followed, Coupled, Dispatched, Created, At,
        PrepareConnect
<1>20. CASE PrepareTail \/ RememberRow
  BY <1>20, Domains, Answers, Remembers
    DEF Unreached, NotReached, stillAssigned, Authorized, superseded, Coupled, Free, Created,
        RememberRow, Goto, Returned, NoCallAfter, SessionKept, Placed, At, PrepareTail
<1>21. CASE PrepareRetried
  BY <1>21 DEF Unreached, NotReached, stillAssigned, Authorized, superseded, PrepareRetried, Take
<1>22. CASE UploadCommit
  BY <1>22 DEF Unreached, NotReached, stillAssigned, Authorized, superseded, UploadCommit, Take
<1>23. CASE FilesListed
  BY <1>23 DEF Unreached, NotReached, stillAssigned, Authorized, superseded, FilesListed, Take
<1>24. CASE ApplyUpload \/ RememberMark \/ Abandon \/ LoseBox \/ LoseHarness \/ ToolArrives
            \/ ToolRuns \/ ToolRefused
  BY <1>24, Domains, Notices
    DEF Unreached, NotReached, stillAssigned, Authorized, superseded, ApplyUpload, RememberMark,
        Goto, Abandon, LoseBox, LoseHarness, NoJob, ToolArrives, ToolRuns, ToolRefused
<1>25. CASE CodeUncertain
  BY <1>25, Domains DEF Unreached, NotReached, CodeUncertain
<1>26. CASE JobEnds
  BY <1>26 DEF Unreached, NotReached, JobEnds
<1>27. CASE Poll
  BY <1>27 DEF Unreached, NotReached, stillAssigned, Authorized, superseded, Coupled, Poll
<1> QED BY <1>1, <1>2, <1>3, <1>4, <1>5, <1>6, <1>7, <1>8, <1>9, <1>10, <1>11, <1>12, <1>13,
           <1>14, <1>15, <1>16, <1>17, <1>18, <1>19, <1>20, <1>21, <1>22, <1>23, <1>24, <1>25,
           <1>26, <1>27
    DEF Next, Start, Snapshot, Stop, Release, Environment, Prepare, Failure, Job, Session

\* The backup of the setup puts nothing in the sandbox.
LEMMA CleanBase == ASSUME Typed, Named, Coupled, Clean, PrepareBackup PROVE Clean'
<1>1. /\ At("prepare", "backup") /\ box' = Booted /\ seen' = Noticed
             /\ UNCHANGED <<store, session>>
      /\ \A w \in Workspace : Content(w)' = Content(w)
      /\ call'.op = "prepare"
  BY Booteds, MoreContent, Domains DEF PrepareBackup, At
<1>2. Began' = Began /\ Extras' = Extras
  BY <1>1, SameBegan, SameExtras
<1>3. /\ seen'.unconfirmed = seen.unconfirmed
      /\ box'.state = "running" => \/ box.state = "running" /\ box'.files = box.files
                                  \/ box'.files = {}
  BY <1>1, Boots, Notices
<1> QED BY <1>1, <1>2, <1>3 DEF Clean, NotReached, At

\* An upload puts an extra in the sandbox.
LEMMA CleanUpload == ASSUME Typed, Named, Coupled, Clean, ApplyUpload PROVE Clean'
<1>1. /\ box'.files = Booted.files \cup {Upload(call.after + 1)} /\ box'.state = Booted.state
      /\ store'.environment = store.environment /\ store'.base = store.base
             /\ store'.fileVersion = store.fileVersion
      /\ store'.assignment = store.assignment /\ call'.op = call.op
      /\ UNCHANGED <<buckets, session>>
  BY Boots, Domains DEF ApplyUpload
<1>2. Upload(call.after + 1) \in Extras
  BY InExtras, CallFields, StoreFields DEF ApplyUpload
<1>3. Began' = Began /\ Extras' = Extras
  BY <1>1, SameContent, SameBegan, SameExtras
<1>4. seen'.unconfirmed = seen.unconfirmed
  BY Notices DEF ApplyUpload
<1>5. \/ box.state = "running" /\ box'.files = box.files \cup {Upload(call.after + 1)}
      \/ box'.files = {Upload(call.after + 1)} \/ box'.state # "running"
  BY <1>1, Boots, BoxFields
<1> QED BY <1>1, <1>2, <1>3, <1>4, <1>5 DEF Clean, NotReached

\* The backup of a turn puts nothing in the sandbox.
LEMMA CleanBackup == ASSUME Typed, Named, Coupled, Clean, SnapshotBackup PROVE Clean'
<1>1. /\ box' = Booted /\ seen'.unconfirmed = seen.unconfirmed /\ UNCHANGED <<store, session>>
             /\ call.op = "checkpoint"
      /\ call'.op = "checkpoint" /\ \A w \in Workspace : Content(w)' = Content(w)
  BY Backups, Notices, Booteds, MoreContent DEF CallKept, At
<1>2. Began' = Began /\ Extras' = Extras
  BY <1>1, SameBegan, SameExtras
<1>3. box'.state = "running" => (box.state = "running" /\ box'.files = box.files)
          \/ box'.files = {}
  BY <1>1, Boots
<1> QED BY <1>1, <1>2, <1>3 DEF Clean, NotReached

\* The sandbox of a turn that is prepared gets nothing the last checkpoint does not have.
LEMMA CleanNext ==
  ASSUME Typed, Named, Coupled, Created, Snapped, Snapping, Unreached, Clean, Next
  PROVE  Clean'
<1>1. CASE StartRetried \/ StartAssigned \/ StartReuse \/ StartForget \/ StartStopBox \/ Evict
  BY <1>1, Domains, SameContent, SameBegan, SameExtras, Throws
    DEF Clean, NotReached, StartRetried, startAdmission, StartAssigned, StartReuse, Goto,
        StartForget, StartStopBox, StopBox, Off, Evict, NoCallAfter, SessionKept
<1>2. CASE StartRestore \/ StartPost
  BY <1>2, Restores, SameContent, SameBegan, Posts, SameExtras
    DEF Clean, Coupled, At, Began, NotReached
<1>3. CASE StartProvisioned \/ StartDispatch \/ StopLease \/ StopStopBox \/ ReleaseRetireBox
           \/ StepFails \/ Abandon \/ LoseBox
  BY <1>3, Domains, Fails, SameContent, SameBegan, SameExtras
    DEF Clean, StopStopBox, StopBox, Off, ReleaseRetireBox, NotReached, NoCallAfter, SessionKept,
        StopLease, Goto, Abandon, LoseBox, StartProvisioned, At, StartDispatch
<1>4. CASE StartHook
  BY <1>4, Domains, Boots, Notices, Hooks, SameContent, SameBegan, SameExtras, InExtras
    DEF Clean, NotReached, At
<1>5. CASE SnapshotCommitted
  BY <1>5, SameContent, BeganNext, SameExtras
    DEF Clean, Snapped, Named, One, Coupled, SnapshotCommitted
<1>6. CASE SnapshotNative
  BY <1>6 DEF Clean, NotReached, SnapshotNative, Take
<1>7. CASE SnapshotBackup
  BY <1>7, CleanBackup
<1>8. CASE SnapshotUnmarked
  BY <1>8, SameContent, SameBegan, SameExtras DEF Clean, NotReached, SnapshotUnmarked, Goto
<1>9. CASE SnapshotManifest
  BY <1>9, Boots, Notices, SameContent, SameBegan, SameExtras
    DEF Clean, NotReached, SnapshotManifest
<1>10. CASE SnapshotUpload
  BY <1>10, SameContent, SameBegan, SameExtras DEF Clean, NotReached, SnapshotUpload
<1>11. CASE SnapshotCommit
  BY <1>11, Domains, Commits, SameContent, SameBegan, BeganNext, SameExtras
    DEF Clean, NotReached, Snapping, Coupled, Awaited, At, NoCallAfter, SessionKept
<1>12. CASE StopSuperseded
  BY <1>12, SameContent, SameBegan, SameExtras DEF Clean, NotReached, StopSuperseded, superseded
<1>13. CASE StopUnassigned
  BY <1>13, SameContent, SameBegan, SameExtras DEF Clean, NotReached, StopUnassigned
<1>14. CASE StopRevoke
  BY <1>14, Domains, SameContent, SameBegan, SameExtras DEF Clean, NotReached, StopRevoke, Take
<1>15. CASE StopForget \/ SealUnavailable \/ Delete
  BY <1>15, Domains, SameContent, SameBegan, SameExtras
    DEF Clean, NotReached, SealUnavailable, Delete, StopForget, Goto
<1>16. CASE ReleaseRevoke
  BY <1>16 DEF Clean, NotReached, ReleaseRevoke, Take
<1>17. CASE ReleaseRetire
  BY <1>17, SameContent, SameBegan, SameExtras DEF Clean, NotReached, ReleaseRetire, Goto
<1>18. CASE PrepareReserve
  BY <1>18 DEF Clean, NotReached, PrepareReserve, Take
<1>19. CASE PrepareAdopt
  BY <1>19 DEF Clean, NotReached, Created, At, PrepareAdopt
<1>20. CASE PrepareSetup \/ ToolRuns \/ SocketWrites
  BY <1>20, Domains, Notices
    DEF Clean, NotReached, Created, At, PrepareSetup, Goto, Unreached, ToolRuns, SocketWrites
<1>21. CASE PrepareBackup
  BY <1>21, CleanBase
<1>22. CASE PrepareConnect
  BY <1>22, SameContent, BeganNext DEF Clean, Created, At, PrepareConnect
<1>23. CASE PrepareTail
  BY <1>23, Answers, Remembers, SameContent, SameBegan, SameExtras
    DEF Clean, NotReached, Placed, Free, Created, At, PrepareTail, Returned, NoCallAfter,
        SessionKept
<1>24. CASE PrepareRetried
  BY <1>24, SameContent, SameBegan, SameExtras DEF Clean, NotReached, PrepareRetried, Take
<1>25. CASE PrepareIndeterminate
  BY <1>25 DEF Clean, NotReached, PrepareIndeterminate, Free
<1>26. CASE UploadCommit
  BY <1>26, SameContent, SameBegan, MoreExtras DEF Clean, NotReached, UploadCommit, Take
<1>27. CASE FilesListed
  BY <1>27, SameContent, SameBegan, SameExtras DEF Clean, NotReached, FilesListed, Take
<1>28. CASE ApplyUpload
  BY <1>28, CleanUpload
<1>29. CASE AppliedUploads \/ RememberRow
  BY <1>29, Domains, Answers, SameContent, SameBegan, SameExtras
    DEF Clean, NotReached, Coupled, Placed, Free, AppliedUploads, Returned, NoCallAfter,
        SessionKept, Created, RememberRow, Goto
<1>30. CASE RememberMark
  BY <1>30, Boots, Notices, SameContent, SameBegan, SameExtras
    DEF Clean, NotReached, RememberMark, Goto
<1>31. CASE LoseHarness \/ ToolArrives \/ ToolRefused \/ JobEnds \/ SealAnyway
  BY <1>31, SameContent, SameBegan, SameExtras, Seals
    DEF Clean, NotReached, LoseHarness, ToolArrives, ToolRefused, JobEnds
<1>32. CASE SocketOpens
  BY <1>32, Boots, Notices, SameContent, SameBegan, SameExtras DEF Clean, NotReached, SocketOpens
<1>33. CASE CodeUncertain
  BY <1>33, Domains, SameContent, SameBegan, SameExtras
    DEF Clean, NotReached, CodeUncertain, StopBox, Off
<1>34. CASE NextTurn
  BY <1>34, SameContent, SameBegan, SameExtras DEF Clean, NotReached, NextTurn
<1>35. CASE Poll
  BY <1>35, SameContent, SameBegan, SameExtras DEF Clean, NotReached, Coupled, Poll
<1>36. CASE GiveUp
  BY <1>36, SameContent, SameBegan, SameExtras DEF Clean, NotReached, Coupled, GiveUp, Active
<1> QED BY <1>1, <1>2, <1>3, <1>4, <1>5, <1>6, <1>7, <1>8, <1>9, <1>10, <1>11, <1>12, <1>13,
           <1>14, <1>15, <1>16, <1>17, <1>18, <1>19, <1>20, <1>21, <1>22, <1>23, <1>24, <1>25,
           <1>26, <1>27, <1>28, <1>29, <1>30, <1>31, <1>32, <1>33, <1>34, <1>35, <1>36
    DEF Next, Start, Snapshot, Stop, Release, Environment, Prepare, Failure, Job, Session

\* An off sandbox is empty, and none is destroyed under the turn that is put in it.
LEMMA HousedNext == ASSUME Typed, Coupled, Dispatched, Purposed, Housed, Next PROVE Housed'
<1>1. CASE StartRetried \/ StartRestore \/ SnapshotCommit \/ StopSuperseded \/ StopUnassigned
           \/ ReleaseRetireBox \/ PrepareIndeterminate \/ StepFails \/ GiveUp \/ SealAnyway
           \/ SealUnavailable \/ Delete
  BY <1>1, Commits, Fails, Restores, Seals
    DEF Housed, StopSuperseded, StopUnassigned, GiveUp, SealUnavailable, Delete, NoCallAfter,
        ReleaseRetireBox, Off, StartRetried, PrepareIndeterminate
<1>2. CASE StartAssigned
  BY <1>2 DEF Housed, StartAssigned, Take
<1>3. CASE StartReuse \/ StartForget \/ StartStopBox \/ StartProvisioned \/ StartDispatch
           \/ SnapshotCommitted \/ ReleaseRetire
  BY <1>3, Domains
    DEF Housed, ReleaseRetire, At, Goto, StartReuse, sandboxHolds, StartForget, StartStopBox,
        StopBox, Off, StartProvisioned, StartDispatch, SnapshotCommitted
<1>4. CASE StartHook \/ SnapshotUnmarked \/ SnapshotManifest \/ SnapshotUpload \/ PrepareBackup
  BY <1>4, Boots, Domains, Hooks
    DEF Housed, SnapshotUnmarked, At, Goto, PrepareBackup, SnapshotManifest, Usable,
        SnapshotUpload
<1>5. CASE StartPost \/ PrepareTail
  BY <1>5, Answers, Remembers, Posts
    DEF Housed, Placed, Free, PrepareTail, At, Returned, NoCallAfter
<1>6. CASE SnapshotNative
  BY <1>6 DEF Housed, SnapshotNative, Take
<1>7. CASE SnapshotBackup
  BY <1>7, Boots, Backups DEF Housed, Usable
<1>8. CASE StopRevoke
  BY <1>8 DEF Housed, StopRevoke, Take
<1>9. CASE StopLease
  BY <1>9 DEF Housed, StopLease, At, Goto
<1>10. CASE StopForget
  BY <1>10 DEF Housed, StopForget, Goto
<1>11. CASE StopStopBox \/ PrepareConnect \/ AppliedUploads \/ RememberRow \/ CodeUncertain
  BY <1>11, Domains, Answers
    DEF Housed, PrepareConnect, At, Goto, Coupled, Placed, Free, StopStopBox, Returned,
        NoCallAfter, StopBox, Off, AppliedUploads, RememberRow, Dispatched, CodeUncertain,
        superseded
<1>12. CASE ReleaseRevoke
  BY <1>12 DEF Housed, ReleaseRevoke, Take
<1>13. CASE PrepareReserve
  BY <1>13 DEF Housed, PrepareReserve, Take
<1>14. CASE PrepareAdopt
  BY <1>14, Boots DEF Housed, PrepareAdopt, Usable
<1>15. CASE PrepareSetup
  BY <1>15, Boots DEF Housed, PrepareSetup, Usable
<1>16. CASE PrepareRetried
  BY <1>16 DEF Housed, PrepareRetried, Take
<1>17. CASE UploadCommit
  BY <1>17 DEF Housed, UploadCommit, Take
<1>18. CASE FilesListed
  BY <1>18 DEF Housed, FilesListed, Take
<1>19. CASE ApplyUpload
  BY <1>19, Boots DEF Housed, ApplyUpload, Usable
<1>20. CASE RememberMark \/ Evict \/ Abandon \/ LoseBox \/ LoseHarness \/ ToolArrives \/ ToolRuns
            \/ ToolRefused \/ SocketOpens \/ SocketWrites \/ JobEnds \/ NextTurn \/ Poll
  BY <1>20, Domains, Boots, Throws
    DEF Housed, RememberMark, Usable, Abandon, LoseBox, Off, LoseHarness, ToolArrives, ToolRuns,
        ToolRefused, SocketOpens, SocketWrites, JobEnds, NextTurn, Poll, Evict, NoCallAfter
<1> QED BY <1>1, <1>2, <1>3, <1>4, <1>5, <1>6, <1>7, <1>8, <1>9, <1>10, <1>11, <1>12, <1>13,
           <1>14, <1>15, <1>16, <1>17, <1>18, <1>19, <1>20
    DEF Next, Start, Snapshot, Stop, Release, Environment, Prepare, Failure, Job, Session

-----------------------------------------------------------------------------
(***************************************************************************)
(* What only the POST and the commit of a checkpoint change.               *)
(***************************************************************************)

\* A step other than the POST, and the two that give the session its checkpoint, changes
\* none of the three.
LEMMA RecordsKept ==
  ASSUME Typed, Coupled, Next, ~(StartPost \/ SnapshotCommitted \/ SnapshotCommit)
  PROVE  Unrecorded
<1>1. CASE StartRetried \/ StartAssigned \/ StartReuse \/ StartForget \/ StartStopBox
           \/ StartProvisioned \/ StartDispatch \/ SnapshotNative \/ SnapshotBackup \/ Evict
           \/ ToolRuns \/ ToolRefused \/ SocketOpens \/ SocketWrites
  BY <1>1, Notices, Backups, Throws, Domains
    DEF Unrecorded, Evict, StartRetried, StartAssigned, StartReuse, StartForget, StartStopBox,
        StartProvisioned, StartDispatch, SnapshotNative, ToolRuns, ToolRefused, SocketOpens,
        SocketWrites
<1>2. CASE StartRestore \/ StartHook \/ PrepareBackup \/ SealAnyway
  BY <1>2, Notices, Hooks, Restores, Seals DEF Unrecorded, PrepareBackup
<1>3. CASE SnapshotUnmarked \/ SnapshotManifest \/ SnapshotUpload \/ StopSuperseded
           \/ StopUnassigned \/ StopRevoke \/ StopLease \/ StopForget \/ UploadCommit
           \/ FilesListed \/ ApplyUpload \/ RememberMark \/ Abandon \/ LoseBox \/ LoseHarness
           \/ ToolArrives
  BY <1>3, Domains, Notices
    DEF Unrecorded, SnapshotUnmarked, SnapshotManifest, SnapshotUpload, StopSuperseded,
        StopUnassigned, StopRevoke, StopLease, StopForget, UploadCommit, FilesListed,
        ApplyUpload, RememberMark, Abandon, LoseBox, LoseHarness, ToolArrives
<1>4. CASE StopStopBox \/ ReleaseRetireBox \/ PrepareTail \/ AppliedUploads \/ RememberRow
  BY <1>4, Answers, Domains
    DEF Placed, Free, Unrecorded, PrepareTail, At, Returned, Coupled, StopStopBox,
        ReleaseRetireBox, AppliedUploads, RememberRow
<1>5. CASE ReleaseRevoke \/ ReleaseRetire \/ PrepareReserve \/ PrepareAdopt \/ PrepareRetried
           \/ PrepareIndeterminate \/ StepFails \/ JobEnds \/ GiveUp \/ SealUnavailable \/ Delete
  BY <1>5, Domains, Fails
    DEF Unrecorded, JobEnds, GiveUp, SealUnavailable, Delete, ReleaseRevoke, ReleaseRetire,
        PrepareReserve, PrepareAdopt, PrepareRetried, PrepareIndeterminate
<1>6. CASE PrepareSetup
  BY <1>6 DEF Unrecorded, PrepareSetup
<1>7. CASE PrepareConnect
  BY <1>7 DEF Unrecorded, PrepareConnect
<1>8. CASE CodeUncertain
  BY <1>8 DEF Unrecorded, CodeUncertain
<1>9. CASE NextTurn
  BY <1>9 DEF Unrecorded, NextTurn
<1>10. CASE Poll
  BY <1>10 DEF Unrecorded, Poll
<1> QED BY <1>1, <1>2, <1>3, <1>4, <1>5, <1>6, <1>7, <1>8, <1>9, <1>10
    DEF Next, Start, Snapshot, Stop, Release, Environment, Prepare, Failure, Job, Session

-----------------------------------------------------------------------------
(***************************************************************************)
(* The invariant, and what follows from it.                                *)
(***************************************************************************)

\* The initial states: nothing but a fork's workspace, if there is one.
LEMMA HarnessInit == ASSUME Init PROVE HarnessInv
<1>1. PICK fork \in BOOLEAN :
        /\ store = [assignment |-> [turn |-> 0, dispatched |-> FALSE, revoked |-> FALSE],
                sandbox |-> {}, checkpoint |-> [t \in Turn |-> {}],
                    manifest |-> [t \in Turn |-> {}],
                environment |-> "none", base |-> 0, inherited |-> FALSE,
                fileVersion |-> 0, applied |-> 0]
        /\ buckets = [backups |-> IF fork THEN <<{Setup, Hook}>> ELSE <<>>, artifacts |-> {}]
        /\ session = [phase |-> "creating", turn |-> 0, ck |-> {}, fork |-> fork,
                  waiting |-> FALSE, reported |-> FALSE, stopFailed |-> FALSE]
        /\ box = Off /\ job = NoJob /\ call = NoCall /\ tool = {} /\ faults = 0
        /\ seen = [posts |-> [t \in Turn |-> 0], torn |-> FALSE, unconfirmed |-> FALSE,
               acked |-> {}, wrote |-> {}, setups |-> 0]
  BY DEF Init
<1>z. 0 \in 0..MaxTurn /\ 0 \in 0..MaxUpload /\ 0 \in 0..MaxFault /\ 0 \notin Turn
  BY HarnessAssumption DEF Turn
<1>2. Typed
  <2>1. store \in StoreType
    <3>1. [turn |-> 0, dispatched |-> FALSE, revoked |-> FALSE] \in [turn : 0..MaxTurn,
              dispatched : BOOLEAN, revoked : BOOLEAN]
      BY <1>z
    <3>2. [t \in Turn |-> {}] \in [Turn -> SUBSET CheckpointType]
              /\ [t \in Turn |-> {}] \in [Turn -> SUBSET Mark]
      OBVIOUS
    <3> QED BY <1>1, <1>z, <3>1, <3>2, Zenon DEF StoreType
  <2>2. box \in BoxType /\ job \in JobType
    BY <1>1, <1>z DEF BoxType, JobType, Off, NoJob
  <2>3. call \in CallType
    BY <1>1, <1>z DEF CallType, NoCall, Op, Pc
  <2>4. session \in SessionType
    BY <1>1, <1>z DEF SessionType
  <2>5. seen \in SeenType
    BY <1>1 DEF SeenType
  <2>6. buckets \in [backups : Seq(SUBSET Mark), artifacts : SUBSET (Turn \X Mark)]
    <3>1. {Setup, Hook} \in SUBSET Mark
      BY DEF Mark
    <3> DEFINE b == IF fork THEN <<{Setup, Hook}>> ELSE <<>>
    <3>2. b \in Seq(SUBSET Mark)
      <4>1. CASE fork
        BY <3>1, <4>1
      <4>2. CASE ~fork
        BY <4>2
      <4> QED BY <4>1, <4>2
    <3>3. buckets = [backups |-> b, artifacts |-> {}]
      BY <1>1
    <3> QED BY <3>2, <3>3
  <2> QED BY <1>1, <1>z, <2>1, <2>2, <2>3, <2>4, <2>5, <2>6 DEF Typed
<1>3. /\ store.assignment.turn = 0 /\ ~store.assignment.dispatched /\ store.sandbox = {}
      /\ \A t \in Turn : store.checkpoint[t] = {} /\ store.manifest[t] = {}
      /\ store.environment = "none" /\ store.base = 0 /\ ~store.inherited /\ store.fileVersion = 0
      /\ store.applied = 0
  BY <1>1
<1>4. /\ box.state = "off" /\ box.files = {} /\ box.marker = {} /\ ~box.good
      /\ job.turn = 0 /\ job.state = "none" /\ tool = {}
  BY <1>1 DEF Off, NoJob
<1>5. /\ call.op = "none" /\ call.pc = "none" /\ ~call.orphan /\ call.row = {} /\ call.ck = {}
      /\ call.workspace = 0
  BY <1>1 DEF NoCall
<1>6. session.phase = "creating" /\ session.turn = 0 /\ session.ck = {} /\ ~session.waiting
  BY <1>1
<1>7. /\ \A t \in Turn : seen.posts[t] = 0
      /\ ~seen.torn /\ ~seen.unconfirmed /\ seen.acked = {} /\ seen.wrote = {} /\ seen.setups = 0
  BY <1>1
<1>8. /\ session.fork => Len(buckets.backups) >= 1 /\ Hook \in buckets.backups[1]
      /\ 0 \in Workspace
  <2>1. CASE fork
    <3>1. buckets.backups = <<{Setup, Hook}>> BY <1>1, <2>1
    <3> QED BY <3>1 DEF Workspace
  <2>2. CASE ~fork
    <3>1. buckets.backups = <<>> /\ ~session.fork BY <1>1, <2>2
    <3> QED BY <3>1 DEF Workspace
  <2> QED BY <2>1, <2>2
<1>9. Named
  BY <1>3, <1>4, <1>5, <1>6, <1>8 DEF Named, One, Known
<1>10. Coupled
  BY <1>3, <1>5, <1>6, <1>7 DEF Coupled, Placed, Awaited
<1>11. Dispatched
  BY <1>4, <1>5, <1>7 DEF Dispatched
<1>12. Created
  BY <1>3, <1>5, <1>6, <1>7, <1>8 DEF Created, At
<1>13. Committed
  BY <1>3, <1>5, <1>6 DEF Committed, Recorded, Listed, Continued, Ended
<1>14. Snapshotted
  BY <1>z, <1>3, <1>4, <1>5, <1>6 DEF Snapshotted, Provided, Snapped, Snapping, Manifested
<1>15. Kept
  BY <1>z, <1>3, <1>4, <1>5, <1>6, <1>7 DEF Kept, Purposed, Whole, Hooked, Started, Journal
<1>16. Untouched
  BY <1>4, <1>5 DEF Untouched, Followed, Unreached, Clean, Housed
<1> QED BY <1>2, <1>9, <1>10, <1>11, <1>12, <1>13, <1>14, <1>15, <1>16 DEF HarnessInv

\* A step that changes nothing: the parts of the invariant, one by one.
LEMMA HarnessStutter == ASSUME HarnessInv, UNCHANGED vars PROVE HarnessInv'
<1>1. UNCHANGED <<store, box, buckets, job, call, tool, session, seen, faults>>
  BY DEF vars
<1>2. Typed'
  BY <1>1 DEF HarnessInv, Typed
<1>3. /\ \A w : Content(w)' = Content(w)
      /\ Workspace' = Workspace /\ Began' = Began /\ Extras' = Extras
  BY <1>1, SameContent, SameBegan, SameExtras DEF HarnessInv, Workspace
<1>4. Named'
  BY <1>1, <1>3 DEF HarnessInv, Named, One, Known
<1>5. Coupled'
  BY <1>1 DEF HarnessInv, Coupled, Placed
<1>6. Dispatched'
  BY <1>1 DEF HarnessInv, Dispatched
<1>7. Created'
  BY <1>1, <1>3 DEF HarnessInv, Created, At
<1>8. Committed'
  BY <1>1 DEF HarnessInv, Committed, Recorded, Listed, Continued, Ended, Quiet, Uploaded
<1>9. /\ \A w : Made(w)' <=> Made(w)
      /\ \A files, v : Provisioned(files, v)' <=> Provisioned(files, v)
  BY <1>1, <1>3 DEF Made, Continues, Provisioned
<1>10. Snapshotted'
  BY <1>1, <1>3, <1>9 DEF HarnessInv, Snapshotted, Provided, Snapped, Snapping, Manifested,
     Confirmed
<1>11. Kept'
  BY <1>1, <1>3, <1>9 DEF HarnessInv, Kept, Purposed, Whole, Hooked, Started, Journal, Prepared,
     Continues
<1>12. Untouched'
  BY <1>1, <1>3 DEF HarnessInv, Untouched, Followed, Unreached, Clean, Housed, NotReached,
     stillAssigned, Authorized, superseded
<1> QED BY <1>2, <1>4, <1>5, <1>6, <1>7, <1>8, <1>10, <1>11, <1>12 DEF HarnessInv

\* Every step preserves the invariant.
LEMMA HarnessNext == ASSUME HarnessInv, [Next]_vars PROVE HarnessInv'
<1>1. CASE Next
  <2> USE <1>1 DEF HarnessInv, Committed, Snapshotted, Kept, Untouched
  <2>1. Typed' /\ Named' /\ Coupled' /\ Dispatched' /\ Created'
    BY TypedNext, NamedNext, CoupledNext, DispatchedNext, CreatedNext
  <2>2. Committed'
    BY RecordedNext, ListedNext, ContinuedNext, EndedNext
  <2>3. Snapshotted'
    BY ProvidedNext, SnappedNext, SnappingNext, ManifestedNext
  <2>4. Kept'
    BY PurposedNext, WholeNext, HookedNext, StartedNext, JournalNext
  <2>5. Untouched'
    BY FollowedNext, UnreachedNext, CleanNext, HousedNext
  <2> QED BY <2>1, <2>2, <2>3, <2>4, <2>5
<1>2. CASE UNCHANGED vars
  BY <1>2, HarnessStutter
<1> QED BY <1>1, <1>2

\* The invariant holds of every reachable state, for any number of turns, uploads,
\* retries and failures.
THEOREM HarnessInvariant == Spec => []HarnessInv
<1>1. Init => HarnessInv
  BY HarnessInit
<1>2. HarnessInv /\ [Next]_vars => HarnessInv'
  BY HarnessNext
<1> QED BY <1>1, <1>2, PTL DEF Spec

\* The types of the model follow from those of the invariant.
LEMMA TypeCorrect == ASSUME Typed, Named PROVE TypeOK
<1>1. \A r \in RowType : r.workspace \in Workspace => r \in Row
  BY DEF RowType, Row
<1>2. \A c \in CheckpointType : c.workspace \in Workspace => c \in Checkpoint
  BY DEF CheckpointType, Checkpoint
<1>3. /\ Optional(store.sandbox, Row) /\ \A t \in Turn : Optional(store.checkpoint[t], Checkpoint)
      /\ Optional(call.row, Row) /\ Optional(call.ck, Checkpoint)
             /\ Optional(session.ck, Checkpoint)
      /\ Optional(box.marker, Workspace)
  BY <1>1, <1>2, StoreFields, CallFields, SessionFields DEF Named, One, Known, Optional
<1>4. /\ \A w \in 1..Len(buckets.backups) : buckets.backups[w] \subseteq Mark
      /\ buckets.artifacts \subseteq Turn \X Mark
  BY BucketFields DEF Typed
<1>5. /\ store.assignment \in [turn : 0..MaxTurn, dispatched : BOOLEAN, revoked : BOOLEAN]
      /\ store.inherited \in BOOLEAN /\ store.environment \in {"none", "pending", "connected",
             "failed"}
  BY DEF Typed, StoreType
<1>6. \A t \in Turn : store.manifest[t] \subseteq Mark
  BY StoreFields
<1>7. box.state \in {"off", "running", "ending", "retired"} /\ box.files \subseteq Mark
          /\ box.socket \in 0..MaxTurn
  BY BoxFields
<1>8. store.base \in Workspace /\ store.fileVersion \in 0..MaxUpload
          /\ store.applied \in 0..MaxUpload
      /\ job.turn \in 0..MaxTurn /\ faults \in 0..MaxFault
  BY StoreFields, JobFields DEF Named, Typed
<1> QED BY <1>3, <1>4, <1>5, <1>6, <1>7, <1>8 DEF TypeOK

\* Neither the setup of an environment nor the dispatch of a turn's job is done twice,
\* whatever is retried, evicted or lost.
THEOREM NothingIsRunTwice == Spec => []NothingRunTwice
<1>1. HarnessInv => NothingRunTwice
  BY TypeCorrect DEF HarnessInv, NothingRunTwice, Dispatched, JobPostedOnce, Created, SetupOnce
<1> QED BY <1>1, HarnessInvariant, PTL

\* The POST finds nothing in the sandbox but what the turn starts from.
LEMMA PostsIntoNothingElse ==
  ASSUME HarnessInv, ~seen.unconfirmed, StartPost
  PROVE  box.files \subseteq Content(previousWorkspace(call.ck))
                               \cup {Hook} \cup {Upload(v) : v \in 1..store.fileVersion}
<1>1. call.op = "start" /\ call.pc = "post" /\ call.ck = session.ck
  BY Posts DEF HarnessInv, At, Coupled
<1>2. box.state = "running" => box.files \subseteq Began \cup Extras
  BY <1>1 DEF HarnessInv, Untouched, Clean, NotReached
<1>3. box.state # "running" => box.files = {}
  BY <1>1, BoxFields DEF HarnessInv, Untouched, Housed
<1> QED BY <1>1, <1>2, <1>3 DEF Began, Extras

\* The POST finds all of it there.
LEMMA PostsIntoAll ==
  ASSUME HarnessInv, ~seen.torn, box.state = "running", StartPost
  PROVE  Content(previousWorkspace(call.ck)) \cup {Hook} \cup {Upload(v) : v \in seen.acked}
           \subseteq box.files
<1>1. call.op = "start" /\ call.pc = "post" /\ call.ck = session.ck
  BY Posts DEF HarnessInv, At, Coupled
<1>2. box.good /\ Provisioned(box.files, call.after) /\ call.after >= store.fileVersion
  BY <1>1 DEF HarnessInv, Kept, Started
<1>3. Began \subseteq box.files
  BY <1>2 DEF HarnessInv, Kept, Whole, Continues
<1>4. \A v \in seen.acked : v <= call.after
  BY <1>2, StoreFields, CallFields, SeenFields DEF HarnessInv, Kept, Journal
<1> QED BY <1>1, <1>2, <1>3, <1>4 DEF Began, Provisioned

\* The commit of a checkpoint is the first of its turn.
LEMMA CommitsOnce ==
  ASSUME HarnessInv, SnapshotCommit, NEW t \in Turn, store.checkpoint[t] # {}
  PROVE  store'.checkpoint[t] = store.checkpoint[t]
<1>1. t # call.turn
  BY Commits DEF HarnessInv, Committed, Ended, At
<1> QED BY <1>1, Commits, StoreFields DEF HarnessInv

\* The checkpoint the session gets is the one recorded, of its turn, with its files
\* and its artifacts.
LEMMA CommitsAll ==
  ASSUME HarnessInv, SnapshotCommitted \/ SnapshotCommit, NEW c \in session'.ck \ session.ck
  PROVE  /\ store'.checkpoint[c.turn] = {c} /\ c.turn = session.turn
                /\ Uploaded(c.turn, c.artifacts)
         /\ Made(c.workspace) /\ (Confirmed => c.artifacts = Content(c.workspace) \cap Works)
<1>1. CASE SnapshotCommitted
  <2>1. /\ c \in store.checkpoint[session.turn] /\ session.turn \in Turn /\ UNCHANGED store
    BY <1>1, Domains DEF SnapshotCommitted, HarnessInv, Coupled
  <2>2. c.turn = session.turn /\ Uploaded(c.turn, c.artifacts)
    BY <2>1 DEF HarnessInv, Committed, Recorded
  <2>3. store'.checkpoint[c.turn] = {c}
    BY <2>1, <2>2 DEF HarnessInv, Named, One
  <2> QED BY <2>1, <2>2, <2>3 DEF HarnessInv, Snapshotted, Snapped
<1>2. CASE SnapshotCommit
  <2>1. PICK k : /\ k.turn = call.turn /\ k.workspace = call.workspace
                     /\ k.artifacts = call.artifacts
                 /\ store'.checkpoint = [store.checkpoint EXCEPT ![call.turn] = {k}]
                 /\ ~call.orphan => session'.ck = {k}
    BY <1>2, Commits DEF HarnessInv
  <2>2. /\ At("checkpoint", "upload") /\ Uploaded(call.turn, call.artifacts) /\ ~call.orphan
    BY <1>2, Commits DEF HarnessInv
  <2>3. c = k /\ call.turn = session.turn /\ call.turn \in Turn
    BY <2>1, <2>2 DEF HarnessInv, Coupled, At, Awaited
  <2>4. Made(call.workspace) /\ (Confirmed => call.artifacts = Content(call.workspace) \cap Works)
    BY <2>2, <2>3 DEF HarnessInv, Snapshotted, Snapping, At
  <2>5. store'.checkpoint[c.turn] = {c}
    BY <2>1, <2>3, StoreFields DEF HarnessInv
  <2> QED BY <2>1, <2>2, <2>3, <2>4, <2>5
<1> QED BY <1>1, <1>2

\* Only the POST counts as one, only a commit records a checkpoint, and only a commit
\* or the retry of one gives it to the session.
LEMMA OnlyThere ==
  ASSUME HarnessInv, [Next]_vars
  PROVE  /\ Posting => StartPost
         /\ store'.checkpoint # store.checkpoint => SnapshotCommit
         /\ session'.ck # session.ck => SnapshotCommitted \/ SnapshotCommit
<1>1. CASE Next /\ ~(StartPost \/ SnapshotCommitted \/ SnapshotCommit)
  BY <1>1, RecordsKept DEF HarnessInv, Unrecorded, Posting
<1>2. CASE StartPost
  BY <1>2, Posts DEF HarnessInv
<1>3. CASE SnapshotCommitted
  BY <1>3 DEF SnapshotCommitted, Posting
<1>4. CASE SnapshotCommit
  BY <1>4, Commits DEF HarnessInv, Posting
<1>5. CASE UNCHANGED vars
  BY <1>5 DEF vars, Posting
<1> QED BY <1>1, <1>2, <1>3, <1>4, <1>5

\* Every step keeps what the workspace of a session promises: what a job starts in, and
\* what a checkpoint adds.
LEMMA WorkspaceStep ==
  ASSUME HarnessInv, [Next]_vars
  PROVE  /\ Posting /\ ~seen.unconfirmed
              => box.files \subseteq Content(previousWorkspace(call.ck))
                                       \cup {Hook} \cup {Upload(v) : v \in 1..store.fileVersion}
         /\ Posting /\ ~seen.torn /\ box.state = "running"
              => Content(previousWorkspace(call.ck)) \cup {Hook} \cup {Upload(v) : v \in seen.acked}
                   \subseteq box.files
         /\ \A t \in Turn : store.checkpoint[t] # {} => store'.checkpoint[t] = store.checkpoint[t]
         /\ \A c \in session'.ck \ session.ck :
              /\ store'.checkpoint[c.turn] = {c} /\ c.turn = session.turn
              /\ ~seen.torn =>
                   Content(previousWorkspace(session.ck))
                     \cup {Work(t) : t \in seen.wrote \cap {c.turn}} \subseteq Content(c.workspace)
         /\ \A c \in session'.ck \ session.ck :
              /\ Uploaded(c.turn, c.artifacts)
              /\ ~(seen.torn \/ seen.unconfirmed) =>
                   c.artifacts = Content(c.workspace) \cap {Work(t) : t \in Turn}
<1>1. Posting /\ ~seen.unconfirmed
        => box.files \subseteq Content(previousWorkspace(call.ck))
                                 \cup {Hook} \cup {Upload(v) : v \in 1..store.fileVersion}
  BY OnlyThere, PostsIntoNothingElse
<1>2. Posting /\ ~seen.torn /\ box.state = "running"
        => Content(previousWorkspace(call.ck)) \cup {Hook} \cup {Upload(v) : v \in seen.acked}
             \subseteq box.files
  BY OnlyThere, PostsIntoAll
<1>3. \A t \in Turn : store.checkpoint[t] # {} => store'.checkpoint[t] = store.checkpoint[t]
  BY OnlyThere, CommitsOnce
<1>4. ASSUME NEW c \in session'.ck \ session.ck
      PROVE  /\ store'.checkpoint[c.turn] = {c} /\ c.turn = session.turn
                    /\ Uploaded(c.turn, c.artifacts)
             /\ Made(c.workspace) /\ (Confirmed => c.artifacts = Content(c.workspace) \cap Works)
  BY <1>4, OnlyThere, CommitsAll
<1>5. ASSUME NEW c \in session'.ck \ session.ck, ~seen.torn
      PROVE  Content(previousWorkspace(session.ck))
               \cup {Work(t) : t \in seen.wrote \cap {c.turn}} \subseteq Content(c.workspace)
  BY <1>4, <1>5 DEF Made, Continues, Began
<1>6. ASSUME NEW c \in session'.ck \ session.ck, ~(seen.torn \/ seen.unconfirmed)
      PROVE  c.artifacts = Content(c.workspace) \cap {Work(t) : t \in Turn}
  BY <1>4, <1>6 DEF Confirmed, Works
<1> QED BY <1>1, <1>2, <1>3, <1>4, <1>5, <1>6

\* A session's workspace is what its turns committed: every job starts in all of it and
\* in nothing else, and every checkpoint adds the turn's own work, once, and what it
\* publishes is stored.
THEOREM WorkspaceIsContinued == Spec => WorkspaceContinues
<1>1. HarnessInv /\ [Next]_vars
        => [Posting /\ ~seen.unconfirmed
              => box.files \subseteq
                   Content(previousWorkspace(call.ck))
                     \cup {Hook} \cup {Upload(v) : v \in 1..store.fileVersion}]_vars
  BY WorkspaceStep
<1>2. HarnessInv /\ [Next]_vars
        => [Posting /\ ~seen.torn /\ box.state = "running"
              => Content(previousWorkspace(call.ck)) \cup {Hook} \cup {Upload(v) : v \in seen.acked}
                   \subseteq box.files]_vars
  BY WorkspaceStep
<1>3. HarnessInv /\ [Next]_vars
        => [\A t \in Turn :
              store.checkpoint[t] # {} => store'.checkpoint[t] = store.checkpoint[t]]_vars
  BY WorkspaceStep
<1>4. HarnessInv /\ [Next]_vars
        => [\A c \in session'.ck \ session.ck :
              /\ store'.checkpoint[c.turn] = {c} /\ c.turn = session.turn
              /\ ~seen.torn =>
                   Content(previousWorkspace(session.ck))
                     \cup {Work(t) : t \in seen.wrote \cap {c.turn}}
                     \subseteq Content(c.workspace)]_vars
  BY WorkspaceStep
<1>5. HarnessInv /\ [Next]_vars
        => [\A c \in session'.ck \ session.ck :
              /\ Uploaded(c.turn, c.artifacts)
              /\ ~(seen.torn \/ seen.unconfirmed) =>
                   c.artifacts = Content(c.workspace) \cap {Work(t) : t \in Turn}]_vars
  BY WorkspaceStep
<1>6. Spec => NothingUncommitted
  BY <1>1, HarnessInvariant, PTL DEF Spec, NothingUncommitted
<1>7. Spec => WorkspaceComplete
  BY <1>2, HarnessInvariant, PTL DEF Spec, WorkspaceComplete
<1>8. Spec => OneCheckpointPerTurn
  BY <1>3, HarnessInvariant, PTL DEF Spec, OneCheckpointPerTurn
<1>9. Spec => CheckpointKeepsWork
  BY <1>4, HarnessInvariant, PTL DEF Spec, CheckpointKeepsWork
<1>10. Spec => ArtifactsPublished
  BY <1>5, HarnessInvariant, PTL DEF Spec, ArtifactsPublished
<1> QED BY <1>6, <1>7, <1>8, <1>9, <1>10, PTL DEF WorkspaceContinues
=============================================================================
