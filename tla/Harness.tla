------------------------------ MODULE Harness ------------------------------
(***************************************************************************)
(* HarnessDO (containers.ts, containers/*, container-environments.ts): the *)
(* object that gives each turn of a session its workspace, dispatches the  *)
(* turn's job once, commits its checkpoint and stops it.                   *)
(*                                                                         *)
(* start, checkpoint, stop, release, prepare, upload, files and the        *)
(* workspace tools take the object's workspace permit: call is the one     *)
(* that has it, cut where it awaits.  A call that waits for the permit has *)
(* changed nothing and is not a step.  Sockets into the sandbox and the    *)
(* revocation after an uncertain code execution take no permit.            *)
(*                                                                         *)
(* The two containers are external: job is what the harness container      *)
(* runs, box what the sandbox container holds.  Either may be lost at any  *)
(* time, and a sandbox that is off is booted empty by its next use.        *)
(* session is the caller: the reconciler, which sends the call of its      *)
(* phase until it is answered, and the creation of the session.            *)
(*                                                                         *)
(* A value that may be absent is a set of at most one element.             *)
(***************************************************************************)
EXTENDS Naturals, Sequences, FiniteSets

CONSTANTS MaxTurn,     \* turns are generations 1..MaxTurn
          MaxUpload,   \* bound on explicit environment uploads
          MaxFault     \* bound on losses, evictions, failed steps and abandoned calls

ASSUME HarnessAssumption ==
  MaxTurn \in Nat /\ MaxUpload \in Nat /\ MaxFault \in Nat

VARIABLES store,    \* the durable rows of the object
          box,      \* the sandbox container
          buckets,  \* R2: what each workspace backup holds, by id, and the
                    \* artifacts uploaded
          job,      \* the harness container and the job in it
          call,     \* the call that has the workspace permit
          tool,     \* a workspace tool request that waits for the permit
          session,  \* the caller
          seen,     \* history, for the properties
          faults

vars == <<store, box, buckets, job, call, tool, session, seen, faults>>

Turn == 1..MaxTurn

\* A snapshot is retried without a new fault only when a file of its manifest is gone:
\* bound on the backups such retries take.
MaxRetry == MaxTurn + MaxFault

\* What a workspace may hold: the result of setup, of the deployment's hook,
\* an upload, the work of a turn.
Setup == <<"setup">>
Hook == <<"hook">>
Upload(v) == <<"upload", v>>
Work(t) == <<"turn", t>>
Mark == {Setup, Hook} \cup {Upload(v) : v \in 1..MaxUpload} \cup {Work(t) : t \in Turn}

\* A workspace id is an index of the backups; 0 is the id "" of a fresh workspace.
Content(w) == IF w = 0 THEN {} ELSE buckets.backups[w]

\* The workspace a turn starts from: its checkpoint's, else the environment's base.
previousWorkspace(ck) == IF ck = {} THEN store.base ELSE (CHOOSE c \in ck : TRUE).workspace
previousVersion(ck) == IF ck = {} THEN 0 ELSE (CHOOSE c \in ck : TRUE).version

(***************************************************************************)
(* The containers.  A lease whose destroy failed is ending: it refuses     *)
(* every use until the destroy succeeds.  good says that the workspace of  *)
(* this container was put there by a restore or a setup.                   *)
(***************************************************************************)
Off == [state |-> "off", files |-> {}, marker |-> {}, socket |-> 0, good |-> FALSE]
Usable == box.state \in {"off", "running"}
Booted == IF box.state = "off" THEN [Off EXCEPT !.state = "running"] ELSE box
\* A container that was replaced under an operation is noticed by what uses it.
Noticed == IF Booted.good THEN seen ELSE [seen EXCEPT !.torn = TRUE]
NoJob == [turn |-> 0, state |-> "none", ending |-> FALSE]

Fault == faults < MaxFault /\ faults' = faults + 1
NoFault == UNCHANGED faults

(***************************************************************************)
(* Calls and their answers.                                                *)
(***************************************************************************)
NoCall == [op |-> "none", pc |-> "none", turn |-> 0, ck |-> {}, orphan |-> FALSE,
           row |-> {}, next |-> "none", workspace |-> 0, after |-> 0, artifacts |-> {}]
Free == call.op = "none"
At(op, pc) == call.op = op /\ call.pc = pc
Goto(pc) == call' = [call EXCEPT !.pc = pc]

Take(op, pc) ==
  [NoCall EXCEPT !.op = op, !.pc = pc, !.turn = session.turn, !.ck = session.ck]

\* What an answer means to the caller that still waits for it.
Answered(result) ==
  IF call.orphan THEN session
  ELSE CASE call.op = "start" -> [session EXCEPT !.waiting = FALSE, !.phase = "running"]
         [] call.op = "checkpoint" ->
              [session EXCEPT !.waiting = FALSE, !.phase = "ended", !.ck = result]
         [] call.op = "stop" -> [session EXCEPT !.waiting = FALSE, !.phase = "ended"]
         [] call.op = "release" -> [session EXCEPT !.waiting = FALSE, !.phase = "released"]
         [] call.op = "prepare" /\ session.phase = "creating" ->
              [session EXCEPT !.phase = "ended"]
         [] OTHER -> session
Unanswered ==
  IF call.orphan \/ ~session.waiting THEN session
  ELSE [session EXCEPT !.waiting = FALSE, !.stopFailed = @ \/ call.op = "stop"]

Return(result) == call' = NoCall /\ session' = Answered(result)
Throw == call' = NoCall /\ session' = Unanswered

(***************************************************************************)
(* rememberSandbox: the marker in the container, then the row.             *)
(***************************************************************************)
Remember(row, next) ==
  call' = [call EXCEPT !.pc = "mark", !.row = {row}, !.next = next]

RememberMark ==
  /\ call.pc = "mark" /\ Usable /\ NoFault
  /\ \E row \in call.row : box' = [Booted EXCEPT !.marker = {row.workspace}]
  /\ seen' = Noticed
  /\ Goto("row")
  /\ UNCHANGED <<store, buckets, job, tool, session>>

RememberRow ==
  /\ call.pc = "row" /\ NoFault
  /\ store' = [store EXCEPT !.sandbox = call.row]
  /\ IF call.next = "return" THEN Return({})
     ELSE Goto(call.next) /\ UNCHANGED session
  /\ UNCHANGED <<box, buckets, job, tool, seen>>

(***************************************************************************)
(* startExecution                                                          *)
(***************************************************************************)
startAdmission(turn) ==
  IF turn < store.assignment.turn THEN "superseded"
  ELSE IF turn = store.assignment.turn /\ store.assignment.dispatched THEN "dispatched"
  ELSE "new"

\* A retry of a dispatched turn is answered; a new turn is assigned.
StartRetried ==
  /\ Free /\ session.phase = "starting" /\ ~session.waiting
  /\ startAdmission(session.turn) = "dispatched"
  /\ session' = [session EXCEPT !.phase = "running"]
  /\ UNCHANGED <<store, box, buckets, job, call, tool, seen, faults>>
StartAssigned ==
  /\ Free /\ session.phase = "starting" /\ ~session.waiting
  /\ startAdmission(session.turn) = "new"
  /\ store' = [store EXCEPT !.assignment =
                 [turn |-> session.turn, dispatched |-> FALSE, revoked |-> FALSE]]
  /\ session' = [session EXCEPT !.waiting = TRUE]
  /\ call' = Take("start", "holds")
  /\ UNCHANGED <<box, buckets, job, tool, seen, faults>>

\* sandboxHolds: the row, a running container and the marker in it agree.
sandboxHolds(workspace) ==
  /\ \E row \in store.sandbox : row.workspace = workspace
  /\ box.state = "running"
  /\ box.marker = {workspace}

\* A status or marker read that fails counts as doubt.
StartReuse ==
  /\ At("start", "holds") /\ NoFault
  /\ sandboxHolds(previousWorkspace(call.ck))
  /\ Goto("provision")
  /\ UNCHANGED <<store, box, buckets, job, tool, session, seen>>
StartForget ==
  /\ At("start", "holds")
  /\ IF sandboxHolds(previousWorkspace(call.ck)) THEN Fault ELSE NoFault
  /\ store' = [store EXCEPT !.sandbox = {}]
  /\ Goto("stopbox")
  /\ UNCHANGED <<box, buckets, job, tool, session, seen>>

\* lease.stop of the sandbox: a destroy that fails is queued, and answered the same.
StopBox ==
  \/ box.state # "retired" /\ box' = Off /\ NoFault
  \/ box.state = "retired" /\ UNCHANGED box /\ NoFault
  \/ box.state = "running" /\ box' = [box EXCEPT !.state = "ending"] /\ Fault

StartStopBox ==
  /\ At("start", "stopbox") /\ StopBox
  /\ Goto("restore")
  /\ UNCHANGED <<store, buckets, job, tool, session, seen>>

\* configure, restore or mkdir, installPackages: a fresh container with the
\* committed workspace.
StartRestore ==
  /\ At("start", "restore") /\ Usable /\ NoFault
  /\ LET workspace == previousWorkspace(call.ck)
     IN /\ box' = [Booted EXCEPT !.files = Content(workspace), !.good = TRUE]
        /\ Remember([workspace |-> workspace,
                     provisioned |-> call.ck # {} \/ store.inherited], "provision")
  /\ UNCHANGED <<store, buckets, job, tool, session, seen>>

\* The deployment's hook runs once per fresh workspace.
StartProvisioned ==
  /\ At("start", "provision") /\ NoFault
  /\ \E row \in store.sandbox : row.provisioned
  /\ call' = [call EXCEPT !.pc = "apply", !.after = previousVersion(call.ck)]
  /\ UNCHANGED <<store, box, buckets, job, tool, session, seen>>
StartHook ==
  /\ At("start", "provision") /\ Usable /\ NoFault
  /\ ~ \E row \in store.sandbox : row.provisioned
  /\ box' = [Booted EXCEPT !.files = @ \cup {Hook}]
  /\ seen' = Noticed
  /\ call' = [call EXCEPT !.pc = "mark", !.next = "apply", !.after = previousVersion(call.ck),
                          !.row = {[workspace |-> previousWorkspace(call.ck),
                                    provisioned |-> TRUE]}]
  /\ UNCHANGED <<store, buckets, job, tool, session>>

\* The job is dispatched without the tombstone.
StartDispatchUnmarked ==
  /\ At("start", "dispatch") /\ ~job.ending /\ NoFault
  /\ Goto("post")
  /\ UNCHANGED <<store, box, buckets, job, tool, session, seen>>

\* loadCheckpoint and lease.acquire, then the durable dispatch tombstone.
StartDispatch ==
  /\ At("start", "dispatch") /\ ~job.ending /\ NoFault
  /\ store' = [store EXCEPT !.assignment.dispatched = TRUE]
  /\ Goto("post")
  /\ UNCHANGED <<box, buckets, job, tool, session, seen>>

\* POST /jobs: the supervisor replaces the job it has.  The answer, or the
\* request, may be lost.
Posted ==
  /\ job' = [turn |-> call.turn, state |-> "running", ending |-> FALSE]
  /\ seen' = [seen EXCEPT !.posts[call.turn] = @ + 1]
StartPost ==
  /\ At("start", "post")
  /\ \/ Posted /\ Return({}) /\ NoFault
     \/ Posted /\ Throw /\ Fault
     \/ UNCHANGED <<job, seen>> /\ Throw /\ Fault
  /\ UNCHANGED <<store, box, buckets, tool>>

(***************************************************************************)
(* applyUploads: the journal after a version, in order.                    *)
(***************************************************************************)
ApplyUpload ==
  /\ call.pc = "apply" /\ call.after < store.fileVersion /\ Usable /\ NoFault
  /\ box' = [Booted EXCEPT !.files = @ \cup {Upload(call.after + 1)}]
  /\ store' = [store EXCEPT !.applied = call.after + 1]
  /\ call' = [call EXCEPT !.after = @ + 1]
  /\ seen' = IF call.op = "start" THEN Noticed ELSE seen
  /\ UNCHANGED <<buckets, job, tool, session>>
AppliedUploads ==
  /\ call.pc = "apply" /\ call.after >= store.fileVersion /\ NoFault
  /\ IF call.op = "start" THEN Goto("dispatch") /\ UNCHANGED <<session, seen>>
     ELSE /\ Return({})
          /\ seen' = IF call.op = "upload"
                     THEN [seen EXCEPT !.acked = @ \cup {store.fileVersion}] ELSE seen
  /\ UNCHANGED <<store, box, buckets, job, tool>>

\* upload: the object and the journal row, then the write; files: what the
\* journal still owes, then a listing.
UploadCommit ==
  /\ Free /\ store.environment = "connected" /\ store.fileVersion < MaxUpload
  /\ session.phase \notin {"deleting", "released"}
  /\ store' = [store EXCEPT !.fileVersion = @ + 1]
  /\ call' = [Take("upload", "apply") EXCEPT !.after = store.applied]
  /\ UNCHANGED <<box, buckets, job, tool, session, seen, faults>>
FilesListed ==
  /\ Free /\ store.environment = "connected" /\ store.applied < store.fileVersion
  /\ session.phase \notin {"deleting", "released"}
  /\ call' = [Take("files", "apply") EXCEPT !.after = store.applied]
  /\ UNCHANGED <<store, box, buckets, job, tool, session, seen, faults>>

(***************************************************************************)
(* checkpointExecution: snapshot                                           *)
(***************************************************************************)
superseded(turn) == store.assignment.turn # turn

SnapshotCommitted ==
  /\ Free /\ session.phase = "checkpointing" /\ ~session.waiting
  /\ ~superseded(session.turn) /\ store.checkpoint[session.turn] # {}
  /\ session' = [session EXCEPT !.phase = "ended", !.ck = store.checkpoint[session.turn]]
  /\ UNCHANGED <<store, box, buckets, job, call, tool, seen, faults>>
\* The native checkpoint, which the supervisor gives of a finished job, in R2.
SnapshotNative ==
  /\ Free /\ session.phase = "checkpointing" /\ ~session.waiting
  /\ ~superseded(session.turn) /\ store.checkpoint[session.turn] = {}
  /\ job.turn = session.turn /\ job.state = "completed" /\ ~job.ending
  /\ Len(buckets.backups) <= MaxRetry
  /\ session' = [session EXCEPT !.waiting = TRUE]
  /\ call' = Take("checkpoint", "backup")
  /\ UNCHANGED <<store, box, buckets, job, tool, seen, faults>>
SnapshotBackup ==
  /\ At("checkpoint", "backup") /\ Usable /\ NoFault
  /\ box' = Booted
  /\ buckets' = [buckets EXCEPT !.backups = Append(@, Booted.files)]
  /\ seen' = Noticed
  /\ call' = [call EXCEPT !.pc = "mark", !.next = "publish", !.workspace = Len(buckets'.backups),
                          !.row = {[workspace |-> Len(buckets'.backups), provisioned |-> TRUE]}]
  /\ UNCHANGED <<store, job, tool, session>>
\* A marker that could not be written only costs the reuse.
SnapshotUnmarked ==
  /\ At("checkpoint", "mark")
  /\ IF Usable THEN Fault ELSE NoFault
  /\ store' = [store EXCEPT !.sandbox = {}]
  /\ Goto("publish")
  /\ UNCHANGED <<box, buckets, job, tool, session, seen>>
\* publishArtifacts: the manifest of the files in /workspace/outputs, where a turn
\* leaves its work, is durable before any of them is uploaded, and a retry keeps it.
SnapshotManifest ==
  /\ At("checkpoint", "publish") /\ Usable /\ NoFault
  /\ LET outputs == Booted.files \cap {Work(t) : t \in Turn}
         manifest == IF outputs = {} THEN {}
                     ELSE IF store.manifest[call.turn] # {} THEN store.manifest[call.turn]
                     ELSE outputs
     IN /\ store' = [store EXCEPT !.manifest[call.turn] = IF outputs = {} THEN @ ELSE manifest]
        /\ call' = [call EXCEPT !.pc = "upload", !.artifacts = manifest]
  /\ box' = Booted
  /\ seen' = Noticed
  /\ UNCHANGED <<buckets, job, tool, session>>
\* Each file of the manifest that is not in the bucket under its turn is copied there.
Uploaded(turn, files) == {turn} \X files \subseteq buckets.artifacts
SnapshotUpload ==
  /\ At("checkpoint", "upload") /\ Usable /\ NoFault
  /\ \E file \in call.artifacts \cap Booted.files :
       /\ ~Uploaded(call.turn, {file})
       /\ buckets' = [buckets EXCEPT !.artifacts = @ \cup {<<call.turn, file>>}]
  /\ UNCHANGED <<store, box, job, call, tool, session, seen>>
SnapshotCommit ==
  /\ At("checkpoint", "upload") /\ Uploaded(call.turn, call.artifacts) /\ NoFault
  /\ LET checkpoint == {[turn |-> call.turn, workspace |-> call.workspace,
                         version |-> store.fileVersion, artifacts |-> call.artifacts]}
     IN /\ store' = [store EXCEPT !.checkpoint[call.turn] = checkpoint]
        /\ Return(checkpoint)
  /\ UNCHANGED <<box, buckets, job, tool, seen>>

(***************************************************************************)
(* stopExecution and releaseCompute                                        *)
(***************************************************************************)
StopSuperseded ==
  /\ Free /\ session.phase = "stopping" /\ ~session.waiting
  /\ store.assignment.turn # 0 /\ superseded(session.turn)
  /\ session' = [session EXCEPT !.phase = "ended"]
  /\ UNCHANGED <<store, box, buckets, job, call, tool, seen, faults>>
\* ContainerUnassigned: nothing was ever started, and a stop cannot be confirmed.
StopUnassigned ==
  /\ Free /\ session.phase = "stopping" /\ ~session.waiting
  /\ store.assignment.turn = 0
  /\ session' = [session EXCEPT !.stopFailed = TRUE]
  /\ UNCHANGED <<store, box, buckets, job, call, tool, seen, faults>>
StopRevoke ==
  /\ Free /\ session.phase = "stopping" /\ ~session.waiting
  /\ store.assignment.turn # 0 /\ ~superseded(session.turn)
  /\ store' = [store EXCEPT !.assignment.revoked = TRUE]
  /\ session' = [session EXCEPT !.waiting = TRUE]
  /\ call' = Take("stop", "lease")
  /\ UNCHANGED <<box, buckets, job, tool, seen, faults>>
\* lease.stop of the harness container, as for the sandbox: the job of a destroy
\* that is queued lives on.
StopLease ==
  /\ At("stop", "lease")
  /\ \/ job' = NoJob /\ UNCHANGED seen /\ NoFault
     \/ /\ job # NoJob /\ job' = [job EXCEPT !.ending = TRUE] /\ Fault
        /\ seen' = [seen EXCEPT !.unconfirmed = TRUE]
  /\ Goto("forget")
  /\ UNCHANGED <<store, box, buckets, tool, session>>
StopForget ==
  /\ At("stop", "forget") /\ NoFault
  /\ store' = [store EXCEPT !.sandbox = {}]
  /\ Goto("stopbox")
  /\ UNCHANGED <<box, buckets, job, tool, session, seen>>
StopStopBox ==
  /\ At("stop", "stopbox") /\ StopBox /\ Return({})
  /\ UNCHANGED <<store, buckets, job, tool, seen>>

ReleaseRevoke ==
  /\ Free /\ session.phase = "deleting" /\ ~session.waiting
  /\ store' = [store EXCEPT !.assignment.revoked = store.assignment.turn # 0]
  /\ session' = [session EXCEPT !.waiting = TRUE]
  /\ call' = Take("release", "retire")
  /\ UNCHANGED <<box, buckets, job, tool, seen, faults>>
ReleaseRetire ==
  /\ At("release", "retire") /\ NoFault
  /\ job' = NoJob
  /\ store' = [store EXCEPT !.sandbox = {}]
  /\ Goto("retirebox")
  /\ UNCHANGED <<box, buckets, tool, session, seen>>
ReleaseRetireBox ==
  /\ At("release", "retirebox") /\ NoFault
  /\ box' = [Off EXCEPT !.state = "retired"]
  /\ Return({})
  /\ UNCHANGED <<store, buckets, job, tool, seen>>

(***************************************************************************)
(* prepareEnvironment: setup, or the adoption of a fork's workspace, which *)
(* is the first backup.                                                    *)
(***************************************************************************)
PrepareReserve ==
  /\ Free /\ session.phase = "creating" /\ store.environment = "none"
  /\ store' = [store EXCEPT !.environment = "pending"]
  /\ call' = Take("prepare", IF session.fork THEN "adopt" ELSE "setup")
  /\ UNCHANGED <<box, buckets, job, tool, session, seen, faults>>
PrepareAdopt ==
  /\ At("prepare", "adopt") /\ Usable /\ NoFault
  /\ box' = [Booted EXCEPT !.files = buckets.backups[1], !.good = TRUE]
  /\ call' = [call EXCEPT !.pc = "connect", !.workspace = 1]
  /\ UNCHANGED <<store, buckets, job, tool, session, seen>>
PrepareSetup ==
  /\ At("prepare", "setup") /\ Usable /\ NoFault
  /\ box' = [Booted EXCEPT !.files = @ \cup {Setup}, !.good = TRUE]
  /\ seen' = [seen EXCEPT !.setups = @ + 1]
  /\ Goto("backup")
  /\ UNCHANGED <<store, buckets, job, tool, session>>
PrepareBackup ==
  /\ At("prepare", "backup") /\ Usable /\ NoFault
  /\ box' = Booted
  /\ buckets' = [buckets EXCEPT !.backups = Append(@, Booted.files)]
  /\ seen' = Noticed
  /\ call' = [call EXCEPT !.pc = "connect", !.workspace = Len(buckets'.backups)]
  /\ UNCHANGED <<store, job, tool, session>>
PrepareConnect ==
  /\ At("prepare", "connect") /\ NoFault
  /\ store' = [store EXCEPT !.environment = "connected", !.base = call.workspace,
                            !.inherited = session.fork]
  /\ Goto("tail")
  /\ UNCHANGED <<box, buckets, job, tool, session, seen>>

\* The live sandbox holds the base that setup committed; the first turn can
\* continue in it.  A retried creation comes here directly.
PrepareTail ==
  /\ At("prepare", "tail") /\ NoFault
  /\ IF store.sandbox # {} THEN Return({})
     ELSE /\ Remember([workspace |-> store.base, provisioned |-> store.inherited], "return")
          /\ UNCHANGED session
  /\ UNCHANGED <<store, box, buckets, job, tool, seen>>
PrepareRetried ==
  /\ Free /\ store.environment = "connected"
  /\ session.phase \notin {"deleting", "released"}
  /\ IF session.phase = "creating" THEN NoFault ELSE Fault
  /\ call' = Take("prepare", "tail")
  /\ UNCHANGED <<store, box, buckets, job, tool, session, seen>>
\* EnvironmentSetupIndeterminate: what setup did is unknown and not replayed.
PrepareIndeterminate ==
  /\ Free /\ session.phase = "creating" /\ store.environment \in {"pending", "failed"}
  /\ session' = [session EXCEPT !.phase = "failed"]
  /\ UNCHANGED <<store, box, buckets, job, call, tool, seen, faults>>

(***************************************************************************)
(* What a call may meet: a step that fails, a container that refuses, the  *)
(* eviction of the object, a caller that is gone.                          *)
(***************************************************************************)
Blocked ==
  \/ ~Usable /\ \/ call.pc \in {"restore", "mark", "backup", "publish", "setup", "adopt"}
                \/ call.pc = "apply" /\ call.after < store.fileVersion
                \/ call.pc = "provision" /\ ~ \E row \in store.sandbox : row.provisioned
  \/ call.pc = "dispatch" /\ job.ending
  \/ call.pc = "upload" /\ \E file \in call.artifacts \ box.files : ~Uploaded(call.turn, {file})

\* A setup that fails leaves a durable failure, and a failed preparation
\* fails the session.
StepFails ==
  /\ call.pc \in {"stopbox", "restore", "mark", "provision", "apply", "dispatch", "backup",
                  "publish", "upload", "setup", "adopt", "retirebox"}
  /\ ~At("checkpoint", "mark")
  /\ IF Blocked THEN NoFault ELSE Fault
  /\ store' = IF call.op = "prepare" /\ call.pc # "mark"
              THEN [store EXCEPT !.environment = "failed"] ELSE store
  /\ call' = NoCall
  /\ session' = IF call.op = "prepare" /\ session.phase \in {"creating", "ended"}
                THEN [session EXCEPT !.phase = "failed"] ELSE Unanswered
  /\ UNCHANGED <<box, buckets, job, tool, seen>>

Evict ==
  /\ ~Free \/ tool # {}
  /\ Fault /\ Throw
  /\ tool' = {}
  /\ UNCHANGED <<store, box, buckets, job, seen>>

\* The caller was evicted: the call runs on and its answer goes nowhere.
Abandon ==
  /\ session.waiting /\ Fault
  /\ session' = [session EXCEPT !.waiting = FALSE]
  /\ call' = [call EXCEPT !.orphan = TRUE]
  /\ UNCHANGED <<store, box, buckets, job, tool, seen>>

LoseBox ==
  /\ \/ box.state = "running" /\ Fault
     \/ box.state = "ending" /\ NoFault
  /\ box' = Off
  /\ UNCHANGED <<store, buckets, job, call, tool, session, seen>>
LoseHarness ==
  /\ \/ job # NoJob /\ ~job.ending /\ Fault
     \/ job.ending /\ NoFault
  /\ job' = NoJob
  /\ UNCHANGED <<store, box, buckets, call, tool, session, seen>>

(***************************************************************************)
(* The job in the harness container, and what it reaches of the sandbox.   *)
(***************************************************************************)
Authorized == store.assignment.turn # 0 /\ ~store.assignment.revoked

\* sandboxRequest: a tool call waits for the permit with the assignment it
\* read, and reads it again when it has the permit.
ToolArrives ==
  /\ job.state = "running" /\ tool = {} /\ Authorized
  /\ tool' = {[turn |-> store.assignment.turn, by |-> job.turn]}
  /\ UNCHANGED <<store, box, buckets, job, call, session, seen, faults>>
\* The assignment is not read again under the permit.
stillAssignedOnce(turn) == TRUE
stillAssigned(turn) == Authorized /\ ~superseded(turn)
ToolRuns ==
  /\ Free
  /\ \E t \in tool :
       /\ stillAssigned(t.turn) /\ Usable
       /\ box' = [Booted EXCEPT !.files = @ \cup {Work(t.by)}]
       /\ seen' = [Noticed EXCEPT !.wrote = @ \cup {t.by}]
  /\ tool' = {}
  /\ UNCHANGED <<store, buckets, job, call, session, faults>>
ToolRefused ==
  /\ Free
  /\ \E t \in tool : ~stillAssigned(t.turn) \/ ~Usable
  /\ tool' = {}
  /\ UNCHANGED <<store, box, buckets, job, call, session, seen, faults>>

\* Codex reaches its exec-server through a socket that outlives the check.
SocketOpens ==
  /\ job.state = "running" /\ Authorized /\ Usable
  /\ box' = [Booted EXCEPT !.socket = job.turn]
  /\ seen' = Noticed
  /\ UNCHANGED <<store, buckets, job, call, tool, session, faults>>
SocketWrites ==
  /\ job.state = "running" /\ box.state \in {"running", "ending"} /\ box.socket = job.turn
  /\ box' = [box EXCEPT !.files = @ \cup {Work(job.turn)}]
  /\ seen' = [seen EXCEPT !.wrote = @ \cup {job.turn}]
  /\ UNCHANGED <<store, buckets, job, call, tool, session, faults>>

\* programmaticRequest: code whose effects are unknown revokes the turn, and
\* the sandbox is forgotten, then destroyed.  The supervisor fails the job.  A
\* destroy that is lost or comes late is left to LoseBox.
CodeUncertain ==
  /\ job.state = "running" /\ Authorized /\ ~superseded(job.turn)
  /\ store' = [store EXCEPT !.assignment.revoked = TRUE, !.sandbox = {}]
  /\ job' = [job EXCEPT !.state = "failed"]
  /\ \/ StopBox
     \/ UNCHANGED box /\ Fault
  /\ UNCHANGED <<buckets, call, tool, session, seen>>

\* The runtime completes its turn only when no tool call of it is unanswered.
JobEnds ==
  /\ job.state = "running"
  /\ \E outcome \in {"completed", "failed", "cancelled"} :
       /\ outcome = "completed" => ~ \E t \in tool : t.by = job.turn
       /\ job' = [job EXCEPT !.state = outcome]
  /\ UNCHANGED <<store, box, buckets, call, tool, session, seen, faults>>

(***************************************************************************)
(* The caller: the reconciler of the session (module Session), and its     *)
(* clients.                                                                *)
(***************************************************************************)
Active == session.phase \in {"starting", "running", "checkpointing"} /\ ~session.waiting

NextTurn ==
  /\ session.phase = "ended" /\ session.turn < MaxTurn
  /\ session' = [session EXCEPT !.turn = @ + 1, !.phase = "starting",
                                !.reported = FALSE, !.stopFailed = FALSE]
  /\ UNCHANGED <<store, box, buckets, job, call, tool, seen, faults>>

\* A poll of a turn with another job, or none, answers missing.
Poll ==
  /\ session.phase = "running"
  /\ LET status == IF job.turn = session.turn THEN job.state ELSE "missing"
     IN /\ status # "running"
        /\ session' = [session EXCEPT !.reported = status = "cancelled",
                         !.phase = IF status = "completed" THEN "checkpointing" ELSE "stopping"]
  /\ UNCHANGED <<store, box, buckets, job, call, tool, seen, faults>>

\* The deadline, a definite refusal, an incompatible revision.
GiveUp ==
  /\ Active
  /\ session' = [session EXCEPT !.phase = "stopping"]
  /\ UNCHANGED <<store, box, buckets, job, call, tool, seen, faults>>

\* Past the deadline a stop that failed is not retried: a turn whose
\* cancellation the runtime reported ends, any other leaves the session failed.
SealAnyway ==
  /\ session.phase = "stopping" /\ session.stopFailed /\ ~session.waiting
  /\ session' = [session EXCEPT !.phase = IF session.reported THEN "ended" ELSE "failed"]
  /\ seen' = [seen EXCEPT !.unconfirmed = @ \/ session.reported]
  /\ UNCHANGED <<store, box, buckets, job, call, tool, faults>>
\* executor_unavailable: no driver to stop the turn with; it is sealed.
SealUnavailable ==
  /\ Active \/ (session.phase = "stopping" /\ ~session.waiting)
  /\ Fault
  /\ session' = [session EXCEPT !.phase = "ended"]
  /\ seen' = [seen EXCEPT !.unconfirmed = TRUE]
  /\ UNCHANGED <<store, box, buckets, job, call, tool>>

Delete ==
  /\ session.phase \in {"ended", "failed"}
  /\ session' = [session EXCEPT !.phase = "deleting"]
  /\ UNCHANGED <<store, box, buckets, job, call, tool, seen, faults>>

(***************************************************************************)
(* Specification                                                           *)
(***************************************************************************)
Init ==
  \E fork \in BOOLEAN :
    /\ store = [assignment |-> [turn |-> 0, dispatched |-> FALSE, revoked |-> FALSE],
                sandbox |-> {}, checkpoint |-> [t \in Turn |-> {}], manifest |-> [t \in Turn |-> {}],
                environment |-> "none", base |-> 0, inherited |-> FALSE,
                fileVersion |-> 0, applied |-> 0]
    /\ buckets = [backups |-> IF fork THEN <<{Setup, Hook}>> ELSE <<>>, artifacts |-> {}]
    /\ session = [phase |-> "creating", turn |-> 0, ck |-> {}, fork |-> fork,
                  waiting |-> FALSE, reported |-> FALSE, stopFailed |-> FALSE]
    /\ box = Off /\ job = NoJob /\ call = NoCall /\ tool = {} /\ faults = 0
    /\ seen = [posts |-> [t \in Turn |-> 0], torn |-> FALSE, unconfirmed |-> FALSE,
               acked |-> {}, wrote |-> {}, setups |-> 0]

Start ==
  \/ StartRetried \/ StartAssigned \/ StartReuse \/ StartForget \/ StartStopBox
  \/ StartRestore \/ StartProvisioned \/ StartHook \/ StartDispatch \/ StartPost
Snapshot ==
  \/ SnapshotCommitted \/ SnapshotNative \/ SnapshotBackup \/ SnapshotUnmarked
  \/ SnapshotManifest \/ SnapshotUpload \/ SnapshotCommit
Stop ==
  \/ StopSuperseded \/ StopUnassigned \/ StopRevoke \/ StopLease \/ StopForget \/ StopStopBox
Release == ReleaseRevoke \/ ReleaseRetire \/ ReleaseRetireBox
Prepare ==
  \/ PrepareReserve \/ PrepareAdopt \/ PrepareSetup \/ PrepareBackup \/ PrepareConnect
  \/ PrepareTail \/ PrepareRetried \/ PrepareIndeterminate
Environment ==
  \/ Prepare \/ UploadCommit \/ FilesListed \/ ApplyUpload \/ AppliedUploads
  \/ RememberMark \/ RememberRow
Failure == StepFails \/ Evict \/ Abandon \/ LoseBox \/ LoseHarness
Job ==
  \/ ToolArrives \/ ToolRuns \/ ToolRefused \/ SocketOpens \/ SocketWrites
  \/ CodeUncertain \/ JobEnds
Session == NextTurn \/ Poll \/ GiveUp \/ SealAnyway \/ SealUnavailable \/ Delete

Next == Start \/ Snapshot \/ Stop \/ Release \/ Environment \/ Failure \/ Job \/ Session

Spec == Init /\ [][Next]_vars

(***************************************************************************)
(* Properties                                                              *)
(***************************************************************************)
Optional(value, S) == value \subseteq S /\ \A x, y \in value : x = y
Workspace == 0..Len(buckets.backups)
Row == [workspace : Workspace, provisioned : BOOLEAN]
Checkpoint == [turn : Turn, workspace : Workspace, version : 0..MaxUpload,
               artifacts : SUBSET Mark]

\* The rows, containers, call and caller have the values their declarations say.
TypeOK ==
  /\ store.assignment \in [turn : 0..MaxTurn, dispatched : BOOLEAN, revoked : BOOLEAN]
  /\ Optional(store.sandbox, Row)
  /\ \A t \in Turn : Optional(store.checkpoint[t], Checkpoint)
  /\ \A t \in Turn : store.manifest[t] \subseteq Mark
  /\ store.environment \in {"none", "pending", "connected", "failed"}
  /\ store.base \in Workspace /\ store.inherited \in BOOLEAN
  /\ store.fileVersion \in 0..MaxUpload /\ store.applied \in 0..MaxUpload
  /\ box.state \in {"off", "running", "ending", "retired"} /\ box.files \subseteq Mark
  /\ Optional(box.marker, Workspace) /\ box.socket \in 0..MaxTurn
  /\ \A w \in 1..Len(buckets.backups) : buckets.backups[w] \subseteq Mark
  /\ buckets.artifacts \subseteq Turn \X Mark
  /\ job.turn \in 0..MaxTurn
  /\ Optional(call.row, Row) /\ Optional(call.ck, Checkpoint)
  /\ Optional(session.ck, Checkpoint)
  /\ faults \in 0..MaxFault

Posting == \E t \in Turn : seen'.posts[t] # seen.posts[t]

\* The retries of a start, an eviction at any step of it and a lost answer never
\* dispatch a turn's job twice: the tombstone is durable before the POST.
JobPostedOnce == \A t \in Turn : seen.posts[t] <= 1

\* A turn's job is dispatched into a workspace that shows nothing but what its
\* checkpoint or the base committed, the uploads and the hook: no work of a turn
\* that was cancelled, failed or superseded, as long as every earlier turn was
\* committed or its stop confirmed.
NothingUncommitted ==
  [][Posting /\ ~seen.unconfirmed
       => box.files \subseteq Content(previousWorkspace(call.ck))
                              \cup {Hook} \cup {Upload(v) : v \in 1..store.fileVersion}]_vars

\* ... and into one that has all of it: the committed files, the hook's result and
\* every upload the service acknowledged, whether the sandbox was reused or
\* restored, as long as no container was replaced under an operation or a turn.
WorkspaceComplete ==
  [][Posting /\ ~seen.torn /\ box.state = "running"
       => Content(previousWorkspace(call.ck)) \cup {Hook} \cup {Upload(v) : v \in seen.acked}
            \subseteq box.files]_vars

\* A checkpoint of a turn, once committed, is never replaced by a retry, and it is
\* the one the session continues from.
OneCheckpointPerTurn ==
  [][\A t \in Turn : store.checkpoint[t] # {} => store'.checkpoint[t] = store.checkpoint[t]]_vars

\* The checkpoint a session commits is the one the object recorded for the turn,
\* and its workspace has what the turn started from and what the turn wrote, as
\* long as no container was replaced under an operation or a turn.
CheckpointKeepsWork ==
  [][\A c \in session'.ck \ session.ck :
       /\ store'.checkpoint[c.turn] = {c} /\ c.turn = session.turn
       /\ ~seen.torn =>
            Content(previousWorkspace(session.ck))
              \cup {Work(t) : t \in seen.wrote \cap {c.turn}} \subseteq Content(c.workspace)]_vars

\* The artifacts of a committed checkpoint are all in the bucket, however often the
\* uploads were interrupted, and they are the outputs its workspace holds, as long as
\* no container was replaced under an operation or a turn and every stop was confirmed.
ArtifactsPublished ==
  [][\A c \in session'.ck \ session.ck :
       /\ Uploaded(c.turn, c.artifacts)
       /\ ~(seen.torn \/ seen.unconfirmed) =>
            c.artifacts = Content(c.workspace) \cap {Work(t) : t \in Turn}]_vars

\* Setup commands have external effects: no retry of a creation and no eviction
\* runs them again.
SetupOnce == seen.setups <= 1

\* The object's rows keep their types, and nothing with effects outside them is done
\* twice, neither the setup nor the dispatch of a turn's job.
NothingRunTwice == TypeOK /\ JobPostedOnce /\ SetupOnce

\* A session's workspace is what its turns committed: every job starts in all of it and
\* in nothing else, and every checkpoint adds the turn's own work, once, and what it
\* publishes is stored.
WorkspaceContinues ==
  /\ NothingUncommitted /\ WorkspaceComplete
  /\ OneCheckpointPerTurn /\ CheckpointKeepsWork /\ ArtifactsPublished
=============================================================================
