--------------------------- MODULE SessionLifecycle ---------------------------
(***************************************************************************)
(* The controller of one Session: it starts and stops the Session's pod,   *)
(* suspends or deletes a Session that has been idle, resumes it when a     *)
(* client asks, and replaces its workspace on a reset.  The controller and *)
(* the runtime in the pod (module SessionRuntime, here reduced to whether  *)
(* it has a turn, refuses turns and has activity to publish) meet only in  *)
(* the annotations and the status of the Session object.                   *)
(*                                                                         *)
(* Env names what the environment may do beside its ordinary work:         *)
(*   sessionLag  the Session's cached copy lags                            *)
(*   podLag      the pod's cached copy lags                                *)
(*   suspend     a user sets and unsets spec.suspend                       *)
(*   reset       a user asks for a reset                                   *)
(*   resume      a client asks for a resume of an idle Session             *)
(*   timeout     nobody acknowledges the resume for ten minutes            *)
(*   evict       the pod is evicted                                        *)
(*   restart     the runtime's container restarts                          *)
(*   blip        the running pod loses its readiness                       *)
(*   missingRef  a referenced object is missing for a while                *)
(*   orphan      a user deletes the StatefulSet                            *)
(***************************************************************************)
EXTENDS Integers, SequencesExt

CONSTANTS
  Pods,          \* UIDs of pods
  NoPod,
  SuspendAfter,  \* idlePolicy.suspendAfterSeconds, in units of age; 3: never
  DeleteAfter,   \* idlePolicy.deleteAfterSeconds, the same
  MaxQueue,      \* bound: status publications the runtime has queued
  MaxFaults,     \* bound: what users and the environment do out of turn
  Env

Hazards == {"sessionLag", "podLag", "suspend", "reset", "resume", "timeout",
            "evict", "restart", "blip", "missingRef", "orphan"}

ASSUME Parameters ==
  /\ NoPod \notin Pods
  /\ SuspendAfter \in 0 .. 3 /\ DeleteAfter \in 0 .. 3
  /\ MaxQueue \in Nat \ {0} /\ MaxFaults \in Nat
  /\ Env \subseteq Hazards

VARIABLES
  session,   \* the Session object
  seen,      \* the controller's cached copy of it
  workload,  \* the StatefulSet: gone, or its replicas
  pod,       \* the pod and the runtime in it
  seenPod,   \* the controller's cached copy of the pod
  work,      \* the workspace and the journal on it
  rest,      \* history: how long the Session has really been idle, 0 .. 2
  told,      \* history: whether a turn of this pod may be cut for a reason other
             \* than idleness: a user, a node, or a resume that came in between
  faults     \* how much of MaxFaults is used

vars == <<session, seen, workload, pod, seenPod, work, rest, told, faults>>

-----------------------------------------------------------------------------
(* State                                                                   *)

Sessions == [
  obj     : {"present", "gone"},
  claim   : BOOLEAN,                 \* spec.volumeClaimTemplate
  suspend : BOOLEAN,                 \* spec.suspend
  reset   : {"none", "asked", "stopping", "deletingStorage", "starting"},
  resume  : {"none", "asked", "timed", "acked", "ackTimed", "based"},
  drain   : Pods \union {NoPod},     \* the pod the idle-drain request is for
  report  : {"none", "draining", "drained", "other"},
                                     \* of this request, or of another one
  phase   : {"Pending", "Ready", "Failed", "Suspended", "Idle"},
                                     \* Idle: suspended by the idle policy
  podUID  : Pods \union {NoPod},
  active  : {"true", "false", "unknown"},
  age     : 0 .. 2]                  \* time since status.lastActivityTime

RuntimePods == [
  uid   : Pods \union {NoPod},
  at    : {"none", "starting", "restarting", "serving", "stopping"},
  own   : BOOLEAN,                   \* controlled by the current StatefulSet
  ready : BOOLEAN,
  open  : BOOLEAN,                   \* a client is connected
  drain : {"none", "this", "other"}, \* the request the runtime has observed:
                                     \* the Session's, or one replaced since
  turn  : BOOLEAN,
  queue : Seq({"true", "false"})]    \* activity to publish

Workspaces == [
  state     : {"none", "bound", "deleting"}, \* the PersistentVolumeClaim
  stale     : BOOLEAN,   \* holds what there was before the last reset request
  unsettled : BOOLEAN]   \* turns that no published Active=False covers

CachedPods == [uid : Pods \union {NoPod}, own : BOOLEAN,
               at : {"none", "starting", "running", "ready", "stopping"}]

TypeOK ==
  /\ session \in Sessions /\ seen \in Sessions
  /\ workload \in {"gone", "down", "up"}
  /\ pod \in RuntimePods /\ Len(pod.queue) <= MaxQueue + 1
  /\ pod.turn \/ pod.open \/ pod.queue # <<>> => pod.at = "serving"
  /\ seenPod \in CachedPods
  /\ work \in Workspaces
  /\ rest \in 0 .. 2 /\ told \in BOOLEAN /\ faults \in 0 .. MaxFaults

AbsentPod == [uid |-> NoPod, at |-> "none", own |-> FALSE, ready |-> FALSE,
              open |-> FALSE, drain |-> "none", turn |-> FALSE, queue |-> <<>>]

\* What the API shows of a pod.
View(p) == [uid |-> p.uid, own |-> p.own,
            at |-> CASE p.at = "serving" /\ p.ready -> "ready"
                     [] p.at \in {"restarting", "serving"} /\ ~p.ready -> "running"
                     [] OTHER -> p.at]

Init ==
  /\ session \in [obj : {"present"}, claim : BOOLEAN, suspend : {FALSE},
                  reset : {"none"}, resume : {"none"}, drain : {NoPod},
                  report : {"none"}, phase : {"Pending"}, podUID : {NoPod},
                  active : {"unknown"}, age : {0}]
  /\ seen = session
  /\ workload = "gone"
  /\ pod = AbsentPod /\ seenPod = View(pod)
  /\ work = [state |-> "none", stale |-> FALSE, unsettled |-> FALSE]
  /\ rest = 0 /\ told = FALSE /\ faults = 0

-----------------------------------------------------------------------------
(* Writes and caches                                                       *)

\* A write under the optimistic lock has read the version it replaces.
PutSession(value) ==
  /\ seen = session
  /\ session' = value
  /\ seen' = IF "sessionLag" \in Env THEN session ELSE value

\* A patch without the lock, and everybody else's write.
PatchSession(value) ==
  /\ session' = value
  /\ seen' = IF "sessionLag" \in Env THEN seen ELSE value

\* updateSessionStatus: nothing is written if nothing changes.
UpdateStatus(value) ==
  IF value = seen THEN UNCHANGED <<session, seen>> ELSE PutSession(value)

\* The same after something else was done, which a conflict does not undo.
UpdateStatusAfter(value) ==
  \/ UpdateStatus(value)
  \/ value # seen /\ UNCHANGED <<session, seen>>

PutPod(value) ==
  /\ pod' = value
  /\ seenPod' = IF "podLag" \in Env THEN seenPod ELSE View(value)

podVars == <<pod, seenPod>>
history == <<rest, told, faults>>

\* One of the bounded faults.
Fault(kind) == kind \in Env /\ faults < MaxFaults /\ faults' = faults + 1

\* Mutant: the clients and the turn outlive the process.
StoppingKeepsTurn(p) == [p EXCEPT !.at = "stopping", !.ready = FALSE]

\* The pod is told to stop: the turn it has is cut.
Stopping(p) == [p EXCEPT !.at = "stopping", !.ready = FALSE, !.open = FALSE,
                         !.turn = FALSE, !.queue = <<>>]

\* Delete, with the UID of the cached copy as precondition.
DeletePod ==
  IF pod.uid = seenPod.uid /\ pod.at # "stopping"
  THEN PutPod(Stopping(pod)) ELSE UNCHANGED podVars

\* setSessionReplicas; the StatefulSet's cached copy is taken to be fresh.
ScaleDown == workload' = IF workload = "gone" THEN "gone" ELSE "down"
ScaleUp == workload' = "up"

-----------------------------------------------------------------------------
(* What the controller reads                                               *)

IsIdlePolicySuspended(s) == s.phase = "Idle" /\ ~s.suspend
ResumeRequested(s) == s.resume # "none"
sessionSuspended(s) == s.suspend \/ (IsIdlePolicySuspended(s) /\ ~ResumeRequested(s))

sessionIdlePolicyExpired(s, after) ==
  /\ ~ResumeRequested(s)
  /\ s.active = "false" \/ IsIdlePolicySuspended(s)
  /\ s.age >= after
DeleteExpired(s) == sessionIdlePolicyExpired(s, DeleteAfter)
SuspendExpired(s) == ~s.suspend /\ sessionIdlePolicyExpired(s, SuspendAfter)

\* updateSessionStatus without a pod: what the runtime said no longer holds.
WithoutPod(s, phase) ==
  [s EXCEPT !.phase = phase, !.active = "unknown",
            !.podUID = IF phase \in {"Suspended", "Idle"} THEN NoPod ELSE @]

\* updateSessionStatus with one.
WithPod(s, p, phase) ==
  [s EXCEPT !.phase = phase, !.podUID = p.uid,
            !.active = IF phase = "Ready" /\ s.podUID = p.uid THEN @ ELSE "unknown"]

\* The status of a Session that should run, by its cached pod.
Observed(s) ==
  CASE seenPod.at = "none" -> WithoutPod(s, "Pending")
    [] seenPod.at # "none" /\ ~seenPod.own -> WithoutPod(s, "Failed")
    [] seenPod.at \in {"starting", "running", "stopping"} /\ seenPod.own -> WithPod(s, seenPod, "Pending")
    [] seenPod.at = "ready" /\ seenPod.own -> WithPod(s, seenPod, "Ready")

SuspendedPhase(s) == IF IsIdlePolicySuspended(s) THEN "Idle" ELSE "Suspended"

Reconciling == session.obj = "present" /\ seen.obj = "present"
Ordinary == Reconciling /\ seen.reset = "none"

\* The reconciles that get past the resume request.
Onward ==
  /\ Ordinary /\ seen.resume \in {"none", "timed", "based"}
  /\ ResumeRequested(seen) => ~seen.suspend /\ ~IsIdlePolicySuspended(seen)
Deployed == Onward /\ workload # "gone"

-----------------------------------------------------------------------------
(* Idle drain, suspension and deletion                                     *)

Alive == seenPod.at \in {"starting", "running", "ready"}
Installed == seen.drain = seenPod.uid
\* sessionIdleDrainComplete
Drained == Installed /\ seen.report = "drained"

\* setSessionIdleDrainRequest: every earlier report and what the runtime has
\* observed are then about another request.
InstallDrain ==
  /\ Alive /\ ~Installed
  /\ PatchSession([session EXCEPT !.drain = seenPod.uid,
       !.report = IF seen.report # "none" \/ @ = "none" THEN "none" ELSE "other"])
  /\ PutPod([pod EXCEPT !.drain = IF @ = "this" THEN "other" ELSE @])

\* clearSessionIdleDrainRequest: the patch removes what the cached copy has.
ClearDrain ==
  /\ seen.drain # NoPod \/ seen.report # "none"
  /\ PatchSession([session EXCEPT
       !.drain = IF seen.drain # NoPod THEN NoPod ELSE @,
       !.report = IF seen.report # "none" \/ @ = "none" THEN "none"
                  ELSE IF seen.drain # NoPod THEN "other" ELSE @])
  /\ PutPod([pod EXCEPT !.drain = IF @ = "this" /\ seen.drain # NoPod THEN "other" ELSE @])

\* reapIdleSession: the version of the cached copy is a precondition.
reapIdleSession == PutSession([seen EXCEPT !.obj = "gone"]) /\ UNCHANGED podVars

reconcileIdleReap == InstallDrain \/ (Drained /\ reapIdleSession)

\* The Session's status has just been written, or needed no write.
Evaluating ==
  /\ Deployed /\ workload = "up" /\ ~ResumeRequested(seen)
  /\ Alive /\ seenPod.own /\ Observed(seen) = seen

ReapIdle ==
  /\ Evaluating /\ DeleteExpired(seen) /\ reconcileIdleReap
  /\ UNCHANGED <<workload, work, history>>

\* reconcileIdleSuspend; the controller may die between the two writes.
SuspendIdle ==
  /\ Evaluating /\ SuspendExpired(seen) /\ ~DeleteExpired(seen)
  /\ \/ InstallDrain /\ UNCHANGED workload
     \/ /\ Drained /\ PutSession(WithoutPod(seen, "Idle")) /\ UNCHANGED podVars
        /\ ScaleDown \/ UNCHANGED workload
  /\ UNCHANGED <<work, history>>

\* No idle action is due.
CancelDrain ==
  /\ Evaluating /\ ~DeleteExpired(seen) /\ ~SuspendExpired(seen) /\ ClearDrain
  /\ UNCHANGED <<workload, work, history>>

-----------------------------------------------------------------------------
(* The ordinary reconcile                                                  *)

\* createSessionStatefulSet
CreateWorkload ==
  /\ workload = "gone"
  /\ workload' = IF sessionSuspended(seen) THEN "down" ELSE "up"
  /\ UpdateStatusAfter(WithoutPod(seen,
       IF sessionSuspended(seen) THEN SuspendedPhase(seen) ELSE "Pending"))
  /\ UNCHANGED podVars

\* The StatefulSet is missing; reapMissingWorkloadIdleSession drains a pod
\* that survives it, and recovers a journal that may hold activity.
MissingWorkload ==
  /\ Onward /\ workload = "gone"
  /\ \/ DeleteExpired(seen) /\ IsIdlePolicySuspended(seen) /\ reapIdleSession /\ UNCHANGED workload
     \/ /\ DeleteExpired(seen) /\ ~IsIdlePolicySuspended(seen)
        /\ \/ Alive /\ reconcileIdleReap /\ UNCHANGED workload
           \/ seenPod.at = "none" /\ seen.claim /\ CreateWorkload
           \/ seenPod.at = "none" /\ ~seen.claim /\ reapIdleSession /\ UNCHANGED workload
     \/ ~DeleteExpired(seen) /\ ClearDrain /\ UNCHANGED workload
     \/ /\ ~DeleteExpired(seen) /\ seen.drain = NoPod /\ seen.report = "none"
        /\ CreateWorkload
  /\ UNCHANGED <<work, history>>

\* A referenced object is missing: the status is the same as without a pod,
\* whatever the pod does.
AwaitInputs ==
  /\ Deployed /\ ~sessionSuspended(seen) /\ Fault("missingRef")
  /\ UpdateStatus(WithoutPod(seen, "Pending"))
  /\ UNCHANGED <<workload, podVars, work, rest, told>>

Suspend ==
  /\ Deployed /\ sessionSuspended(seen)
  /\ ScaleDown
  /\ IF DeleteExpired(seen) /\ IsIdlePolicySuspended(seen)
     THEN reapIdleSession \/ (seen # session /\ UNCHANGED <<session, seen, podVars>>)
     ELSE UpdateStatusAfter(WithoutPod(seen, SuspendedPhase(seen))) /\ UNCHANGED podVars
  /\ UNCHANGED <<work, history>>

Run ==
  /\ Deployed /\ ~sessionSuspended(seen)
  /\ ScaleUp /\ UpdateStatusAfter(Observed(seen))
  /\ UNCHANGED <<podVars, work, history>>

-----------------------------------------------------------------------------
(* Resume                                                                  *)

\* A suspension by the user, or the end of the grace after the
\* acknowledgement: clearSessionIdleResumeRequest.
ClearResume ==
  /\ Ordinary /\ ResumeRequested(seen)
  /\ seen.suspend \/ seen.resume = "based"
  /\ PutSession([seen EXCEPT !.resume = "none"])
  /\ UNCHANGED <<workload, podVars, work, history>>

\* setSessionIdleResumeTime, and the new start of the idle period.
TimeResume ==
  /\ Ordinary /\ ~seen.suspend
  /\ \/ seen.resume = "asked" /\ PutSession([seen EXCEPT !.resume = "timed"])
     \/ seen.resume = "acked" /\ PutSession([seen EXCEPT !.resume = "ackTimed"])
     \/ seen.resume = "ackTimed" /\ PutSession([seen EXCEPT !.resume = "based", !.age = 0])
  /\ UNCHANGED <<workload, podVars, work, history>>

\* expireSessionIdleResumeRequest: a pod that runs is drained first.  A
\* starting pod may not run yet.
ExpireResume ==
  /\ "timeout" \in Env /\ Ordinary /\ ~seen.suspend /\ seen.resume = "timed"
  /\ \/ InstallDrain /\ UNCHANGED workload
     \/ /\ Alive => seenPod.at = "starting" \/ Drained
        /\ seenPod.at # "stopping"
        /\ \/ /\ PutSession([WithoutPod(seen, "Idle") EXCEPT !.resume = "none"])
              /\ ScaleDown \/ UNCHANGED workload
           \/ PutSession(WithoutPod(seen, "Idle")) /\ UNCHANGED workload
        /\ UNCHANGED podVars
  /\ told' = (told \/ seenPod # View(pod))
  /\ UNCHANGED <<work, rest, faults>>

\* An idle Session is woken up: first the drain goes, then the suspension.
WakeUp ==
  /\ Ordinary /\ ~seen.suspend /\ IsIdlePolicySuspended(seen)
  /\ seen.resume \in {"timed", "based"}
  /\ \/ ClearDrain
     \/ /\ seen.drain = NoPod /\ seen.report = "none"
        /\ PutSession(WithoutPod(seen, "Pending")) /\ UNCHANGED podVars
  /\ told' = TRUE
  /\ UNCHANGED <<workload, work, rest, faults>>

-----------------------------------------------------------------------------
(* Reset                                                                   *)

Resetting(phase) == Reconciling /\ seen.reset = phase

BeginReset ==
  /\ Resetting("asked") /\ PutSession([seen EXCEPT !.reset = "stopping"])
  /\ UNCHANGED <<workload, podVars, work, history>>

\* stopSessionForReset with a pod that the cache still shows.
StopPod ==
  IF seenPod.at # "stopping" /\ (workload = "gone" \/ seenPod.own)
  THEN DeletePod ELSE UNCHANGED podVars

StopForReset ==
  /\ Resetting("stopping") /\ ScaleDown
  /\ LET v == WithoutPod(seen, "Pending") IN
     IF seenPod.at = "none"
     THEN PutSession([v EXCEPT !.reset = "deletingStorage"]) /\ UNCHANGED podVars
     ELSE UpdateStatus(v) /\ StopPod
  /\ UNCHANGED <<work, history>>

\* Mutant: a claim that is being deleted counts as gone.
DeleteStorageUnawaited ==
  /\ Resetting("deletingStorage") /\ ScaleDown
  /\ LET v == WithoutPod(seen, "Pending") IN
     \/ seenPod.at # "none" /\ UpdateStatus(v) /\ StopPod /\ UNCHANGED work
     \/ /\ seenPod.at = "none" /\ work.state = "bound"
        /\ PutSession([v EXCEPT !.reset = "starting"])
        /\ work' = [work EXCEPT !.state = "deleting"]
        /\ UNCHANGED podVars
     \/ /\ seenPod.at = "none" /\ work.state # "bound"
        /\ PutSession([v EXCEPT !.reset = "starting"])
        /\ UNCHANGED <<podVars, work>>
  /\ UNCHANGED history

\* deleteSessionWorkspaceForReset; the claim's cached copy is taken to be
\* fresh, and its UID is a precondition.
DeleteStorageForReset ==
  /\ Resetting("deletingStorage") /\ ScaleDown
  /\ LET v == WithoutPod(seen, "Pending") IN
     \/ seenPod.at # "none" /\ UpdateStatus(v) /\ StopPod /\ UNCHANGED work
     \/ /\ seenPod.at = "none" /\ work.state = "bound"
        /\ UpdateStatus(v) /\ work' = [work EXCEPT !.state = "deleting"]
        /\ UNCHANGED podVars
     \/ /\ seenPod.at = "none" /\ work.state = "none"
        /\ PutSession([v EXCEPT !.reset = "starting"])
        /\ UNCHANGED <<podVars, work>>
  /\ UNCHANGED history

\* startSessionAfterReset: several writes, and whatever follows one that fails
\* is left to the next reconcile.
StartAfterReset ==
  /\ Resetting("starting")
  /\ \/ CreateWorkload
     \/ /\ workload # "gone" /\ sessionSuspended(seen)
        /\ ScaleDown
        /\ LET v == WithoutPod(seen, "Suspended") IN
           UpdateStatusAfter(v) \/ PutSession([v EXCEPT !.reset = "none"])
     \/ /\ workload # "gone" /\ ~sessionSuspended(seen)
        /\ LET v == WithoutPod(seen, "Pending") IN
           \/ UpdateStatus(v) /\ (UNCHANGED workload \/ ScaleUp)
           \/ /\ seenPod.at \in {"starting", "running"} /\ seenPod.own
              /\ ScaleUp /\ UpdateStatus(WithPod(v, seenPod, "Pending"))
           \/ /\ seenPod.at = "ready" /\ seenPod.own
              /\ ScaleUp
              /\ LET w == WithPod(v, seenPod, "Ready") IN
                 UpdateStatus(w) \/ PutSession([w EXCEPT !.reset = "none"])
  /\ UNCHANGED <<podVars, work, history>>

Reconcile ==
  \/ ReapIdle \/ SuspendIdle \/ CancelDrain
  \/ MissingWorkload \/ AwaitInputs \/ Suspend \/ Run
  \/ ClearResume \/ TimeResume \/ ExpireResume \/ WakeUp
  \/ BeginReset \/ StopForReset \/ DeleteStorageForReset \/ StartAfterReset

-----------------------------------------------------------------------------
(* The runtime in the pod                                                  *)

\* queueSessionStatusPublish
Queued(queue, active) ==
  IF queue # <<>> /\ Last(queue) = active THEN queue ELSE Append(queue, active)

\* requestForPod: the request as this pod observes it now.
Request(uid) == IF session.drain = uid THEN "this" ELSE "none"

\* Mutant: activity that is not published yet does not count.
ReportUnpublished(p) ==
  CASE p.drain = "none" -> "none"
    [] p.drain = "other" -> "other"
    [] p.drain = "this" -> IF p.turn THEN "draining" ELSE "drained"

\* drainReportLocked: idle, and all of its activity published.
Report(p) ==
  CASE p.drain = "none" -> "none"
    [] p.drain = "other" -> "other"
    [] p.drain = "this" -> IF ~p.turn /\ p.queue = <<>> THEN "drained" ELSE "draining"

\* Serve: it recovers the journal, with a prompt that was accepted but not
\* begun it goes on, publishes activity that was not settled, and reports on
\* the drain request it finds, or removes what is left of another pod's.
Serve ==
  /\ pod.at \in {"starting", "restarting"} /\ session.obj = "present"
  /\ \E turn \in {FALSE, work.unsettled} :
       LET p == [pod EXCEPT !.at = "serving", !.drain = Request(pod.uid), !.turn = turn,
                   !.queue = IF turn THEN <<"true">>
                             ELSE IF work.unsettled THEN <<"true", "false">> ELSE <<"false">>]
       IN  PutPod(p) /\ PatchSession([session EXCEPT !.report = Report(p)])
  /\ UNCHANGED <<workload, work, history>>

\* observeSessionUpdate
Observe ==
  /\ pod.at = "serving" /\ pod.drain # Request(pod.uid)
  /\ PutPod([pod EXCEPT !.drain = Request(pod.uid)])
  /\ UNCHANGED <<session, seen, workload, work, history>>

\* reportSessionUpdate
WriteReport ==
  /\ pod.at = "serving" /\ session.obj = "present" /\ session.report # Report(pod)
  /\ PatchSession([session EXCEPT !.report = Report(pod)])
  /\ UNCHANGED <<workload, podVars, work, history>>

\* publishSessionStatus: lastActivityTime moves when the activity changes, not
\* when it was unknown before.
Publish ==
  /\ pod.at = "serving" /\ pod.queue # <<>>
  /\ session.obj = "present" /\ session.phase = "Ready" /\ session.podUID = pod.uid
  /\ LET active == Head(pod.queue)
         later == Tail(pod.queue)
     IN  /\ PatchSession([session EXCEPT !.active = active,
              !.age = IF session.active \in {"unknown", active} THEN @ ELSE 0])
         /\ PutPod([pod EXCEPT !.queue = later])
         /\ work' = [work EXCEPT !.unsettled =
              @ /\ (active = "true" \/ pod.turn \/ later # <<>>)]
  /\ UNCHANGED <<workload, history>>

\* requestPeriodicSessionStatusPublish, where it makes a difference.
PeriodicPublish ==
  /\ pod.at = "serving" /\ pod.queue = <<>>
  /\ session.active = "unknown"
  /\ PutPod([pod EXCEPT !.queue = <<IF pod.turn THEN "true" ELSE "false">>])
  /\ UNCHANGED <<session, seen, workload, work, history>>

\* Clients connect to the pod of a Session that is Ready, by its name.
Connect ==
  /\ pod.at = "serving" /\ ~pod.open /\ session.obj = "present" /\ session.phase = "Ready"
  /\ PutPod([pod EXCEPT !.open = TRUE])
  /\ UNCHANGED <<session, seen, workload, work, history>>

\* Mutant: a prompt is accepted although the Session is about to stop.
AcceptTurnDraining ==
  /\ pod.open /\ ~pod.turn
  /\ Len(pod.queue) < MaxQueue
  /\ PutPod([pod EXCEPT !.turn = TRUE, !.queue = Queued(@, "true")])
  /\ work' = [work EXCEPT !.unsettled = TRUE]
  /\ rest' = 0
  /\ UNCHANGED <<session, seen, workload, told, faults>>

\* A connected client's prompt is accepted.
AcceptTurn ==
  /\ pod.open /\ ~pod.turn /\ pod.drain = "none"
  /\ Len(pod.queue) < MaxQueue
  /\ PutPod([pod EXCEPT !.turn = TRUE, !.queue = Queued(@, "true")])
  /\ work' = [work EXCEPT !.unsettled = TRUE]
  /\ rest' = 0
  /\ UNCHANGED <<session, seen, workload, told, faults>>

FinishTurn ==
  /\ pod.at = "serving" /\ pod.turn
  /\ PutPod([pod EXCEPT !.turn = FALSE, !.queue = Queued(@, "false")])
  /\ rest' = 0
  /\ UNCHANGED <<session, seen, workload, work, told, faults>>

\* The container restarts, on the same workspace.
RuntimeRestarts ==
  /\ pod.at = "serving" /\ Fault("restart")
  /\ PutPod([pod EXCEPT !.at = "restarting", !.ready = FALSE, !.open = FALSE,
                        !.drain = "none", !.turn = FALSE, !.queue = <<>>])
  /\ UNCHANGED <<session, seen, workload, work, rest, told>>

Runtime == Serve \/ Observe \/ WriteReport \/ Publish \/ PeriodicPublish
           \/ Connect \/ AcceptTurn \/ FinishTurn \/ RuntimeRestarts

-----------------------------------------------------------------------------
(* Kubernetes                                                              *)

\* External: the StatefulSet controller, which also makes the claim.
CreatePod ==
  /\ workload = "up" /\ pod.at = "none" /\ session.obj = "present"
  /\ session.claim => work.state # "deleting"
  /\ \E u \in Pods \ {session.drain, session.podUID, seen.drain, seen.podUID, seenPod.uid} :
       PutPod([AbsentPod EXCEPT !.uid = u, !.at = "starting", !.own = TRUE])
  /\ work' = IF session.claim THEN [work EXCEPT !.state = "bound"] ELSE work
  /\ told' = \/ session.suspend \/ seen.suspend \/ session.reset # "none"
             \/ told /\ work.unsettled
  /\ UNCHANGED <<session, seen, workload, rest, faults>>

Running == pod.at \in {"starting", "restarting", "serving"}

\* External: the StatefulSet controller scales down, or the garbage collector
\* finds the pod's owner gone.
StopPodUnowned ==
  /\ Running /\ (workload = "down" \/ ~pod.own)
  /\ PutPod(Stopping(pod))
  /\ UNCHANGED <<session, seen, workload, work, history>>

\* External: the kubelet has stopped the pod; a workspace without a claim goes.
PodGone ==
  /\ pod.at = "stopping"
  /\ PutPod(AbsentPod)
  /\ work' = IF session.claim THEN work
             ELSE [work EXCEPT !.stale = FALSE, !.unsettled = FALSE]
  /\ UNCHANGED <<session, seen, workload, history>>

\* External: a claim in use stays until its pod is gone.
ClaimGone ==
  /\ work.state = "deleting" /\ pod.at = "none"
  /\ work' = [state |-> "none", stale |-> FALSE, unsettled |-> FALSE]
  /\ UNCHANGED <<session, seen, workload, podVars, history>>

\* External: the readiness probe.
Probe ==
  /\ pod.at = "serving"
  /\ IF pod.ready THEN Fault("blip") ELSE UNCHANGED faults
  /\ PutPod([pod EXCEPT !.ready = ~@])
  /\ UNCHANGED <<session, seen, workload, work, rest, told>>

\* External: the node's eviction.
Evict ==
  /\ Running /\ Fault("evict")
  /\ PutPod(Stopping(pod)) /\ told' = TRUE
  /\ UNCHANGED <<session, seen, workload, work, rest>>

\* Time passes, for the cached copy too; a Session with a turn does not rest.
Age ==
  LET Older(s) == [s EXCEPT !.age = IF @ < 2 THEN @ + 1 ELSE @] IN
  /\ session.obj = "present"
  /\ session' = Older(session) /\ seen' = Older(seen)
  /\ rest' = IF pod.turn \/ rest = 2 THEN rest ELSE rest + 1
  /\ UNCHANGED <<workload, podVars, work, told, faults>>

\* External: the informers catch up.
SyncSession ==
  /\ seen # session
  /\ seen' = session /\ UNCHANGED <<session, workload, podVars, work, history>>
SyncPod ==
  /\ seenPod # View(pod)
  /\ seenPod' = View(pod) /\ UNCHANGED <<session, seen, workload, pod, work, history>>

Kubernetes == CreatePod \/ StopPodUnowned \/ PodGone \/ ClaimGone \/ Probe \/ Evict \/ Age

-----------------------------------------------------------------------------
(* Users and clients                                                       *)

Exists == session.obj = "present"
Untouched == UNCHANGED <<workload, podVars>>

\* External: a user sets or unsets spec.suspend.
ToggleSuspend ==
  /\ Exists /\ Fault("suspend")
  /\ PatchSession([session EXCEPT !.suspend = ~@])
  /\ told' = TRUE
  /\ UNCHANGED <<work, rest>> /\ Untouched

\* sessionreset.Request
RequestReset ==
  /\ Fault("reset") /\ Exists /\ session.reset = "none"
  /\ PatchSession([session EXCEPT !.reset = "asked"])
  /\ work' = [work EXCEPT !.stale = pod.at # "none" \/ work.state # "none"]
  /\ told' = TRUE
  /\ UNCHANGED rest /\ Untouched

\* sessionsuspend.RequestResume
RequestResume ==
  /\ Exists /\ Fault("resume")
  /\ IsIdlePolicySuspended(session) /\ ~ResumeRequested(session)
  /\ PatchSession([session EXCEPT !.resume = "asked"])
  /\ UNCHANGED <<work, rest, told>> /\ Untouched

\* sessionsuspend.AcknowledgeResume, by a client that has connected.
AcknowledgeResume ==
  /\ Exists /\ session.resume \in {"asked", "timed"} /\ pod.open
  /\ PatchSession([session EXCEPT !.resume = "acked"])
  /\ UNCHANGED <<work, history>> /\ Untouched

\* External: a user deletes the StatefulSet.
DeleteWorkload ==
  /\ workload # "gone" /\ Exists /\ Fault("orphan")
  /\ workload' = "gone" /\ PutPod([pod EXCEPT !.own = FALSE])
  /\ told' = TRUE
  /\ UNCHANGED <<session, seen, work, rest>>

Users == ToggleSuspend \/ RequestReset \/ RequestResume \/ AcknowledgeResume \/ DeleteWorkload

Next ==
  Reconcile \/ Runtime \/ Kubernetes \/ Users \/ SyncSession \/ SyncPod

Spec == Init /\ [][Next]_vars

-----------------------------------------------------------------------------
(* Properties                                                              *)

Deletes == session.obj = "present" /\ session'.obj = "gone"
IdleSuspends == session.phase # "Idle" /\ session'.phase = "Idle"
PodStops == Running /\ pod'.at = "stopping"

\* A Session is deleted or suspended for idleness only when no turn runs and no
\* activity is left that its status does not show, except that the expiry of a
\* resume request does not drain a pod that the cache still shows as starting.
NothingLostByIdleness ==
  [][Deletes \/ IdleSuspends => told' \/ (~pod.turn /\ ~work.unsettled)]_vars

\* The idle period counts from the end of the last turn.  With blip in Env the code
\* does not keep to it, so that no run has it: see README.md.
IdleForLongEnough ==
  [][/\ Deletes => rest >= DeleteAfter
     /\ IdleSuspends => rest >= SuspendAfter \/ seen.resume # "none"]_vars

\* A turn is cut short only if a user stopped the pod or a node failed, or if
\* a resume overtook the scaling down of a suspension.
TurnsCutOnlyWhenTold == [][PodStops /\ pod.turn => told']_vars

\* A reset that is complete has left nothing of the old workspace.
ResetGivesFreshWorkspace ==
  [][session.reset # "none" /\ session'.reset = "none" /\ session'.obj = "present"
     => ~(work.stale /\ session.claim)]_vars
=============================================================================
