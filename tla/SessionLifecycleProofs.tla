------------------------ MODULE SessionLifecycleProofs ------------------------
(***************************************************************************)
(* Theorems about SessionLifecycle, for every number of pods, every idle   *)
(* policy and every environment.                                           *)
(***************************************************************************)
EXTENDS SessionLifecycle, SequenceTheorems, TLAPS

-----------------------------------------------------------------------------
(* Types                                                                   *)

\* The fields of a Session, by name.
Objects == {"present", "gone"}
Resets == {"none", "asked", "stopping", "deletingStorage", "starting"}
Resumes == {"none", "asked", "timed", "acked", "ackTimed", "based"}
Reports == {"none", "draining", "drained", "other"}
Phases == {"Pending", "Ready", "Failed", "Suspended", "Idle"}
Activities == {"true", "false", "unknown"}
UIDs == Pods \union {NoPod}
Ages == 0 .. 2

LEMMA SessionFields ==
  Sessions = [obj : Objects, claim : BOOLEAN, suspend : BOOLEAN, reset : Resets, resume : Resumes,
              drain : UIDs, report : Reports, phase : Phases, podUID : UIDs, active : Activities,
              age : Ages]
BY DEF Sessions, Objects, Resets, Resumes, Reports, Phases, Activities, UIDs, Ages

\* What View shows of a pod that runs depends on its readiness; the queue has
\* room for the end of a turn.
PodsFit ==
  /\ pod.at = "restarting" => ~pod.ready
  /\ pod.turn => Len(pod.queue) <= MaxQueue

Typing == TypeOK /\ PodsFit

\* The status of a Session.
LEMMA StatusTyped ==
  ASSUME NEW s \in Sessions, NEW phase \in Phases
  PROVE  /\ WithoutPod(s, phase) \in Sessions
         /\ \A p \in CachedPods : WithPod(s, p, phase) \in Sessions
BY SessionFields DEF CachedPods, WithoutPod, WithPod, Activities, UIDs

LEMMA ObservedTyped ==
  ASSUME TypeOK, NEW s \in Sessions
  PROVE  Observed(s) \in Sessions
<1>1. seenPod \in CachedPods
  BY DEF TypeOK
<1>2. \A p \in Phases : WithoutPod(s, p) \in Sessions /\ WithPod(s, seenPod, p) \in Sessions
  BY <1>1, StatusTyped
<1> QED
  BY <1>1, <1>2 DEF Observed, CachedPods, Phases

LEMMA SuspendedTyped == \A s : SuspendedPhase(s) \in Phases
BY DEF SuspendedPhase, Phases

\* A write keeps the Session and its copy what they should be.
LEMMA PutTyped ==
  ASSUME TypeOK, NEW value \in Sessions, PutSession(value) \/ PatchSession(value)
  PROVE  session' \in Sessions /\ seen' \in Sessions
BY DEF TypeOK, PutSession, PatchSession

LEMMA UpdateTyped ==
  ASSUME TypeOK, NEW value \in Sessions, UpdateStatus(value) \/ UpdateStatusAfter(value)
  PROVE  session' \in Sessions /\ seen' \in Sessions
BY PutTyped DEF TypeOK, UpdateStatus, UpdateStatusAfter

\* What there is to say of a pod and its copy.
PodTyped(p) ==
  /\ p \in RuntimePods /\ Len(p.queue) <= MaxQueue + 1
  /\ p.turn \/ p.open \/ p.queue # <<>> => p.at = "serving"
  /\ p.at = "restarting" => ~p.ready
  /\ p.turn => Len(p.queue) <= MaxQueue
PodsTyped == PodTyped(pod) /\ seenPod \in CachedPods

LEMMA ViewTyped ==
  ASSUME NEW p, PodTyped(p)
  PROVE  View(p) \in CachedPods
BY DEF PodTyped, RuntimePods, CachedPods, View

LEMMA PutPodTyped ==
  ASSUME PodsTyped, NEW value, PodTyped(value), PutPod(value)
  PROVE  PodsTyped'
<1>1. pod' = value /\ (seenPod' = seenPod \/ seenPod' = View(value))
  BY DEF PutPod
<1> QED
  BY <1>1, ViewTyped DEF PodsTyped, PodTyped

\* The queue of a pod that stops, or is not there.
LEMMA EmptyQueue == <<>> \in Seq({"true", "false"}) /\ Len(<<>>) = 0 /\ Len(<<>>) <= MaxQueue
BY Parameters, EmptySeq

LEMMA StoppingTyped ==
  ASSUME PodsTyped
  PROVE  PodTyped(Stopping(pod)) /\ PodTyped(AbsentPod)
<1>1. PodTyped(Stopping(pod))
  <2>1. pod \in RuntimePods /\ MaxQueue \in Nat
    BY Parameters DEF PodsTyped, PodTyped
  <2>2. Stopping(pod) \in RuntimePods
    BY <2>1, EmptyQueue DEF RuntimePods, Stopping
  <2>3. /\ Stopping(pod).at = "stopping" /\ ~Stopping(pod).turn /\ ~Stopping(pod).open
        /\ Stopping(pod).queue = <<>>
    BY <2>1 DEF RuntimePods, Stopping
  <2> QED
    BY <2>1, <2>2, <2>3, EmptyQueue DEF PodTyped
<1>2. PodTyped(AbsentPod)
  BY Parameters, EmptyQueue DEF PodTyped, RuntimePods, AbsentPod
<1> QED
  BY <1>1, <1>2

Rest == rest \in 0 .. 2 /\ told \in BOOLEAN /\ faults \in 0 .. MaxFaults

LEMMA TypingParts ==
  Typing <=> /\ session \in Sessions /\ seen \in Sessions
             /\ workload \in {"gone", "down", "up"}
             /\ PodsTyped /\ work \in Workspaces /\ Rest
BY DEF Typing, TypeOK, PodsFit, PodsTyped, PodTyped, Rest

\* The drain requests and the copy of the pod.
LEMMA DrainTyped ==
  ASSUME Typing, InstallDrain \/ ClearDrain
  PROVE  session' \in Sessions /\ seen' \in Sessions /\ PodsTyped'
<1>0. session \in Sessions /\ PodsTyped /\ seenPod.uid \in UIDs /\ TypeOK
  BY TypingParts DEF Typing, PodsTyped, CachedPods, UIDs
<1>1. ASSUME NEW drain \in {"none", "this", "other"}, PutPod([pod EXCEPT !.drain = drain])
      PROVE  PodsTyped'
  <2>1. PodTyped([pod EXCEPT !.drain = drain])
    BY <1>0 DEF PodsTyped, PodTyped, RuntimePods
  <2> QED
    BY <1>0, <1>1, <2>1, PutPodTyped
<1>2. pod.drain \in {"none", "this", "other"}
  BY <1>0 DEF PodsTyped, PodTyped, RuntimePods
<1>3. CASE InstallDrain
  <2> DEFINE report == IF seen.report # "none" \/ session.report = "none" THEN "none" ELSE "other"
  <2>1. PatchSession([session EXCEPT !.drain = seenPod.uid, !.report = report])
    BY <1>0, <1>3, SessionFields DEF InstallDrain
  <2>2. report \in Reports
    BY DEF Reports
  <2> HIDE DEF report
  <2>3. [session EXCEPT !.drain = seenPod.uid, !.report = report] \in Sessions
    BY <1>0, <2>2, SessionFields
  <2>4. PutPod([pod EXCEPT !.drain = IF pod.drain = "this" THEN "other" ELSE pod.drain])
    BY <1>0, <1>3 DEF InstallDrain, PodsTyped, PodTyped, RuntimePods
  <2> QED
    BY <1>0, <1>1, <1>2, <2>1, <2>3, <2>4, PutTyped
<1>4. CASE ClearDrain
  <2> DEFINE drain == IF seen.drain # NoPod THEN NoPod ELSE session.drain
             report == IF seen.report # "none" \/ session.report = "none" THEN "none"
                       ELSE IF seen.drain # NoPod THEN "other" ELSE session.report
  <2>1. PatchSession([session EXCEPT !.drain = drain, !.report = report])
    BY <1>0, <1>4, SessionFields DEF ClearDrain
  <2>2. report \in Reports /\ drain \in UIDs
    BY <1>0, SessionFields DEF Reports, UIDs
  <2> HIDE DEF report, drain
  <2>3. [session EXCEPT !.drain = drain, !.report = report] \in Sessions
    BY <1>0, <2>2, SessionFields
  <2>4. PutPod([pod EXCEPT !.drain = IF pod.drain = "this" /\ seen.drain # NoPod THEN "other" ELSE pod.drain])
    BY <1>0, <1>4 DEF ClearDrain, PodsTyped, PodTyped, RuntimePods
  <2> QED
    BY <1>0, <1>1, <1>2, <2>1, <2>3, <2>4, PutTyped
<1> QED
  BY <1>3, <1>4

LEMMA ReapTyped ==
  ASSUME Typing, reconcileIdleReap \/ reapIdleSession
  PROVE  session' \in Sessions /\ seen' \in Sessions /\ PodsTyped'
<1>1. CASE reapIdleSession
  <2>1. seen \in Sessions /\ PodsTyped /\ TypeOK /\ [seen EXCEPT !.obj = "gone"] \in Sessions
    BY TypingParts, SessionFields DEF Typing, Objects
  <2>2. PodsTyped'
    BY <1>1, <2>1 DEF reapIdleSession, podVars, PodsTyped
  <2> QED
    BY <1>1, <2>1, <2>2, PutTyped DEF reapIdleSession
<1> QED
  BY <1>1, DrainTyped DEF reconcileIdleReap

LEMMA PodsSame == PodsTyped /\ UNCHANGED podVars => PodsTyped'
BY DEF PodsTyped, podVars

LEMMA CreateTyped ==
  ASSUME Typing, CreateWorkload
  PROVE  /\ session' \in Sessions /\ seen' \in Sessions /\ PodsTyped'
         /\ workload' \in {"gone", "down", "up"}
<1>1. seen \in Sessions /\ PodsTyped /\ TypeOK
  BY TypingParts DEF Typing
<1>2. SuspendedPhase(seen) \in Phases /\ "Pending" \in Phases
  BY SuspendedTyped DEF Phases
<1>3. \A phase \in Phases : WithoutPod(seen, phase) \in Sessions
  BY <1>1, StatusTyped
<1>4. session' \in Sessions /\ seen' \in Sessions
  BY <1>1, <1>2, <1>3, UpdateTyped DEF CreateWorkload
<1> QED
  BY <1>1, <1>4, PodsSame DEF CreateWorkload

\* Reconciles by what they change.
LEMMA ReconcileTyped ==
  ASSUME Typing, Reconcile
  PROVE  Typing'
<1>0. /\ TypeOK /\ session \in Sessions /\ seen \in Sessions /\ PodsTyped /\ work \in Workspaces /\ Rest
      /\ workload \in {"gone", "down", "up"} /\ seenPod \in CachedPods
  BY TypingParts DEF Typing, PodsTyped
<1>1. SUFFICES /\ session' \in Sessions /\ seen' \in Sessions /\ PodsTyped'
               /\ workload' \in {"gone", "down", "up"} /\ work' \in Workspaces /\ Rest'
  BY TypingParts DEF Typing, TypeOK, PodsFit, PodsTyped, PodTyped, Rest
<1>2. UNCHANGED history => Rest'
  BY <1>0 DEF history, Rest
<1>3. \A phase \in Phases : /\ WithoutPod(seen, phase) \in Sessions
                            /\ \A r \in Resets : [WithoutPod(seen, phase) EXCEPT !.reset = r] \in Sessions
                            /\ \A r \in Resumes : [WithoutPod(seen, phase) EXCEPT !.resume = r] \in Sessions
  BY <1>0, StatusTyped, SessionFields
<1>4. ScaleDown \/ ScaleUp \/ UNCHANGED workload => workload' \in {"gone", "down", "up"}
  BY <1>0 DEF ScaleDown, ScaleUp
<1>5. UNCHANGED podVars => PodsTyped'
  BY <1>0, PodsSame
<1>6. {"Pending", "Idle", "Ready", "Suspended"} \in SUBSET Phases /\ SuspendedPhase(seen) \in Phases
  BY SuspendedTyped DEF Phases
<1>7. CASE ReapIdle
  BY <1>0, <1>2, <1>7, ReapTyped DEF ReapIdle
<1>8. CASE SuspendIdle
  BY <1>0, <1>2, <1>3, <1>4, <1>5, <1>6, <1>8, DrainTyped, PutTyped DEF SuspendIdle
<1>9. CASE CancelDrain
  BY <1>0, <1>2, <1>9, DrainTyped DEF CancelDrain
<1>10. CASE MissingWorkload
  BY <1>0, <1>2, <1>10, DrainTyped, ReapTyped, CreateTyped DEF MissingWorkload
<1>11. CASE AwaitInputs
  <2>1. Rest'
    <3>1. Fault("missingRef") /\ UNCHANGED <<rest, told>>
      BY <1>11 DEF AwaitInputs
    <3> QED
      BY <1>0, <3>1, Parameters DEF Fault, Rest
  <2> QED
    BY <1>0, <1>3, <1>5, <1>6, <1>11, <2>1, UpdateTyped DEF AwaitInputs
<1>12. CASE Suspend
  <2>1. session' \in Sessions /\ seen' \in Sessions /\ PodsTyped'
    BY <1>0, <1>3, <1>5, <1>6, <1>12, ReapTyped, UpdateTyped DEF Suspend
  <2> QED
    BY <1>0, <1>2, <1>4, <1>12, <2>1 DEF Suspend
<1>13. CASE Run
  BY <1>0, <1>2, <1>4, <1>5, <1>13, ObservedTyped, UpdateTyped DEF Run
<1>14. CASE ClearResume
  <2>1. [seen EXCEPT !.resume = "none"] \in Sessions
    BY <1>0, SessionFields DEF Resumes
  <2> QED
    BY <1>0, <1>2, <1>5, <1>14, <2>1, PutTyped DEF ClearResume
<1>15. CASE TimeResume
  <2>1. /\ [seen EXCEPT !.resume = "timed"] \in Sessions
        /\ [seen EXCEPT !.resume = "ackTimed"] \in Sessions
        /\ [seen EXCEPT !.resume = "based", !.age = 0] \in Sessions
    <3>1. {"timed", "ackTimed", "based"} \in SUBSET Resumes /\ 0 \in Ages
      BY DEF Resumes, Ages
    <3> QED
      BY <1>0, <3>1, SessionFields
  <2> QED
    BY <1>0, <1>2, <1>5, <1>15, <2>1, PutTyped DEF TimeResume
<1>16. CASE ExpireResume
  <2>1. Rest'
    BY <1>0, <1>16 DEF ExpireResume, Rest
  <2>2. "none" \in Resumes
    BY DEF Resumes
  <2> QED
    BY <1>0, <1>3, <1>4, <1>5, <1>6, <1>16, <2>1, <2>2, DrainTyped, PutTyped DEF ExpireResume
<1>17. CASE WakeUp
  <2>1. Rest'
    BY <1>0, <1>17 DEF WakeUp, Rest
  <2> QED
    BY <1>0, <1>3, <1>5, <1>6, <1>17, <2>1, DrainTyped, PutTyped DEF WakeUp
<1>18. CASE BeginReset
  <2>1. [seen EXCEPT !.reset = "stopping"] \in Sessions
    BY <1>0, SessionFields DEF Resets
  <2> QED
    BY <1>0, <1>2, <1>5, <1>18, <2>1, PutTyped DEF BeginReset
<1>19. StopPod => PodsTyped'
  <2>1. StopPod => PutPod(Stopping(pod)) \/ UNCHANGED podVars
    BY DEF StopPod, DeletePod
  <2> QED
    BY <1>0, <1>5, <2>1, StoppingTyped, PutPodTyped
<1>20. {"deletingStorage", "starting", "none"} \in SUBSET Resets
  BY DEF Resets
<1>21. CASE StopForReset
  BY <1>0, <1>2, <1>3, <1>4, <1>5, <1>6, <1>19, <1>20, <1>21, PutTyped, UpdateTyped DEF StopForReset
<1>22. CASE DeleteStorageForReset
  <2>1. work' \in Workspaces
    BY <1>0, <1>22 DEF DeleteStorageForReset, Workspaces
  <2> QED
    BY <1>0, <1>2, <1>3, <1>4, <1>5, <1>6, <1>19, <1>20, <1>22, <2>1, PutTyped, UpdateTyped
       DEF DeleteStorageForReset
<1>23. CASE StartAfterReset
  <2> DEFINE v == WithoutPod(seen, "Pending")
  <2>1. v \in Sessions
    BY <1>3, <1>6
  <2> DEFINE u == WithoutPod(seen, "Suspended")
  <2>2. /\ u \in Sessions /\ [u EXCEPT !.reset = "none"] \in Sessions
        /\ WithPod(v, seenPod, "Pending") \in Sessions
        /\ WithPod(v, seenPod, "Ready") \in Sessions
        /\ [WithPod(v, seenPod, "Ready") EXCEPT !.reset = "none"] \in Sessions
    <3> HIDE DEF v
    <3>1. WithPod(v, seenPod, "Pending") \in Sessions /\ WithPod(v, seenPod, "Ready") \in Sessions
      BY <1>0, <1>6, <2>1, StatusTyped
    <3> QED
      BY <1>3, <1>6, <1>20, <3>1, SessionFields
  <2>3. \/ CreateWorkload
        \/ ScaleDown /\ (UpdateStatusAfter(u) \/ PutSession([u EXCEPT !.reset = "none"]))
        \/ /\ ScaleUp \/ UNCHANGED workload
           /\ \/ PutSession([WithPod(v, seenPod, "Ready") EXCEPT !.reset = "none"])
              \/ UpdateStatus(WithPod(v, seenPod, "Ready"))
              \/ UpdateStatus(WithPod(v, seenPod, "Pending"))
              \/ UpdateStatus(v)
    BY <1>23 DEF StartAfterReset
  <2> HIDE DEF v, u
  <2>4. session' \in Sessions /\ seen' \in Sessions /\ workload' \in {"gone", "down", "up"}
    BY <1>0, <1>3, <1>4, <1>6, <1>20, <2>1, <2>2, <2>3, CreateTyped, PutTyped, UpdateTyped
  <2> QED
    BY <1>0, <1>2, <1>5, <1>23, <2>4 DEF StartAfterReset
<1> QED
  BY <1>7, <1>8, <1>9, <1>10, <1>11, <1>12, <1>13, <1>14, <1>15, <1>16, <1>17, <1>18, <1>21,
     <1>22, <1>23 DEF Reconcile

\* A fault is counted up to its bound.
LEMMA FaultTyped ==
  ASSUME Rest, NEW kind, Fault(kind), rest' = rest, told' \in BOOLEAN
  PROVE  Rest'
BY Parameters DEF Fault, Rest

\* The activity of the runtime, in the order in which it is published.
LEMMA QueuedTyped ==
  ASSUME NEW q \in Seq({"true", "false"}), NEW a \in {"true", "false"}
  PROVE  /\ Queued(q, a) \in Seq({"true", "false"})
         /\ Len(Queued(q, a)) <= Len(q) + 1
         /\ Queued(q, a) # <<>>
BY AppendProperties DEF Queued

\* A pod that keeps serving, with another queue.
LEMMA ServingTyped ==
  ASSUME PodTyped(pod), pod.at = "serving", NEW turn \in BOOLEAN, NEW q \in Seq({"true", "false"}),
         Len(q) <= MaxQueue + 1, turn => Len(q) <= MaxQueue
  PROVE  PodTyped([pod EXCEPT !.turn = turn, !.queue = q])
<1> DEFINE v == [pod EXCEPT !.turn = turn, !.queue = q]
<1>1. v \in RuntimePods
  BY DEF PodTyped, RuntimePods
<1>2. v.queue = q /\ v.turn = turn /\ v.at = "serving"
  BY DEF PodTyped, RuntimePods
<1> HIDE DEF v
<1>3. PodTyped(v)
  BY <1>1, <1>2 DEF PodTyped
<1> QED
  BY <1>3 DEF v

LEMMA ReportTyped == \A p : Report(p) \in Reports \/ p.drain \notin {"none", "this", "other"}
BY DEF Report, Reports

\* The pod's own steps.
LEMMA RuntimeTyped ==
  ASSUME Typing, Runtime
  PROVE  Typing'
<1>0. /\ TypeOK /\ session \in Sessions /\ seen \in Sessions /\ PodsTyped /\ work \in Workspaces /\ Rest
      /\ workload \in {"gone", "down", "up"} /\ seenPod \in CachedPods
      /\ pod \in RuntimePods /\ PodTyped(pod) /\ MaxQueue \in Nat \ {0}
  BY TypingParts, Parameters DEF Typing, PodsTyped, PodTyped
<1>1. SUFFICES /\ session' \in Sessions /\ seen' \in Sessions /\ PodsTyped'
               /\ workload' \in {"gone", "down", "up"} /\ work' \in Workspaces /\ Rest'
  BY TypingParts DEF Typing, TypeOK, PodsFit, PodsTyped, PodTyped, Rest
<1>2. UNCHANGED history => Rest'
  BY <1>0 DEF history, Rest
<1>3. UNCHANGED podVars => PodsTyped'
  BY <1>0, PodsSame
<1>4. \A v : PodTyped(v) /\ PutPod(v) => PodsTyped'
  BY <1>0, PutPodTyped
<1>5. Request(pod.uid) \in {"none", "this", "other"}
  BY DEF Request
<1>6. \A r \in Reports : [session EXCEPT !.report = r] \in Sessions
  BY <1>0, SessionFields
<1>7. /\ pod.drain \in {"none", "this", "other"} /\ pod.queue \in Seq({"true", "false"})
      /\ pod.at \in {"none", "starting", "restarting", "serving", "stopping"}
  BY <1>0 DEF RuntimePods
<1>8. CASE Serve
  <2>1. PICK turn \in {FALSE, work.unsettled} :
          LET p == [pod EXCEPT !.at = "serving", !.drain = Request(pod.uid), !.turn = turn,
                      !.queue = IF turn THEN <<"true">>
                                ELSE IF work.unsettled THEN <<"true", "false">> ELSE <<"false">>]
          IN  PutPod(p) /\ PatchSession([session EXCEPT !.report = Report(p)])
    BY <1>8 DEF Serve
  <2> DEFINE q == IF turn THEN <<"true">>
                  ELSE IF work.unsettled THEN <<"true", "false">> ELSE <<"false">>
             p == [pod EXCEPT !.at = "serving", !.drain = Request(pod.uid), !.turn = turn, !.queue = q]
  <2>2. PutPod(p) /\ PatchSession([session EXCEPT !.report = Report(p)])
    BY <2>1
  <2>3. turn \in BOOLEAN
    BY <1>0 DEF Workspaces
  <2>4. /\ q \in Seq({"true", "false"}) /\ q # <<>>
        /\ Len(q) <= MaxQueue + 1 /\ (turn => Len(q) <= MaxQueue)
    <3>1. /\ <<"true">> \in Seq({"true", "false"}) /\ Len(<<"true">>) = 1 /\ <<"true">> # <<>>
          /\ <<"false">> \in Seq({"true", "false"}) /\ Len(<<"false">>) = 1 /\ <<"false">> # <<>>
          /\ <<"true", "false">> \in Seq({"true", "false"}) /\ Len(<<"true", "false">>) = 2
          /\ <<"true", "false">> # <<>>
      OBVIOUS
    <3>2. \/ q = <<"true">> \/ q = <<"false">> \/ (q = <<"true", "false">> /\ ~turn)
      OBVIOUS
    <3> HIDE DEF q
    <3>3. 1 <= MaxQueue /\ 1 <= MaxQueue + 1 /\ 2 <= MaxQueue + 1
      BY <1>0
    <3>4. CASE q = <<"true">>
      BY <3>1, <3>3, <3>4
    <3>5. CASE q = <<"false">>
      BY <3>1, <3>3, <3>5
    <3>6. CASE q = <<"true", "false">> /\ ~turn
      BY <3>1, <3>3, <3>6
    <3> QED
      BY <3>2, <3>4, <3>5, <3>6
  <2> HIDE DEF q
  <2>5. p \in RuntimePods /\ p.drain = Request(pod.uid) /\ p.queue = q /\ p.turn = turn /\ p.at = "serving"
    BY <1>0, <1>5, <2>3, <2>4 DEF RuntimePods
  <2> HIDE DEF p
  <2>6. PodTyped(p)
    BY <2>4, <2>5 DEF PodTyped
  <2>7. Report(p) \in Reports
    BY <1>5, <2>5, ReportTyped
  <2> QED
    BY <1>0, <1>2, <1>4, <1>6, <1>8, <2>2, <2>6, <2>7, PutTyped DEF Serve
<1>9. CASE Observe
  <2>1. PodTyped([pod EXCEPT !.drain = Request(pod.uid)])
    BY <1>0, <1>5 DEF PodTyped, RuntimePods
  <2> QED
    BY <1>0, <1>2, <1>4, <1>9, <2>1 DEF Observe
<1>10. CASE WriteReport
  <2>1. Report(pod) \in Reports
    BY <1>7, ReportTyped
  <2> QED
    BY <1>0, <1>2, <1>3, <1>6, <1>10, <2>1, PutTyped DEF WriteReport
<1>11. CASE Publish
  <2> DEFINE active == Head(pod.queue)
             later == Tail(pod.queue)
             age == IF session.active \in {"unknown", active} THEN session.age ELSE 0
             settled == work.unsettled /\ (active = "true" \/ pod.turn \/ later # <<>>)
  <2>1. /\ active \in {"true", "false"} /\ later \in Seq({"true", "false"})
        /\ Len(later) = Len(pod.queue) - 1 /\ Len(pod.queue) \in Nat
    BY <1>7, <1>11, HeadTailProperties, LenProperties DEF Publish
  <2>2. age \in Ages /\ active \in Activities /\ settled \in BOOLEAN
    BY <1>0, <2>1, SessionFields DEF Ages, Activities, Workspaces
  <2>3. /\ PatchSession([session EXCEPT !.active = active, !.age = age])
        /\ PutPod([pod EXCEPT !.queue = later]) /\ work' = [work EXCEPT !.unsettled = settled]
    BY <1>0, <1>11, SessionFields DEF Publish, Workspaces
  <2>4. pod.at = "serving"
    BY <1>11 DEF Publish
  <2> HIDE DEF active, later, age, settled
  <2>5. [session EXCEPT !.active = active, !.age = age] \in Sessions
    BY <1>0, <2>2, SessionFields
  <2>6. work' \in Workspaces
    BY <1>0, <2>2, <2>3 DEF Workspaces
  <2>7. PodTyped([pod EXCEPT !.queue = later])
    BY <1>0, <2>1, <2>4 DEF PodTyped, RuntimePods
  <2> QED
    BY <1>0, <1>2, <1>4, <1>11, <2>3, <2>5, <2>6, <2>7, PutTyped DEF Publish
<1>12. CASE PeriodicPublish
  <2> DEFINE q == <<IF pod.turn THEN "true" ELSE "false">>
  <2>1. q \in Seq({"true", "false"}) /\ Len(q) = 1
    OBVIOUS
  <2>2. PutPod([pod EXCEPT !.queue = q]) /\ pod.at = "serving"
    BY <1>12 DEF PeriodicPublish
  <2> HIDE DEF q
  <2>3. PodTyped([pod EXCEPT !.turn = pod.turn, !.queue = q])
    <3>1. Len(q) <= MaxQueue + 1 /\ Len(q) <= MaxQueue /\ pod.turn \in BOOLEAN
      BY <1>0, <2>1 DEF RuntimePods
    <3> QED
      BY <1>0, <2>1, <2>2, <3>1, ServingTyped
  <2>4. [pod EXCEPT !.turn = pod.turn, !.queue = q] = [pod EXCEPT !.queue = q]
    BY <1>0 DEF RuntimePods
  <2> QED
    BY <1>0, <1>2, <1>4, <1>12, <2>2, <2>3, <2>4 DEF PeriodicPublish
<1>13. CASE Connect
  <2>1. PodTyped([pod EXCEPT !.open = TRUE])
    BY <1>0, <1>13 DEF Connect, PodTyped, RuntimePods
  <2> QED
    BY <1>0, <1>2, <1>4, <1>13, <2>1 DEF Connect
<1>14. CASE AcceptTurn
  <2>1. /\ PutPod([pod EXCEPT !.turn = TRUE, !.queue = Queued(pod.queue, "true")])
        /\ pod.at = "serving" /\ Len(pod.queue) < MaxQueue
    BY <1>0, <1>14 DEF AcceptTurn, PodTyped, RuntimePods
  <2>2. /\ Queued(pod.queue, "true") \in Seq({"true", "false"})
        /\ Len(Queued(pod.queue, "true")) <= Len(pod.queue) + 1
    BY <1>7, QueuedTyped
  <2>3. PodTyped([pod EXCEPT !.turn = TRUE, !.queue = Queued(pod.queue, "true")])
    <3>1. Len(pod.queue) \in Nat /\ Len(Queued(pod.queue, "true")) \in Nat
      BY <1>7, <2>2, LenProperties
    <3>2. /\ Len(Queued(pod.queue, "true")) <= MaxQueue
          /\ Len(Queued(pod.queue, "true")) <= MaxQueue + 1
      BY <1>0, <2>1, <2>2, <3>1
    <3> QED
      BY <1>0, <2>1, <2>2, <3>2, ServingTyped
  <2>4. work' \in Workspaces
    BY <1>0, <1>14 DEF AcceptTurn, Workspaces
  <2>5. Rest'
    <3>1. rest' = 0 /\ told' = told /\ faults' = faults
      BY <1>14 DEF AcceptTurn
    <3> QED
      BY <1>0, <3>1 DEF Rest
  <2> QED
    BY <1>0, <1>4, <1>14, <2>1, <2>3, <2>4, <2>5 DEF AcceptTurn
<1>15. CASE FinishTurn
  <2>1. /\ PutPod([pod EXCEPT !.turn = FALSE, !.queue = Queued(pod.queue, "false")])
        /\ pod.at = "serving" /\ pod.turn
    BY <1>0, <1>15 DEF FinishTurn, RuntimePods
  <2>2. /\ Queued(pod.queue, "false") \in Seq({"true", "false"})
        /\ Len(Queued(pod.queue, "false")) <= Len(pod.queue) + 1
    BY <1>7, QueuedTyped
  <2>3. PodTyped([pod EXCEPT !.turn = FALSE, !.queue = Queued(pod.queue, "false")])
    <3>1. /\ Len(pod.queue) \in Nat /\ Len(Queued(pod.queue, "false")) \in Nat
          /\ Len(pod.queue) <= MaxQueue
      BY <1>0, <1>7, <2>1, <2>2, LenProperties DEF PodTyped
    <3>2. Len(Queued(pod.queue, "false")) <= MaxQueue + 1
      BY <1>0, <2>2, <3>1
    <3> QED
      BY <1>0, <2>1, <2>2, <3>2, ServingTyped
  <2>4. Rest'
    BY <1>0, <1>15 DEF FinishTurn, Rest
  <2> QED
    BY <1>0, <1>4, <1>15, <2>1, <2>3, <2>4 DEF FinishTurn
<1>16. CASE RuntimeRestarts
  <2>1. PodTyped([pod EXCEPT !.at = "restarting", !.ready = FALSE, !.open = FALSE,
                             !.drain = "none", !.turn = FALSE, !.queue = <<>>])
    <3> DEFINE v == [pod EXCEPT !.at = "restarting", !.ready = FALSE, !.open = FALSE,
                                !.drain = "none", !.turn = FALSE, !.queue = <<>>]
    <3>1. /\ v \in RuntimePods /\ v.queue = <<>> /\ ~v.turn /\ ~v.open /\ ~v.ready
      BY <1>0, EmptyQueue DEF RuntimePods
    <3> HIDE DEF v
    <3>2. Len(v.queue) = 0
      BY <3>1, EmptyQueue
    <3>3. PodTyped(v)
      BY <1>0, <3>1, <3>2 DEF PodTyped
    <3> QED
      BY <3>3 DEF v
  <2>2. Rest'
    BY <1>0, <1>16, FaultTyped DEF RuntimeRestarts, Rest
  <2> QED
    BY <1>0, <1>4, <1>16, <2>1, <2>2 DEF RuntimeRestarts
<1> QED
  BY <1>8, <1>9, <1>10, <1>11, <1>12, <1>13, <1>14, <1>15, <1>16 DEF Runtime

\* What Kubernetes does.
LEMMA KubernetesTyped ==
  ASSUME Typing, Kubernetes
  PROVE  Typing'
<1>0. /\ TypeOK /\ session \in Sessions /\ seen \in Sessions /\ PodsTyped /\ work \in Workspaces /\ Rest
      /\ workload \in {"gone", "down", "up"} /\ seenPod \in CachedPods
      /\ pod \in RuntimePods /\ PodTyped(pod) /\ MaxQueue \in Nat \ {0}
  BY TypingParts, Parameters DEF Typing, PodsTyped, PodTyped
<1>1. SUFFICES /\ session' \in Sessions /\ seen' \in Sessions /\ PodsTyped'
               /\ workload' \in {"gone", "down", "up"} /\ work' \in Workspaces /\ Rest'
  BY TypingParts DEF Typing, TypeOK, PodsFit, PodsTyped, PodTyped, Rest
<1>2. UNCHANGED history => Rest'
  BY <1>0 DEF history, Rest
<1>3. UNCHANGED podVars => PodsTyped'
  BY <1>0, PodsSame
<1>4. \A v : PodTyped(v) /\ PutPod(v) => PodsTyped'
  BY <1>0, PutPodTyped
<1>5. PodTyped(Stopping(pod)) /\ PodTyped(AbsentPod)
  BY <1>0, StoppingTyped
<1>6. CASE CreatePod
  <2>1. PICK u \in Pods : PutPod([AbsentPod EXCEPT !.uid = u, !.at = "starting", !.own = TRUE])
    BY <1>6 DEF CreatePod
  <2>2. PodTyped([AbsentPod EXCEPT !.uid = u, !.at = "starting", !.own = TRUE])
    <3> DEFINE v == [AbsentPod EXCEPT !.uid = u, !.at = "starting", !.own = TRUE]
    <3>1. v \in RuntimePods
      BY EmptyQueue DEF RuntimePods, AbsentPod
    <3>2. v.queue = <<>> /\ ~v.turn /\ ~v.open /\ v.at = "starting"
      BY DEF AbsentPod
    <3> HIDE DEF v
    <3>3. PodTyped(v)
      BY <1>0, <3>1, <3>2, EmptyQueue DEF PodTyped
    <3> QED
      BY <3>3 DEF v
  <2>3. work' \in Workspaces
    BY <1>0, <1>6 DEF CreatePod, Workspaces
  <2>4. Rest'
    BY <1>0, <1>6, SessionFields DEF CreatePod, Rest, Workspaces
  <2> QED
    BY <1>0, <1>4, <1>6, <2>1, <2>2, <2>3, <2>4 DEF CreatePod
<1>7. CASE StopPodUnowned
  BY <1>0, <1>2, <1>4, <1>5, <1>7 DEF StopPodUnowned
<1>8. CASE PodGone
  <2>1. work' \in Workspaces
    BY <1>0, <1>8 DEF PodGone, Workspaces
  <2> QED
    BY <1>0, <1>2, <1>4, <1>5, <1>8, <2>1 DEF PodGone
<1>9. CASE ClaimGone
  <2>1. work' \in Workspaces
    BY <1>9 DEF ClaimGone, Workspaces
  <2> QED
    BY <1>0, <1>2, <1>3, <1>9, <2>1 DEF ClaimGone
<1>10. CASE Probe
  <2>1. PodTyped([pod EXCEPT !.ready = ~pod.ready])
    BY <1>0, <1>10 DEF Probe, PodTyped, RuntimePods
  <2>2. Rest'
    <3>1. (faults' = faults \/ Fault("blip")) /\ rest' = rest /\ told' = told
      BY <1>10 DEF Probe
    <3> QED
      BY <1>0, <3>1, FaultTyped DEF Rest
  <2>3. PutPod([pod EXCEPT !.ready = ~pod.ready])
    BY <1>0, <1>10 DEF Probe, RuntimePods
  <2> QED
    BY <1>0, <1>4, <1>10, <2>1, <2>2, <2>3 DEF Probe
<1>11. CASE Evict
  <2>1. Rest'
    BY <1>0, <1>11, FaultTyped DEF Evict, Rest
  <2> QED
    BY <1>0, <1>4, <1>5, <1>11, <2>1 DEF Evict
<1>12. CASE Age
  <2>1. \A s \in Sessions : [s EXCEPT !.age = IF s.age < 2 THEN s.age + 1 ELSE s.age] \in Sessions
    <3>1. \A s \in Sessions : s.age \in Ages /\ (IF s.age < 2 THEN s.age + 1 ELSE s.age) \in Ages
      BY SessionFields DEF Ages
    <3> QED
      BY <3>1, SessionFields
  <2>2. /\ session' = [session EXCEPT !.age = IF session.age < 2 THEN session.age + 1 ELSE session.age]
        /\ seen' = [seen EXCEPT !.age = IF seen.age < 2 THEN seen.age + 1 ELSE seen.age]
    BY <1>0, <1>12, SessionFields DEF Age
  <2>3. Rest'
    BY <1>0, <1>12 DEF Age, Rest
  <2> QED
    BY <1>0, <1>3, <1>12, <2>1, <2>2, <2>3 DEF Age
<1> QED
  BY <1>6, <1>7, <1>8, <1>9, <1>10, <1>11, <1>12 DEF Kubernetes

\* What users and clients do.
LEMMA UsersTyped ==
  ASSUME Typing, Users
  PROVE  Typing'
<1>0. /\ TypeOK /\ session \in Sessions /\ seen \in Sessions /\ PodsTyped /\ work \in Workspaces /\ Rest
      /\ workload \in {"gone", "down", "up"} /\ seenPod \in CachedPods
      /\ pod \in RuntimePods /\ PodTyped(pod)
  BY TypingParts DEF Typing, PodsTyped, PodTyped
<1>1. SUFFICES /\ session' \in Sessions /\ seen' \in Sessions /\ PodsTyped'
               /\ workload' \in {"gone", "down", "up"} /\ work' \in Workspaces /\ Rest'
  BY TypingParts DEF Typing, TypeOK, PodsFit, PodsTyped, PodTyped, Rest
<1>2. Untouched => PodsTyped' /\ workload' \in {"gone", "down", "up"}
  BY <1>0, PodsSame DEF Untouched
<1>3. CASE ToggleSuspend
  <2>1. [session EXCEPT !.suspend = ~session.suspend] \in Sessions
    BY <1>0, SessionFields
  <2>2. PatchSession([session EXCEPT !.suspend = ~session.suspend])
    BY <1>0, <1>3, SessionFields DEF ToggleSuspend
  <2>3. Rest'
    BY <1>0, <1>3, FaultTyped DEF ToggleSuspend
  <2> QED
    BY <1>0, <1>2, <1>3, <2>1, <2>2, <2>3, PutTyped DEF ToggleSuspend
<1>4. CASE RequestReset
  <2>1. [session EXCEPT !.reset = "asked"] \in Sessions
    <3>1. "asked" \in Resets
      BY DEF Resets
    <3> QED
      BY <1>0, <3>1, SessionFields
  <2>2. work' \in Workspaces
    BY <1>0, <1>4 DEF RequestReset, Workspaces
  <2>3. Rest'
    BY <1>0, <1>4, FaultTyped DEF RequestReset
  <2> QED
    BY <1>0, <1>2, <1>4, <2>1, <2>2, <2>3, PutTyped DEF RequestReset
<1>5. {"asked", "acked"} \in SUBSET Resumes
  BY DEF Resumes
<1>6. \A r \in Resumes : [session EXCEPT !.resume = r] \in Sessions
  BY <1>0, SessionFields
<1>7. CASE RequestResume
  <2>1. Rest'
    BY <1>0, <1>7, FaultTyped DEF RequestResume, Rest
  <2> QED
    BY <1>0, <1>2, <1>5, <1>6, <1>7, <2>1, PutTyped DEF RequestResume
<1>8. CASE AcknowledgeResume
  BY <1>0, <1>2, <1>5, <1>6, <1>8, PutTyped DEF AcknowledgeResume, history, Rest
<1>9. CASE DeleteWorkload
  <2>1. PodTyped([pod EXCEPT !.own = FALSE])
    BY <1>0 DEF PodTyped, RuntimePods
  <2>2. Rest'
    BY <1>0, <1>9, FaultTyped DEF DeleteWorkload
  <2> QED
    BY <1>0, <1>9, <2>1, <2>2, PutPodTyped DEF DeleteWorkload
<1> QED
  BY <1>3, <1>4, <1>7, <1>8, <1>9 DEF Users

LEMMA InitTyped == Init => Typing
<1> SUFFICES ASSUME Init PROVE Typing
  OBVIOUS
<1>1. session \in Sessions /\ seen \in Sessions
  <2>1. /\ session \in [obj : {"present"}, claim : BOOLEAN, suspend : {FALSE},
                        reset : {"none"}, resume : {"none"}, drain : {NoPod},
                        report : {"none"}, phase : {"Pending"}, podUID : {NoPod},
                        active : {"unknown"}, age : {0}]
        /\ seen = session
    BY DEF Init
  <2>2. /\ {"present"} \in SUBSET Objects /\ {"none"} \in SUBSET Resets
        /\ {"none"} \in SUBSET Resumes /\ {"none"} \in SUBSET Reports
        /\ {"Pending"} \in SUBSET Phases /\ {"unknown"} \in SUBSET Activities
        /\ {0} \in SUBSET Ages /\ {NoPod} \in SUBSET UIDs
    BY DEF Objects, Resets, Resumes, Reports, Phases, Activities, Ages, UIDs
  <2> QED
    BY <2>1, <2>2, SessionFields
<1>2. PodTyped(AbsentPod)
  BY Parameters, EmptyQueue DEF PodTyped, RuntimePods, AbsentPod
<1>3. PodsTyped
  BY <1>2, ViewTyped DEF Init, PodsTyped
<1>4. workload \in {"gone", "down", "up"} /\ work \in Workspaces
  BY DEF Init, Workspaces
<1>5. Rest
  <2>1. rest = 0 /\ told = FALSE /\ faults = 0
    BY DEF Init
  <2>2. 0 \in 0 .. 2 /\ 0 \in 0 .. MaxFaults
    BY Parameters
  <2> QED
    BY <2>1, <2>2 DEF Rest
<1> QED
  BY <1>1, <1>3, <1>4, <1>5, TypingParts

\* Every step keeps the types.
LEMMA NextTyped == Typing /\ [Next]_vars => Typing'
<1> SUFFICES ASSUME Typing, [Next]_vars PROVE Typing'
  OBVIOUS
<1>1. CASE Reconcile \/ Runtime \/ Kubernetes \/ Users
  BY <1>1, ReconcileTyped, RuntimeTyped, KubernetesTyped, UsersTyped
<1>2. CASE SyncSession
  BY <1>2 DEF SyncSession, Typing, TypeOK, PodsFit, podVars, history
<1>3. CASE SyncPod
  <2>1. PodTyped(pod)
    BY TypingParts DEF PodsTyped
  <2>2. View(pod) \in CachedPods
    BY <2>1, ViewTyped
  <2> QED
    BY <1>3, <2>2 DEF SyncPod, Typing, TypeOK, PodsFit, history
<1>4. CASE UNCHANGED vars
  BY <1>4 DEF vars, Typing, TypeOK, PodsFit
<1> QED
  BY <1>1, <1>2, <1>3, <1>4 DEF Next

LEMMA Typings == Spec => []Typing
BY InitTyped, NextTyped, PTL DEF Spec

\* The Session, its pod and their copies are always what their types say; a
\* pod that is not serving has no client, no turn and nothing to publish.
THEOREM Typed == Spec => []TypeOK
<1>1. Typing => TypeOK
  BY DEF Typing
<1> QED
  BY <1>1, Typings, PTL

-----------------------------------------------------------------------------
(* What a reconcile does, by the parts of the state it touches             *)

\* What no write under the lock changes.
Carried(t, s) ==
  t.claim = s.claim /\ t.suspend = s.suspend /\ t.drain = s.drain /\ t.report = s.report

SessionKept == session' = session /\ seen' = seen
SessionPut ==
  seen = session /\ (seen' = session \/ seen' = session') /\ Carried(session', session)

\* A reset goes through its phases in order; a write that takes it to the last
\* ones leaves no idle phase behind, and the claim is gone before the start.
ResetMoves ==
  \/ session'.reset = session.reset
  \/ session.reset = "asked" /\ session'.reset = "stopping" /\ session'.phase = session.phase
  \/ session.reset = "stopping" /\ session'.reset = "deletingStorage" /\ session'.phase # "Idle"
  \/ /\ session.reset = "deletingStorage" /\ session'.reset = "starting"
     /\ session'.phase # "Idle" /\ work.state = "none" /\ work' = work
  \/ session.reset = "starting" /\ session'.reset = "none" /\ session'.phase # "Idle" /\ work' = work

\* A Session becomes idle drained, or without a runtime that could have a turn,
\* and stops being idle for a user, a reset or a resume.
PhaseMoves ==
  \/ session'.phase = session.phase
  \/ /\ session'.phase = "Idle" /\ session.reset = "none" /\ session'.reset = "none"
     /\ \/ Drained /\ (SuspendExpired(seen) \/ ResumeRequested(seen))
        \/ told' \/ pod.at \in {"none", "starting"}
  \/ /\ session'.phase # "Idle"
     /\ session.phase = "Idle" => \/ session.suspend \/ session.reset # "none"
                                  \/ ResumeRequested(session) /\ told'

SessionMoves == SessionKept \/ (SessionPut /\ ResetMoves /\ PhaseMoves)

WorkloadMoves ==
  \/ workload' = workload \/ workload' = "up"
  \/ /\ workload' = "down"
     /\ \/ workload = "gone" \/ seen.suspend \/ session.reset # "none" \/ session'.phase = "Idle"
        \/ seen.phase = "Idle" /\ ~ResumeRequested(seen) /\ session'.phase = session.phase

\* The reconciles that leave the pod and the workspace alone.
StatusStep ==
  /\ UNCHANGED <<podVars, work>> /\ (told' = told \/ told' = TRUE)
  /\ SessionMoves /\ WorkloadMoves

\* Those that install a drain request, and those that clear it.
InstallStep == InstallDrain /\ (told' = told \/ told' = TRUE) /\ UNCHANGED <<workload, work>>
ClearStep ==
  /\ ClearDrain /\ UNCHANGED <<workload, work>>
  /\ \/ told' = TRUE
     \/ told' = told /\ workload = "gone"
     \/ told' = told /\ seen.phase # "Idle" /\ ~SuspendExpired(seen) /\ ~ResumeRequested(seen)

\* Those of a reset that stop the pod or delete the claim.
ResetStep ==
  /\ seen.reset \in {"stopping", "deletingStorage"} /\ told' = told
  /\ SessionMoves /\ ScaleDown
  /\ \/ UNCHANGED podVars
     \/ PutPod(Stopping(pod)) /\ seenPod.at # "none" /\ pod.uid = seenPod.uid
  /\ work' = work \/ (work.state = "bound" /\ work' = [work EXCEPT !.state = "deleting"])

\* The fields of a status without a pod, and with one.
LEMMA WithoutPodFields ==
  ASSUME NEW s \in Sessions, NEW phase \in Phases
  PROVE  /\ Carried(WithoutPod(s, phase), s)
         /\ WithoutPod(s, phase).reset = s.reset /\ WithoutPod(s, phase).resume = s.resume
         /\ WithoutPod(s, phase).phase = phase /\ WithoutPod(s, phase).obj = s.obj
BY SessionFields DEF WithoutPod, Carried

LEMMA WithPodFields ==
  ASSUME NEW s \in Sessions, NEW phase \in Phases, NEW p \in CachedPods
  PROVE  /\ Carried(WithPod(s, p, phase), s)
         /\ WithPod(s, p, phase).reset = s.reset /\ WithPod(s, p, phase).resume = s.resume
         /\ WithPod(s, p, phase).phase = phase /\ WithPod(s, p, phase).obj = s.obj
BY SessionFields DEF WithPod, Carried

\* A status that another reset or resume goes with.
LEMMA ResetFields ==
  ASSUME NEW s \in Sessions, NEW r \in Resets
  PROVE  LET v == [s EXCEPT !.reset = r] IN
         Carried(v, s) /\ v.reset = r /\ v.phase = s.phase /\ v.obj = s.obj /\ v \in Sessions
BY SessionFields DEF Carried

LEMMA ResumeFields ==
  ASSUME NEW s \in Sessions, NEW r \in Resumes
  PROVE  LET v == [s EXCEPT !.resume = r] IN
         Carried(v, s) /\ v.reset = s.reset /\ v.phase = s.phase /\ v.obj = s.obj /\ v \in Sessions
BY SessionFields DEF Carried

LEMMA CarriedTwice ==
  \A r, s, t : Carried(t, s) /\ Carried(s, r) => Carried(t, r)
BY DEF Carried

\* The observed status is that of the pod.
LEMMA ObservedFields ==
  ASSUME TypeOK, NEW s \in Sessions
  PROVE  /\ Carried(Observed(s), s) /\ Observed(s).reset = s.reset /\ Observed(s).obj = s.obj
         /\ Observed(s).phase # "Idle"
<1>1. seenPod \in CachedPods
  BY DEF TypeOK
<1>2. \A phase \in Phases : /\ Carried(WithoutPod(s, phase), s) /\ WithoutPod(s, phase).reset = s.reset
                            /\ WithoutPod(s, phase).phase = phase /\ WithoutPod(s, phase).obj = s.obj
                            /\ Carried(WithPod(s, seenPod, phase), s)
                            /\ WithPod(s, seenPod, phase).reset = s.reset
                            /\ WithPod(s, seenPod, phase).phase = phase
                            /\ WithPod(s, seenPod, phase).obj = s.obj
  BY <1>1, WithoutPodFields, WithPodFields
<1>3. {"Pending", "Failed", "Ready"} \in SUBSET Phases
  BY DEF Phases
<1> QED
  BY <1>1, <1>2, <1>3 DEF Observed, CachedPods

\* A write that keeps the order of the phases is a move.
LEMMA PutMoves ==
  ASSUME NEW v, PutSession(v) \/ UpdateStatus(v) \/ UpdateStatusAfter(v),
         seen = session => Carried(v, seen)
  PROVE  \/ SessionKept
         \/ SessionPut /\ session' = v
BY DEF PutSession, UpdateStatus, UpdateStatusAfter, SessionKept, SessionPut

\* The StatefulSet is made again.
LEMMA CreateMoves ==
  ASSUME Typing, CreateWorkload, told' = told, UNCHANGED work,
         \/ seen.reset # "none"
         \/ seen.phase = "Idle" => seen.suspend \/ ~ResumeRequested(seen)
  PROVE  StatusStep
<1> DEFINE phase == IF sessionSuspended(seen) THEN SuspendedPhase(seen) ELSE "Pending"
           v == WithoutPod(seen, phase)
<1>1. seen \in Sessions /\ phase \in Phases
  BY SuspendedTyped, TypingParts DEF Phases
<1>2. /\ Carried(v, seen) /\ v.reset = seen.reset /\ v.resume = seen.resume /\ v.phase = phase
  BY <1>1, WithoutPodFields
<1>3. /\ workload = "gone" /\ UpdateStatusAfter(v) /\ UNCHANGED podVars
      /\ workload' \in {"down", "up"}
  BY DEF CreateWorkload
<1>4. \/ phase = seen.phase
      \/ /\ phase # "Idle"
         /\ seen.phase = "Idle" => seen.suspend \/ seen.reset # "none"
  BY DEF sessionSuspended, SuspendedPhase, IsIdlePolicySuspended
<1> HIDE DEF phase, v
<1>5. SessionKept \/ (SessionPut /\ session' = v)
  BY <1>2, <1>3, PutMoves
<1>6. SessionPut => seen = session
  BY DEF SessionPut
<1>7. SessionMoves
  BY <1>2, <1>4, <1>5, <1>6 DEF SessionMoves, ResetMoves, PhaseMoves
<1> QED
  BY <1>3, <1>7 DEF StatusStep, WorkloadMoves

\* What the reconciles of an ordinary Session do.
LEMMA OrdinarySteps ==
  ASSUME Typing,
         \/ ReapIdle \/ SuspendIdle \/ CancelDrain \/ MissingWorkload \/ AwaitInputs \/ Suspend \/ Run
  PROVE  StatusStep \/ InstallStep \/ ClearStep
<1>0. TypeOK /\ session \in Sessions /\ seen \in Sessions /\ seenPod \in CachedPods
  BY DEF Typing, TypeOK
<1>1. UNCHANGED history => told' = told
  BY DEF history
<1>2. reapIdleSession => /\ UNCHANGED podVars /\ SessionMoves /\ session'.phase = session.phase
  <2>1. reapIdleSession => SessionPut /\ session' = [seen EXCEPT !.obj = "gone"] /\ UNCHANGED podVars
    BY <1>0, SessionFields DEF reapIdleSession, PutSession, SessionPut, Carried
  <2>2. LET v == [seen EXCEPT !.obj = "gone"] IN v.reset = seen.reset /\ v.phase = seen.phase
    BY <1>0, SessionFields
  <2>3. SessionPut => seen = session
    BY DEF SessionPut
  <2> QED
    BY <2>1, <2>2, <2>3 DEF SessionMoves, ResetMoves, PhaseMoves
<1>3. ASSUME reapIdleSession, told' = told, UNCHANGED <<workload, work>>
      PROVE  StatusStep
  BY <1>2, <1>3 DEF StatusStep, WorkloadMoves
<1>4. ASSUME InstallDrain, told' = told, UNCHANGED <<workload, work>>
      PROVE  InstallStep
  BY <1>4 DEF InstallStep
<1>5. CASE ReapIdle
  BY <1>1, <1>3, <1>4, <1>5 DEF ReapIdle, reconcileIdleReap
<1>6. CASE SuspendIdle
  <2>1. told' = told /\ UNCHANGED work /\ SuspendExpired(seen) /\ Ordinary
    BY <1>1, <1>6 DEF SuspendIdle, Evaluating, Deployed, Onward
  <2>2. CASE InstallDrain /\ UNCHANGED workload
    BY <1>4, <2>1, <2>2
  <2>3. CASE Drained /\ PutSession(WithoutPod(seen, "Idle")) /\ UNCHANGED podVars /\ (ScaleDown \/ UNCHANGED workload)
    <3> DEFINE v == WithoutPod(seen, "Idle")
    <3>1. Carried(v, seen) /\ v.reset = seen.reset /\ v.phase = "Idle"
      BY <1>0, WithoutPodFields DEF Phases
    <3>2. PutSession(v)
      BY <2>3
    <3> HIDE DEF v
    <3>3. SessionPut /\ session' = v /\ seen = session
      BY <3>1, <3>2 DEF PutSession, SessionPut
    <3>4. seen.reset = "none"
      BY <2>1 DEF Ordinary
    <3>5. ResetMoves /\ PhaseMoves
      BY <2>1, <2>3, <3>1, <3>3, <3>4 DEF ResetMoves, PhaseMoves
    <3>6. WorkloadMoves
      BY <2>3, <3>1, <3>3 DEF WorkloadMoves, ScaleDown
    <3> QED
      BY <2>1, <2>3, <3>3, <3>5, <3>6 DEF StatusStep, SessionMoves
  <2> QED
    BY <1>6, <2>2, <2>3 DEF SuspendIdle
<1>7. CASE CancelDrain
  <2>1. /\ told' = told /\ ClearDrain /\ UNCHANGED <<workload, work>> /\ ~SuspendExpired(seen)
        /\ ~ResumeRequested(seen) /\ Observed(seen) = seen
    BY <1>1, <1>7 DEF CancelDrain, Evaluating
  <2>2. seen.phase # "Idle"
    BY <1>0, <2>1, ObservedFields
  <2> QED
    BY <2>1, <2>2 DEF ClearStep
<1>8. CASE MissingWorkload
  <2>1. /\ told' = told /\ UNCHANGED work /\ workload = "gone"
        /\ seen.phase = "Idle" => seen.suspend \/ ~ResumeRequested(seen)
    BY <1>1, <1>8 DEF MissingWorkload, Onward, IsIdlePolicySuspended
  <2>2. CASE reapIdleSession /\ UNCHANGED workload
    BY <1>3, <2>1, <2>2
  <2>3. CASE InstallDrain /\ UNCHANGED workload
    BY <1>4, <2>1, <2>3
  <2>4. CASE CreateWorkload
    BY <2>1, <2>4, CreateMoves
  <2>5. CASE ClearDrain /\ UNCHANGED workload
    BY <2>1, <2>5 DEF ClearStep
  <2> QED
    BY <1>8, <2>2, <2>3, <2>4, <2>5 DEF MissingWorkload, reconcileIdleReap
<1>9. ASSUME NEW v, UpdateStatus(v) \/ UpdateStatusAfter(v), Carried(v, seen), v.reset = seen.reset,
             v.phase # "Idle", seen.phase = "Idle" => seen.suspend
      PROVE  SessionMoves
  <2>1. SessionKept \/ (SessionPut /\ session' = v)
    BY <1>9, PutMoves
  <2>2. SessionPut => seen = session
    BY DEF SessionPut
  <2> QED
    BY <1>9, <2>1, <2>2 DEF SessionMoves, ResetMoves, PhaseMoves
<1>10. Onward /\ ~sessionSuspended(seen) => (seen.phase = "Idle" => seen.suspend)
  BY DEF Onward, sessionSuspended, IsIdlePolicySuspended
<1>11. CASE AwaitInputs
  <2>1. /\ Onward /\ ~sessionSuspended(seen) /\ UpdateStatus(WithoutPod(seen, "Pending"))
        /\ UNCHANGED <<workload, podVars, work, told>>
    BY <1>11 DEF AwaitInputs, Deployed
  <2>2. LET v == WithoutPod(seen, "Pending") IN Carried(v, seen) /\ v.reset = seen.reset /\ v.phase # "Idle"
    BY <1>0, WithoutPodFields DEF Phases
  <2>3. SessionMoves
    BY <1>9, <1>10, <2>1, <2>2
  <2> QED
    BY <2>1, <2>3 DEF StatusStep, WorkloadMoves
<1>12. CASE Run
  <2>1. /\ Onward /\ ~sessionSuspended(seen) /\ UpdateStatusAfter(Observed(seen))
        /\ UNCHANGED <<podVars, work, told>> /\ workload' = "up"
    BY <1>1, <1>12 DEF Run, Deployed, ScaleUp
  <2>2. LET v == Observed(seen) IN Carried(v, seen) /\ v.reset = seen.reset /\ v.phase # "Idle"
    BY <1>0, ObservedFields
  <2>3. SessionMoves
    BY <1>9, <1>10, <2>1, <2>2
  <2> QED
    BY <2>1, <2>3 DEF StatusStep, WorkloadMoves
<1>13. CASE Suspend
  <2>1. /\ sessionSuspended(seen) /\ ScaleDown /\ told' = told /\ UNCHANGED work
        /\ workload' = workload \/ workload' = "down"
    BY <1>1, <1>13 DEF Suspend, ScaleDown
  <2>2. seen.suspend \/ (seen.phase = "Idle" /\ ~ResumeRequested(seen))
    BY <2>1 DEF sessionSuspended, IsIdlePolicySuspended
  <2>3. CASE reapIdleSession
    BY <1>2, <2>1, <2>2, <2>3 DEF StatusStep, WorkloadMoves
  <2>4. CASE UNCHANGED <<session, seen, podVars>>
    BY <2>1, <2>2, <2>4 DEF StatusStep, WorkloadMoves, SessionMoves, SessionKept
  <2>5. CASE UpdateStatusAfter(WithoutPod(seen, SuspendedPhase(seen))) /\ UNCHANGED podVars
    <3> DEFINE v == WithoutPod(seen, SuspendedPhase(seen))
    <3>1. /\ Carried(v, seen) /\ v.reset = seen.reset /\ v.phase = SuspendedPhase(seen)
      BY <1>0, WithoutPodFields, SuspendedTyped
    <3>2. SuspendedPhase(seen) = IF seen.phase = "Idle" /\ ~seen.suspend THEN "Idle" ELSE "Suspended"
      BY DEF SuspendedPhase, IsIdlePolicySuspended
    <3>3. UpdateStatusAfter(v)
      BY <2>5
    <3> HIDE DEF v
    <3>4. SessionKept \/ (SessionPut /\ session' = v)
      BY <3>1, <3>3, PutMoves
    <3>5. SessionPut => seen = session
      BY DEF SessionPut
    <3>6. SessionMoves
      BY <3>1, <3>2, <3>4, <3>5 DEF SessionMoves, ResetMoves, PhaseMoves
    <3>7. workload' = "down" => seen.suspend \/ (~ResumeRequested(seen) /\ seen.phase = "Idle" /\ session'.phase = session.phase)
      BY <2>2, <3>1, <3>2, <3>4, <3>5 DEF SessionKept
    <3> QED
      BY <2>1, <2>5, <3>6, <3>7 DEF StatusStep, WorkloadMoves
  <2> QED
    BY <1>13, <2>3, <2>4, <2>5 DEF Suspend
<1> QED
  BY <1>5, <1>6, <1>7, <1>8, <1>11, <1>12, <1>13

\* What those of a Session that was idle do.
LEMMA ResumeSteps ==
  ASSUME Typing, ClearResume \/ TimeResume \/ ExpireResume \/ WakeUp
  PROVE  StatusStep \/ InstallStep \/ ClearStep
<1>0. /\ TypeOK /\ session \in Sessions /\ seen \in Sessions /\ seenPod \in CachedPods
      /\ pod \in RuntimePods /\ told \in BOOLEAN
  BY DEF Typing, TypeOK
<1>1. UNCHANGED history => told' = told
  BY DEF history
<1>2. ASSUME NEW v, PutSession(v), Carried(v, seen), v.reset = seen.reset, v.phase = seen.phase
      PROVE  SessionMoves
  BY <1>2 DEF PutSession, SessionPut, SessionMoves, ResetMoves, PhaseMoves
<1>3. CASE ClearResume
  <2>1. PutSession([seen EXCEPT !.resume = "none"]) /\ UNCHANGED <<workload, podVars, work>> /\ told' = told
    BY <1>1, <1>3 DEF ClearResume
  <2>2. LET v == [seen EXCEPT !.resume = "none"] IN
        Carried(v, seen) /\ v.reset = seen.reset /\ v.phase = seen.phase
    BY <1>0, ResumeFields DEF Resumes
  <2>3. SessionMoves
    BY <1>2, <2>1, <2>2
  <2> QED
    BY <2>1, <2>3 DEF StatusStep, WorkloadMoves
<1>4. CASE TimeResume
  <2>1. UNCHANGED <<workload, podVars, work>> /\ told' = told
    BY <1>1, <1>4 DEF TimeResume
  <2>2. \A r \in Resumes : LET v == [seen EXCEPT !.resume = r] IN
           Carried(v, seen) /\ v.reset = seen.reset /\ v.phase = seen.phase
    BY <1>0, ResumeFields
  <2>3. LET v == [seen EXCEPT !.resume = "based", !.age = 0] IN
           Carried(v, seen) /\ v.reset = seen.reset /\ v.phase = seen.phase
    BY <1>0, SessionFields DEF Carried
  <2>4. \/ \E r \in Resumes : PutSession([seen EXCEPT !.resume = r])
        \/ PutSession([seen EXCEPT !.resume = "based", !.age = 0])
    BY <1>4 DEF TimeResume, Resumes
  <2>5. SessionMoves
    BY <1>2, <2>2, <2>3, <2>4
  <2> QED
    BY <2>1, <2>5 DEF StatusStep, WorkloadMoves
<1>5. CASE ExpireResume
  <2>1. UNCHANGED work /\ seen.resume = "timed" /\ seen.reset = "none" /\ (told' = told \/ told' = TRUE)
    BY <1>0, <1>5 DEF ExpireResume, Ordinary
  <2>2. CASE InstallDrain /\ UNCHANGED workload
    BY <2>1, <2>2 DEF InstallStep
  <2>3. CASE /\ Alive => seenPod.at = "starting" \/ Drained
             /\ seenPod.at # "stopping"
             /\ \/ /\ PutSession([WithoutPod(seen, "Idle") EXCEPT !.resume = "none"])
                   /\ ScaleDown \/ UNCHANGED workload
                \/ PutSession(WithoutPod(seen, "Idle")) /\ UNCHANGED workload
             /\ UNCHANGED podVars
    <3>1. Drained \/ seenPod.at \in {"none", "starting"}
      BY <1>0, <2>3 DEF Alive, CachedPods
    <3>2. seenPod = View(pod) /\ seenPod.at \in {"none", "starting"} => pod.at \in {"none", "starting"}
      BY <1>0 DEF View, RuntimePods
    <3>3. Drained \/ told' = TRUE \/ pod.at \in {"none", "starting"}
      BY <1>5, <3>1, <3>2 DEF ExpireResume
    <3>4. ResumeRequested(seen)
      BY <2>1 DEF ResumeRequested
    <3>5. PICK v : /\ PutSession(v) /\ Carried(v, seen) /\ v.reset = seen.reset /\ v.phase = "Idle"
      <4>1. LET v == WithoutPod(seen, "Idle") IN
            Carried(v, seen) /\ v.reset = seen.reset /\ v.phase = "Idle" /\ v \in Sessions
        BY <1>0, WithoutPodFields, StatusTyped DEF Phases
      <4>2. LET v == [WithoutPod(seen, "Idle") EXCEPT !.resume = "none"] IN
            Carried(v, WithoutPod(seen, "Idle")) /\ v.reset = seen.reset /\ v.phase = "Idle"
        BY <4>1, ResumeFields DEF Resumes
      <4> QED
        BY <2>3, <4>1, <4>2, CarriedTwice
    <3>6. SessionPut /\ session' = v /\ seen = session
      BY <3>5 DEF PutSession, SessionPut
    <3>7. SessionMoves /\ session'.phase = "Idle"
      BY <2>1, <3>3, <3>4, <3>5, <3>6 DEF SessionMoves, ResetMoves, PhaseMoves
    <3> QED
      BY <2>1, <2>3, <3>7 DEF StatusStep, WorkloadMoves, ScaleDown
  <2> QED
    BY <1>5, <2>2, <2>3 DEF ExpireResume
<1>6. CASE WakeUp
  <2>1. UNCHANGED <<workload, work>> /\ told' = TRUE /\ ResumeRequested(seen)
    BY <1>6 DEF WakeUp, ResumeRequested
  <2>2. CASE ClearDrain
    BY <2>1, <2>2 DEF ClearStep
  <2>3. CASE PutSession(WithoutPod(seen, "Pending")) /\ UNCHANGED podVars
    <3> DEFINE v == WithoutPod(seen, "Pending")
    <3>1. Carried(v, seen) /\ v.reset = seen.reset /\ v.phase = "Pending"
      BY <1>0, WithoutPodFields DEF Phases
    <3>2. PutSession(v)
      BY <2>3
    <3> HIDE DEF v
    <3>3. SessionPut /\ session' = v /\ seen = session
      BY <3>1, <3>2 DEF PutSession, SessionPut
    <3>4. SessionMoves
      BY <2>1, <3>1, <3>3 DEF SessionMoves, ResetMoves, PhaseMoves
    <3> QED
      BY <2>1, <2>3, <3>4 DEF StatusStep, WorkloadMoves
  <2> QED
    BY <1>6, <2>2, <2>3 DEF WakeUp
<1> QED
  BY <1>3, <1>4, <1>5, <1>6

\* What those of a reset do.
LEMMA ResetSteps ==
  ASSUME Typing, BeginReset \/ StopForReset \/ DeleteStorageForReset \/ StartAfterReset
  PROVE  StatusStep \/ ResetStep
<1>0. /\ TypeOK /\ session \in Sessions /\ seen \in Sessions /\ seenPod \in CachedPods
      /\ pod \in RuntimePods /\ work \in Workspaces
  BY DEF Typing, TypeOK
<1>1. UNCHANGED history => told' = told
  BY DEF history
<1>2. CASE BeginReset
  <2>1. /\ PutSession([seen EXCEPT !.reset = "stopping"]) /\ UNCHANGED <<workload, podVars, work>>
        /\ told' = told /\ seen.reset = "asked"
    BY <1>1, <1>2 DEF BeginReset, Resetting
  <2>2. LET v == [seen EXCEPT !.reset = "stopping"] IN
        Carried(v, seen) /\ v.reset = "stopping" /\ v.phase = seen.phase
    BY <1>0, ResetFields DEF Resets
  <2>3. SessionMoves
    BY <2>1, <2>2 DEF PutSession, SessionPut, SessionMoves, ResetMoves, PhaseMoves
  <2> QED
    BY <2>1, <2>3 DEF StatusStep, WorkloadMoves
<1> DEFINE v == WithoutPod(seen, "Pending")
<1>3. v \in Sessions /\ Carried(v, seen) /\ v.reset = seen.reset /\ v.phase = "Pending"
  BY <1>0, StatusTyped, WithoutPodFields DEF Phases
<1>4. \A r \in Resets : LET t == [v EXCEPT !.reset = r] IN
        Carried(t, seen) /\ t.reset = r /\ t.phase = "Pending"
  <2> HIDE DEF v
  <2> QED
    BY <1>3, ResetFields, CarriedTwice
<1>5. ASSUME UpdateStatus(v), seen.reset # "none"
      PROVE  SessionMoves
  <2> HIDE DEF v
  <2>1. SessionKept \/ (SessionPut /\ session' = v)
    BY <1>3, <1>5, PutMoves
  <2>2. SessionPut => seen = session
    BY DEF SessionPut
  <2> QED
    BY <1>3, <1>5, <2>1, <2>2 DEF SessionMoves, ResetMoves, PhaseMoves
<1>6. StopPod => UNCHANGED podVars \/ (PutPod(Stopping(pod)) /\ pod.uid = seenPod.uid)
  BY DEF StopPod, DeletePod
<1>7. CASE StopForReset
  <2>1. seen.reset = "stopping" /\ ScaleDown /\ UNCHANGED work /\ told' = told
    BY <1>1, <1>7 DEF StopForReset, Resetting
  <2>2. CASE PutSession([v EXCEPT !.reset = "deletingStorage"]) /\ UNCHANGED podVars
    <3> DEFINE t == [v EXCEPT !.reset = "deletingStorage"]
    <3>1. Carried(t, seen) /\ t.reset = "deletingStorage" /\ t.phase = "Pending" /\ PutSession(t)
      BY <1>4, <2>2 DEF Resets
    <3> HIDE DEF t
    <3>2. SessionMoves
      BY <2>1, <3>1 DEF PutSession, SessionPut, SessionMoves, ResetMoves, PhaseMoves
    <3> QED
      BY <2>1, <2>2, <3>2 DEF ResetStep
  <2>3. CASE seenPod.at # "none" /\ UpdateStatus(v) /\ StopPod
    BY <1>5, <1>6, <2>1, <2>3 DEF ResetStep
  <2> QED
    BY <1>7, <2>2, <2>3 DEF StopForReset
<1>8. CASE DeleteStorageForReset
  <2>1. seen.reset = "deletingStorage" /\ ScaleDown /\ told' = told
    BY <1>1, <1>8 DEF DeleteStorageForReset, Resetting
  <2>2. CASE seenPod.at # "none" /\ UpdateStatus(v) /\ StopPod /\ UNCHANGED work
    BY <1>5, <1>6, <2>1, <2>2 DEF ResetStep
  <2>3. CASE /\ work.state = "bound" /\ UpdateStatus(v)
             /\ work' = [work EXCEPT !.state = "deleting"] /\ UNCHANGED podVars
    BY <1>5, <2>1, <2>3 DEF ResetStep
  <2>4. CASE /\ work.state = "none" /\ PutSession([v EXCEPT !.reset = "starting"])
             /\ UNCHANGED <<podVars, work>>
    <3> DEFINE t == [v EXCEPT !.reset = "starting"]
    <3>1. Carried(t, seen) /\ t.reset = "starting" /\ t.phase = "Pending" /\ PutSession(t)
      BY <1>4, <2>4 DEF Resets
    <3> HIDE DEF t
    <3>2. SessionMoves
      BY <2>1, <2>4, <3>1 DEF PutSession, SessionPut, SessionMoves, ResetMoves, PhaseMoves
    <3> QED
      BY <2>1, <2>4, <3>2 DEF ResetStep
  <2> QED
    BY <1>8, <2>2, <2>3, <2>4 DEF DeleteStorageForReset
<1>9. CASE StartAfterReset
  <2>1. seen.reset = "starting" /\ UNCHANGED <<podVars, work>> /\ told' = told
    BY <1>1, <1>9 DEF StartAfterReset, Resetting
  <2>2. CASE CreateWorkload
    BY <2>1, <2>2, CreateMoves
  <2>3. ASSUME NEW t, PutSession(t), Carried(t, seen), t.reset = "none", t.phase # "Idle",
               workload' = "up" \/ workload' = "down"
        PROVE  StatusStep
    <3>1. SessionMoves /\ session.reset = "starting"
      BY <2>1, <2>3 DEF PutSession, SessionPut, SessionMoves, ResetMoves, PhaseMoves
    <3> QED
      BY <2>1, <2>3, <3>1 DEF StatusStep, WorkloadMoves
  <2>4. CASE /\ workload # "gone" /\ ScaleDown
             /\ PutSession([WithoutPod(seen, "Suspended") EXCEPT !.reset = "none"])
    <3> DEFINE w == WithoutPod(seen, "Suspended")
               t == [w EXCEPT !.reset = "none"]
    <3>1. w \in Sessions /\ Carried(w, seen) /\ w.phase = "Suspended"
      BY <1>0, StatusTyped, WithoutPodFields DEF Phases
    <3>2. PutSession(t)
      BY <2>4
    <3>3. Carried(t, seen) /\ t.reset = "none" /\ t.phase # "Idle"
      <4> HIDE DEF w
      <4> QED
        BY <3>1, ResetFields, CarriedTwice DEF Resets
    <3> HIDE DEF t, w
    <3> QED
      BY <2>3, <2>4, <3>2, <3>3 DEF ScaleDown
  <2>10. ASSUME NEW t, UpdateStatusAfter(t) \/ UpdateStatus(t), Carried(t, seen),
                t.reset = seen.reset, t.phase # "Idle",
                workload' \in {workload, "up"} \/ (workload' = "down" /\ sessionSuspended(seen))
         PROVE  StatusStep
    <3>1. SessionKept \/ (SessionPut /\ session' = t)
      BY <2>10, PutMoves
    <3>2. SessionPut => seen = session
      BY DEF SessionPut
    <3>3. SessionMoves
      BY <2>1, <2>10, <3>1, <3>2 DEF SessionMoves, ResetMoves, PhaseMoves
    <3>4. WorkloadMoves
      BY <2>1, <2>10, <3>1, <3>2 DEF WorkloadMoves, SessionKept, sessionSuspended, IsIdlePolicySuspended
    <3> QED
      BY <2>1, <3>3, <3>4 DEF StatusStep
  <2>11. CASE /\ workload # "gone" /\ sessionSuspended(seen) /\ ScaleDown
             /\ UpdateStatusAfter(WithoutPod(seen, "Suspended"))
    <3> DEFINE w == WithoutPod(seen, "Suspended")
    <3>1. Carried(w, seen) /\ w.reset = seen.reset /\ w.phase = "Suspended"
      BY <1>0, StatusTyped, WithoutPodFields DEF Phases
    <3>2. UpdateStatusAfter(w)
      BY <2>11
    <3> HIDE DEF w
    <3> QED
      BY <2>10, <2>11, <3>1, <3>2 DEF ScaleDown
  <2>5. \A phase \in Phases : LET p == WithPod(v, seenPod, phase) IN
           p \in Sessions /\ Carried(p, seen) /\ p.reset = seen.reset /\ p.phase = phase
    <3> HIDE DEF v
    <3> QED
      BY <1>0, <1>3, StatusTyped, WithPodFields, CarriedTwice
  <2>6. CASE ScaleUp /\ PutSession([WithPod(v, seenPod, "Ready") EXCEPT !.reset = "none"])
    <3> DEFINE w == WithPod(v, seenPod, "Ready")
               t == [w EXCEPT !.reset = "none"]
    <3>1. w \in Sessions /\ Carried(w, seen) /\ w.phase = "Ready"
      BY <2>5 DEF Phases
    <3>2. PutSession(t)
      BY <2>6
    <3>3. Carried(t, seen) /\ t.reset = "none" /\ t.phase # "Idle"
      <4> HIDE DEF w
      <4> QED
        BY <3>1, ResetFields, CarriedTwice DEF Resets
    <3> HIDE DEF t, w
    <3> QED
      BY <2>3, <2>6, <3>2, <3>3 DEF ScaleUp
  <2>7. ASSUME NEW phase \in {"Pending", "Ready"}, ScaleUp, UpdateStatus(WithPod(v, seenPod, phase))
        PROVE  StatusStep
    <3> DEFINE t == WithPod(v, seenPod, phase)
    <3>1. Carried(t, seen) /\ t.reset = seen.reset /\ t.phase = phase /\ UpdateStatus(t)
      BY <2>5, <2>7 DEF Phases
    <3> HIDE DEF t
    <3> QED
      BY <2>7, <2>10, <3>1 DEF ScaleUp
  <2>8. CASE UpdateStatus(v) /\ (UNCHANGED workload \/ ScaleUp)
    <3> HIDE DEF v
    <3> QED
      BY <1>3, <2>8, <2>10 DEF ScaleUp
  <2> QED
    BY <1>9, <2>2, <2>4, <2>6, <2>7, <2>8, <2>11 DEF StartAfterReset
<1> QED
  BY <1>2, <1>7, <1>8, <1>9

LEMMA ReconcileSteps ==
  ASSUME Typing, Reconcile
  PROVE  StatusStep \/ InstallStep \/ ClearStep \/ ResetStep
BY OrdinarySteps, ResumeSteps, ResetSteps DEF Reconcile

-----------------------------------------------------------------------------
(* Why a turn may be cut                                                   *)

\* A reset and a suspension are told, until a pod is made that they do not
\* concern; the copy that tells of a reset is one write behind at most.  The pod
\* loses its owner, and the Session its workload, by a user only.
ToldOfUsers ==
  /\ session.reset # "none" => told
  /\ seen.reset \in {"asked", "stopping", "deletingStorage"} => session.reset # "none"
  /\ session.suspend \/ seen.suspend => told
  /\ pod.at # "none" => (pod.own /\ workload # "gone") \/ told

\* The request the runtime has observed is the Session's.
Observing == pod.drain = "this" => session.drain = pod.uid

\* A drained Session has no turn, and no activity to publish.
DrainedIsSettled ==
  session.report = "drained" =>
    /\ ~pod.turn /\ ~work.unsettled
    /\ pod.at = "serving" => pod.drain = "this"

\* Activity that is not settled is still to be published.
Unsettled ==
  pod.at = "serving" /\ ~pod.turn =>
    /\ pod.queue # <<>> => Last(pod.queue) = "false"
    /\ work.unsettled => pod.queue # <<>>

\* A pod that is off, or has yet to start, left turns only if told to.
OffIsTold == pod.at \in {"none", "starting", "stopping"} /\ work.unsettled => told

\* An idle Session has no turn, and its pod, if a client is connected, is
\* drained: in the copy too, which does not take the Session for an active one.
IdleIsSettled == session.phase = "Idle" /\ ~told => ~pod.turn /\ ~work.unsettled
IdleIsDrained ==
  session.phase = "Idle" /\ ~told /\ pod.open =>
    /\ pod.drain # "none" /\ session.drain = pod.uid /\ seen.drain = pod.uid
    /\ seenPod.uid = pod.uid
    /\ seen.phase # "Idle" => SuspendExpired(seen) \/ ResumeRequested(seen)

\* A workload is scaled down for an idle Session, and the copy that still shows
\* it idle shows the resume too.
DownIsIdle == workload = "down" /\ pod.at # "none" => told \/ session.phase = "Idle"
LeftIdle ==
  seen.phase = "Idle" /\ session.phase # "Idle" =>
    ResumeRequested(seen) \/ seen.suspend \/ session.reset # "none"

\* The last phases of a reset follow a status that is not idle.
ResetIsActive == session.reset \in {"deletingStorage", "starting"} => session.phase # "Idle"

Reasons ==
  /\ ToldOfUsers /\ Observing /\ DrainedIsSettled /\ Unsettled /\ OffIsTold
  /\ IdleIsSettled /\ IdleIsDrained /\ DownIsIdle /\ LeftIdle /\ ResetIsActive

Reasoning == Typing /\ Reasons

LEMMA InitReasons == Init => Reasons
<1> SUFFICES ASSUME Init PROVE Reasons
  OBVIOUS
<1>1. /\ session.reset = "none" /\ session.suspend = FALSE /\ session.report = "none"
      /\ session.phase = "Pending" /\ seen = session
  BY DEF Init
<1>2. /\ pod.at = "none" /\ pod.turn = FALSE /\ pod.open = FALSE /\ pod.drain = "none"
      /\ work.unsettled = FALSE
  BY DEF Init, AbsentPod
<1> QED
  BY <1>1, <1>2 DEF Reasons, ToldOfUsers, Observing, DrainedIsSettled, Unsettled, OffIsTold,
     IdleIsSettled, IdleIsDrained, DownIsIdle, LeftIdle, ResetIsActive

\* Which reconcile may scale the workload down under a pod.
LEMMA StatusReasons ==
  ASSUME Reasoning, StatusStep
  PROVE  Reasons'
<1>0. /\ ToldOfUsers /\ Observing /\ DrainedIsSettled /\ Unsettled /\ OffIsTold
      /\ IdleIsSettled /\ IdleIsDrained /\ DownIsIdle /\ LeftIdle /\ ResetIsActive
      /\ told \in BOOLEAN /\ pod \in RuntimePods
      /\ pod.turn \/ pod.open \/ pod.queue # <<>> => pod.at = "serving"
  BY DEF Reasoning, Reasons, Typing, TypeOK
<1>1. /\ pod' = pod /\ seenPod' = seenPod /\ work' = work /\ (told' = told \/ told' = TRUE)
      /\ SessionMoves /\ WorkloadMoves
  BY DEF StatusStep, podVars
<1>2. /\ session'.suspend = session.suspend /\ session'.drain = session.drain
      /\ session'.report = session.report
      /\ \/ session' = session /\ seen' = seen
         \/ seen = session /\ (seen' = session \/ seen' = session') /\ ResetMoves /\ PhaseMoves
  BY <1>1 DEF SessionMoves, SessionKept, SessionPut, Carried
<1>3. ToldOfUsers'
  BY <1>0, <1>1, <1>2 DEF ToldOfUsers, ResetMoves, WorkloadMoves
<1>4. Observing' /\ DrainedIsSettled' /\ Unsettled' /\ OffIsTold'
  BY <1>0, <1>1, <1>2 DEF Observing, DrainedIsSettled, Unsettled, OffIsTold
<1>5. Drained /\ seen = session => DrainedIsSettled /\ seen.drain = seenPod.uid /\ session.report = "drained"
  BY <1>0 DEF Drained, Installed
<1>6. IdleIsSettled'
  BY <1>0, <1>1, <1>2, <1>5 DEF IdleIsSettled, PhaseMoves, DrainedIsSettled, OffIsTold
<1>7. IdleIsDrained'
  <2>1. CASE session' = session /\ seen' = seen
    BY <1>0, <1>1, <2>1 DEF IdleIsDrained, SuspendExpired, sessionIdlePolicyExpired, ResumeRequested,
       IsIdlePolicySuspended
  <2>2. CASE seen = session /\ (seen' = session \/ seen' = session') /\ PhaseMoves
    <3> SUFFICES ASSUME session'.phase = "Idle", ~told', pod.open
                 PROVE  /\ pod.drain # "none" /\ session'.drain = pod.uid /\ seen'.drain = pod.uid
                        /\ seenPod.uid = pod.uid
                        /\ seen'.phase # "Idle" => (SuspendExpired(seen) \/ ResumeRequested(seen)) /\ seen' = seen
      BY <1>1 DEF IdleIsDrained, SuspendExpired, sessionIdlePolicyExpired, ResumeRequested,
         IsIdlePolicySuspended
    <3>1. CASE session.phase = "Idle"
      BY <1>0, <1>1, <1>2, <2>2, <3>1 DEF IdleIsDrained
    <3>2. CASE session.phase # "Idle"
      <4>1. Drained /\ (SuspendExpired(seen) \/ ResumeRequested(seen))
        BY <1>0, <1>1, <2>2, <3>2 DEF PhaseMoves
      <4> QED
        BY <1>0, <1>1, <1>2, <1>5, <2>2, <4>1 DEF DrainedIsSettled, Observing
    <3> QED
      BY <3>1, <3>2
  <2> QED
    BY <1>2, <2>1, <2>2
<1>8. DownIsIdle'
  <2> SUFFICES ASSUME workload' = "down", pod.at # "none", ~told', session'.phase # "Idle" PROVE FALSE
    BY <1>1 DEF DownIsIdle
  <2>1. ~told
    BY <1>0, <1>1
  <2>2. session.phase # "Idle"
    BY <1>0, <1>2, <2>1 DEF PhaseMoves, ToldOfUsers
  <2> QED
    BY <1>0, <1>1, <2>1, <2>2 DEF WorkloadMoves, DownIsIdle, ToldOfUsers, LeftIdle
<1>9. LeftIdle'
  BY <1>0, <1>2 DEF LeftIdle, PhaseMoves, ResetMoves, ResetIsActive, ResumeRequested
<1>10. ResetIsActive'
  BY <1>0, <1>2 DEF ResetIsActive, ResetMoves, PhaseMoves
<1> QED
  BY <1>3, <1>4, <1>6, <1>7, <1>8, <1>9, <1>10 DEF Reasons

\* A write of the pod, and one without the lock, by what they leave.
LEMMA PodPut ==
  ASSUME NEW v, PutPod(v)
  PROVE  pod' = v /\ (seenPod'.uid = seenPod.uid \/ seenPod'.uid = pod'.uid)
BY DEF PutPod, View

LEMMA Patched ==
  ASSUME NEW v, PatchSession(v)
  PROVE  session' = v /\ (seen' = seen \/ seen' = session')
BY DEF PatchSession

\* The pod is the same but for what the runtime has observed of a request.
SameTurns ==
  /\ pod'.uid = pod.uid /\ pod'.at = pod.at /\ pod'.own = pod.own /\ pod'.open = pod.open
  /\ pod'.turn = pod.turn /\ pod'.queue = pod.queue
  /\ seenPod'.uid = seenPod.uid \/ seenPod'.uid = pod.uid

\* The Session is the same but for its drain request and the report on it.
SameControls ==
  /\ session'.reset = session.reset /\ session'.suspend = session.suspend
  /\ session'.phase = session.phase /\ session'.resume = session.resume
  /\ session'.claim = session.claim
  /\ seen' = seen \/ seen' = session'

\* A drain request, or its end, makes what was reported worthless.
LEMMA DrainFields ==
  ASSUME Typing, InstallDrain \/ ClearDrain
  PROVE  /\ SameTurns /\ SameControls /\ session'.report # "drained"
         /\ pod'.drain # "none" <=> pod.drain # "none"
         /\ pod'.drain = "this" => pod.drain = "this" /\ session'.drain = session.drain
<1>0. pod \in RuntimePods /\ session \in Sessions
  BY DEF Typing, TypeOK
<1>3. \A d, r : LET v == [session EXCEPT !.drain = d, !.report = r] IN
        /\ v.reset = session.reset /\ v.suspend = session.suspend
        /\ v.phase = session.phase /\ v.resume = session.resume
        /\ v.claim = session.claim /\ v.drain = d /\ v.report = r
  BY <1>0, SessionFields
<1>4. ASSUME NEW d, NEW r, PatchSession([session EXCEPT !.drain = d, !.report = r])
      PROVE  SameControls /\ session'.drain = d /\ session'.report = r
  <2> DEFINE v == [session EXCEPT !.drain = d, !.report = r]
  <2>1. /\ v.reset = session.reset /\ v.suspend = session.suspend
        /\ v.phase = session.phase /\ v.resume = session.resume
        /\ v.claim = session.claim /\ v.drain = d /\ v.report = r
    BY <1>3
  <2>2. PatchSession(v)
    BY <1>4
  <2> HIDE DEF v
  <2>3. session' = v /\ (seen' = seen \/ seen' = session')
    BY <2>2, Patched
  <2> QED
    BY <2>1, <2>3 DEF SameControls
<1>1. CASE InstallDrain
  <2>1. PICK report \in {"none", "other"} :
          PatchSession([session EXCEPT !.drain = seenPod.uid, !.report = report])
    BY <1>1 DEF InstallDrain
  <2>2. PICK drain : /\ PutPod([pod EXCEPT !.drain = drain])
                     /\ drain = IF pod.drain = "this" THEN "other" ELSE pod.drain
    BY <1>0, <1>1 DEF InstallDrain, RuntimePods
  <2>3. SameTurns /\ pod'.drain = drain
    BY <1>0, <2>2, PodPut DEF SameTurns, RuntimePods
  <2>4. SameControls /\ session'.report = report
    BY <1>4, <2>1
  <2> QED
    BY <2>1, <2>2, <2>3, <2>4
<1>2. CASE ClearDrain
  <2>1. PICK report, drain :
          /\ PatchSession([session EXCEPT !.drain = drain, !.report = report])
          /\ report = IF seen.report # "none" \/ session.report = "none" THEN "none"
                      ELSE IF seen.drain # NoPod THEN "other" ELSE session.report
          /\ drain = IF seen.drain # NoPod THEN NoPod ELSE session.drain
          /\ seen.drain # NoPod \/ seen.report # "none"
    BY <1>0, <1>2, SessionFields DEF ClearDrain
  <2>2. PICK observed :
          /\ PutPod([pod EXCEPT !.drain = observed])
          /\ observed = IF pod.drain = "this" /\ seen.drain # NoPod THEN "other" ELSE pod.drain
    BY <1>0, <1>2 DEF ClearDrain, RuntimePods
  <2>3. SameTurns /\ pod'.drain = observed
    BY <1>0, <2>2, PodPut DEF SameTurns, RuntimePods
  <2>4. SameControls /\ session'.report = report /\ session'.drain = drain
    BY <1>4, <2>1
  <2> QED
    BY <2>1, <2>2, <2>3, <2>4
<1> QED
  BY <1>1, <1>2

LEMMA DrainReasons ==
  ASSUME Reasoning, InstallStep \/ ClearStep
  PROVE  Reasons'
<1>0. /\ ToldOfUsers /\ Observing /\ DrainedIsSettled /\ Unsettled /\ OffIsTold
      /\ IdleIsSettled /\ IdleIsDrained /\ DownIsIdle /\ LeftIdle /\ ResetIsActive
      /\ told \in BOOLEAN /\ Typing
      /\ pod.open => pod.at = "serving"
  BY DEF Reasoning, Reasons, Typing, TypeOK
<1>1. /\ SameTurns /\ SameControls /\ session'.report # "drained"
      /\ pod'.drain = "this" => pod.drain = "this" /\ session'.drain = session.drain
      /\ workload' = workload /\ work' = work /\ (told' = told \/ told' = TRUE)
  BY <1>0, DrainFields DEF InstallStep, ClearStep
<1>2. ToldOfUsers'
  BY <1>0, <1>1 DEF ToldOfUsers, SameTurns, SameControls
<1>3. Observing' /\ DrainedIsSettled' /\ Unsettled' /\ OffIsTold' /\ IdleIsSettled'
  BY <1>0, <1>1 DEF Observing, DrainedIsSettled, Unsettled, OffIsTold, IdleIsSettled, SameTurns, SameControls
<1>4. IdleIsDrained'
  <2> SUFFICES ASSUME session.phase = "Idle", ~told', pod.open PROVE FALSE
    BY <1>1 DEF IdleIsDrained, SameTurns, SameControls
  <2>1. ~told /\ seen.drain = pod.uid /\ seenPod.uid = pod.uid
        /\ (seen.phase # "Idle" => SuspendExpired(seen) \/ ResumeRequested(seen))
    BY <1>0, <1>1 DEF IdleIsDrained
  <2>2. CASE InstallStep
    BY <2>1, <2>2 DEF InstallStep, InstallDrain, Installed
  <2>3. CASE ClearStep
    BY <1>0, <2>1, <2>3 DEF ClearStep, ToldOfUsers
  <2> QED
    BY <2>2, <2>3
<1>5. DownIsIdle' /\ LeftIdle' /\ ResetIsActive'
  BY <1>0, <1>1 DEF DownIsIdle, LeftIdle, ResetIsActive, SameTurns, SameControls, ResumeRequested
<1> QED
  BY <1>2, <1>3, <1>4, <1>5 DEF Reasons

\* The fields of a pod that is told to stop.
LEMMA Stopped ==
  ASSUME Typing, PutPod(Stopping(pod))
  PROVE  /\ pod'.at = "stopping" /\ pod'.own = pod.own /\ pod'.uid = pod.uid /\ pod'.drain = pod.drain
         /\ ~pod'.turn /\ ~pod'.open
         /\ seenPod'.uid = seenPod.uid \/ seenPod'.uid = pod.uid
<1>1. pod \in RuntimePods
  BY DEF Typing, TypeOK
<1>2. pod' = Stopping(pod) /\ (seenPod'.uid = seenPod.uid \/ seenPod'.uid = pod'.uid)
  BY PodPut
<1> QED
  BY <1>1, <1>2 DEF Stopping, RuntimePods

LEMMA ResetReasons ==
  ASSUME Reasoning, ResetStep
  PROVE  Reasons'
<1>0. /\ ToldOfUsers /\ Observing /\ DrainedIsSettled /\ Unsettled /\ OffIsTold
      /\ IdleIsSettled /\ IdleIsDrained /\ DownIsIdle /\ LeftIdle /\ ResetIsActive
      /\ told \in BOOLEAN /\ Typing /\ work \in Workspaces
  BY DEF Reasoning, Reasons, Typing, TypeOK
<1>1. told /\ told' /\ session.reset # "none"
  BY <1>0 DEF ResetStep, ToldOfUsers
<1>2. work'.unsettled = work.unsettled
  BY <1>0 DEF ResetStep, Workspaces
<1>3. \/ pod' = pod
      \/ pod'.at = "stopping" /\ pod'.uid = pod.uid /\ pod'.drain = pod.drain /\ ~pod'.turn
  BY <1>0, Stopped DEF ResetStep, podVars
<1>4. /\ session'.suspend = session.suspend /\ session'.drain = session.drain
      /\ session'.report = session.report
      /\ \/ session' = session /\ seen' = seen
         \/ seen = session /\ (seen' = session \/ seen' = session') /\ ResetMoves /\ PhaseMoves
  BY DEF ResetStep, SessionMoves, SessionKept, SessionPut, Carried
<1>5. seen.reset \in {"stopping", "deletingStorage"}
  BY DEF ResetStep
<1>6. ToldOfUsers'
  BY <1>1, <1>4, <1>5 DEF ToldOfUsers, ResetMoves
<1>7. Observing' /\ DrainedIsSettled'
  BY <1>0, <1>2, <1>3, <1>4 DEF Observing, DrainedIsSettled
<1>8. Unsettled'
  BY <1>0, <1>2, <1>3 DEF Unsettled
<1>9. OffIsTold' /\ IdleIsSettled' /\ IdleIsDrained' /\ DownIsIdle'
  BY <1>1 DEF OffIsTold, IdleIsSettled, IdleIsDrained, DownIsIdle
<1>10. LeftIdle'
  BY <1>0, <1>4 DEF LeftIdle, PhaseMoves, ResetMoves, ResetIsActive, ResumeRequested
<1>11. ResetIsActive'
  BY <1>0, <1>4 DEF ResetIsActive, ResetMoves, PhaseMoves
<1> QED
  BY <1>6, <1>7, <1>8, <1>9, <1>10, <1>11 DEF Reasons

\* The Session is the same but for what the reasons are not about.
SameReasons ==
  SameControls /\ session'.drain = session.drain

\* What is to be published ends with what was queued last.
LEMMA QueuedLast ==
  ASSUME NEW q \in Seq({"true", "false"}), NEW a \in {"true", "false"}
  PROVE  Queued(q, a) # <<>> /\ Last(Queued(q, a)) = a
<1>1. CASE q # <<>> /\ Last(q) = a
  BY <1>1 DEF Queued
<1>2. CASE ~(q # <<>> /\ Last(q) = a)
  <2>1. /\ Queued(q, a) = Append(q, a) /\ Len(Append(q, a)) = Len(q) + 1
        /\ Append(q, a)[Len(q) + 1] = a /\ Append(q, a) # <<>>
    BY <1>2, AppendProperties DEF Queued
  <2> QED
    BY <2>1 DEF Last
<1> QED
  BY <1>1, <1>2

LEMMA TailLast ==
  ASSUME NEW q \in Seq({"true", "false"}), q # <<>>
  PROVE  /\ Tail(q) # <<>> => Last(Tail(q)) = Last(q)
         /\ Tail(q) = <<>> => Head(q) = Last(q)
<1>1. /\ Tail(q) \in Seq({"true", "false"}) /\ Len(Tail(q)) = Len(q) - 1
      /\ \A i \in 1 .. Len(Tail(q)) : Tail(q)[i] = q[i + 1]
      /\ Len(q) \in Nat /\ Len(q) # 0 /\ Head(q) = q[1]
  BY HeadTailProperties, EmptySeq, LenProperties
<1>2. CASE Tail(q) # <<>>
  <2>1. Len(Tail(q)) \in Nat /\ Len(Tail(q)) # 0
    BY <1>1, <1>2, EmptySeq, LenProperties
  <2>2. Tail(q)[Len(Tail(q))] = q[Len(q)]
    BY <1>1, <2>1
  <2> QED
    BY <1>2, <2>2 DEF Last
<1>3. CASE Tail(q) = <<>>
  <2>1. Len(Tail(q)) = 0
    BY <1>3, EmptyQueue
  <2>2. Len(q) = 1
    BY <1>1, <2>1
  <2> QED
    BY <1>1, <1>3, <2>2 DEF Last
<1> QED
  BY <1>2, <1>3

\* The fields of the pod after the runtime's steps.
LEMMA ServeReasons ==
  ASSUME Reasoning, Serve
  PROVE  Reasons'
<1>0. /\ ToldOfUsers /\ Observing /\ DrainedIsSettled /\ Unsettled /\ OffIsTold
      /\ IdleIsSettled /\ IdleIsDrained /\ DownIsIdle /\ LeftIdle /\ ResetIsActive
      /\ told \in BOOLEAN /\ pod \in RuntimePods /\ session \in Sessions /\ work \in Workspaces
      /\ pod.open => pod.at = "serving"
  BY DEF Reasoning, Reasons, Typing, TypeOK
<1>1. PICK turn \in {FALSE, work.unsettled} :
        LET p == [pod EXCEPT !.at = "serving", !.drain = Request(pod.uid), !.turn = turn,
                    !.queue = IF turn THEN <<"true">>
                              ELSE IF work.unsettled THEN <<"true", "false">> ELSE <<"false">>]
        IN  PutPod(p) /\ PatchSession([session EXCEPT !.report = Report(p)])
  BY DEF Serve
<1> DEFINE q == IF turn THEN <<"true">>
                ELSE IF work.unsettled THEN <<"true", "false">> ELSE <<"false">>
           p == [pod EXCEPT !.at = "serving", !.drain = Request(pod.uid), !.turn = turn, !.queue = q]
<1>2. PutPod(p) /\ PatchSession([session EXCEPT !.report = Report(p)])
  BY <1>1
<1>3. q # <<>> /\ (~turn => Last(q) = "false")
  BY DEF Last
<1>4. /\ p.at = "serving" /\ p.drain = Request(pod.uid) /\ p.turn = turn /\ p.queue = q
      /\ p.uid = pod.uid /\ p.own = pod.own /\ p.open = pod.open
  BY <1>0 DEF RuntimePods
<1> HIDE DEF q, p
<1>5. pod' = p /\ (seenPod'.uid = seenPod.uid \/ seenPod'.uid = pod'.uid)
  BY <1>2, PodPut
<1>6. session' = [session EXCEPT !.report = Report(p)] /\ (seen' = seen \/ seen' = session')
  BY <1>2, Patched
<1>7. Report(p) # "drained"
  <2>1. Request(pod.uid) \in {"none", "this"}
    BY DEF Request
  <2> QED
    BY <1>3, <1>4, <2>1 DEF Report
<1>8. SameReasons /\ session'.report # "drained"
  BY <1>0, <1>6, <1>7, SessionFields DEF SameReasons, SameControls
<1>9. workload' = workload /\ work' = work /\ told' = told
      /\ pod.at \in {"starting", "restarting"}
  BY DEF Serve, history
<1>10. ToldOfUsers'
  BY <1>0, <1>4, <1>5, <1>8, <1>9 DEF ToldOfUsers, SameReasons, SameControls
<1>11. Observing' /\ DrainedIsSettled'
  BY <1>4, <1>5, <1>8 DEF Observing, DrainedIsSettled, SameReasons, Request
<1>12. Unsettled'
  BY <1>3, <1>4, <1>5 DEF Unsettled
<1>13. OffIsTold' /\ IdleIsSettled' /\ IdleIsDrained'
  BY <1>0, <1>1, <1>4, <1>5, <1>8, <1>9 DEF OffIsTold, IdleIsSettled, IdleIsDrained, SameReasons, SameControls
<1>14. DownIsIdle' /\ LeftIdle' /\ ResetIsActive'
  BY <1>0, <1>8, <1>9 DEF DownIsIdle, LeftIdle, ResetIsActive, SameReasons, SameControls, ResumeRequested
<1> QED
  BY <1>10, <1>11, <1>12, <1>13, <1>14 DEF Reasons

\* A step of the runtime, or of its readiness, that leaves the Session alone.
PodStep(v) ==
  /\ PutPod(v) /\ v.uid = pod.uid /\ v.own = pod.own /\ pod.at # "none" /\ v.at # "none"
  /\ UNCHANGED <<session, seen, workload>> /\ told' = told

LEMMA PodStepReasons ==
  ASSUME Reasoning, NEW v, PodStep(v),
         v.drain = "this" => session.drain = pod.uid,
         session.report = "drained" => ~v.turn /\ ~work'.unsettled /\ (v.at = "serving" => v.drain = "this"),
         v.at = "serving" /\ ~v.turn => /\ v.queue # <<>> => Last(v.queue) = "false"
                                        /\ work'.unsettled => v.queue # <<>>,
         v.at \in {"none", "starting", "stopping"} /\ work'.unsettled => told,
         session.phase = "Idle" /\ ~told => ~v.turn /\ ~work'.unsettled,
         session.phase = "Idle" /\ ~told /\ v.open => pod.open /\ v.drain # "none"
  PROVE  Reasons'
<1>0. /\ ToldOfUsers /\ Observing /\ DrainedIsSettled /\ Unsettled /\ OffIsTold
      /\ IdleIsSettled /\ IdleIsDrained /\ DownIsIdle /\ LeftIdle /\ ResetIsActive
  BY DEF Reasoning, Reasons
<1>1. /\ pod' = v /\ (seenPod'.uid = seenPod.uid \/ seenPod'.uid = pod'.uid)
      /\ v.uid = pod.uid /\ v.own = pod.own /\ pod.at # "none" /\ v.at # "none"
      /\ session' = session /\ seen' = seen /\ workload' = workload /\ told' = told
  BY PodPut DEF PodStep
<1>2. ToldOfUsers' /\ DownIsIdle' /\ LeftIdle' /\ ResetIsActive'
  BY <1>0, <1>1 DEF ToldOfUsers, DownIsIdle, LeftIdle, ResetIsActive, ResumeRequested
<1>3. Observing' /\ DrainedIsSettled' /\ OffIsTold' /\ IdleIsSettled'
  BY <1>1 DEF Observing, DrainedIsSettled, OffIsTold, IdleIsSettled
<1>4. Unsettled'
  BY <1>1 DEF Unsettled
<1>5. IdleIsDrained'
  BY <1>0, <1>1 DEF IdleIsDrained, SuspendExpired, sessionIdlePolicyExpired, ResumeRequested,
     IsIdlePolicySuspended
<1> QED
  BY <1>2, <1>3, <1>4, <1>5 DEF Reasons

LEMMA TurnReasons ==
  ASSUME Reasoning,
         \/ Observe \/ PeriodicPublish \/ Connect \/ AcceptTurn \/ FinishTurn \/ RuntimeRestarts \/ Probe
  PROVE  Reasons'
<1>0. /\ ToldOfUsers /\ Observing /\ DrainedIsSettled /\ Unsettled /\ OffIsTold
      /\ IdleIsSettled /\ IdleIsDrained
      /\ told \in BOOLEAN /\ pod \in RuntimePods /\ work \in Workspaces
      /\ pod.turn \/ pod.open \/ pod.queue # <<>> => pod.at = "serving"
  BY DEF Reasoning, Reasons, Typing, TypeOK
<1>1. pod.queue \in Seq({"true", "false"}) /\ pod.turn \in BOOLEAN
  BY <1>0 DEF RuntimePods
<1>2. CASE Observe
  <2> DEFINE v == [pod EXCEPT !.drain = Request(pod.uid)]
  <2>1. PutPod(v) /\ pod.at = "serving" /\ UNCHANGED <<session, seen, workload, work, told>>
    BY <1>2 DEF Observe, history
  <2>2. /\ v.uid = pod.uid /\ v.own = pod.own /\ v.at = pod.at /\ v.drain = Request(pod.uid)
        /\ v.turn = pod.turn /\ v.queue = pod.queue /\ v.open = pod.open
    BY <1>0 DEF RuntimePods
  <2> HIDE DEF v
  <2>3. PodStep(v)
    BY <2>1, <2>2 DEF PodStep
  <2>4. v.drain = "this" <=> session.drain = pod.uid
    BY <2>2 DEF Request
  <2>5. session.report = "drained" => session.drain = pod.uid /\ ~v.turn /\ ~work.unsettled
    BY <1>0, <2>1, <2>2 DEF DrainedIsSettled, Observing
  <2>6. session.phase = "Idle" /\ ~told => /\ ~v.turn /\ ~work.unsettled
                                           /\ v.open => pod.open /\ v.drain = "this"
    BY <1>0, <2>2, <2>4 DEF IdleIsSettled, IdleIsDrained
  <2>7. Unsettled /\ OffIsTold /\ work' = work
    BY <1>0, <2>1
  <2> QED
    BY <2>1, <2>2, <2>3, <2>4, <2>5, <2>6, <2>7, PodStepReasons DEF Unsettled, OffIsTold
<1>3. CASE PeriodicPublish
  <2> DEFINE q == <<IF pod.turn THEN "true" ELSE "false">>
             v == [pod EXCEPT !.queue = q]
  <2>1. PutPod(v) /\ pod.at = "serving" /\ UNCHANGED <<session, seen, workload, work, told>>
    BY <1>3 DEF PeriodicPublish, history
  <2>2. q # <<>> /\ (~pod.turn => Last(q) = "false")
    BY DEF Last
  <2> HIDE DEF q
  <2>3. /\ v.uid = pod.uid /\ v.own = pod.own /\ v.at = pod.at /\ v.drain = pod.drain
        /\ v.turn = pod.turn /\ v.queue = q /\ v.open = pod.open
    BY <1>0 DEF RuntimePods
  <2> HIDE DEF v
  <2>4. PodStep(v) /\ work' = work
    BY <2>1, <2>3 DEF PodStep
  <2>5. /\ v.drain = "this" => session.drain = pod.uid
        /\ session.report = "drained" => ~v.turn /\ ~work'.unsettled /\ (v.at = "serving" => v.drain = "this")
    BY <1>0, <2>1, <2>3, <2>4 DEF Observing, DrainedIsSettled
  <2>6. /\ session.phase = "Idle" /\ ~told => ~v.turn /\ ~work'.unsettled
        /\ session.phase = "Idle" /\ ~told /\ v.open => pod.open /\ v.drain # "none"
    BY <1>0, <2>3, <2>4 DEF IdleIsSettled, IdleIsDrained
  <2> QED
    BY <2>1, <2>2, <2>3, <2>4, <2>5, <2>6, PodStepReasons
<1>4. CASE Connect
  <2> DEFINE v == [pod EXCEPT !.open = TRUE]
  <2>1. /\ PutPod(v) /\ pod.at = "serving" /\ session.phase = "Ready"
        /\ UNCHANGED <<session, seen, workload, work, told>>
    BY <1>4 DEF Connect, history
  <2>2. /\ v.uid = pod.uid /\ v.own = pod.own /\ v.at = pod.at /\ v.drain = pod.drain
        /\ v.turn = pod.turn /\ v.queue = pod.queue
    BY <1>0 DEF RuntimePods
  <2> HIDE DEF v
  <2>3. PodStep(v) /\ work' = work
    BY <2>1, <2>2 DEF PodStep
  <2> QED
    BY <1>0, <2>1, <2>2, <2>3, PodStepReasons DEF Observing, DrainedIsSettled, Unsettled, OffIsTold
<1>5. CASE AcceptTurn
  <2> DEFINE v == [pod EXCEPT !.turn = TRUE, !.queue = Queued(pod.queue, "true")]
  <2>1. /\ PutPod(v) /\ pod.at = "serving" /\ pod.open /\ pod.drain = "none"
        /\ UNCHANGED <<session, seen, workload, told>>
    BY <1>0, <1>5 DEF AcceptTurn
  <2>2. /\ v.uid = pod.uid /\ v.own = pod.own /\ v.at = pod.at /\ v.drain = pod.drain
        /\ v.turn = TRUE /\ v.open = pod.open
    BY <1>0 DEF RuntimePods
  <2> HIDE DEF v
  <2>3. PodStep(v)
    BY <2>1, <2>2 DEF PodStep
  <2>4. session.report # "drained" /\ ~(session.phase = "Idle" /\ ~told)
    BY <1>0, <2>1 DEF DrainedIsSettled, IdleIsDrained
  <2> QED
    BY <2>1, <2>2, <2>3, <2>4, PodStepReasons
<1>6. CASE FinishTurn
  <2> DEFINE q == Queued(pod.queue, "false")
             v == [pod EXCEPT !.turn = FALSE, !.queue = q]
  <2>1. /\ PutPod(v) /\ pod.at = "serving" /\ pod.turn
        /\ UNCHANGED <<session, seen, workload, work, told>>
    BY <1>6 DEF FinishTurn
  <2>2. q # <<>> /\ Last(q) = "false"
    BY <1>1, QueuedLast
  <2> HIDE DEF q
  <2>3. /\ v.uid = pod.uid /\ v.own = pod.own /\ v.at = pod.at /\ v.drain = pod.drain
        /\ v.turn = FALSE /\ v.queue = q /\ v.open = pod.open
    BY <1>0 DEF RuntimePods
  <2> HIDE DEF v
  <2>4. PodStep(v) /\ work' = work
    BY <2>1, <2>3 DEF PodStep
  <2>5. session.report # "drained" /\ ~(session.phase = "Idle" /\ ~told)
    BY <1>0, <2>1 DEF DrainedIsSettled, IdleIsSettled
  <2> QED
    BY <1>0, <2>1, <2>2, <2>3, <2>4, <2>5, PodStepReasons DEF Observing
<1>7. CASE RuntimeRestarts
  <2> DEFINE v == [pod EXCEPT !.at = "restarting", !.ready = FALSE, !.open = FALSE,
                              !.drain = "none", !.turn = FALSE, !.queue = <<>>]
  <2>1. /\ PutPod(v) /\ pod.at = "serving"
        /\ UNCHANGED <<session, seen, workload, work, told>>
    BY <1>7 DEF RuntimeRestarts
  <2>2. /\ v.uid = pod.uid /\ v.own = pod.own /\ v.at = "restarting" /\ v.drain = "none"
        /\ v.turn = FALSE /\ v.open = FALSE
    BY <1>0 DEF RuntimePods
  <2> HIDE DEF v
  <2>3. PodStep(v) /\ work' = work
    BY <2>1, <2>2 DEF PodStep
  <2> QED
    BY <1>0, <2>1, <2>2, <2>3, PodStepReasons DEF DrainedIsSettled, IdleIsSettled
<1>8. CASE Probe
  <2> DEFINE v == [pod EXCEPT !.ready = ~pod.ready]
  <2>1. /\ PutPod(v) /\ pod.at = "serving"
        /\ UNCHANGED <<session, seen, workload, work, told>>
    BY <1>0, <1>8 DEF Probe, RuntimePods
  <2>2. /\ v.uid = pod.uid /\ v.own = pod.own /\ v.at = pod.at /\ v.drain = pod.drain
        /\ v.turn = pod.turn /\ v.queue = pod.queue /\ v.open = pod.open
    BY <1>0 DEF RuntimePods
  <2> HIDE DEF v
  <2>3. PodStep(v) /\ work' = work
    BY <2>1, <2>2 DEF PodStep
  <2> QED
    BY <1>0, <2>1, <2>2, <2>3, PodStepReasons
       DEF Observing, DrainedIsSettled, Unsettled, OffIsTold, IdleIsSettled, IdleIsDrained
<1> QED
  BY <1>2, <1>3, <1>4, <1>5, <1>6, <1>7, <1>8

\* A step that changes the Session but for what the reasons are about.
LEMMA PatchReasons ==
  ASSUME Reasoning, SameReasons, pod' = pod, seenPod' = seenPod, workload' = workload, told' = told,
         work' = work,
         session'.report = "drained" =>
           session.report = "drained" \/ (pod.at = "serving" /\ Report(pod) = "drained")
  PROVE  Reasons'
<1>0. /\ ToldOfUsers /\ Observing /\ DrainedIsSettled /\ Unsettled /\ OffIsTold
      /\ IdleIsSettled /\ IdleIsDrained /\ DownIsIdle /\ LeftIdle /\ ResetIsActive
      /\ pod \in RuntimePods
      /\ pod.turn \/ pod.open \/ pod.queue # <<>> => pod.at = "serving"
  BY DEF Reasoning, Reasons, Typing, TypeOK
<1>1. /\ session'.reset = session.reset /\ session'.suspend = session.suspend
      /\ session'.phase = session.phase /\ session'.resume = session.resume
      /\ session'.drain = session.drain /\ (seen' = seen \/ seen' = session')
  BY DEF SameReasons, SameControls
<1>2. ToldOfUsers' /\ DownIsIdle' /\ LeftIdle' /\ ResetIsActive'
  BY <1>0, <1>1 DEF ToldOfUsers, DownIsIdle, LeftIdle, ResetIsActive, ResumeRequested
<1>3. Observing' /\ OffIsTold' /\ IdleIsSettled' /\ Unsettled'
  BY <1>0, <1>1 DEF Observing, OffIsTold, IdleIsSettled, Unsettled
<1>4. Report(pod) = "drained" => pod.drain = "this" /\ ~pod.turn /\ pod.queue = <<>>
  <2>1. pod.drain \in {"none", "this", "other"}
    BY <1>0 DEF RuntimePods
  <2> QED
    BY <2>1 DEF Report
<1>5. DrainedIsSettled'
  BY <1>0, <1>4 DEF DrainedIsSettled, Unsettled
<1>6. IdleIsDrained'
  BY <1>0, <1>1 DEF IdleIsDrained, SuspendExpired, sessionIdlePolicyExpired, ResumeRequested,
     IsIdlePolicySuspended
<1> QED
  BY <1>2, <1>3, <1>5, <1>6 DEF Reasons

\* The reports, the publications and what others write to the Session.
LEMMA WriteReasons ==
  ASSUME Reasoning, WriteReport \/ RequestResume \/ AcknowledgeResume
  PROVE  Reasons'
<1>0. session \in Sessions
  BY DEF Reasoning, Typing, TypeOK
<1>1. CASE WriteReport
  <2>1. /\ PatchSession([session EXCEPT !.report = Report(pod)]) /\ pod.at = "serving"
        /\ UNCHANGED <<pod, seenPod, workload, work, told>>
    BY <1>1 DEF WriteReport, podVars, history
  <2>2. session' = [session EXCEPT !.report = Report(pod)] /\ (seen' = seen \/ seen' = session')
    BY <2>1, Patched
  <2>3. SameReasons /\ session'.report = Report(pod)
    BY <1>0, <2>2, SessionFields DEF SameReasons, SameControls
  <2> QED
    BY <2>1, <2>3, PatchReasons
<1>2. ASSUME NEW r \in Resumes, PatchSession([session EXCEPT !.resume = r]),
             UNCHANGED <<pod, seenPod, workload, work, told>>
      PROVE  Reasons'
  <2>0. /\ ToldOfUsers /\ Observing /\ DrainedIsSettled /\ Unsettled /\ OffIsTold
        /\ IdleIsSettled /\ IdleIsDrained /\ DownIsIdle /\ LeftIdle /\ ResetIsActive
    BY DEF Reasoning, Reasons
  <2>1. session' = [session EXCEPT !.resume = r] /\ (seen' = seen \/ seen' = session')
    BY <1>2, Patched
  <2>2. /\ session'.reset = session.reset /\ session'.suspend = session.suspend
        /\ session'.phase = session.phase /\ session'.drain = session.drain
        /\ session'.report = session.report
    BY <1>0, <2>1, SessionFields
  <2>3. ToldOfUsers' /\ DownIsIdle' /\ LeftIdle' /\ ResetIsActive'
    BY <1>2, <2>0, <2>1, <2>2 DEF ToldOfUsers, DownIsIdle, LeftIdle, ResetIsActive, ResumeRequested
  <2>4. Observing' /\ DrainedIsSettled' /\ Unsettled' /\ OffIsTold' /\ IdleIsSettled'
    BY <1>2, <2>0, <2>2 DEF Observing, DrainedIsSettled, Unsettled, OffIsTold, IdleIsSettled
  <2>5. IdleIsDrained'
    BY <1>2, <2>0, <2>1, <2>2 DEF IdleIsDrained, SuspendExpired, sessionIdlePolicyExpired,
       ResumeRequested, IsIdlePolicySuspended
  <2> QED
    BY <2>3, <2>4, <2>5 DEF Reasons
<1>3. CASE RequestResume
  BY <1>2, <1>3 DEF RequestResume, Untouched, podVars, Resumes
<1>4. CASE AcknowledgeResume
  BY <1>2, <1>4 DEF AcknowledgeResume, Untouched, podVars, history, Resumes
<1> QED
  BY <1>1, <1>3, <1>4

LEMMA PublishReasons ==
  ASSUME Reasoning, Publish
  PROVE  Reasons'
<1>0. /\ ToldOfUsers /\ Observing /\ DrainedIsSettled /\ Unsettled /\ OffIsTold
      /\ IdleIsSettled /\ IdleIsDrained /\ DownIsIdle /\ LeftIdle /\ ResetIsActive
      /\ session \in Sessions /\ pod \in RuntimePods /\ work \in Workspaces
  BY DEF Reasoning, Reasons, Typing, TypeOK
<1> DEFINE active == Head(pod.queue)
           later == Tail(pod.queue)
           age == IF session.active \in {"unknown", active} THEN session.age ELSE 0
           settled == work.unsettled /\ (active = "true" \/ pod.turn \/ later # <<>>)
           v == [pod EXCEPT !.queue = later]
           s == [session EXCEPT !.active = active, !.age = age]
<1>1. /\ pod.at = "serving" /\ pod.queue # <<>> /\ session.phase = "Ready"
      /\ PatchSession(s) /\ PutPod(v) /\ work' = [work EXCEPT !.unsettled = settled]
      /\ workload' = workload /\ told' = told
  BY <1>0, SessionFields DEF Publish, history, Workspaces
<1>2. work'.unsettled = settled
  BY <1>0, <1>1 DEF Workspaces
<1>3. /\ later # <<>> => Last(later) = Last(pod.queue)
      /\ later = <<>> => active = Last(pod.queue)
  BY <1>0, <1>1, TailLast DEF RuntimePods
<1> HIDE DEF active, later, age
<1>4. /\ v.uid = pod.uid /\ v.own = pod.own /\ v.at = "serving" /\ v.drain = pod.drain
      /\ v.turn = pod.turn /\ v.open = pod.open /\ v.queue = later
  BY <1>0, <1>1 DEF RuntimePods
<1>5. /\ s.reset = session.reset /\ s.suspend = session.suspend /\ s.phase = session.phase
      /\ s.resume = session.resume /\ s.drain = session.drain /\ s.report = session.report
  BY <1>0, SessionFields
<1> HIDE DEF v, s
<1>6. pod' = v /\ session' = s /\ (seen' = seen \/ seen' = session')
  BY <1>1, PodPut, Patched
<1>7. ToldOfUsers' /\ DownIsIdle' /\ LeftIdle' /\ ResetIsActive'
  BY <1>0, <1>1, <1>4, <1>5, <1>6 DEF ToldOfUsers, DownIsIdle, LeftIdle, ResetIsActive, ResumeRequested
<1>8. Observing' /\ DrainedIsSettled' /\ OffIsTold'
  BY <1>0, <1>1, <1>2, <1>4, <1>5, <1>6 DEF Observing, DrainedIsSettled, OffIsTold
<1>9. Unsettled'
  BY <1>0, <1>1, <1>2, <1>3, <1>4, <1>6 DEF Unsettled
<1>10. IdleIsSettled' /\ IdleIsDrained'
  BY <1>1, <1>5, <1>6 DEF IdleIsSettled, IdleIsDrained
<1> QED
  BY <1>7, <1>8, <1>9, <1>10 DEF Reasons

LEMMA RuntimeReasons ==
  ASSUME Reasoning, Runtime
  PROVE  Reasons'
BY ServeReasons, TurnReasons, WriteReasons, PublishReasons DEF Runtime

\* What Kubernetes does to the pod and its claim.
LEMMA KubernetesReasons ==
  ASSUME Reasoning, Kubernetes
  PROVE  Reasons'
<1>0. /\ ToldOfUsers /\ Observing /\ DrainedIsSettled /\ Unsettled /\ OffIsTold
      /\ IdleIsSettled /\ IdleIsDrained /\ DownIsIdle /\ LeftIdle /\ ResetIsActive
      /\ session \in Sessions /\ seen \in Sessions /\ pod \in RuntimePods /\ work \in Workspaces
      /\ Typing /\ told \in BOOLEAN
      /\ pod.turn \/ pod.open \/ pod.queue # <<>> => pod.at = "serving"
  BY DEF Reasoning, Reasons, Typing, TypeOK
<1>1. CASE CreatePod
  <2>1. PICK u \in Pods : PutPod([AbsentPod EXCEPT !.uid = u, !.at = "starting", !.own = TRUE])
    BY <1>1 DEF CreatePod
  <2> DEFINE v == [AbsentPod EXCEPT !.uid = u, !.at = "starting", !.own = TRUE]
  <2>2. v.at = "starting" /\ v.own = TRUE /\ v.turn = FALSE /\ v.open = FALSE /\ v.drain = "none"
    BY DEF AbsentPod
  <2>3. PutPod(v)
    BY <2>1
  <2> HIDE DEF v
  <2>4. pod' = v
    BY <2>3, PodPut
  <2>5. /\ workload = "up" /\ pod.at = "none" /\ UNCHANGED <<session, seen, workload>>
        /\ told' = (session.suspend \/ seen.suspend \/ session.reset # "none" \/ (told /\ work.unsettled))
    BY <1>1 DEF CreatePod
  <2>6. work'.unsettled = work.unsettled
    BY <1>0, <1>1 DEF CreatePod, Workspaces
  <2>7. ToldOfUsers'
    BY <1>0, <2>2, <2>4, <2>5 DEF ToldOfUsers
  <2>8. Observing' /\ DrainedIsSettled' /\ Unsettled' /\ OffIsTold'
    BY <1>0, <2>2, <2>4, <2>5, <2>6 DEF Observing, DrainedIsSettled, Unsettled, OffIsTold
  <2>9. IdleIsSettled' /\ IdleIsDrained' /\ DownIsIdle' /\ LeftIdle' /\ ResetIsActive'
    BY <1>0, <2>2, <2>4, <2>5, <2>6
       DEF IdleIsSettled, OffIsTold, IdleIsDrained, DownIsIdle, LeftIdle, ResetIsActive, ResumeRequested
  <2> QED
    BY <2>7, <2>8, <2>9 DEF Reasons
<1>2. ASSUME PutPod(Stopping(pod)), UNCHANGED <<session, seen, workload, work>>, Running,
             told' = told \/ told' = TRUE, work.unsettled => told'
      PROVE  Reasons'
  <2>1. /\ pod'.at = "stopping" /\ pod'.own = pod.own /\ pod'.uid = pod.uid /\ pod'.drain = pod.drain
        /\ ~pod'.turn /\ ~pod'.open /\ pod.at # "none"
    BY <1>0, <1>2, Stopped DEF Running
  <2>2. ToldOfUsers'
    BY <1>0, <1>2, <2>1 DEF ToldOfUsers
  <2>3. Observing' /\ DrainedIsSettled' /\ Unsettled' /\ OffIsTold'
    BY <1>0, <1>2, <2>1 DEF Observing, DrainedIsSettled, Unsettled, OffIsTold
  <2>4. IdleIsSettled' /\ IdleIsDrained'
    BY <1>0, <1>2, <2>1 DEF IdleIsSettled, IdleIsDrained
  <2>5. DownIsIdle' /\ LeftIdle' /\ ResetIsActive'
    BY <1>0, <1>2, <2>1 DEF DownIsIdle, LeftIdle, ResetIsActive, ResumeRequested
  <2> QED
    BY <2>2, <2>3, <2>4, <2>5 DEF Reasons
<1>3. CASE StopPodUnowned
  <2>1. /\ Running /\ (workload = "down" \/ ~pod.own) /\ PutPod(Stopping(pod))
        /\ UNCHANGED <<session, seen, workload, work, told>>
    BY <1>3 DEF StopPodUnowned, history
  <2>2. work.unsettled => told
    BY <1>0, <2>1 DEF Running, ToldOfUsers, DownIsIdle, IdleIsSettled
  <2> QED
    BY <1>2, <2>1, <2>2
<1>4. CASE Evict
  BY <1>2, <1>4 DEF Evict
<1>5. CASE PodGone
  <2>1. /\ pod.at = "stopping" /\ PutPod(AbsentPod) /\ UNCHANGED <<session, seen, workload, told>>
        /\ work'.unsettled => work.unsettled
    BY <1>0, <1>5 DEF PodGone, history, Workspaces
  <2>2. pod' = AbsentPod
    BY <2>1, PodPut
  <2>3. /\ pod'.at = "none" /\ pod'.turn = FALSE /\ pod'.open = FALSE /\ pod'.drain = "none"
    BY <2>2 DEF AbsentPod
  <2>4. ToldOfUsers'
    BY <1>0, <2>1, <2>3 DEF ToldOfUsers
  <2>5. Observing' /\ DrainedIsSettled' /\ Unsettled' /\ OffIsTold'
    BY <1>0, <2>1, <2>3 DEF Observing, DrainedIsSettled, Unsettled, OffIsTold
  <2>6. IdleIsSettled' /\ IdleIsDrained' /\ DownIsIdle' /\ LeftIdle' /\ ResetIsActive'
    BY <1>0, <2>1, <2>3
       DEF IdleIsSettled, IdleIsDrained, DownIsIdle, LeftIdle, ResetIsActive, ResumeRequested
  <2> QED
    BY <2>4, <2>5, <2>6 DEF Reasons
<1>6. CASE ClaimGone
  <2>1. /\ pod.at = "none" /\ UNCHANGED <<session, seen, workload, pod, seenPod, told>>
        /\ work'.unsettled = FALSE
    BY <1>6 DEF ClaimGone, podVars, history
  <2>2. ToldOfUsers' /\ Observing' /\ DrainedIsSettled' /\ Unsettled' /\ OffIsTold'
    BY <1>0, <2>1 DEF ToldOfUsers, Observing, DrainedIsSettled, Unsettled, OffIsTold
  <2>3. IdleIsSettled' /\ IdleIsDrained' /\ DownIsIdle' /\ LeftIdle' /\ ResetIsActive'
    BY <1>0, <2>1
       DEF IdleIsSettled, IdleIsDrained, DownIsIdle, LeftIdle, ResetIsActive, ResumeRequested
  <2> QED
    BY <2>2, <2>3 DEF Reasons
<1>7. CASE Probe
  BY <1>7, TurnReasons
<1>8. CASE Age
  <2>1. /\ session' = [session EXCEPT !.age = IF session.age < 2 THEN session.age + 1 ELSE session.age]
        /\ seen' = [seen EXCEPT !.age = IF seen.age < 2 THEN seen.age + 1 ELSE seen.age]
        /\ UNCHANGED <<workload, pod, seenPod, work, told>>
    BY <1>0, <1>8, SessionFields DEF Age, podVars
  <2>2. /\ session'.reset = session.reset /\ session'.suspend = session.suspend
        /\ session'.phase = session.phase /\ session'.drain = session.drain
        /\ session'.report = session.report
    BY <1>0, <2>1, SessionFields
  <2>3. /\ seen'.reset = seen.reset /\ seen'.suspend = seen.suspend /\ seen'.phase = seen.phase
        /\ seen'.resume = seen.resume /\ seen'.drain = seen.drain /\ seen'.active = seen.active
        /\ seen.age \in Ages /\ seen'.age = IF seen.age < 2 THEN seen.age + 1 ELSE seen.age
    BY <1>0, <2>1, SessionFields
  <2>4. seen.age >= SuspendAfter => seen'.age >= SuspendAfter
    BY <2>3, Parameters DEF Ages
  <2>5. ToldOfUsers' /\ Observing' /\ DrainedIsSettled' /\ Unsettled' /\ OffIsTold' /\ IdleIsSettled'
    BY <1>0, <2>1, <2>2, <2>3
       DEF ToldOfUsers, Observing, DrainedIsSettled, Unsettled, OffIsTold, IdleIsSettled
  <2>6. IdleIsDrained'
    BY <1>0, <2>1, <2>2, <2>3, <2>4 DEF IdleIsDrained, SuspendExpired, sessionIdlePolicyExpired,
       ResumeRequested, IsIdlePolicySuspended
  <2>7. DownIsIdle' /\ LeftIdle' /\ ResetIsActive'
    BY <1>0, <2>1, <2>2, <2>3 DEF DownIsIdle, LeftIdle, ResetIsActive, ResumeRequested
  <2> QED
    BY <2>5, <2>6, <2>7 DEF Reasons
<1> QED
  BY <1>1, <1>3, <1>4, <1>5, <1>6, <1>7, <1>8 DEF Kubernetes

LEMMA UsersReasons ==
  ASSUME Reasoning, Users
  PROVE  Reasons'
<1>0. /\ ToldOfUsers /\ Observing /\ DrainedIsSettled /\ Unsettled /\ OffIsTold
      /\ IdleIsSettled /\ IdleIsDrained /\ DownIsIdle /\ LeftIdle /\ ResetIsActive
      /\ session \in Sessions /\ seen \in Sessions /\ pod \in RuntimePods /\ work \in Workspaces
  BY DEF Reasoning, Reasons, Typing, TypeOK
<1>1. CASE ToggleSuspend
  <2>1. /\ PatchSession([session EXCEPT !.suspend = ~session.suspend]) /\ told' = TRUE
        /\ UNCHANGED <<workload, pod, seenPod, work>>
    BY <1>0, <1>1, SessionFields DEF ToggleSuspend, Untouched, podVars
  <2>2. session' = [session EXCEPT !.suspend = ~session.suspend] /\ (seen' = seen \/ seen' = session')
    BY <2>1, Patched
  <2>3. /\ session'.reset = session.reset /\ session'.phase = session.phase
        /\ session'.drain = session.drain /\ session'.report = session.report
    BY <1>0, <2>2, SessionFields
  <2>4. ToldOfUsers' /\ OffIsTold' /\ IdleIsSettled' /\ IdleIsDrained' /\ DownIsIdle'
    BY <1>0, <2>1, <2>2, <2>3 DEF ToldOfUsers, OffIsTold, IdleIsSettled, IdleIsDrained, DownIsIdle
  <2>5. Observing' /\ DrainedIsSettled' /\ Unsettled' /\ LeftIdle' /\ ResetIsActive'
    BY <1>0, <2>1, <2>2, <2>3
       DEF Observing, DrainedIsSettled, Unsettled, LeftIdle, ResetIsActive, ResumeRequested
  <2> QED
    BY <2>4, <2>5 DEF Reasons
<1>2. CASE RequestReset
  <2>1. /\ PatchSession([session EXCEPT !.reset = "asked"]) /\ told' = TRUE
        /\ UNCHANGED <<workload, pod, seenPod>> /\ work'.unsettled = work.unsettled
    BY <1>0, <1>2 DEF RequestReset, Untouched, podVars, Workspaces
  <2>2. session' = [session EXCEPT !.reset = "asked"] /\ (seen' = seen \/ seen' = session')
    BY <2>1, Patched
  <2>3. /\ session'.reset = "asked" /\ session'.phase = session.phase
        /\ session'.drain = session.drain /\ session'.report = session.report
    BY <1>0, <2>2, SessionFields
  <2>4. ToldOfUsers' /\ OffIsTold' /\ IdleIsSettled' /\ IdleIsDrained' /\ DownIsIdle'
    BY <1>0, <2>1, <2>2, <2>3 DEF ToldOfUsers, OffIsTold, IdleIsSettled, IdleIsDrained, DownIsIdle
  <2>5. Observing' /\ DrainedIsSettled' /\ Unsettled' /\ LeftIdle' /\ ResetIsActive'
    BY <1>0, <2>1, <2>2, <2>3
       DEF Observing, DrainedIsSettled, Unsettled, LeftIdle, ResetIsActive, ResumeRequested
  <2> QED
    BY <2>4, <2>5 DEF Reasons
<1>3. CASE DeleteWorkload
  <2>1. /\ PutPod([pod EXCEPT !.own = FALSE]) /\ told' = TRUE /\ workload' = "gone"
        /\ session' = session /\ seen' = seen /\ work' = work
    BY <1>3 DEF DeleteWorkload
  <2>2. pod' = [pod EXCEPT !.own = FALSE]
    BY <2>1, PodPut
  <2>3. /\ pod'.uid = pod.uid /\ pod'.at = pod.at /\ pod'.drain = pod.drain /\ pod'.turn = pod.turn
        /\ pod'.queue = pod.queue
    BY <1>0, <2>2 DEF RuntimePods
  <2>4. ToldOfUsers' /\ OffIsTold' /\ IdleIsSettled' /\ IdleIsDrained' /\ DownIsIdle'
    BY <1>0, <2>1, <2>3 DEF ToldOfUsers, OffIsTold, IdleIsSettled, IdleIsDrained, DownIsIdle
  <2>5. Observing' /\ DrainedIsSettled' /\ Unsettled' /\ LeftIdle' /\ ResetIsActive'
    BY <1>0, <2>1, <2>3
       DEF Observing, DrainedIsSettled, Unsettled, LeftIdle, ResetIsActive, ResumeRequested
  <2> QED
    BY <2>4, <2>5 DEF Reasons
<1>4. CASE RequestResume \/ AcknowledgeResume
  BY <1>4, WriteReasons
<1> QED
  BY <1>1, <1>2, <1>3, <1>4 DEF Users

LEMMA NextReasons == Reasoning /\ [Next]_vars => Reasoning'
<1> SUFFICES ASSUME Reasoning, [Next]_vars PROVE Reasons'
  BY NextTyped DEF Reasoning
<1>0. /\ ToldOfUsers /\ Observing /\ DrainedIsSettled /\ Unsettled /\ OffIsTold
      /\ IdleIsSettled /\ IdleIsDrained /\ DownIsIdle /\ LeftIdle /\ ResetIsActive
  BY DEF Reasoning, Reasons
<1>1. CASE Reconcile
  BY <1>1, ReconcileSteps, StatusReasons, DrainReasons, ResetReasons DEF Reasoning
<1>2. CASE Runtime \/ Kubernetes \/ Users
  BY <1>2, RuntimeReasons, KubernetesReasons, UsersReasons
<1>3. CASE SyncSession
  <2>1. seen' = session /\ UNCHANGED <<session, workload, pod, seenPod, work, told>>
    BY <1>3 DEF SyncSession, podVars, history
  <2>2. ToldOfUsers' /\ IdleIsDrained' /\ LeftIdle' /\ ResetIsActive'
    BY <1>0, <2>1 DEF ToldOfUsers, IdleIsDrained, LeftIdle, ResetIsActive
  <2> QED
    BY <1>0, <2>1, <2>2
       DEF Reasons, Observing, DrainedIsSettled, Unsettled, OffIsTold, IdleIsSettled, DownIsIdle
<1>4. CASE SyncPod
  <2>1. seenPod'.uid = pod.uid /\ UNCHANGED <<session, seen, workload, pod, work, told>>
    BY <1>4 DEF SyncPod, View, history
  <2>2. ToldOfUsers' /\ LeftIdle' /\ ResetIsActive' /\ DownIsIdle'
    BY <1>0, <2>1 DEF ToldOfUsers, LeftIdle, ResetIsActive, DownIsIdle, ResumeRequested
  <2>3. IdleIsDrained'
    BY <1>0, <2>1 DEF IdleIsDrained, SuspendExpired, sessionIdlePolicyExpired, ResumeRequested,
       IsIdlePolicySuspended
  <2> QED
    BY <1>0, <2>1, <2>2, <2>3
       DEF Reasons, Observing, DrainedIsSettled, Unsettled, OffIsTold, IdleIsSettled
<1>5. CASE UNCHANGED vars
  <2>1. UNCHANGED <<session, seen, workload, pod, seenPod, work, told>>
    BY <1>5 DEF vars
  <2>2. ToldOfUsers' /\ LeftIdle' /\ ResetIsActive' /\ DownIsIdle'
    BY <1>0, <2>1 DEF ToldOfUsers, LeftIdle, ResetIsActive, DownIsIdle, ResumeRequested
  <2>3. IdleIsDrained'
    BY <1>0, <2>1 DEF IdleIsDrained, SuspendExpired, sessionIdlePolicyExpired, ResumeRequested,
       IsIdlePolicySuspended
  <2> QED
    BY <1>0, <2>1, <2>2, <2>3
       DEF Reasons, Observing, DrainedIsSettled, Unsettled, OffIsTold, IdleIsSettled
<1> QED
  BY <1>1, <1>2, <1>3, <1>4, <1>5 DEF Next

LEMMA ReasonsHold == Spec => []Reasoning
<1>1. Init => Reasoning
  BY InitTyped, InitReasons DEF Reasoning
<1> QED
  BY <1>1, NextReasons, PTL DEF Spec

\* A turn is cut only for a user, a node or a resume: every stop of the pod
\* that is told to nobody finds it without a turn, and with nothing unsettled.
LEMMA StopsAreTold ==
  ASSUME Reasoning, Next, PodStops
  PROVE  told' \/ (~pod.turn /\ ~work.unsettled)
<1>0. /\ ToldOfUsers /\ DownIsIdle /\ IdleIsSettled
      /\ Typing /\ pod \in RuntimePods /\ pod.at # "stopping" /\ pod'.at = "stopping" /\ pod.at # "none"
  BY DEF Reasoning, Reasons, Typing, TypeOK, PodStops, Running
<1>1. CASE Reconcile
  <2>1. CASE StatusStep
    BY <1>0, <2>1 DEF StatusStep, podVars
  <2>2. CASE InstallStep \/ ClearStep
    BY <1>0, <2>2, DrainFields DEF InstallStep, ClearStep, SameTurns
  <2>3. CASE ResetStep
    BY <1>0, <2>3 DEF ResetStep, ToldOfUsers
  <2> QED
    BY <1>0, <1>1, <2>1, <2>2, <2>3, ReconcileSteps
<1>2. CASE Runtime
  <2>1. \A v : v.at # "stopping" /\ PutPod(v) => FALSE
    BY <1>0, PodPut
  <2>2. CASE Serve
    <3>1. PICK d, t, q : PutPod([pod EXCEPT !.at = "serving", !.drain = d, !.turn = t, !.queue = q])
      BY <2>2 DEF Serve
    <3>2. [pod EXCEPT !.at = "serving", !.drain = d, !.turn = t, !.queue = q].at = "serving"
      BY <1>0 DEF RuntimePods
    <3> QED
      BY <2>1, <3>1, <3>2
  <2>3. CASE RuntimeRestarts
    <3> DEFINE v == [pod EXCEPT !.at = "restarting", !.ready = FALSE, !.open = FALSE,
                                !.drain = "none", !.turn = FALSE, !.queue = <<>>]
    <3>1. PutPod(v) /\ v.at = "restarting"
      BY <1>0, <2>3 DEF RuntimeRestarts, RuntimePods
    <3> QED
      BY <2>1, <3>1
  <2>4. CASE WriteReport
    BY <1>0, <2>4 DEF WriteReport, podVars
  <2>5. /\ \A d : [pod EXCEPT !.drain = d].at = pod.at
        /\ \A q : [pod EXCEPT !.queue = q].at = pod.at
        /\ \A t, q : [pod EXCEPT !.turn = t, !.queue = q].at = pod.at
        /\ [pod EXCEPT !.open = TRUE].at = pod.at
    BY <1>0 DEF RuntimePods
  <2>6. CASE Observe \/ Publish \/ PeriodicPublish \/ Connect \/ AcceptTurn \/ FinishTurn
    <3>1. \/ \E d : PutPod([pod EXCEPT !.drain = d])
          \/ \E q : PutPod([pod EXCEPT !.queue = q])
          \/ \E t, q : PutPod([pod EXCEPT !.turn = t, !.queue = q])
          \/ PutPod([pod EXCEPT !.open = TRUE])
      BY <2>6 DEF Observe, Publish, PeriodicPublish, Connect, AcceptTurn, FinishTurn
    <3> QED
      BY <1>0, <2>1, <2>5, <3>1
  <2> QED
    BY <1>2, <2>2, <2>3, <2>4, <2>6 DEF Runtime
<1>3. CASE Kubernetes
  <2>1. CASE StopPodUnowned
    BY <1>0, <2>1 DEF StopPodUnowned, history, ToldOfUsers, DownIsIdle, IdleIsSettled
  <2>2. CASE Evict
    BY <2>2 DEF Evict
  <2>3. CASE CreatePod \/ PodGone
    BY <1>0, <2>3 DEF CreatePod, PodGone
  <2>4. CASE ClaimGone \/ Age
    BY <1>0, <2>4 DEF ClaimGone, Age, podVars
  <2>5. CASE Probe
    <3>1. PutPod([pod EXCEPT !.ready = ~pod.ready])
      BY <1>0, <2>5 DEF Probe, RuntimePods
    <3>2. [pod EXCEPT !.ready = ~pod.ready].at = pod.at
      BY <1>0 DEF RuntimePods
    <3>3. pod' = [pod EXCEPT !.ready = ~pod.ready]
      BY <3>1, PodPut
    <3> QED
      BY <1>0, <3>2, <3>3
  <2> QED
    BY <1>3, <2>1, <2>2, <2>3, <2>4, <2>5 DEF Kubernetes
<1>4. CASE Users
  BY <1>0, <1>4 DEF Users, ToggleSuspend, RequestReset, RequestResume, AcknowledgeResume,
     DeleteWorkload, Untouched, podVars
<1>5. CASE SyncSession \/ SyncPod
  BY <1>0, <1>5 DEF SyncSession, SyncPod, podVars
<1> QED
  BY <1>1, <1>2, <1>3, <1>4, <1>5 DEF Next

\* A turn is cut short only if a user stopped the pod or a node failed, or if a
\* resume overtook the scaling down of a suspension: the controller's own
\* decisions, from whatever copies it makes them, never cut one.
THEOREM TurnsAreCutWhenTold == Spec => TurnsCutOnlyWhenTold
<1>1. Reasoning /\ [Next]_vars => [PodStops /\ pod.turn => told']_vars
  BY StopsAreTold
<1> QED
  BY <1>1, ReasonsHold, PTL DEF Spec, TurnsCutOnlyWhenTold

\* Only the controller deletes a Session and writes its phase; the reset moves
\* on a user's request too.
LEMMA OthersKeep ==
  ASSUME Typing, Runtime \/ Kubernetes \/ Users \/ SyncSession \/ SyncPod
  PROVE  /\ session'.obj = session.obj /\ session'.phase = session.phase
         /\ session'.claim = session.claim
         /\ session'.reset = session.reset \/ RequestReset
<1>0. session \in Sessions
  BY DEF Typing, TypeOK
<1> DEFINE Kept(v) == /\ v.obj = session.obj /\ v.phase = session.phase /\ v.claim = session.claim
                      /\ v.reset = session.reset
<1>1. /\ \A r : Kept([session EXCEPT !.report = r])
      /\ \A r : Kept([session EXCEPT !.resume = r])
      /\ \A a, b : Kept([session EXCEPT !.active = a, !.age = b])
      /\ \A b : Kept([session EXCEPT !.age = b])
      /\ \A b : Kept([session EXCEPT !.suspend = b])
  BY <1>0, SessionFields
<1>2. LET v == [session EXCEPT !.reset = "asked"] IN
        v.obj = session.obj /\ v.phase = session.phase /\ v.claim = session.claim
  BY <1>0, SessionFields
<1>3. ASSUME NEW v, PatchSession(v), Kept(v) PROVE Kept(session')
  BY <1>3, Patched
<1>4. CASE Serve \/ WriteReport
  <2>1. PICK r : PatchSession([session EXCEPT !.report = r])
    BY <1>4 DEF Serve, WriteReport
  <2> QED
    BY <1>1, <1>3, <2>1
<1>5. CASE Publish
  <2>1. PICK a, b : PatchSession([session EXCEPT !.active = a, !.age = b])
    BY <1>0, <1>5, SessionFields DEF Publish
  <2>2. Kept([session EXCEPT !.active = a, !.age = b])
    BY <1>1
  <2> QED
    BY <1>3, <2>1, <2>2
<1>6. CASE RequestResume \/ AcknowledgeResume
  <2>1. PICK r : PatchSession([session EXCEPT !.resume = r])
    BY <1>6 DEF RequestResume, AcknowledgeResume
  <2> QED
    BY <1>1, <1>3, <2>1
<1>7. CASE ToggleSuspend
  <2>1. PICK b : PatchSession([session EXCEPT !.suspend = b])
    BY <1>7 DEF ToggleSuspend
  <2> QED
    BY <1>1, <1>3, <2>1
<1>8. CASE RequestReset
  <2>1. session' = [session EXCEPT !.reset = "asked"]
    BY <1>8, Patched DEF RequestReset
  <2> QED
    BY <1>2, <1>8, <2>1
<1>9. CASE Age
  <2>1. PICK b : session' = [session EXCEPT !.age = b]
    BY <1>9 DEF Age
  <2> QED
    BY <1>1, <1>9, <2>1
<1>10. CASE \/ Observe \/ PeriodicPublish \/ Connect \/ AcceptTurn \/ FinishTurn \/ RuntimeRestarts
            \/ CreatePod \/ StopPodUnowned \/ PodGone \/ ClaimGone \/ Probe \/ Evict
            \/ DeleteWorkload \/ SyncSession \/ SyncPod
  <2>1. session' = session
    BY <1>10 DEF Observe, PeriodicPublish, Connect, AcceptTurn, FinishTurn, RuntimeRestarts,
       CreatePod, StopPodUnowned, PodGone, ClaimGone, Probe, Evict, DeleteWorkload, SyncSession, SyncPod
  <2> QED
    BY <2>1
<1> QED
  BY <1>4, <1>5, <1>6, <1>7, <1>8, <1>9, <1>10 DEF Runtime, Kubernetes, Users

\* What deletes the Session: idleness, after a drain or a suspension, or without
\* any workspace left.
LEMMA DeletesAreSettled ==
  ASSUME Reasoning, Next, Deletes
  PROVE  told' \/ (~pod.turn /\ ~work.unsettled)
<1>0. /\ DrainedIsSettled /\ IdleIsSettled /\ OffIsTold /\ ToldOfUsers
      /\ Typing /\ TypeOK /\ pod \in RuntimePods /\ session \in Sessions /\ seen \in Sessions
      /\ seenPod \in CachedPods
      /\ session.obj = "present" /\ session'.obj = "gone"
      /\ pod.turn \/ pod.open \/ pod.queue # <<>> => pod.at = "serving"
  BY DEF Reasoning, Reasons, Typing, TypeOK, Deletes
<1>1. reapIdleSession => seen = session
  BY DEF reapIdleSession, PutSession
<1>2. Drained /\ reapIdleSession => ~pod.turn /\ ~work.unsettled
  BY <1>0, <1>1 DEF Drained, DrainedIsSettled
<1>3. ASSUME reapIdleSession, told' = told, IsIdlePolicySuspended(seen)
      PROVE  told' \/ (~pod.turn /\ ~work.unsettled)
  BY <1>0, <1>1, <1>3 DEF IsIdlePolicySuspended, IdleIsSettled
<1>4. ASSUME NEW v, PutSession(v) \/ UpdateStatus(v) \/ UpdateStatusAfter(v), v.obj = seen.obj PROVE FALSE
  BY <1>0, <1>4 DEF PutSession, UpdateStatus, UpdateStatusAfter
<1>5. ASSUME NEW v, PatchSession(v), v.obj = session.obj PROVE FALSE
  BY <1>0, <1>5 DEF PatchSession
<1>6. /\ \A d, r : [session EXCEPT !.drain = d, !.report = r].obj = session.obj
      /\ \A r : [seen EXCEPT !.reset = r].obj = seen.obj
      /\ \A r : [seen EXCEPT !.resume = r].obj = seen.obj
      /\ \A r, b : [seen EXCEPT !.resume = r, !.age = b].obj = seen.obj
  BY <1>0, SessionFields
<1>7. ~InstallDrain /\ ~ClearDrain
  <2> SUFFICES ASSUME InstallDrain \/ ClearDrain PROVE FALSE
    OBVIOUS
  <2>1. PICK d, r : PatchSession([session EXCEPT !.drain = d, !.report = r])
    BY <1>0, SessionFields DEF InstallDrain, ClearDrain
  <2>2. [session EXCEPT !.drain = d, !.report = r].obj = session.obj
    BY <1>6
  <2> QED
    BY <1>5, <2>1, <2>2
<1>8. \A phase \in Phases : LET v == WithoutPod(seen, phase) IN
         /\ v.obj = seen.obj /\ v \in Sessions
         /\ \A r : [v EXCEPT !.reset = r].obj = seen.obj
         /\ \A r : [v EXCEPT !.resume = r].obj = seen.obj
  <2>1. \A phase \in Phases : WithoutPod(seen, phase) \in Sessions /\ WithoutPod(seen, phase).obj = seen.obj
    BY <1>0, StatusTyped, WithoutPodFields
  <2>2. \A v \in Sessions : \A r : [v EXCEPT !.reset = r].obj = v.obj /\ [v EXCEPT !.resume = r].obj = v.obj
    BY SessionFields
  <2> QED
    BY <2>1, <2>2
<1>9. {"Pending", "Idle", "Suspended"} \in SUBSET Phases /\ SuspendedPhase(seen) \in Phases
  BY SuspendedTyped DEF Phases
<1>10. ~CreateWorkload
  BY <1>4, <1>8, <1>9 DEF CreateWorkload
<1>11. CASE ReapIdle \/ SuspendIdle \/ CancelDrain
  BY <1>2, <1>4, <1>7, <1>8, <1>9, <1>11 DEF ReapIdle, SuspendIdle, CancelDrain, reconcileIdleReap
<1>12. CASE MissingWorkload
  <2>1. told' = told /\ workload = "gone"
    BY <1>12 DEF MissingWorkload, history
  <2>2. \/ IsIdlePolicySuspended(seen) /\ reapIdleSession
        \/ Drained /\ reapIdleSession
        \/ seenPod.at = "none" /\ reapIdleSession
    BY <1>7, <1>10, <1>12 DEF MissingWorkload, reconcileIdleReap
  <2>3. CASE seenPod.at = "none"
    <3>1. told \/ pod.at = "none"
      BY <1>0, <2>1 DEF ToldOfUsers
    <3> QED
      BY <1>0, <2>1, <3>1 DEF OffIsTold
  <2> QED
    BY <1>2, <1>3, <2>1, <2>2, <2>3
<1>13. CASE AwaitInputs
  BY <1>4, <1>8, <1>9, <1>13 DEF AwaitInputs
<1>14. CASE Suspend
  <2>1. told' = told
    BY <1>14 DEF Suspend, history
  <2> QED
    BY <1>0, <1>3, <1>4, <1>8, <1>9, <1>14, <2>1 DEF Suspend
<1>15. CASE Run
  BY <1>0, <1>4, <1>15, ObservedFields DEF Run
<1>16. CASE ClearResume \/ TimeResume
  <2>1. \/ \E r : PutSession([seen EXCEPT !.resume = r])
        \/ \E r, b : PutSession([seen EXCEPT !.resume = r, !.age = b])
    BY <1>16 DEF ClearResume, TimeResume
  <2>2. ASSUME NEW r, PutSession([seen EXCEPT !.resume = r]) PROVE FALSE
    BY <1>4, <1>6, <2>2
  <2>3. ASSUME NEW r, NEW b, PutSession([seen EXCEPT !.resume = r, !.age = b]) PROVE FALSE
    <3>1. [seen EXCEPT !.resume = r, !.age = b].obj = seen.obj
      BY <1>6
    <3> QED
      BY <1>4, <2>3, <3>1
  <2> QED
    BY <2>1, <2>2, <2>3
<1>17. CASE ExpireResume \/ WakeUp
  BY <1>4, <1>7, <1>8, <1>9, <1>17 DEF ExpireResume, WakeUp
<1>18. CASE BeginReset \/ StopForReset \/ DeleteStorageForReset
  BY <1>4, <1>6, <1>8, <1>9, <1>18 DEF BeginReset, StopForReset, DeleteStorageForReset
<1>19. CASE StartAfterReset
  <2> DEFINE v == WithoutPod(seen, "Pending")
  <2>1. v.obj = seen.obj /\ v \in Sessions
    BY <1>8, <1>9
  <2>2. \A phase \in {"Pending", "Ready"} :
           /\ WithPod(v, seenPod, phase).obj = seen.obj
           /\ \A r : [WithPod(v, seenPod, phase) EXCEPT !.reset = r].obj = seen.obj
    <3> HIDE DEF v
    <3>1. \A phase \in {"Pending", "Ready"} :
             WithPod(v, seenPod, phase) \in Sessions /\ WithPod(v, seenPod, phase).obj = seen.obj
      <4>1. \A phase \in Phases :
               WithPod(v, seenPod, phase) \in Sessions /\ WithPod(v, seenPod, phase).obj = v.obj
        BY <1>0, <2>1, StatusTyped, WithPodFields
      <4>2. "Pending" \in Phases /\ "Ready" \in Phases
        BY DEF Phases
      <4> QED
        BY <2>1, <4>1, <4>2
    <3>2. \A t \in Sessions : \A r : [t EXCEPT !.reset = r].obj = t.obj
      BY SessionFields
    <3> QED
      BY <3>1, <3>2
  <2>3. \/ CreateWorkload
        \/ UpdateStatusAfter(WithoutPod(seen, "Suspended"))
        \/ PutSession([WithoutPod(seen, "Suspended") EXCEPT !.reset = "none"])
        \/ PutSession([WithPod(v, seenPod, "Ready") EXCEPT !.reset = "none"])
        \/ UpdateStatus(WithPod(v, seenPod, "Ready"))
        \/ UpdateStatus(WithPod(v, seenPod, "Pending"))
        \/ UpdateStatus(v)
    BY <1>19 DEF StartAfterReset
  <2> HIDE DEF v
  <2> QED
    BY <1>4, <1>8, <1>9, <1>10, <2>1, <2>2, <2>3
<1>20. ~(Runtime \/ Kubernetes \/ Users \/ SyncSession \/ SyncPod)
  BY <1>0, OthersKeep
<1> QED
  BY <1>11, <1>12, <1>13, <1>14, <1>15, <1>16, <1>17, <1>18, <1>19, <1>20 DEF Next, Reconcile

\* A Session that becomes idle has no turn, and nothing unsettled.
LEMMA SuspendsAreSettled ==
  ASSUME Reasoning, Next, IdleSuspends
  PROVE  told' \/ (~pod.turn /\ ~work.unsettled)
<1>0. /\ DrainedIsSettled /\ OffIsTold /\ Typing
      /\ session.phase # "Idle" /\ session'.phase = "Idle"
      /\ pod.turn \/ pod.open \/ pod.queue # <<>> => pod.at = "serving"
  BY DEF Reasoning, Reasons, Typing, TypeOK, IdleSuspends
<1>1. ASSUME SessionMoves, told' = told \/ told' = TRUE
      PROVE  told' \/ (~pod.turn /\ ~work.unsettled)
  <2>1. /\ seen = session
        /\ Drained \/ told' \/ pod.at \in {"none", "starting"}
    BY <1>0, <1>1 DEF SessionMoves, SessionKept, SessionPut, PhaseMoves
  <2>2. Drained => ~pod.turn /\ ~work.unsettled
    BY <1>0, <2>1 DEF Drained, DrainedIsSettled
  <2> QED
    BY <1>0, <1>1, <2>1, <2>2 DEF OffIsTold
<1>2. CASE Reconcile
  <2>1. InstallStep \/ ClearStep => session'.phase = session.phase
    BY <1>0, DrainFields DEF InstallStep, ClearStep, SameControls
  <2> QED
    BY <1>0, <1>1, <1>2, <2>1, ReconcileSteps DEF StatusStep, ResetStep
<1>3. ~(Runtime \/ Kubernetes \/ Users \/ SyncSession \/ SyncPod)
  BY <1>0, OthersKeep
<1> QED
  BY <1>2, <1>3 DEF Next

\* A Session is deleted or suspended for idleness only when no turn runs and its
\* status shows all of its activity, whatever the controller's copies show,
\* unless a user or a node cuts the turn.
THEOREM IdlenessLosesNothing == Spec => NothingLostByIdleness
<1>1. Reasoning /\ [Next]_vars =>
        [Deletes \/ IdleSuspends => told' \/ (~pod.turn /\ ~work.unsettled)]_vars
  BY DeletesAreSettled, SuspendsAreSettled
<1> QED
  BY <1>1, ReasonsHold, PTL DEF Spec, NothingLostByIdleness

-----------------------------------------------------------------------------
(* What a reset leaves                                                     *)

\* A pod has a name while it is there, in the copy too.
Named(p) == IF p.at = "none" THEN p.uid = NoPod ELSE p.uid \in Pods

\* A pod with a claim keeps it; what there was before a reset is gone with the
\* claim, which is before the reset gets to its last phase.
Fresh ==
  /\ Named(pod) /\ Named(seenPod)
  /\ session.claim =>
       /\ pod.at # "none" => work.state # "none"
       /\ work.state = "none" => ~work.stale
       /\ session.reset = "starting" => ~work.stale

LEMMA PutNamed ==
  ASSUME NEW v, PutPod(v), Named(v), Named(seenPod)
  PROVE  pod' = v /\ Named(pod') /\ Named(seenPod')
<1>1. Named(View(v))
  BY DEF Named, View
<1> QED
  BY <1>1 DEF PutPod

\* A step that leaves the pod where it is, or moves one that is there.
LEMMA MovedNamed ==
  ASSUME Fresh, NEW v, PutPod(v), v.uid = pod.uid, v.at = pod.at \/ (v.at # "none" /\ pod.at # "none")
  PROVE  Named(pod') /\ Named(seenPod') /\ (pod'.at # "none" => pod.at # "none")
<1>1. Named(v)
  BY DEF Fresh, Named
<1> QED
  BY <1>1, PutNamed DEF Fresh

\* The pod is made by the StatefulSet only, and leaves when it has stopped.
LEMMA PodNames ==
  ASSUME Typing, Fresh, [Next]_vars
  PROVE  /\ Named(pod') /\ Named(seenPod')
         /\ pod'.at # "none" => pod.at # "none" \/ CreatePod
<1>0. /\ pod \in RuntimePods /\ Named(pod) /\ Named(seenPod) /\ NoPod \notin Pods
      /\ pod.open => pod.at = "serving"
  BY Parameters DEF Typing, TypeOK, Fresh
<1>1. ASSUME pod' = pod, seenPod' = seenPod \/ seenPod' = View(pod)
      PROVE  Named(pod') /\ Named(seenPod') /\ (pod'.at # "none" => pod.at # "none")
  <2>1. Named(View(pod))
    BY <1>0 DEF Named, View
  <2> QED
    BY <1>0, <1>1, <2>1
<1>2. ASSUME PutPod(Stopping(pod)), pod.at # "none"
      PROVE  Named(pod') /\ Named(seenPod') /\ (pod'.at # "none" => pod.at # "none")
  <2>1. Stopping(pod).uid = pod.uid /\ Stopping(pod).at = "stopping"
    BY <1>0 DEF Stopping, RuntimePods
  <2> QED
    BY <1>2, <2>1, MovedNamed
<1>3. /\ \A d : LET v == [pod EXCEPT !.drain = d] IN v.uid = pod.uid /\ v.at = pod.at
      /\ \A q : LET v == [pod EXCEPT !.queue = q] IN v.uid = pod.uid /\ v.at = pod.at
      /\ \A t, q : LET v == [pod EXCEPT !.turn = t, !.queue = q] IN v.uid = pod.uid /\ v.at = pod.at
      /\ \A b : LET v == [pod EXCEPT !.open = b] IN v.uid = pod.uid /\ v.at = pod.at
      /\ \A b : LET v == [pod EXCEPT !.ready = b] IN v.uid = pod.uid /\ v.at = pod.at
      /\ \A b : LET v == [pod EXCEPT !.own = b] IN v.uid = pod.uid /\ v.at = pod.at
  BY <1>0 DEF RuntimePods
<1>4. CASE Reconcile
  <2>1. CASE StatusStep
    BY <1>1, <2>1 DEF StatusStep, podVars
  <2>2. CASE InstallStep \/ ClearStep
    <3>1. PICK d : PutPod([pod EXCEPT !.drain = d])
      BY <1>0, <2>2 DEF InstallStep, ClearStep, InstallDrain, ClearDrain, RuntimePods
    <3> QED
      BY <1>3, <3>1, MovedNamed
  <2>3. CASE ResetStep
    <3>1. \/ UNCHANGED podVars
          \/ PutPod(Stopping(pod)) /\ seenPod.at # "none" /\ pod.uid = seenPod.uid
      BY <2>3 DEF ResetStep
    <3>2. seenPod.at # "none" /\ pod.uid = seenPod.uid => pod.at # "none"
      BY <1>0 DEF Named
    <3> QED
      BY <1>1, <1>2, <3>1, <3>2 DEF podVars
  <2> QED
    BY <1>4, <2>1, <2>2, <2>3, ReconcileSteps
<1>5. CASE Runtime
  <2>1. CASE Serve
    <3>1. PICK d, t, q : /\ PutPod([pod EXCEPT !.at = "serving", !.drain = d, !.turn = t, !.queue = q])
                         /\ pod.at # "none"
      BY <2>1 DEF Serve
    <3> DEFINE v == [pod EXCEPT !.at = "serving", !.drain = d, !.turn = t, !.queue = q]
    <3>2. v.uid = pod.uid /\ v.at = "serving"
      BY <1>0 DEF RuntimePods
    <3>3. PutPod(v)
      BY <3>1
    <3> HIDE DEF v
    <3> QED
      BY <3>1, <3>2, <3>3, MovedNamed
  <2>2. CASE RuntimeRestarts
    <3> DEFINE v == [pod EXCEPT !.at = "restarting", !.ready = FALSE, !.open = FALSE,
                                !.drain = "none", !.turn = FALSE, !.queue = <<>>]
    <3>1. PutPod(v) /\ v.at = "restarting" /\ v.uid = pod.uid /\ pod.at # "none"
      BY <1>0, <2>2 DEF RuntimeRestarts, RuntimePods
    <3> HIDE DEF v
    <3> QED
      BY <3>1, MovedNamed
  <2>3. CASE WriteReport
    BY <1>1, <2>3 DEF WriteReport, podVars
  <2>4. CASE Observe
    BY <1>3, <2>4, MovedNamed DEF Observe
  <2>5. CASE Publish \/ PeriodicPublish
    <3>1. PICK q : PutPod([pod EXCEPT !.queue = q])
      BY <2>5 DEF Publish, PeriodicPublish
    <3> QED
      BY <1>3, <3>1, MovedNamed
  <2>6. CASE AcceptTurn \/ FinishTurn
    <3>1. PICK t, q : PutPod([pod EXCEPT !.turn = t, !.queue = q])
      BY <2>6 DEF AcceptTurn, FinishTurn
    <3>2. LET v == [pod EXCEPT !.turn = t, !.queue = q] IN v.uid = pod.uid /\ v.at = pod.at
      BY <1>3
    <3> QED
      BY <3>1, <3>2, MovedNamed
  <2>7. CASE Connect
    BY <1>3, <2>7, MovedNamed DEF Connect
  <2> QED
    BY <1>5, <2>1, <2>2, <2>3, <2>4, <2>5, <2>6, <2>7 DEF Runtime
<1>6. CASE Kubernetes
  <2>1. CASE CreatePod
    <3>1. PICK u \in Pods : PutPod([AbsentPod EXCEPT !.uid = u, !.at = "starting", !.own = TRUE])
      BY <2>1 DEF CreatePod
    <3> DEFINE v == [AbsentPod EXCEPT !.uid = u, !.at = "starting", !.own = TRUE]
    <3>2. PutPod(v) /\ Named(v)
      BY <3>1 DEF Named, AbsentPod
    <3> HIDE DEF v
    <3> QED
      BY <1>0, <2>1, <3>2, PutNamed
  <2>2. CASE PodGone
    <3>1. Named(AbsentPod) /\ AbsentPod.at = "none"
      BY DEF Named, AbsentPod
    <3> QED
      BY <1>0, <2>2, <3>1, PutNamed DEF PodGone
  <2>3. CASE StopPodUnowned \/ Evict
    BY <1>2, <2>3 DEF StopPodUnowned, Evict, Running
  <2>4. CASE ClaimGone \/ Age
    BY <1>1, <2>4 DEF ClaimGone, Age, podVars
  <2>5. CASE Probe
    <3>1. PutPod([pod EXCEPT !.ready = ~pod.ready])
      BY <1>0, <2>5 DEF Probe, RuntimePods
    <3> QED
      BY <1>3, <3>1, MovedNamed
  <2> QED
    BY <1>6, <2>1, <2>2, <2>3, <2>4, <2>5 DEF Kubernetes
<1>7. CASE Users
  <2>1. CASE DeleteWorkload
    BY <1>3, <2>1, MovedNamed DEF DeleteWorkload
  <2> QED
    BY <1>1, <1>7, <2>1 DEF Users, ToggleSuspend, RequestReset, RequestResume, AcknowledgeResume,
       Untouched, podVars
<1>8. CASE SyncSession \/ SyncPod \/ UNCHANGED vars
  BY <1>1, <1>8 DEF SyncSession, SyncPod, podVars, vars
<1> QED
  BY <1>4, <1>5, <1>6, <1>7, <1>8 DEF Next

\* What happens to the workspace, beside the reconciles of a reset.
LEMMA WorkKept ==
  ASSUME Typing, Runtime \/ Kubernetes \/ Users \/ SyncSession \/ SyncPod
  PROVE  \/ work'.state = work.state /\ work'.stale = work.stale
         \/ CreatePod \/ ClaimGone \/ RequestReset \/ (PodGone /\ ~session.claim)
<1>1. work \in Workspaces
  BY DEF Typing, TypeOK
<1>2. CASE Publish \/ AcceptTurn
  <2>1. PICK b : work' = [work EXCEPT !.unsettled = b]
    BY <1>1, <1>2 DEF Publish, AcceptTurn, Workspaces
  <2> QED
    BY <1>1, <2>1 DEF Workspaces
<1>3. CASE PodGone
  BY <1>1, <1>3 DEF PodGone
<1>4. CASE \/ Serve \/ Observe \/ WriteReport \/ PeriodicPublish \/ Connect \/ FinishTurn
           \/ RuntimeRestarts \/ StopPodUnowned \/ Probe \/ Evict \/ Age \/ ToggleSuspend
           \/ RequestResume \/ AcknowledgeResume \/ DeleteWorkload \/ SyncSession \/ SyncPod
  BY <1>4 DEF Serve, Observe, WriteReport, PeriodicPublish, Connect, FinishTurn, RuntimeRestarts,
     StopPodUnowned, Probe, Evict, Age, ToggleSuspend, RequestResume, AcknowledgeResume,
     DeleteWorkload, SyncSession, SyncPod
<1> QED
  BY <1>2, <1>3, <1>4 DEF Runtime, Kubernetes, Users

LEMMA FreshNext == Typing /\ Fresh /\ [Next]_vars => Fresh'
<1> SUFFICES ASSUME Typing, Fresh, [Next]_vars PROVE Fresh'
  OBVIOUS
<1>0. work \in Workspaces /\ session \in Sessions
  BY DEF Typing, TypeOK
<1>1. /\ Named(pod') /\ Named(seenPod')
      /\ pod'.at # "none" => pod.at # "none" \/ CreatePod
  BY PodNames
<1>2. CASE Reconcile
  <2>2. CASE StatusStep
    <3>1. /\ pod' = pod /\ work' = work
          /\ \/ session' = session
             \/ session'.claim = session.claim /\ ResetMoves
      BY <2>2 DEF StatusStep, podVars, SessionMoves, SessionKept, SessionPut, Carried
    <3> QED
      BY <1>1, <3>1 DEF Fresh, ResetMoves
  <2>3. CASE InstallStep \/ ClearStep
    <3>1. /\ pod'.at = pod.at /\ work' = work
          /\ session'.claim = session.claim /\ session'.reset = session.reset
      BY <2>3, DrainFields DEF InstallStep, ClearStep, SameTurns, SameControls
    <3> QED
      BY <1>1, <3>1 DEF Fresh
  <2>4. CASE ResetStep
    <3>1. /\ \/ session' = session
             \/ session'.claim = session.claim /\ ResetMoves
          /\ work' = work \/ (work.state = "bound" /\ work' = [work EXCEPT !.state = "deleting"])
      BY <2>4 DEF ResetStep, SessionMoves, SessionKept, SessionPut, Carried
    <3>2. pod'.at # "none" => pod.at # "none"
      <4>1. pod' = pod \/ (pod'.at = "stopping" /\ seenPod.at # "none" /\ pod.uid = seenPod.uid)
        BY <2>4, Stopped DEF ResetStep, podVars
      <4> QED
        BY <4>1, Parameters DEF Fresh, Named
    <3>3. work' = work \/ (work.state = "bound" /\ work'.state = "deleting" /\ work'.stale = work.stale)
      BY <1>0, <3>1 DEF Workspaces
    <3> QED
      BY <1>1, <3>1, <3>2, <3>3 DEF Fresh, ResetMoves
  <2> QED
    BY <1>2, <2>2, <2>3, <2>4, ReconcileSteps
<1>3. CASE Runtime \/ Kubernetes \/ Users \/ SyncSession \/ SyncPod
  <2>1. session'.claim = session.claim /\ (session'.reset = session.reset \/ RequestReset)
    BY <1>3, OthersKeep
  <2>2. CASE CreatePod
    <3>1. UNCHANGED session /\ (session.claim => work'.state = "bound" /\ work'.stale = work.stale)
      BY <1>0, <2>2 DEF CreatePod, Workspaces
    <3> QED
      BY <1>1, <3>1 DEF Fresh
  <2>3. CASE ClaimGone
    <3>1. UNCHANGED <<session, pod>> /\ pod.at = "none" /\ work'.stale = FALSE
      BY <2>3 DEF ClaimGone, podVars
    <3> QED
      BY <1>1, <3>1 DEF Fresh
  <2>4. CASE RequestReset
    <3>1. /\ work'.state = work.state /\ work'.stale = (pod.at # "none" \/ work.state # "none")
          /\ UNCHANGED pod /\ session' = [session EXCEPT !.reset = "asked"]
      BY <1>0, <2>4, Patched DEF RequestReset, Untouched, podVars, Workspaces
    <3>2. session'.reset = "asked"
      BY <1>0, <3>1, SessionFields
    <3> QED
      BY <1>1, <2>1, <3>1, <3>2 DEF Fresh
  <2>5. CASE PodGone /\ ~session.claim
    BY <1>1, <2>1, <2>5 DEF Fresh
  <2>6. CASE work'.state = work.state /\ work'.stale = work.stale /\ ~CreatePod /\ ~RequestReset
    BY <1>1, <2>1, <2>6 DEF Fresh
  <2> QED
    BY <1>3, <2>2, <2>3, <2>4, <2>5, <2>6, WorkKept
<1>4. CASE UNCHANGED vars
  BY <1>1, <1>4 DEF vars, Fresh
<1> QED
  BY <1>2, <1>3, <1>4 DEF Next

LEMMA FreshHolds == Spec => [](Typing /\ Fresh)
<1>1. Init => Fresh
  <2> SUFFICES ASSUME Init PROVE Fresh
    OBVIOUS
  <2>1. /\ pod.at = "none" /\ pod.uid = NoPod /\ seenPod.at = "none" /\ seenPod.uid = NoPod
        /\ work.stale = FALSE
    BY DEF Init, AbsentPod, View
  <2> QED
    BY <2>1 DEF Fresh, Named
<1> QED
  BY <1>1, FreshNext, InitTyped, NextTyped, PTL DEF Spec

\* A reset that is complete has left nothing of the old workspace, if that is on
\* a claim: not when the pod was slow to stop, nor the claim to go.
THEOREM ResetIsFresh == Spec => ResetGivesFreshWorkspace
<1>1. ASSUME Typing, Fresh, Next, session.reset # "none", session'.reset = "none"
      PROVE  ~(work.stale /\ session.claim)
  <2>1. CASE Reconcile
    <3>1. ~(InstallStep \/ ClearStep)
      BY <1>1, DrainFields DEF InstallStep, ClearStep, SameControls
    <3>2. SessionMoves
      BY <1>1, <2>1, <3>1, ReconcileSteps DEF StatusStep, ResetStep
    <3>3. session.reset = "starting"
      BY <1>1, <3>2 DEF SessionMoves, SessionKept, ResetMoves
    <3> QED
      BY <1>1, <3>3 DEF Fresh
  <2>2. ~(Runtime \/ Kubernetes \/ Users \/ SyncSession \/ SyncPod)
    BY <1>1, OthersKeep DEF RequestReset
  <2> QED
    BY <1>1, <2>1, <2>2 DEF Next
<1>2. Typing /\ Fresh /\ [Next]_vars =>
        [session.reset # "none" /\ session'.reset = "none" /\ session'.obj = "present"
         => ~(work.stale /\ session.claim)]_vars
  BY <1>1
<1> QED
  BY <1>2, FreshHolds, PTL DEF Spec, ResetGivesFreshWorkspace
=============================================================================
