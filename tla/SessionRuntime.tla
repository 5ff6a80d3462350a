---------------------------- MODULE SessionRuntime ----------------------------
(***************************************************************************)
(* The server of one Session: prompts that clients submit become turns,    *)
(* one of which may wait (and be added to, edited or removed) while        *)
(* another runs; a journal from which a restarted process recovers; the    *)
(* publication of its activity; and the drain requests of the controller.  *)
(***************************************************************************)
EXTENDS Integers, FiniteSets, SequencesExt

CONSTANTS
  Prompts,      \* what clients submit, each of them once
  Clients,      \* the connections that interrupt turns
  Kinds,        \* the drain requests: "update", "idleDrain" or both
  MaxRequests,  \* bound: drain requests made
  MaxPublishes, \* bound: publications that the timer asks for
  Env           \* what the environment does

ASSUME PromptsFinite == IsFiniteSet(Prompts)
ASSUME BoundsNatural == MaxRequests \in Nat /\ MaxPublishes \in Nat

VARIABLES
  journal,      \* what the journal on the volume says of every turn
  settled,      \* the activity marker file: settledTurnID
  asked,        \* the request annotations of the Session: kind -> ID, 0 for none
  report,       \* the report annotations: kind -> [id, drained]
  minted,       \* the requests made so far
  ticks,        \* the periodic publications so far
  proc,         \* the process: recovering, starting (no clients yet) or serving
  merged,       \* recoverJournal's first unstarted turn, with what was merged in
  pendingTurn,  \* the accepted turn that has not been taken, or NoTurn
  turns,        \* the turn in the channel, 0 for none
  loop,         \* the goroutine of runTurns and the turn it holds
  outstanding,
  nextTurnID,
  completedTurnID,
  publishQueue, \* sessionStatusPublishQueue
  request,      \* updateRequest and idleDrainRequest: kind -> ID
  signal,       \* updateReport, the wakeup of the reporter
  patch,        \* the report computed but not yet written, or NoPatch
  stopping,     \* providerStopping
  failed,       \* the journal has failed
  interrupt,    \* per client: how far its interruptTurn is, and for which turn
  draft,        \* the pending turn as an editing client saw it
  fate,         \* history: what became of a prompt at the hands of clients
  ran,          \* history: how often a prompt was handed to the provider
  unseen        \* history: turns run since Active=True was last published

durable == <<journal, settled>>
session == <<asked, report, minted>>
queueing == <<pendingTurn, turns, outstanding, nextTurnID>>
publishing == <<completedTurnID, publishQueue, ticks>>
draining == <<request, signal, patch>>
control == <<stopping, interrupt>>
history == <<fate, ran, unseen>>
vars == <<durable, session, proc, merged, queueing, loop, publishing, draining,
          control, failed, draft, history>>

Turns == 1 .. Cardinality(Prompts)
NoTurn == [id |-> 0, text |-> {}, input |-> {}, shell |-> FALSE, rev |-> 0]
NoRecord == [text |-> {}, shell |-> FALSE, rev |-> 0, state |-> "none"]
Idle == [at |-> "idle", turn |-> NoTurn, cut |-> FALSE]
NoPatch == [k \in Kinds |-> [id |-> -1, drained |-> FALSE]]
NoReport == [id |-> 0, drained |-> FALSE]
NoRequest == [k \in Kinds |-> 0]

\* s.activeTurn, 0 for none.
ActiveTurn(l) == IF l.at \in {"active", "started", "running", "completed"} THEN l.turn.id ELSE 0

\* One event of a turn, as recoverJournal will read it.
Recorded(t, state) == journal' = [journal EXCEPT ![t].state = state]
RecordMessage(turn) ==
  journal' = [journal EXCEPT ![turn.id] =
    [text |-> turn.text, shell |-> turn.shell, rev |-> turn.rev,
     state |-> IF @.state = "none" THEN "unstarted" ELSE @.state]]

\* Append fails, and every later Append with it: nothing was written, or the
\* record was and the compaction after it failed.
AppendFails == "diskFail" \in Env /\ ~failed /\ failed' = TRUE
Appended(t, state) == ~failed /\ Recorded(t, state) /\ UNCHANGED failed
NotAppended(t, state) ==
  \/ failed /\ UNCHANGED <<failed, journal>>
  \/ AppendFails /\ (Recorded(t, state) \/ UNCHANGED journal)

markTurnCompleted(t) == IF t > completedTurnID THEN t ELSE completedTurnID

queueSessionStatusPublish(force, active, done) ==
  publishQueue' =
    IF force \/ publishQueue = <<>> \/ Last(publishQueue).active # active
    THEN Append(publishQueue, [active |-> active, settledTurnID |-> done])
    ELSE publishQueue

Requested == \E k \in Kinds : request[k] # 0
Up == proc # "recovering"

-----------------------------------------------------------------------------
\* Clients.

Accepting == proc = "serving" /\ ~Requested /\ ~stopping /\ ~failed

\* fate follows the journal, which decides what a restart recovers.
Accept(p, turn) == RecordMessage(turn) /\ fate' = [fate EXCEPT ![p] = "accepted"]
Refuse(p) == fate' = [fate EXCEPT ![p] = "refused"] /\ UNCHANGED journal

\* submitParsedMessage with a turn pending: the text is added to it.
AppendToPending(p) ==
  LET turn == [pendingTurn EXCEPT !.text = @ \union {p}, !.input = @ \union {p}, !.rev = @ + 1] IN
  /\ Accepting /\ fate[p] = "unsent" /\ pendingTurn # NoTurn /\ ~pendingTurn.shell
  /\ \/ Accept(p, turn) /\ pendingTurn' = turn /\ UNCHANGED failed
     \/ AppendFails /\ (Accept(p, turn) \/ Refuse(p)) /\ UNCHANGED pendingTurn
  /\ UNCHANGED <<settled, session, proc, merged, turns, outstanding, nextTurnID, loop,
                 publishing, draining, control, draft, ran, unseen>>

\* submitParsedMessage without one; if the journal fails, the channel keeps a
\* turn that never is accepted.
SubmitTurn(p, shell) ==
  LET turn == [id |-> nextTurnID + 1, text |-> {p}, input |-> {p}, shell |-> shell, rev |-> 1] IN
  /\ Accepting /\ fate[p] = "unsent" /\ pendingTurn = NoTurn /\ turns = 0
  /\ turns' = turn.id /\ nextTurnID' = turn.id
  /\ \/ /\ Accept(p, turn)
        /\ pendingTurn' = turn /\ outstanding' = outstanding + 1
        /\ UNCHANGED failed
     \/ /\ AppendFails /\ (Accept(p, turn) \/ Refuse(p))
        /\ UNCHANGED <<pendingTurn, outstanding>>
  /\ UNCHANGED <<settled, session, proc, merged, loop, publishing, draining, control,
                 draft, ran, unseen>>

submitParsedMessage(p, shell) == (~shell /\ AppendToPending(p)) \/ SubmitTurn(p, shell)

\* A client opens the pending message to edit or remove it.
OpenDraft ==
  /\ "edit" \in Env /\ proc = "serving"
  /\ pendingTurn # NoTurn /\ draft # pendingTurn
  /\ draft' = pendingTurn
  /\ UNCHANGED <<durable, session, proc, merged, queueing, loop, publishing, draining,
                 control, failed, history>>

\* Mutant: the revision is not compared.
DraftPending ==
  proc = "serving" /\ ~failed /\ draft # NoTurn /\ pendingTurn.id = draft.id

\* Its turn is still pending, at the expected revision.
DraftCurrent ==
  /\ proc = "serving" /\ ~failed /\ draft # NoTurn
  /\ pendingTurn.id = draft.id /\ pendingTurn.rev = draft.rev

Discard(state) == [p \in Prompts |-> IF p \in pendingTurn.text THEN state ELSE fate[p]]

\* The journal fails under an edit or a removal.
DraftRefused ==
  /\ DraftCurrent /\ AppendFails
  /\ UNCHANGED <<durable, session, proc, merged, queueing, loop, publishing, draining,
                 control, draft, history>>

RecordEdit(p, turn) ==
  RecordMessage(turn) /\ fate' = [Discard("replaced") EXCEPT ![p] = "accepted"]

editMessage(p, shell) ==
  LET turn == [pendingTurn EXCEPT !.text = {p}, !.input = {p}, !.shell = shell, !.rev = @ + 1] IN
  /\ DraftCurrent /\ fate[p] = "unsent"
  /\ RecordEdit(p, turn)
  /\ \/ pendingTurn' = turn /\ draft' = NoTurn /\ UNCHANGED failed
     \/ AppendFails /\ UNCHANGED <<pendingTurn, draft>>
  /\ UNCHANGED <<settled, session, proc, merged, turns, outstanding, nextTurnID, loop,
                 publishing, draining, control, ran, unseen>>

RecordRemoval == Recorded(pendingTurn.id, "removed") /\ fate' = Discard("removed")

removePendingMessage ==
  /\ DraftCurrent
  /\ RecordRemoval
  /\ pendingTurn' = NoTurn /\ draft' = NoTurn
  /\ turns' = IF turns = pendingTurn.id THEN 0 ELSE turns
  /\ outstanding' = IF outstanding > 0 THEN outstanding - 1 ELSE 0
  /\ completedTurnID' = markTurnCompleted(pendingTurn.id)
  /\ queueSessionStatusPublish(FALSE, ActiveTurn(loop) # 0, completedTurnID')
  /\ signal' = (signal \/ (Requested /\ outstanding' = 0))
  /\ UNCHANGED <<settled, session, proc, merged, nextTurnID, loop, ticks, request, patch, control,
                 failed, ran, unseen>>

\* The removal was recorded although it was refused.
RemovalRefused ==
  /\ DraftCurrent /\ AppendFails
  /\ RecordRemoval
  /\ UNCHANGED <<settled, session, proc, merged, queueing, loop, publishing, draining,
                 control, draft, ran, unseen>>

-----------------------------------------------------------------------------
\* runTurns and runTurn.

LoopStep(at) == loop' = [loop EXCEPT !.at = at]

\* The turn leaves the channel and, once accepted, is looked up.
ReceiveTurn ==
  /\ Up /\ loop.at = "idle" /\ turns # 0
  /\ loop' = [Idle EXCEPT !.at = "received", !.turn.id = turns]
  /\ turns' = 0
  /\ UNCHANGED <<durable, session, proc, merged, pendingTurn, outstanding, nextTurnID,
                 publishing, draining, control, failed, draft, history>>

\* A turn whose submission failed is not accepted and blocks for good.
Accepted(t) == pendingTurn.id = t \/ journal[t].state = "removed"

takePendingTurn ==
  /\ Up /\ loop.at = "received" /\ Accepted(loop.turn.id) /\ ~stopping
  /\ IF pendingTurn.id = loop.turn.id
     THEN loop' = [loop EXCEPT !.at = "taken", !.turn = pendingTurn] /\ pendingTurn' = NoTurn
     ELSE loop' = Idle /\ UNCHANGED pendingTurn
  /\ UNCHANGED <<durable, session, proc, merged, turns, outstanding, nextTurnID, publishing,
                 draining, control, failed, draft, history>>

\* The provider is being stopped: the turn goes back for recovery.
ReturnTurn ==
  /\ Up /\ loop.at = "received" /\ stopping /\ turns = 0
  /\ loop' = [Idle EXCEPT !.at = "stopped"] /\ turns' = loop.turn.id
  /\ UNCHANGED <<durable, session, proc, merged, pendingTurn, outstanding, nextTurnID,
                 publishing, draining, control, failed, draft, history>>

ActivateTurn ==
  /\ Up /\ loop.at = "taken"
  /\ LoopStep("active")
  /\ queueSessionStatusPublish(FALSE, TRUE, completedTurnID)
  /\ unseen' = unseen \union {loop.turn.id}
  /\ UNCHANGED <<durable, session, proc, merged, queueing, completedTurnID, ticks, draining,
                 control, failed, draft, fate, ran>>

\* TurnStarted is recorded before the provider gets the input; if it cannot
\* be, the turn is over without having run.
StartTurn ==
  /\ Up /\ loop.at = "active"
  /\ \/ Appended(loop.turn.id, "started") /\ LoopStep("started")
     \/ NotAppended(loop.turn.id, "started") /\ LoopStep("completed")
  /\ UNCHANGED <<settled, session, proc, merged, queueing, publishing, draining, control,
                 draft, history>>

\* The shell runs the command of the turn, the provider its text.
RunTurn ==
  /\ Up /\ loop.at = "started"
  /\ LoopStep("running")
  /\ ran' = [p \in Prompts |-> IF p \in loop.turn.input THEN ran[p] + 1 ELSE ran[p]]
  /\ UNCHANGED <<durable, session, proc, merged, queueing, publishing, draining, control,
                 failed, draft, fate, unseen>>

\* The provider returns, or the turn was cut short: TurnCompleted.
CompleteTurn ==
  LET end == IF loop.cut THEN "interrupted" ELSE "done" IN
  /\ Up /\ loop.at = "running"
  /\ LoopStep("completed")
  /\ Appended(loop.turn.id, end) \/ NotAppended(loop.turn.id, end)
  /\ UNCHANGED <<settled, session, proc, merged, queueing, publishing, draining, control,
                 draft, history>>

\* The deferred function of runTurn: no active turn,
DeactivateTurn ==
  /\ Up /\ loop.at = "completed"
  /\ LoopStep("inactive")
  /\ UNCHANGED <<durable, session, proc, merged, queueing, publishing, draining, control,
                 failed, draft, history>>

\* the high-water mark and the idle publication that carries it,
PublishIdle ==
  /\ Up /\ loop.at = "inactive"
  /\ LoopStep("closing")
  /\ completedTurnID' = markTurnCompleted(loop.turn.id)
  /\ queueSessionStatusPublish(FALSE, FALSE, completedTurnID')
  /\ UNCHANGED <<durable, session, proc, merged, queueing, ticks, draining, control, failed,
                 draft, history>>

\* and then finishTurn and turnDone.
finishTurn ==
  /\ Up /\ loop.at = "closing"
  /\ LoopStep("ended")
  /\ outstanding' = IF outstanding > 0 THEN outstanding - 1 ELSE 0
  /\ signal' = (signal \/ (Requested /\ outstanding' = 0))
  /\ UNCHANGED <<durable, session, proc, merged, pendingTurn, turns, nextTurnID, publishing,
                 request, patch, control, failed, draft, history>>

\* Holding interruptMu.
Interrupting(c) == interrupt[c].at \in {"recorded", "waiting"}

\* Mutant: the next turn does not wait for interruptMu.
NextTurnAtOnce ==
  /\ proc = "serving" /\ loop.at = "ended"
  /\ loop' = Idle
  /\ UNCHANGED <<durable, session, proc, merged, queueing, publishing, draining, control,
                 failed, draft, history>>

\* runTurns waits for an interruption that is still settling.
NextTurn ==
  /\ Up /\ loop.at = "ended" /\ \A c \in Clients : ~Interrupting(c)
  /\ loop' = Idle
  /\ UNCHANGED <<durable, session, proc, merged, queueing, publishing, draining, control,
                 failed, draft, history>>

-----------------------------------------------------------------------------
\* interruptTurn.

InterruptAt(c, at) == interrupt' = [interrupt EXCEPT ![c].at = at]
NoInterrupt == [at |-> "none", turn |-> 0]

\* It reads the active turn before it has interruptMu,
AskInterrupt(c) ==
  /\ "interrupt" \in Env /\ proc = "serving"
  /\ interrupt[c].at = "none" /\ ActiveTurn(loop) # 0
  /\ interrupt' = [interrupt EXCEPT ![c] = [at |-> "asked", turn |-> ActiveTurn(loop)]]
  /\ UNCHANGED <<durable, session, proc, merged, queueing, loop, publishing, draining,
                 stopping, failed, draft, history>>

\* and again with it; TurnInterrupting counts as started for recoverJournal.
LockInterrupt(c) ==
  LET t == interrupt[c].turn
      state == IF journal[t].state = "unstarted" THEN "started" ELSE journal[t].state IN
  /\ proc = "serving" /\ interrupt[c].at = "asked" /\ \A d \in Clients : ~Interrupting(d)
  /\ \/ ActiveTurn(loop) = t /\ Appended(t, state) /\ InterruptAt(c, "recorded")
     \/ /\ IF ActiveTurn(loop) = t THEN NotAppended(t, state) ELSE UNCHANGED <<journal, failed>>
        /\ interrupt' = [interrupt EXCEPT ![c] = NoInterrupt]
  /\ UNCHANGED <<settled, session, proc, merged, queueing, loop, publishing, draining,
                 stopping, draft, history>>

\* provider.Interrupt stops whatever the provider is running; a shell command
\* is cancelled by its own turn's context.
ProviderInterrupt(c) ==
  /\ proc = "serving" /\ interrupt[c].at = "recorded"
  /\ InterruptAt(c, "waiting")
  /\ loop' = [loop EXCEPT !.cut = @ \/ loop.at = "running"
                              \/ (loop.turn.shell /\ loop.turn.id = interrupt[c].turn /\ ActiveTurn(loop) # 0)]
  /\ UNCHANGED <<durable, session, proc, merged, queueing, publishing, draining, stopping,
                 failed, draft, history>>

TurnDone(t) == loop.turn.id # t \/ loop.at = "ended"

InterruptDone(c) ==
  /\ proc = "serving" /\ interrupt[c].at = "waiting" /\ TurnDone(interrupt[c].turn)
  /\ interrupt' = [interrupt EXCEPT ![c] = NoInterrupt]
  /\ UNCHANGED <<durable, session, proc, merged, queueing, loop, publishing, draining,
                 stopping, failed, draft, history>>

\* The request fails or the turn does not end in time: a shell command is left
\* alone, otherwise the provider is stopped and the turn cancelled.
stopInterruptedTurn(c) ==
  LET t == interrupt[c].turn IN
  /\ "timeout" \in Env /\ proc = "serving" /\ Interrupting(c) /\ ~stopping
  /\ IF loop.turn.id = t /\ loop.turn.shell
     THEN /\ interrupt[c].at = "waiting"
          /\ interrupt' = [interrupt EXCEPT ![c] = NoInterrupt]
          /\ UNCHANGED <<stopping, loop>>
     ELSE /\ InterruptAt(c, "waiting")
          /\ stopping' = TRUE
          /\ loop' = [loop EXCEPT !.cut = @ \/ loop.turn.id = t]
  /\ UNCHANGED <<durable, session, proc, merged, queueing, publishing, draining, failed,
                 draft, history>>

-----------------------------------------------------------------------------
\* runSessionStatusPublishes.

\* The marker file; if writing it fails, or the process ends before it does, the
\* activity is published and not marked.
recordSettledActivity(published) ==
  \/ settled' = IF ~published.active /\ published.settledTurnID > settled
                THEN published.settledTurnID ELSE settled
  \/ {"diskFail", "crash"} \intersect Env # {} /\ UNCHANGED settled

\* Mutant: the reporter is not woken when the queue advances.
PublishSilently ==
  LET head == Head(publishQueue) IN
  /\ proc = "serving" /\ publishQueue # <<>>
  /\ publishQueue' = Tail(publishQueue)
  /\ recordSettledActivity(head)
  /\ unseen' = IF head.active THEN {} ELSE unseen
  /\ UNCHANGED <<journal, session, proc, merged, queueing, loop, completedTurnID, ticks, draining,
                 control, failed, draft, fate, ran>>

\* A success; a failure is retried and changes nothing.
PublishStatus ==
  LET head == Head(publishQueue) IN
  /\ proc = "serving" /\ publishQueue # <<>>
  /\ publishQueue' = Tail(publishQueue)
  /\ recordSettledActivity(head)
  /\ signal' = (signal \/ Requested)
  /\ unseen' = IF head.active THEN {} ELSE unseen
  /\ UNCHANGED <<journal, session, proc, merged, queueing, loop, completedTurnID, ticks, request,
                 patch, control, failed, draft, fate, ran>>

\* The timer, or the end of a workspace refresh.
PeriodicPublish ==
  /\ "periodic" \in Env /\ proc = "serving" /\ ticks < MaxPublishes
  /\ ticks' = ticks + 1
  /\ queueSessionStatusPublish(TRUE, ActiveTurn(loop) # 0, completedTurnID)
  /\ UNCHANGED <<durable, session, proc, merged, queueing, loop, completedTurnID, draining,
                 control, failed, draft, history>>

-----------------------------------------------------------------------------
\* Drain requests.

\* The controller installs a request; it removes a report it can see.
AskDrain(k) ==
  /\ minted < MaxRequests
  /\ minted' = minted + 1
  /\ asked' = [asked EXCEPT ![k] = minted + 1]
  /\ report' \in {report, [report EXCEPT ![k] = NoReport]}
  /\ UNCHANGED <<durable, proc, merged, queueing, loop, publishing, draining, control,
                 failed, draft, history>>

WithdrawDrain(k) ==
  /\ "withdraw" \in Env /\ asked[k] # 0
  /\ asked' = [asked EXCEPT ![k] = 0]
  /\ report' = [report EXCEPT ![k] = NoReport]
  /\ UNCHANGED <<durable, minted, proc, merged, queueing, loop, publishing, draining,
                 control, failed, draft, history>>

observeSessionUpdate ==
  /\ Up /\ request # asked
  /\ request' = asked /\ signal' = TRUE
  /\ UNCHANGED <<durable, session, proc, merged, queueing, loop, publishing, patch, control,
                 failed, draft, history>>

\* Mutant: an idle drain does not wait for the publications.
reportWithoutQueue(id, k, turnsLeft, queue) ==
  IF id = 0 THEN NoReport ELSE [id |-> id, drained |-> turnsLeft = 0]

\* What is reported for a request when so many turns are outstanding and so
\* much is still to be published.
drainReport(id, k, turnsLeft, queue) ==
  IF id = 0 THEN NoReport
  ELSE [id |-> id, drained |-> turnsLeft = 0 /\ (k = "idleDrain" => queue = <<>>)]

sessionDrainReports ==
  /\ Up /\ signal /\ patch = NoPatch
  /\ patch' = [k \in Kinds |-> drainReport(request[k], k, outstanding, publishQueue)]
  /\ signal' = FALSE
  /\ UNCHANGED <<durable, session, proc, merged, queueing, loop, publishing, request,
                 control, failed, draft, history>>

reportSessionUpdate ==
  /\ Up /\ patch # NoPatch
  /\ report' = patch /\ patch' = NoPatch
  /\ UNCHANGED <<durable, asked, minted, proc, merged, queueing, loop, publishing, request,
                 signal, control, failed, draft, history>>

-----------------------------------------------------------------------------
\* The process ends and is started again by the kubelet.

Memory ==
  /\ merged = NoTurn /\ pendingTurn = NoTurn /\ turns = 0 /\ loop = Idle
  /\ outstanding = 0 /\ nextTurnID = 0 /\ completedTurnID = 0 /\ publishQueue = <<>>
  /\ request = NoRequest /\ signal = FALSE /\ patch = NoPatch
  /\ stopping = FALSE /\ failed = FALSE /\ interrupt = [c \in Clients |-> NoInterrupt]

Exit ==
  /\ proc' = "recovering"
  /\ merged' = NoTurn /\ pendingTurn' = NoTurn /\ turns' = 0 /\ loop' = Idle
  /\ outstanding' = 0 /\ nextTurnID' = 0 /\ completedTurnID' = 0 /\ publishQueue' = <<>>
  /\ request' = NoRequest /\ signal' = FALSE /\ patch' = NoPatch
  /\ stopping' = FALSE /\ failed' = FALSE /\ interrupt' = [c \in Clients |-> NoInterrupt]
  /\ UNCHANGED <<durable, session, ticks, draft, history>>

\* Mutant: the end of the provider goes unnoticed.
ServeOutlivesProvider == proc = "serving" /\ failed /\ Exit

\* Serve returns once the provider or the journal has stopped.
ServeReturns == proc = "serving" /\ (stopping \/ failed) /\ Exit

Crash ==
  /\ \/ Up /\ "crash" \in Env
     \/ proc = "recovering" /\ "recoveryCrash" \in Env
  /\ Exit

\* recoverJournal: the turns of the journal that are not over.
InState(S) == {t \in Turns : journal[t].state \in S}
Unstarted == InState({"unstarted"})
First(S) == CHOOSE t \in S : \A u \in S : t <= u
\* Mutant: the high-water mark starts below zero.
HighestBelowZero(S) == IF S = {} THEN -1 ELSE CHOOSE t \in S : \A u \in S : u <= t

Highest(S) == IF S = {} THEN 0 ELSE CHOOSE t \in S : \A u \in S : u <= t

FromJournal(t) ==
  [id |-> t, text |-> journal[t].text, input |-> journal[t].text,
   shell |-> journal[t].shell, rev |-> journal[t].rev]

\* A started turn is reported interrupted,
RecoverStarted ==
  /\ proc = "recovering" /\ InState({"started"}) # {}
  /\ Recorded(First(InState({"started"})), "interrupted")
  /\ UNCHANGED <<settled, session, proc, merged, queueing, loop, publishing, draining,
                 control, failed, draft, history>>

\* unstarted ones are merged into the first of them,
RecoverMerge ==
  LET first == First(Unstarted)
      next == First(Unstarted \ {first})
      turn == IF merged = NoTurn THEN FromJournal(first) ELSE merged IN
  /\ proc = "recovering" /\ InState({"started"}) = {} /\ Cardinality(Unstarted) > 1
  /\ merged' = [turn EXCEPT !.text = @ \union journal[next].text,
                           !.input = IF turn.shell THEN @ ELSE @ \union journal[next].text]
  /\ Recorded(next, "merged")
  /\ UNCHANGED <<settled, session, proc, queueing, loop, publishing, draining, control,
                 failed, draft, history>>

\* Mutant: the recovered message loses what was merged into it.
RecoveredFirst == IF Unstarted = {} THEN NoTurn ELSE FromJournal(First(Unstarted))

Recovered ==
  IF merged # NoTurn THEN [merged EXCEPT !.rev = @ + 1]
  ELSE IF Unstarted = {} THEN NoTurn ELSE FromJournal(First(Unstarted))

\* and that turn is pending again: restoreTurn, the marker and its seed, and
\* initializeSessionUpdate.
RecoverServe ==
  LET turn == Recovered
      over == InState({"done", "interrupted", "removed", "merged"})
      seed == IF nextTurnID' > settled THEN <<[active |-> TRUE, settledTurnID |-> 0]>> ELSE <<>> IN
  /\ proc = "recovering" /\ proc' = "starting"
  /\ InState({"started"}) = {} /\ Cardinality(Unstarted) <= 1
  /\ IF merged = NoTurn THEN UNCHANGED journal ELSE RecordMessage(turn)
  /\ merged' = NoTurn
  /\ pendingTurn' = turn /\ turns' = turn.id
  /\ outstanding' = IF turn = NoTurn THEN 0 ELSE 1
  /\ nextTurnID' = Highest(Turns \ InState({"none"}))
  /\ completedTurnID' = Highest(over)
  /\ publishQueue' = seed
  /\ request' = asked /\ signal' = (asked # NoRequest)
  /\ report' = [k \in Kinds |-> drainReport(asked[k], k, outstanding', seed)]
  /\ UNCHANGED <<settled, asked, minted, ticks, loop, patch, control, failed, draft, history>>

\* Clients may connect; publications begin with one of the present state.
Serve ==
  /\ proc = "starting" /\ proc' = "serving"
  /\ queueSessionStatusPublish(FALSE, ActiveTurn(loop) # 0, completedTurnID)
  /\ UNCHANGED <<durable, session, merged, queueing, loop, completedTurnID, ticks, draining, control,
                 failed, draft, history>>

-----------------------------------------------------------------------------
Init ==
  /\ journal = [t \in Turns |-> NoRecord] /\ settled = 0
  /\ asked = NoRequest /\ report = [k \in Kinds |-> NoReport] /\ minted = 0 /\ ticks = 0
  /\ proc = "recovering" /\ Memory /\ draft = NoTurn
  /\ fate = [p \in Prompts |-> "unsent"] /\ ran = [p \in Prompts |-> 0] /\ unseen = {}

Shells == IF "shell" \in Env THEN BOOLEAN ELSE {FALSE}

ClientStep ==
  \/ \E p \in Prompts, shell \in Shells : submitParsedMessage(p, shell) \/ editMessage(p, shell)
  \/ OpenDraft \/ removePendingMessage \/ RemovalRefused \/ DraftRefused

LoopSteps ==
  \/ ReceiveTurn \/ takePendingTurn \/ ReturnTurn \/ ActivateTurn \/ StartTurn \/ RunTurn
  \/ CompleteTurn \/ DeactivateTurn \/ PublishIdle
  \/ finishTurn \/ NextTurn

InterruptSettles(c) == LockInterrupt(c) \/ ProviderInterrupt(c) \/ InterruptDone(c)
InterruptStep == \E c \in Clients : AskInterrupt(c) \/ InterruptSettles(c) \/ stopInterruptedTurn(c)

ControllerStep == \E k \in Kinds : AskDrain(k) \/ WithdrawDrain(k)
RecoveryStep == RecoverStarted \/ RecoverMerge \/ RecoverServe \/ Serve

Next ==
  \/ ClientStep \/ LoopSteps \/ InterruptStep \/ ControllerStep \/ RecoveryStep
  \/ PublishStatus \/ PeriodicPublish
  \/ observeSessionUpdate \/ sessionDrainReports \/ reportSessionUpdate
  \/ ServeReturns \/ Crash

Spec == Init /\ [][Next]_vars

\* Every goroutine runs, the provider returns, publications and reports get
\* through in the end; nothing is assumed of clients and the controller.
Fairness ==
  /\ WF_vars(LoopSteps) /\ WF_vars(RecoveryStep) /\ WF_vars(ServeReturns)
  /\ \A c \in Clients : WF_vars(InterruptSettles(c))
  /\ WF_vars(PublishStatus) /\ WF_vars(observeSessionUpdate)
  /\ WF_vars(sessionDrainReports) /\ WF_vars(reportSessionUpdate)

FairSpec == Spec /\ Fairness

-----------------------------------------------------------------------------
\* Properties.

Verdicts == {"none", "unstarted", "started", "done", "interrupted", "removed", "merged"}
TurnRecords ==
  [id : 0 .. Cardinality(Prompts), text : SUBSET Prompts, input : SUBSET Prompts,
   shell : BOOLEAN, rev : Nat]
LoopStates ==
  {"idle", "received", "taken", "active", "started", "running", "completed", "inactive",
   "closing", "ended", "stopped"}

\* The type invariant: every variable holds what its Go field can hold.
TypeOK ==
  /\ journal \in [Turns -> [text : SUBSET Prompts, shell : BOOLEAN, rev : Nat, state : Verdicts]]
  /\ settled \in Nat /\ proc \in {"recovering", "starting", "serving"}
  /\ asked \in [Kinds -> Nat] /\ minted \in 0 .. MaxRequests /\ ticks \in 0 .. MaxPublishes
  /\ report \in [Kinds -> [id : Int, drained : BOOLEAN]]
  /\ merged \in TurnRecords /\ pendingTurn \in TurnRecords /\ draft \in TurnRecords
  /\ turns \in 0 .. Cardinality(Prompts) /\ nextTurnID \in 0 .. Cardinality(Prompts)
  /\ loop \in [at : LoopStates, turn : TurnRecords, cut : BOOLEAN]
  /\ outstanding \in Nat /\ completedTurnID \in Nat
  /\ publishQueue \in Seq([active : BOOLEAN, settledTurnID : Nat])
  /\ request \in [Kinds -> Nat] /\ signal \in BOOLEAN
  /\ patch \in [Kinds -> [id : Int, drained : BOOLEAN]]
  /\ stopping \in BOOLEAN /\ failed \in BOOLEAN
  /\ interrupt \in [Clients -> [at : {"none", "asked", "recorded", "waiting"}, turn : Nat]]
  /\ fate \in [Prompts -> {"unsent", "accepted", "refused", "replaced", "removed"}]
  /\ ran \in [Prompts -> Nat] /\ unseen \subseteq Turns

\* submitParsedMessage, recoverJournal: a prompt that was accepted and not
\* withdrawn by a client stays in the journal until it has been run or its turn
\* reported as interrupted, whatever merges, failures and restarts intervene; and
\* no prompt is handed to the provider twice, or once a client has withdrawn it.
PromptsKept ==
  \A p \in Prompts :
    /\ ran[p] <= IF fate[p] = "accepted" THEN 1 ELSE 0
    /\ fate[p] = "accepted" => p \in merged.text \/
         \E t \in Turns :
           /\ p \in journal[t].text
           /\ journal[t].state \in {"unstarted", "started", "interrupted"}
              \/ (journal[t].state = "done" /\ ran[p] > 0)

\* editMessage, removePendingMessage: the revision check keeps a client from
\* discarding text that it had not seen when it opened the message.
DiscardsOnlySeen ==
  [][\A p \in Prompts :
       fate[p] = "accepted" /\ fate'[p] \in {"replaced", "removed"} => p \in draft.text]_vars

\* interruptTurn: only the turn that was active when a client asked for an
\* interruption is cut short by it.
InterruptHitsItsTurn ==
  [][~loop.cut /\ loop'.cut =>
       \E c \in Clients : Interrupting(c) /\ interrupt[c].turn = loop.turn.id]_vars

\* sessionDrainReports: while the report of a request that still stands says
\* Drained, no accepted turn waits or runs, and for an idle drain every turn
\* that ran has been published as activity.
DrainedIsQuiet ==
  \A k \in Kinds :
    asked[k] # 0 /\ report[k] = [id |-> asked[k], drained |-> TRUE] =>
      /\ InState({"unstarted", "started"}) = {}
      /\ k = "idleDrain" => unseen = {}

\* runTurns, recoverJournal: every accepted prompt is withdrawn or its turn
\* ends, also through forced stops of the provider.
PromptsSettle ==
  \A p \in Prompts :
    fate[p] = "accepted" ~>
      \/ fate[p] # "accepted"
      \/ \E t \in Turns : p \in journal[t].text /\ journal[t].state \in {"done", "interrupted"}

\* signalSessionUpdateReport: a drain request that is left alone is reported
\* Drained in the end; no wakeup of the reporter is missed.
DrainAcknowledged ==
  \A k \in Kinds, r \in 1 .. MaxRequests :
    asked[k] = r ~> asked[k] # r \/ report[k] = [id |-> r, drained |-> TRUE]

\* The runtime leaves nothing open: neither a prompt nor a request.
NothingLeftOpen == PromptsSettle /\ DrainAcknowledged
=============================================================================
