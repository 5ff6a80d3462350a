------------------------- MODULE SessionRuntimeProofs -------------------------
(***************************************************************************)
(* Theorems about SessionRuntime, for every number of prompts, clients and *)
(* drain requests and, unless a theorem says otherwise, every environment. *)
(***************************************************************************)
EXTENDS SessionRuntime, FiniteSetTheorems, SequenceTheorems, WellFoundedInduction, TLAPS

-----------------------------------------------------------------------------
(* Numbers                                                                 *)

\* A set of turns has a first, which is what First chooses.
LEMMA Smallest ==
  ASSUME NEW S \in SUBSET Nat, S # {}
  PROVE  \E x \in S : \A y \in S : x <= y
<1>1. PICK x \in S : \A y \in S : ~(<<y, x>> \in OpToRel(<, Nat))
  BY NatLessThanWellFounded, WFMin, Zenon
<1>2. \A y \in S : ~(y < x)
  BY <1>1 DEF OpToRel
<1> QED
  BY <1>2

\* And a last, if they are no more than n.
LEMMA Largest ==
  ASSUME NEW n \in Nat, NEW S \in SUBSET (0 .. n), S # {}
  PROVE  \E x \in S : \A y \in S : y <= x
<1> DEFINE T == {n - s : s \in S}
<1>1. T \in SUBSET Nat
  OBVIOUS
<1>2. PICK z \in S : TRUE
  OBVIOUS
<1>3. n - z \in T
  OBVIOUS
<1>4. PICK x \in T : \A y \in T : x <= y
  BY <1>1, <1>3, Smallest
<1>5. PICK s \in S : x = n - s
  OBVIOUS
<1>6. \A y \in S : y <= s
  <2> TAKE y \in S
  <2>1. n - s <= n - y
    BY <1>4, <1>5
  <2> QED
    BY <2>1
<1> QED
  BY <1>6

\* There are finitely many prompts, and as many turns.
LEMMA TurnCount == Cardinality(Prompts) \in Nat /\ Turns \in SUBSET Nat
BY PromptsFinite, FS_CardinalityType DEF Turns

\* What First and Highest choose.
LEMMA FirstIs ==
  ASSUME NEW S \in SUBSET Turns, S # {}
  PROVE  First(S) \in S /\ \A u \in S : First(S) <= u
<1>1. S \in SUBSET Nat
  BY TurnCount
<1>2. \E t \in S : \A u \in S : t <= u
  BY <1>1, Smallest
<1> QED
  BY <1>2 DEF First

LEMMA HighestIs ==
  ASSUME NEW S \in SUBSET Turns
  PROVE  /\ Highest(S) \in 0 .. Cardinality(Prompts)
         /\ \A u \in S : u <= Highest(S)
         /\ Highest(S) # 0 => Highest(S) \in S
<1>1. PICK n \in Nat : n = Cardinality(Prompts)
  BY TurnCount
<1>2. S \in SUBSET (0 .. n)
  BY <1>1 DEF Turns
<1>3. CASE S = {}
  BY <1>1, <1>3 DEF Highest
<1>4. CASE S # {}
  <2>1. \E t \in S : \A u \in S : u <= t
    BY <1>2, <1>4, Largest
  <2>2. Highest(S) \in S /\ \A u \in S : u <= Highest(S)
    BY <1>4, <2>1 DEF Highest
  <2> QED
    BY <1>1, <1>2, <2>2
<1> QED
  BY <1>3, <1>4

-----------------------------------------------------------------------------
(* The journal and the publications                                        *)

Records == [text : SUBSET Prompts, shell : BOOLEAN, rev : Nat, state : Verdicts]
Publications == [active : BOOLEAN, settledTurnID : Nat]

\* An event changes the state of its turn, and nothing else.
LEMMA RecordedIs ==
  ASSUME journal \in [Turns -> Records], NEW t, NEW state, Recorded(t, state),
         t \in Turns => state \in Verdicts
  PROVE  /\ journal' \in [Turns -> Records]
         /\ \A u \in Turns : /\ u # t => journal'[u] = journal[u]
                             /\ journal'[u].state = IF u = t THEN state ELSE journal[u].state
                             /\ journal'[u].text = journal[u].text
                             /\ journal'[u].rev = journal[u].rev
                             /\ journal'[u].shell = journal[u].shell
BY DEF Recorded, Records

\* A message changes its turn.
LEMMA MessageIs ==
  ASSUME journal \in [Turns -> Records], NEW turn \in TurnRecords, RecordMessage(turn)
  PROVE  /\ journal' \in [Turns -> Records]
         /\ \A u \in Turns : u # turn.id => journal'[u] = journal[u]
         /\ turn.id \in Turns =>
              /\ journal'[turn.id].text = turn.text /\ journal'[turn.id].shell = turn.shell
              /\ journal'[turn.id].rev = turn.rev
              /\ journal'[turn.id].state = IF journal[turn.id].state = "none" THEN "unstarted"
                                           ELSE journal[turn.id].state
<1> DEFINE v == [text |-> turn.text, shell |-> turn.shell, rev |-> turn.rev,
                 state |-> IF journal[turn.id].state = "none" THEN "unstarted"
                           ELSE journal[turn.id].state]
<1>1. journal' = [journal EXCEPT ![turn.id] = v]
  BY DEF RecordMessage
<1>2. turn.id \in Turns => v \in Records
  BY DEF Records, TurnRecords, Verdicts
<1>3. /\ v.text = turn.text /\ v.shell = turn.shell /\ v.rev = turn.rev
      /\ v.state = IF journal[turn.id].state = "none" THEN "unstarted" ELSE journal[turn.id].state
  OBVIOUS
<1> HIDE DEF v
<1> QED
  BY <1>1, <1>2, <1>3

\* A publication is added at the end, if any.
LEMMA QueueIs ==
  ASSUME publishQueue \in Seq(Publications), NEW force \in BOOLEAN, NEW active \in BOOLEAN,
         NEW done \in Nat, queueSessionStatusPublish(force, active, done)
  PROVE  publishQueue' \in Seq(Publications)
<1>1. [active |-> active, settledTurnID |-> done] \in Publications
  BY DEF Publications
<1> QED
  BY <1>1, AppendProperties DEF queueSessionStatusPublish

-----------------------------------------------------------------------------
(* Type correctness                                                        *)

Sent == {p \in Prompts : fate[p] # "unsent"}

\* A turn has an ID for each prompt that was sent at most, and so there are no
\* more turns than prompts.
Counted ==
  /\ \A t \in Turns : journal[t].state # "none" => t <= Cardinality(Sent)
  /\ nextTurnID <= Cardinality(Sent)

\* The IDs in use have been given,
Given ==
  /\ turns <= nextTurnID /\ pendingTurn.id <= nextTurnID /\ loop.turn.id <= nextTurnID
  /\ loop.at \notin {"idle", "stopped"} => loop.turn.id # 0

\* and so have those that the journal knows of;
Known ==
  /\ Up => \A t \in Turns : journal[t].state # "none" => t <= nextTurnID
  /\ merged.id \in Turns => journal[merged.id].state # "none"

\* a process that recovers holds nothing, and one that is up merges nothing.
Blank ==
  /\ Up => merged = NoTurn
  /\ ~Up => /\ pendingTurn = NoTurn /\ turns = 0 /\ loop = Idle /\ outstanding = 0
            /\ nextTurnID = 0 /\ completedTurnID = 0 /\ publishQueue = <<>>
            /\ request = NoRequest /\ signal = FALSE /\ patch = NoPatch
            /\ stopping = FALSE /\ failed = FALSE
            /\ interrupt = [c \in Clients |-> NoInterrupt]

TypeInv == TypeOK /\ Counted /\ Given /\ Known /\ Blank

\* The parts of TypeOK.
Lasting ==
  /\ journal \in [Turns -> Records] /\ settled \in Nat
  /\ asked \in [Kinds -> Nat] /\ minted \in 0 .. MaxRequests /\ ticks \in 0 .. MaxPublishes
  /\ report \in [Kinds -> [id : Int, drained : BOOLEAN]]
  /\ draft \in TurnRecords
  /\ fate \in [Prompts -> {"unsent", "accepted", "refused", "replaced", "removed"}]
  /\ ran \in [Prompts -> Nat] /\ unseen \in SUBSET Turns

Queued ==
  /\ merged \in TurnRecords /\ pendingTurn \in TurnRecords
  /\ turns \in 0 .. Cardinality(Prompts) /\ nextTurnID \in 0 .. Cardinality(Prompts)
  /\ loop \in [at : LoopStates, turn : TurnRecords, cut : BOOLEAN]
  /\ outstanding \in Nat /\ completedTurnID \in Nat
  /\ publishQueue \in Seq(Publications)

Controlled ==
  /\ proc \in {"recovering", "starting", "serving"}
  /\ request \in [Kinds -> Nat] /\ signal \in BOOLEAN
  /\ patch \in [Kinds -> [id : Int, drained : BOOLEAN]]
  /\ stopping \in BOOLEAN /\ failed \in BOOLEAN
  /\ interrupt \in [Clients -> [at : {"none", "asked", "recorded", "waiting"}, turn : Nat]]

LEMMA TypeParts == TypeOK <=> Lasting /\ Queued /\ Controlled
BY DEF TypeOK, Lasting, Queued, Controlled, Records, Publications

\* What NoTurn and Idle are.
LEMMA Nothing ==
  /\ NoTurn \in TurnRecords /\ NoTurn.id = 0 /\ NoTurn.text = {}
  /\ Idle \in [at : LoopStates, turn : TurnRecords, cut : BOOLEAN]
  /\ Idle.at = "idle" /\ Idle.turn = NoTurn /\ Idle.cut = FALSE
  /\ NoRequest \in [Kinds -> Nat]
  /\ NoPatch \in [Kinds -> [id : Int, drained : BOOLEAN]]
<1>1. NoTurn \in TurnRecords /\ NoTurn.id = 0 /\ NoTurn.text = {}
  BY TurnCount DEF NoTurn, TurnRecords
<1> QED
  BY <1>1 DEF Idle, LoopStates, NoRequest, NoPatch

\* Sending a prompt counts, and nothing else does.
LEMMA SentGrows ==
  ASSUME Lasting, Lasting', Sent \in SUBSET Sent'
  PROVE  /\ Cardinality(Sent) \in Nat /\ Cardinality(Sent)' \in Nat
         /\ Cardinality(Sent) <= Cardinality(Sent)'
         /\ Cardinality(Sent)' <= Cardinality(Prompts)
         /\ (\E p \in Prompts : p \in Sent' /\ p \notin Sent)
              => Cardinality(Sent) + 1 <= Cardinality(Sent)'
<1>1. /\ Sent \in SUBSET Prompts /\ Sent' \in SUBSET Prompts
      /\ IsFiniteSet(Sent) /\ IsFiniteSet(Sent')
      /\ Cardinality(Sent) \in Nat /\ Cardinality(Sent') \in Nat
      /\ Cardinality(Sent) <= Cardinality(Sent')
      /\ Cardinality(Sent') <= Cardinality(Prompts)
  <2>1. Sent \in SUBSET Prompts /\ Sent' \in SUBSET Prompts
    BY DEF Sent
  <2>2. IsFiniteSet(Sent) /\ IsFiniteSet(Sent')
    BY <2>1, PromptsFinite, FS_Subset
  <2>3. Cardinality(Sent) <= Cardinality(Sent') /\ Cardinality(Sent') <= Cardinality(Prompts)
    BY <2>1, <2>2, PromptsFinite, FS_Subset
  <2> QED
    BY <2>1, <2>2, <2>3, FS_CardinalityType
<1>2. ASSUME NEW p \in Prompts, p \in Sent', p \notin Sent
      PROVE  Cardinality(Sent) + 1 <= Cardinality(Sent')
  <2>1. Sent \union {p} \in SUBSET Sent' /\ IsFiniteSet(Sent \union {p})
    BY <1>1, <1>2, FS_AddElement
  <2>2. Cardinality(Sent \union {p}) = Cardinality(Sent) + 1
    BY <1>1, <1>2, FS_AddElement
  <2>3. Cardinality(Sent \union {p}) <= Cardinality(Sent')
    BY <1>1, <2>1, FS_Subset
  <2> QED
    BY <2>2, <2>3
<1> QED
  BY <1>1, <1>2
\* What LockInterrupt writes is a state.
LEMMA LockStates ==
  ASSUME journal \in [Turns -> Records], NEW t \in Turns
  PROVE  (IF journal[t].state = "unstarted" THEN "started" ELSE journal[t].state) \in Verdicts
BY DEF Records, Verdicts

\* A prompt that was not sent leaves an ID for a turn.
LEMMA RoomForTurn ==
  ASSUME TypeInv, NEW p \in Prompts, fate[p] = "unsent"
  PROVE  nextTurnID + 1 \in 1 .. Cardinality(Prompts)
<1>1. Sent \in SUBSET Prompts /\ p \notin Sent
  BY DEF Sent
<1>2. IsFiniteSet(Sent) /\ Cardinality(Sent) \in Nat
  BY <1>1, PromptsFinite, FS_Subset, FS_CardinalityType
<1>3. Cardinality(Sent \union {p}) = Cardinality(Sent) + 1
  BY <1>1, <1>2, FS_AddElement
<1>4. Cardinality(Sent \union {p}) <= Cardinality(Prompts)
  BY <1>1, PromptsFinite, FS_Subset
<1>5. nextTurnID \in Nat /\ nextTurnID <= Cardinality(Sent)
  BY TypeParts, TurnCount DEF TypeInv, Queued, Counted
<1> QED
  BY <1>2, <1>3, <1>4, <1>5, TurnCount

\* What is added to a message, or put in its place, makes a message.
LEMMA MessageTyped ==
  ASSUME NEW t \in TurnRecords, NEW x \in SUBSET Prompts, NEW y \in SUBSET Prompts,
         NEW shell \in BOOLEAN
  PROVE  /\ [t EXCEPT !.text = x, !.input = y, !.shell = shell, !.rev = @ + 1] \in TurnRecords
         /\ [t EXCEPT !.text = x, !.input = y, !.rev = @ + 1] \in TurnRecords
<1>1. PICK n : n = Cardinality(Prompts)
  OBVIOUS
<1>2. TurnRecords = [id : 0 .. n, text : SUBSET Prompts, input : SUBSET Prompts,
                     shell : BOOLEAN, rev : Nat]
  BY <1>1 DEF TurnRecords
<1>3. t.rev + 1 \in Nat /\ t = [id |-> t.id, text |-> t.text, input |-> t.input,
                               shell |-> t.shell, rev |-> t.rev]
  BY <1>2
<1> QED
  BY <1>2, <1>3

\* The mark of completed turns, and the first publication of the queue.
LEMMA MarkTyped ==
  ASSUME completedTurnID \in Nat, NEW t \in TurnRecords
  PROVE  markTurnCompleted(t.id) \in Nat
BY TurnCount DEF markTurnCompleted, TurnRecords

LEMMA PublishedTyped ==
  ASSUME publishQueue \in Seq(Publications), publishQueue # <<>>
  PROVE  /\ Head(publishQueue).settledTurnID \in Nat
         /\ Tail(publishQueue) \in Seq(Publications)
<1>1. Head(publishQueue) \in Publications /\ Tail(publishQueue) \in Seq(Publications)
  BY HeadTailProperties
<1> QED
  BY <1>1 DEF Publications

\* Where an interruption is.
LEMMA InterruptTypes ==
  ASSUME Controlled, NEW c \in Clients, NEW at \in {"none", "asked", "recorded", "waiting"}
  PROVE  [interrupt EXCEPT ![c].at = at]
           \in [Clients -> [at : {"none", "asked", "recorded", "waiting"}, turn : Nat]]
BY DEF Controlled

\* A report is one.
LEMMA ReportIs ==
  ASSUME NEW id \in Int, NEW k, NEW n, NEW q
  PROVE  drainReport(id, k, n, q) \in [id : Int, drained : BOOLEAN]
BY DEF drainReport, NoReport

LEMMA PromptTyped ==
  ASSUME TypeInv, NEW p \in Prompts, NEW shell \in Shells,
         submitParsedMessage(p, shell) \/ editMessage(p, shell)
  PROVE  Lasting' /\ Queued' /\ Controlled'
<1>0. Lasting /\ Queued /\ Controlled /\ Given /\ shell \in BOOLEAN
  BY TypeParts DEF TypeInv, Shells
<1>1. CASE AppendToPending(p)
  <2> DEFINE turn == [pendingTurn EXCEPT !.text = @ \union {p}, !.input = @ \union {p}, !.rev = @ + 1]
  <2>1. turn \in TurnRecords
    <3>1. pendingTurn \in TurnRecords
      BY <1>0 DEF Queued
    <3>2. pendingTurn.text \union {p} \in SUBSET Prompts /\ pendingTurn.input \union {p} \in SUBSET Prompts
      BY <3>1 DEF TurnRecords
    <3> QED
      BY <3>1, <3>2, MessageTyped
  <2>2. /\ \/ RecordMessage(turn) /\ fate' = [fate EXCEPT ![p] = "accepted"]
           \/ journal' = journal /\ fate' = [fate EXCEPT ![p] = "refused"]
        /\ pendingTurn' \in {pendingTurn, turn} /\ failed' \in BOOLEAN
        /\ UNCHANGED <<settled, session, proc, merged, turns, outstanding, nextTurnID, loop,
                      publishing, draining, control, draft, ran, unseen>>
    BY <1>0, <1>1 DEF AppendToPending, Accept, Refuse, AppendFails, Controlled
  <2> HIDE DEF turn
  <2>11. Lasting'
    BY <1>0, <2>1, <2>2, BoundsNatural, MessageIs DEF Lasting, session, publishing
  <2>12. Queued'
    BY <1>0, <2>1, <2>2 DEF Queued, publishing
  <2>13. Controlled'
    BY <1>0, <2>1, <2>2 DEF Controlled, draining, control
  <2> QED
    BY <2>11, <2>12, <2>13
<1>2. CASE SubmitTurn(p, shell)
  <2> DEFINE turn == [id |-> nextTurnID + 1, text |-> {p}, input |-> {p}, shell |-> shell, rev |-> 1]
  <2>1. turn \in TurnRecords /\ turn.id = nextTurnID + 1
    BY <1>0, <1>2, RoomForTurn DEF TurnRecords, SubmitTurn
  <2>2. /\ \/ RecordMessage(turn) /\ fate' = [fate EXCEPT ![p] = "accepted"]
           \/ journal' = journal /\ fate' = [fate EXCEPT ![p] = "refused"]
        /\ pendingTurn' \in {pendingTurn, turn} /\ failed' \in BOOLEAN
        /\ turns' = turn.id /\ nextTurnID' = turn.id /\ outstanding' \in {outstanding, outstanding + 1}
        /\ UNCHANGED <<settled, session, proc, merged, loop, publishing, draining, control,
                      draft, ran, unseen>>
    BY <1>0, <1>2 DEF SubmitTurn, Accept, Refuse, AppendFails, Controlled
  <2> HIDE DEF turn
  <2>11. Lasting'
    BY <1>0, <2>1, <2>2, BoundsNatural, MessageIs DEF Lasting, session, publishing
  <2>12. Queued'
    BY <1>0, <2>1, <2>2 DEF Queued, publishing, TurnRecords
  <2>13. Controlled'
    BY <1>0, <2>1, <2>2 DEF Controlled, draining, control
  <2> QED
    BY <2>11, <2>12, <2>13
<1>3. CASE editMessage(p, shell)
  <2> DEFINE turn == [pendingTurn EXCEPT !.text = {p}, !.input = {p}, !.shell = shell, !.rev = @ + 1]
  <2>1. turn \in TurnRecords
    <3>1. pendingTurn \in TurnRecords
      BY <1>0 DEF Queued
    <3> QED
      BY <1>0, <3>1, MessageTyped
  <2>2. /\ RecordMessage(turn) /\ fate' = [Discard("replaced") EXCEPT ![p] = "accepted"]
        /\ pendingTurn' \in {pendingTurn, turn} /\ draft' \in {draft, NoTurn} /\ failed' \in BOOLEAN
        /\ UNCHANGED <<settled, session, proc, merged, turns, outstanding, nextTurnID, loop,
                      publishing, draining, control, ran, unseen>>
    BY <1>0, <1>3 DEF editMessage, RecordEdit, AppendFails, Controlled
  <2> HIDE DEF turn
  <2>11. Lasting'
    BY <1>0, <2>1, <2>2, BoundsNatural, MessageIs, Nothing DEF Lasting, session, publishing, Discard
  <2>12. Queued'
    BY <1>0, <2>1, <2>2 DEF Queued, publishing
  <2>13. Controlled'
    BY <1>0, <2>1, <2>2 DEF Controlled, draining, control
  <2> QED
    BY <2>11, <2>12, <2>13
<1> QED
  BY <1>1, <1>2, <1>3 DEF submitParsedMessage

LEMMA LoopTyped ==
  ASSUME TypeInv, LoopSteps
  PROVE  Lasting' /\ Queued' /\ Controlled'
<1>0. Lasting /\ Queued /\ Controlled /\ Given
  BY TypeParts DEF TypeInv
<1>1. CASE ReceiveTurn
  <2>11. Lasting'
    BY <1>0, <1>1, BoundsNatural DEF Lasting, durable, session, history, publishing, ReceiveTurn
  <2>12. Queued'
    BY <1>0, <1>1, Nothing DEF Queued, queueing, publishing, ReceiveTurn, TurnRecords, LoopStates
  <2>13. Controlled'
    BY <1>0, <1>1 DEF Controlled, draining, control, ReceiveTurn
  <2> QED
    BY <2>11, <2>12, <2>13
<1>2. CASE takePendingTurn
  <2>11. Lasting'
    BY <1>0, <1>2, BoundsNatural DEF Lasting, durable, session, history, publishing, takePendingTurn
  <2>12. Queued'
    BY <1>0, <1>2, Nothing DEF Queued, queueing, publishing, takePendingTurn, LoopStates
  <2>13. Controlled'
    BY <1>0, <1>2 DEF Controlled, draining, control, takePendingTurn
  <2> QED
    BY <2>11, <2>12, <2>13
<1>3. CASE ReturnTurn
  <2>11. Lasting'
    BY <1>0, <1>3, BoundsNatural DEF Lasting, durable, session, history, publishing, ReturnTurn
  <2>12. Queued'
    BY <1>0, <1>3, Nothing DEF Queued, queueing, publishing, ReturnTurn, LoopStates, TurnRecords
  <2>13. Controlled'
    BY <1>0, <1>3 DEF Controlled, draining, control, ReturnTurn
  <2> QED
    BY <2>11, <2>12, <2>13
<1>4. CASE ActivateTurn
  <2>11. Lasting'
    <3>1. loop.turn.id \in Turns
      BY <1>0, <1>4, TurnCount DEF ActivateTurn, Given, Queued, Turns, TurnRecords
    <3> QED
      BY <1>0, <1>4, <3>1, BoundsNatural
      DEF Lasting, durable, session, history, publishing, ActivateTurn, LoopStep
  <2>12. Queued'
    BY <1>0, <1>4, QueueIs DEF Queued, queueing, publishing, ActivateTurn, LoopStep, LoopStates
  <2>13. Controlled'
    BY <1>0, <1>4 DEF Controlled, draining, control, ActivateTurn, LoopStep
  <2> QED
    BY <2>11, <2>12, <2>13
<1>5. CASE StartTurn
  <2>11. Lasting'
    BY <1>0, <1>5, BoundsNatural, RecordedIs DEF Lasting, durable, session, history, publishing, StartTurn, LoopStep, Appended, NotAppended, AppendFails, Verdicts
  <2>12. Queued'
    BY <1>0, <1>5 DEF Queued, queueing, publishing, StartTurn, LoopStep, Appended, NotAppended, AppendFails, LoopStates
  <2>13. Controlled'
    BY <1>0, <1>5 DEF Controlled, draining, control, StartTurn, LoopStep, Appended, NotAppended, AppendFails
  <2> QED
    BY <2>11, <2>12, <2>13
<1>6. CASE RunTurn
  <2>11. Lasting'
    BY <1>0, <1>6, BoundsNatural DEF Lasting, durable, session, history, publishing, RunTurn, LoopStep
  <2>12. Queued'
    BY <1>0, <1>6 DEF Queued, queueing, publishing, RunTurn, LoopStep, LoopStates
  <2>13. Controlled'
    BY <1>0, <1>6 DEF Controlled, draining, control, RunTurn, LoopStep
  <2> QED
    BY <2>11, <2>12, <2>13
<1>7. CASE CompleteTurn
  <2>11. Lasting'
    BY <1>0, <1>7, BoundsNatural, RecordedIs DEF Lasting, durable, session, history, publishing, CompleteTurn, LoopStep, Appended, NotAppended, AppendFails, Verdicts
  <2>12. Queued'
    BY <1>0, <1>7 DEF Queued, queueing, publishing, CompleteTurn, LoopStep, Appended, NotAppended, AppendFails, LoopStates
  <2>13. Controlled'
    BY <1>0, <1>7 DEF Controlled, draining, control, CompleteTurn, LoopStep, Appended, NotAppended, AppendFails
  <2> QED
    BY <2>11, <2>12, <2>13
<1>8. CASE DeactivateTurn \/ NextTurn
  <2>11. Lasting'
    BY <1>0, <1>8, BoundsNatural DEF Lasting, durable, session, history, publishing, DeactivateTurn, NextTurn, LoopStep
  <2>12. Queued'
    BY <1>0, <1>8, Nothing DEF Queued, queueing, publishing, DeactivateTurn, NextTurn, LoopStep, LoopStates
  <2>13. Controlled'
    BY <1>0, <1>8 DEF Controlled, draining, control, DeactivateTurn, NextTurn, LoopStep
  <2> QED
    BY <2>11, <2>12, <2>13
<1>9. CASE PublishIdle
  <2>11. Lasting'
    BY <1>0, <1>9, BoundsNatural DEF Lasting, durable, session, history, publishing, PublishIdle, LoopStep
  <2>12. Queued'
    <3>1. completedTurnID' \in Nat
      BY <1>0, <1>9, MarkTyped DEF Queued, PublishIdle
    <3> QED
      BY <1>0, <1>9, <3>1, QueueIs DEF Queued, queueing, publishing, PublishIdle, LoopStep, LoopStates
  <2>13. Controlled'
    BY <1>0, <1>9 DEF Controlled, draining, control, PublishIdle, LoopStep
  <2> QED
    BY <2>11, <2>12, <2>13
<1>10. CASE finishTurn
  <2>11. Lasting'
    BY <1>0, <1>10, BoundsNatural DEF Lasting, durable, session, history, publishing, finishTurn, LoopStep
  <2>12. Queued'
    BY <1>0, <1>10 DEF Queued, queueing, publishing, finishTurn, LoopStep, LoopStates
  <2>13. Controlled'
    BY <1>0, <1>10 DEF Controlled, draining, control, finishTurn, LoopStep
  <2> QED
    BY <2>11, <2>12, <2>13
<1> QED
  BY <1>1, <1>2, <1>3, <1>4, <1>5, <1>6, <1>7, <1>8, <1>9, <1>10 DEF LoopSteps

LEMMA InterruptTyped ==
  ASSUME TypeInv, NEW c \in Clients, AskInterrupt(c) \/ InterruptSettles(c) \/ stopInterruptedTurn(c)
  PROVE  Lasting' /\ Queued' /\ Controlled'
<1>0. Lasting /\ Queued /\ Controlled /\ Given
  BY TypeParts DEF TypeInv
<1>1. CASE AskInterrupt(c)
  <2>11. Lasting'
    BY <1>0, <1>1, BoundsNatural DEF Lasting, durable, session, history, publishing, AskInterrupt
  <2>12. Queued'
    BY <1>0, <1>1 DEF Queued, queueing, publishing, AskInterrupt
  <2>13. Controlled'
    BY <1>0, <1>1 DEF Controlled, draining, control, AskInterrupt, Queued, ActiveTurn, TurnRecords
  <2> QED
    BY <2>11, <2>12, <2>13
<1>2. CASE LockInterrupt(c)
  <2>11. Lasting'
    BY <1>0, <1>2, BoundsNatural, RecordedIs, LockStates DEF Lasting, durable, session, history, publishing, LockInterrupt, Appended, NotAppended, AppendFails
  <2>12. Queued'
    BY <1>0, <1>2 DEF Queued, queueing, publishing, LockInterrupt, Appended, NotAppended, AppendFails
  <2>13. Controlled'
    <3>1. interrupt' \in [Clients -> [at : {"none", "asked", "recorded", "waiting"}, turn : Nat]]
      <4>1. \/ interrupt' = [interrupt EXCEPT ![c].at = "recorded"]
            \/ interrupt' = [interrupt EXCEPT ![c] = NoInterrupt]
        BY <1>2 DEF LockInterrupt, InterruptAt
      <4>2. CASE interrupt' = [interrupt EXCEPT ![c].at = "recorded"]
        BY <1>0, <4>2, InterruptTypes
      <4>3. CASE interrupt' = [interrupt EXCEPT ![c] = NoInterrupt]
        BY <1>0, <4>3 DEF Controlled, NoInterrupt
      <4> QED
        BY <4>1, <4>2, <4>3
    <3> QED
      BY <1>0, <1>2, <3>1 DEF Controlled, draining, control, LockInterrupt, Appended, NotAppended, AppendFails
  <2> QED
    BY <2>11, <2>12, <2>13
<1>3. CASE ProviderInterrupt(c)
  <2>11. Lasting'
    BY <1>0, <1>3, BoundsNatural DEF Lasting, durable, session, history, publishing, ProviderInterrupt
  <2>12. Queued'
    BY <1>0, <1>3 DEF Queued, queueing, publishing, ProviderInterrupt
  <2>13. Controlled'
    BY <1>0, <1>3 DEF Controlled, draining, control, ProviderInterrupt, InterruptAt
  <2> QED
    BY <2>11, <2>12, <2>13
<1>4. CASE InterruptDone(c)
  <2>11. Lasting'
    BY <1>0, <1>4, BoundsNatural DEF Lasting, durable, session, history, publishing, InterruptDone
  <2>12. Queued'
    BY <1>0, <1>4 DEF Queued, queueing, publishing, InterruptDone
  <2>13. Controlled'
    BY <1>0, <1>4 DEF Controlled, draining, control, InterruptDone, NoInterrupt
  <2> QED
    BY <2>11, <2>12, <2>13
<1>5. CASE stopInterruptedTurn(c)
  <2>11. Lasting'
    BY <1>0, <1>5, BoundsNatural DEF Lasting, durable, session, history, publishing, stopInterruptedTurn
  <2>12. Queued'
    BY <1>0, <1>5 DEF Queued, queueing, publishing, stopInterruptedTurn
  <2>13. Controlled'
    <3>1. interrupt' \in [Clients -> [at : {"none", "asked", "recorded", "waiting"}, turn : Nat]]
      <4>1. \/ interrupt' = [interrupt EXCEPT ![c].at = "waiting"]
            \/ interrupt' = [interrupt EXCEPT ![c] = NoInterrupt]
        BY <1>5 DEF stopInterruptedTurn, InterruptAt
      <4>2. CASE interrupt' = [interrupt EXCEPT ![c].at = "waiting"]
        BY <1>0, <4>2, InterruptTypes
      <4>3. CASE interrupt' = [interrupt EXCEPT ![c] = NoInterrupt]
        BY <1>0, <4>3 DEF Controlled, NoInterrupt
      <4> QED
        BY <4>1, <4>2, <4>3
    <3> QED
      BY <1>0, <1>5, <3>1 DEF Controlled, draining, control, stopInterruptedTurn
  <2> QED
    BY <2>11, <2>12, <2>13
<1> QED
  BY <1>1, <1>2, <1>3, <1>4, <1>5 DEF InterruptSettles

LEMMA ControllerTyped ==
  ASSUME TypeInv, ControllerStep \/ PublishStatus \/ PeriodicPublish \/ observeSessionUpdate \/ sessionDrainReports \/ reportSessionUpdate
  PROVE  Lasting' /\ Queued' /\ Controlled'
<1>0. Lasting /\ Queued /\ Controlled /\ Given
  BY TypeParts DEF TypeInv
<1>1. CASE ControllerStep
  <2>11. Lasting'
    <3>1. PICK k \in Kinds : AskDrain(k) \/ WithdrawDrain(k)
      BY <1>1 DEF ControllerStep
    <3>2. report' \in [Kinds -> [id : Int, drained : BOOLEAN]]
      <4>1. report' = report \/ report' = [report EXCEPT ![k] = NoReport]
        BY <3>1 DEF AskDrain, WithdrawDrain
      <4>2. NoReport \in [id : Int, drained : BOOLEAN]
        BY DEF NoReport
      <4> QED
        BY <1>0, <4>1, <4>2 DEF Lasting
    <3>3. asked' \in [Kinds -> Nat] /\ minted' \in 0 .. MaxRequests
      BY <1>0, <3>1, BoundsNatural DEF Lasting, AskDrain, WithdrawDrain
    <3> QED
      BY <1>0, <3>1, <3>2, <3>3 DEF Lasting, durable, history, publishing, AskDrain, WithdrawDrain
  <2>12. Queued'
    BY <1>0, <1>1 DEF Queued, queueing, publishing, ControllerStep, AskDrain, WithdrawDrain
  <2>13. Controlled'
    BY <1>0, <1>1 DEF Controlled, draining, control, ControllerStep, AskDrain, WithdrawDrain
  <2> QED
    BY <2>11, <2>12, <2>13
<1>2. CASE PublishStatus
  <2>11. Lasting'
    <3>1. settled' \in Nat
      BY <1>0, <1>2, PublishedTyped DEF Lasting, Queued, PublishStatus, recordSettledActivity
    <3> QED
      BY <1>0, <1>2, <3>1 DEF Lasting, session, PublishStatus
  <2>12. Queued'
    BY <1>0, <1>2, HeadTailProperties DEF Queued, queueing, publishing, PublishStatus
  <2>13. Controlled'
    BY <1>0, <1>2 DEF Controlled, draining, control, PublishStatus, Requested
  <2> QED
    BY <2>11, <2>12, <2>13
<1>3. CASE PeriodicPublish
  <2>11. Lasting'
    BY <1>0, <1>3, BoundsNatural DEF Lasting, durable, session, history, publishing, PeriodicPublish
  <2>12. Queued'
    BY <1>0, <1>3, QueueIs DEF Queued, queueing, publishing, PeriodicPublish, ActiveTurn
  <2>13. Controlled'
    BY <1>0, <1>3 DEF Controlled, draining, control, PeriodicPublish
  <2> QED
    BY <2>11, <2>12, <2>13
<1>4. CASE observeSessionUpdate
  <2>11. Lasting'
    BY <1>0, <1>4, BoundsNatural DEF Lasting, durable, session, history, publishing, observeSessionUpdate
  <2>12. Queued'
    BY <1>0, <1>4 DEF Queued, queueing, publishing, observeSessionUpdate
  <2>13. Controlled'
    BY <1>0, <1>4 DEF Controlled, draining, control, observeSessionUpdate, Lasting
  <2> QED
    BY <2>11, <2>12, <2>13
<1>5. CASE sessionDrainReports
  <2>11. Lasting'
    BY <1>0, <1>5, BoundsNatural DEF Lasting, durable, session, history, publishing, sessionDrainReports
  <2>12. Queued'
    BY <1>0, <1>5 DEF Queued, queueing, publishing, sessionDrainReports
  <2>13. Controlled'
    <3>1. \A k \in Kinds : drainReport(request[k], k, outstanding, publishQueue)
                             \in [id : Int, drained : BOOLEAN]
      BY <1>0, ReportIs DEF Controlled
    <3> QED
      BY <1>0, <1>5, <3>1 DEF Controlled, control, sessionDrainReports
  <2> QED
    BY <2>11, <2>12, <2>13
<1>6. CASE reportSessionUpdate
  <2>11. Lasting'
    BY <1>0, <1>6, BoundsNatural DEF Lasting, durable, session, history, publishing, reportSessionUpdate, Controlled
  <2>12. Queued'
    BY <1>0, <1>6 DEF Queued, queueing, publishing, reportSessionUpdate
  <2>13. Controlled'
    BY <1>0, <1>6, Nothing DEF Controlled, draining, control, reportSessionUpdate
  <2> QED
    BY <2>11, <2>12, <2>13
<1> QED
  BY <1>1, <1>2, <1>3, <1>4, <1>5, <1>6

LEMMA ClientTyped ==
  ASSUME TypeInv, ClientStep
  PROVE  Lasting' /\ Queued' /\ Controlled'
<1>0. Lasting /\ Queued /\ Controlled /\ Given
  BY TypeParts DEF TypeInv
<1>1. CASE \E p \in Prompts, shell \in Shells : submitParsedMessage(p, shell) \/ editMessage(p, shell)
  BY <1>1, PromptTyped
<1>2. CASE OpenDraft \/ DraftRefused
  <2>11. Lasting'
    BY <1>0, <1>2, BoundsNatural DEF Lasting, durable, session, history, publishing, OpenDraft, DraftRefused, Queued
  <2>12. Queued'
    BY <1>0, <1>2 DEF Queued, queueing, publishing, OpenDraft, DraftRefused
  <2>13. Controlled'
    BY <1>0, <1>2 DEF Controlled, draining, control, OpenDraft, DraftRefused, AppendFails
  <2> QED
    BY <2>11, <2>12, <2>13
<1>3. CASE removePendingMessage
  <2>11. Lasting'
    BY <1>0, <1>3, BoundsNatural, RecordedIs, Nothing DEF Lasting, durable, session, history, publishing, removePendingMessage, RecordRemoval, Discard, Verdicts
  <2>12. Queued'
    <3>1. completedTurnID' \in Nat
      BY <1>0, <1>3, MarkTyped DEF Queued, removePendingMessage
    <3>2. publishQueue' \in Seq(Publications)
      BY <1>0, <1>3, <3>1, QueueIs DEF Queued, removePendingMessage
    <3> QED
      BY <1>0, <1>3, <3>1, <3>2, Nothing, TurnCount DEF Queued, removePendingMessage
  <2>13. Controlled'
    BY <1>0, <1>3 DEF Controlled, draining, control, removePendingMessage, Requested
  <2> QED
    BY <2>11, <2>12, <2>13
<1>4. CASE RemovalRefused
  <2>11. Lasting'
    BY <1>0, <1>4, BoundsNatural, RecordedIs DEF Lasting, durable, session, history, publishing, RemovalRefused, RecordRemoval, Discard, Verdicts
  <2>12. Queued'
    BY <1>0, <1>4 DEF Queued, queueing, publishing, RemovalRefused
  <2>13. Controlled'
    BY <1>0, <1>4 DEF Controlled, draining, control, RemovalRefused, AppendFails
  <2> QED
    BY <2>11, <2>12, <2>13
<1> QED
  BY <1>1, <1>2, <1>3, <1>4 DEF ClientStep

\* A turn as the journal has it, and the one that recovery ends with.
LEMMA FromJournalTyped ==
  ASSUME journal \in [Turns -> Records], NEW t \in Turns
  PROVE  FromJournal(t) \in TurnRecords
<1>1. t \in 0 .. Cardinality(Prompts)
  BY TurnCount DEF Turns
<1> QED
  BY <1>1 DEF FromJournal, TurnRecords, Records

LEMMA InStateIs == \A S : InState(S) \in SUBSET Turns /\ Unstarted \in SUBSET Turns
BY DEF InState, Unstarted

LEMMA RecoveredTyped ==
  ASSUME journal \in [Turns -> Records], merged \in TurnRecords
  PROVE  Recovered \in TurnRecords
<1>1. CASE merged # NoTurn
  BY <1>1 DEF Recovered, TurnRecords
<1>2. CASE merged = NoTurn /\ Unstarted # {}
  BY <1>2, InStateIs, FirstIs, FromJournalTyped DEF Recovered
<1>3. CASE merged = NoTurn /\ Unstarted = {}
  BY <1>3, Nothing DEF Recovered
<1> QED
  BY <1>1, <1>2, <1>3

\* There are two turns to merge.
LEMMA TwoUnstarted ==
  ASSUME Cardinality(Unstarted) > 1
  PROVE  Unstarted # {} /\ Unstarted \ {First(Unstarted)} # {}
<1>1. Unstarted # {}
  BY FS_EmptySet
<1>2. ASSUME Unstarted \ {First(Unstarted)} = {} PROVE FALSE
  <2>1. Unstarted = {First(Unstarted)}
    BY <1>1, <1>2
  <2>2. Cardinality({First(Unstarted)}) = 1
    BY FS_Singleton
  <2> QED
    BY <2>1, <2>2
<1> QED
  BY <1>1, <1>2

LEMMA RecoveryTyped ==
  ASSUME TypeInv, RecoveryStep
  PROVE  Lasting' /\ Queued' /\ Controlled'
<1> USE DEF Lasting, Queued, Controlled, durable, session, queueing, publishing, draining,
            control, history
<1>0. Lasting /\ Queued /\ Controlled /\ Given
  BY TypeParts DEF TypeInv
<1>1. CASE RecoverStarted
  BY <1>0, <1>1, RecordedIs DEF RecoverStarted, Verdicts
<1>2. CASE RecoverMerge
  <2> DEFINE first == First(Unstarted)
             next == First(Unstarted \ {first})
             turn == IF merged = NoTurn THEN FromJournal(first) ELSE merged
  <2>1. first \in Turns /\ next \in Turns
    BY <1>2, TwoUnstarted, InStateIs, FirstIs DEF RecoverMerge
  <2>2. turn \in TurnRecords
    BY <1>0, <2>1, FromJournalTyped
  <2>3. Recorded(next, "merged")
    BY <1>2 DEF RecoverMerge
  <2>4. journal' \in [Turns -> Records]
    BY <1>0, <2>3, RecordedIs DEF Verdicts
  <2>5. merged' = [turn EXCEPT !.text = @ \union journal[next].text,
                               !.input = IF turn.shell THEN @ ELSE @ \union journal[next].text]
    BY <1>2 DEF RecoverMerge
  <2>6. journal[next].text \in SUBSET Prompts
    BY <1>0, <2>1 DEF Records
  <2> HIDE DEF first, next, turn
  <2>7. merged' \in TurnRecords
    BY <2>2, <2>5, <2>6 DEF TurnRecords
  <2> QED
    BY <1>0, <1>2, <2>4, <2>7 DEF RecoverMerge
<1>3. CASE RecoverServe
  <2> DEFINE over == InState({"done", "interrupted", "removed", "merged"})
             seed == IF nextTurnID' > settled THEN <<[active |-> TRUE, settledTurnID |-> 0]>> ELSE <<>>
  <2>1. Recovered \in TurnRecords
    BY <1>0, RecoveredTyped
  <2>2. journal' \in [Turns -> Records]
    BY <1>0, <1>3, <2>1, MessageIs DEF RecoverServe
  <2>3. nextTurnID' \in 0 .. Cardinality(Prompts) /\ completedTurnID' \in Nat
    <3>1. over \in SUBSET Turns /\ Turns \ InState({"none"}) \in SUBSET Turns
      BY InStateIs
    <3>2. nextTurnID' = Highest(Turns \ InState({"none"})) /\ completedTurnID' = Highest(over)
      BY <1>3 DEF RecoverServe
    <3> HIDE DEF over
    <3> QED
      BY <3>1, <3>2, HighestIs, TurnCount
  <2>4. seed \in Seq(Publications)
    <3>1. [active |-> TRUE, settledTurnID |-> 0] \in Publications
      BY DEF Publications
    <3> QED
      BY <3>1, EmptySeq
  <2>5. report' \in [Kinds -> [id : Int, drained : BOOLEAN]]
    <3>1. report' = [k \in Kinds |-> drainReport(asked[k], k, outstanding', seed)]
      BY <1>3 DEF RecoverServe
    <3> HIDE DEF seed
    <3> QED
      BY <1>0, <3>1 DEF drainReport, NoReport
  <2>6. publishQueue' = seed /\ pendingTurn' = Recovered /\ turns' = Recovered.id
        /\ outstanding' = (IF Recovered = NoTurn THEN 0 ELSE 1)
        /\ merged' = NoTurn /\ request' = asked /\ signal' = (asked # NoRequest)
        /\ proc' = "starting"
    BY <1>3 DEF RecoverServe
  <2>7. UNCHANGED <<settled, asked, minted, ticks, loop, patch, control, failed, draft, history>>
    BY <1>3 DEF RecoverServe
  <2>8. turns' \in 0 .. Cardinality(Prompts)
    BY <2>1, <2>6 DEF TurnRecords
  <2> HIDE DEF over, seed
  <2> QED
    BY <1>0, <2>1, <2>2, <2>3, <2>4, <2>5, <2>6, <2>7, <2>8, Nothing
<1>4. CASE Serve
  BY <1>0, <1>4, QueueIs DEF Serve, ActiveTurn
<1> QED
  BY <1>1, <1>2, <1>3, <1>4 DEF RecoveryStep

LEMMA ExitTyped ==
  ASSUME TypeInv, Exit
  PROVE  Lasting' /\ Queued' /\ Controlled'
<1>0. Lasting /\ Queued /\ Controlled /\ Given
  BY TypeParts DEF TypeInv
<1>1. Cardinality(Prompts) \in Nat
  BY TurnCount
<1>2. Lasting'
  BY <1>0, BoundsNatural DEF Exit, Lasting, durable, session, history
<1>3. Queued'
  BY <1>0, <1>1, Nothing, EmptySeq DEF Exit, Queued
<1>4. Controlled'
  BY <1>0, Nothing DEF Exit, Controlled, NoInterrupt
<1> QED
  BY <1>2, <1>3, <1>4

\* What keeps the IDs counted.
LEMMA CountKept ==
  ASSUME TypeInv, Lasting', fate' = fate, nextTurnID' \in {0, nextTurnID},
         \A t \in Turns : journal'[t].state # "none" => journal[t].state # "none" \/ t <= nextTurnID
  PROVE  Counted'
<1>1. Sent' = Sent
  BY DEF Sent
<1>2. Cardinality(Sent)' = Cardinality(Sent)
  BY <1>1
<1>3. Cardinality(Sent) \in Nat /\ nextTurnID \in Nat /\ Turns \in SUBSET Nat
  BY <1>1, SentGrows, TypeParts, TurnCount DEF TypeInv, Queued
<1> QED
  <2>1. \A t \in Turns : journal'[t].state # "none" => t <= Cardinality(Sent)
    BY <1>3 DEF Counted, TypeInv
  <2>2. nextTurnID' <= Cardinality(Sent)
    BY <1>3 DEF Counted, TypeInv
  <2> QED
    BY <1>2, <2>1, <2>2 DEF Counted

LEMMA LoopKnown ==
  ASSUME TypeInv, LoopSteps, Lasting', Queued'
  PROVE  Counted' /\ Given' /\ Known' /\ Blank'
<1>0. Lasting /\ Queued /\ Counted /\ Given /\ Known /\ Blank /\ Turns \in SUBSET Nat
  BY TypeParts, TurnCount DEF TypeInv
<1>1. /\ Up /\ fate' = fate /\ nextTurnID' = nextTurnID /\ proc' = proc /\ merged' = merged
      /\ \/ journal' = journal
         \/ \E state \in {"started", "done", "interrupted"} :
              Recorded(loop.turn.id, state) /\ loop.turn.id <= nextTurnID
  BY <1>0 DEF LoopSteps, ReceiveTurn, takePendingTurn, ReturnTurn, ActivateTurn, StartTurn, RunTurn,
     CompleteTurn, DeactivateTurn, PublishIdle, finishTurn, NextTurn, Appended, NotAppended,
     durable, queueing, history, Given
<1>2. \A t \in Turns : journal'[t].state # "none" => journal[t].state # "none" \/ t <= nextTurnID
  BY <1>0, <1>1, RecordedIs DEF Lasting, Verdicts
<1>3. Counted'
  BY <1>1, <1>2, CountKept
<1>4. Known' /\ Blank'
  <2>1. merged' = NoTurn
    BY <1>0, <1>1 DEF Blank
  <2>2. Up'
    BY <1>1 DEF Up
  <2>3. NoTurn.id \notin Turns
    BY Nothing, TurnCount DEF Turns
  <2> QED
    BY <1>0, <1>1, <1>2, <2>1, <2>2, <2>3 DEF Known, Blank
<1>5. Given'
  <2>0. turns \in Nat /\ nextTurnID \in Nat /\ pendingTurn.id \in Nat /\ loop.turn.id \in Nat
    BY <1>0, TurnCount DEF Queued, TurnRecords
  <2>1. CASE ReceiveTurn
    <3>1. loop'.at = "received" /\ loop'.turn.id = turns /\ turns # 0 /\ turns' = 0
          /\ UNCHANGED <<pendingTurn, nextTurnID>>
      BY <2>1 DEF ReceiveTurn, Idle, NoTurn
    <3> QED
      BY <1>0, <2>0, <3>1 DEF Given
  <2>2. CASE takePendingTurn
    <3>1. CASE pendingTurn.id = loop.turn.id
      <4>1. /\ loop'.at = "taken" /\ loop'.turn = pendingTurn /\ pendingTurn' = NoTurn
            /\ UNCHANGED <<turns, nextTurnID>> /\ loop.at = "received"
        BY <1>0, <2>2, <3>1 DEF takePendingTurn, Queued
      <4> QED
        BY <1>0, <2>0, <3>1, <4>1, Nothing DEF Given
    <3>2. CASE pendingTurn.id # loop.turn.id
      BY <1>0, <2>0, <2>2, <3>2, Nothing DEF takePendingTurn, Given
    <3> QED
      BY <3>1, <3>2
  <2>3. CASE ReturnTurn
    BY <1>0, <2>0, <2>3, Nothing DEF ReturnTurn, Given
  <2>4. CASE ActivateTurn \/ StartTurn \/ RunTurn \/ CompleteTurn \/ DeactivateTurn \/ PublishIdle
    <3>1. /\ UNCHANGED queueing /\ loop'.turn = loop.turn
          /\ loop.at \notin {"idle", "stopped"}
      BY <1>0, <2>4 DEF ActivateTurn, StartTurn, RunTurn, CompleteTurn, DeactivateTurn, PublishIdle, LoopStep, Queued
    <3> QED
      BY <1>0, <3>1 DEF Given, queueing
  <2>5. CASE finishTurn
    BY <1>0, <2>0, <2>5 DEF finishTurn, LoopStep, Given, Queued
  <2>6. CASE NextTurn
    BY <1>0, <2>0, <2>6, Nothing DEF NextTurn, Given, queueing
  <2> QED
    BY <2>1, <2>2, <2>3, <2>4, <2>5, <2>6 DEF LoopSteps
<1> QED
  BY <1>3, <1>4, <1>5

\* What the other steps of a process that is up leave alone.
LEMMA OthersKnown ==
  ASSUME TypeInv, Lasting', UNCHANGED <<fate, nextTurnID, merged, pendingTurn, turns>>,
         loop'.turn = loop.turn, loop'.at = loop.at,
         \A t \in Turns : journal'[t].state # "none" <=> journal[t].state # "none",
         Up' <=> Up,
         Up \/ UNCHANGED <<loop, outstanding, completedTurnID, publishQueue, request, signal, patch,
                           stopping, failed, interrupt>>
  PROVE  Counted' /\ Given' /\ Known' /\ Blank'
<1>1. Counted'
  BY CountKept
<1>2. Given' /\ Known' /\ Blank'
  BY DEF TypeInv, Given, Known, Blank
<1> QED
  BY <1>1, <1>2

LEMMA InterruptKnown ==
  ASSUME TypeInv, InterruptStep, Lasting'
  PROVE  Counted' /\ Given' /\ Known' /\ Blank'
<1>0. Lasting /\ Queued /\ Turns \in SUBSET Nat
  BY TypeParts, TurnCount DEF TypeInv
<1>1. PICK c \in Clients : AskInterrupt(c) \/ InterruptSettles(c) \/ stopInterruptedTurn(c)
  BY DEF InterruptStep
<1>2. /\ proc = "serving" /\ UNCHANGED <<proc, fate, nextTurnID, merged, pendingTurn, turns>>
      /\ loop'.turn = loop.turn /\ loop'.at = loop.at
  BY <1>0, <1>1 DEF AskInterrupt, InterruptSettles, LockInterrupt, ProviderInterrupt, InterruptDone,
     stopInterruptedTurn, queueing, history, Queued
<1>3. \A t \in Turns : journal'[t].state # "none" <=> journal[t].state # "none"
  BY <1>0, <1>1 DEF AskInterrupt, InterruptSettles, LockInterrupt, ProviderInterrupt, InterruptDone,
     stopInterruptedTurn, durable, Lasting, Appended, NotAppended, Recorded, Records
<1> QED
  BY <1>2, <1>3, OthersKnown DEF Up
LEMMA ControlKnown ==
  ASSUME TypeInv, Lasting',
         \/ ControllerStep \/ PublishStatus \/ PeriodicPublish \/ observeSessionUpdate
         \/ sessionDrainReports \/ reportSessionUpdate \/ Serve
  PROVE  Counted' /\ Given' /\ Known' /\ Blank'
<1>1. /\ UNCHANGED <<journal, fate, nextTurnID, merged, pendingTurn, turns, loop>>
      /\ Up' <=> Up
      /\ \/ Up
         \/ UNCHANGED <<outstanding, completedTurnID, publishQueue, request, signal, patch,
                        stopping, failed, interrupt>>
  BY DEF ControllerStep, AskDrain, WithdrawDrain, PublishStatus, PeriodicPublish,
     observeSessionUpdate, sessionDrainReports, reportSessionUpdate, Serve, Up,
     durable, queueing, publishing, draining, control, history
<1> QED
  BY <1>1, OthersKnown

LEMMA PromptKnown ==
  ASSUME TypeInv, Lasting', Queued', NEW p \in Prompts, NEW shell \in Shells,
         submitParsedMessage(p, shell) \/ editMessage(p, shell)
  PROVE  Counted' /\ Given' /\ Known' /\ Blank'
<1>0. /\ Lasting /\ Queued /\ Controlled /\ Counted /\ Given /\ Known /\ Blank
      /\ Turns \in SUBSET Nat /\ shell \in BOOLEAN
  BY TypeParts, TurnCount DEF TypeInv, Shells
<1>1. /\ turns \in Nat /\ nextTurnID \in Nat /\ pendingTurn.id \in Nat /\ loop.turn.id \in Nat
  BY <1>0, TurnCount DEF Queued, TurnRecords
<1>2. /\ fate[p] = "unsent" /\ proc = "serving"
      /\ UNCHANGED <<proc, merged, loop>>
      /\ \A q \in Prompts : fate[q] # "unsent" => fate'[q] # "unsent"
      /\ fate'[p] # "unsent"
  <2>1. CASE AppendToPending(p) \/ SubmitTurn(p, shell)
    BY <1>0, <2>1 DEF AppendToPending, SubmitTurn, Accepting, Accept, Refuse, Lasting
  <2>2. CASE editMessage(p, shell)
    BY <1>0, <2>2 DEF editMessage, DraftCurrent, RecordEdit, Discard, Lasting
  <2> QED
    BY <2>1, <2>2 DEF submitParsedMessage
<1>3. /\ Cardinality(Sent) \in Nat /\ Cardinality(Sent)' \in Nat
      /\ Cardinality(Sent) + 1 <= Cardinality(Sent)'
  <2>1. Sent \in SUBSET Sent' /\ p \in Sent' /\ p \notin Sent
    BY <1>2 DEF Sent
  <2> QED
    BY <1>0, <2>1, SentGrows
<1>4. /\ nextTurnID' \in {nextTurnID, nextTurnID + 1} /\ turns' \in {turns, nextTurnID'}
      /\ pendingTurn'.id \in {pendingTurn.id, nextTurnID'}
  <2>1. CASE AppendToPending(p)
    BY <1>0, <2>1 DEF AppendToPending, Queued, TurnRecords
  <2>2. CASE SubmitTurn(p, shell)
    BY <1>0, <2>2 DEF SubmitTurn
  <2>3. CASE editMessage(p, shell)
    BY <1>0, <2>3 DEF editMessage, Queued, TurnRecords
  <2> QED
    BY <2>1, <2>2, <2>3 DEF submitParsedMessage
<1>5. \A t \in Turns : journal'[t].state # "none" =>
        journal[t].state # "none" \/ (t \in {pendingTurn.id, nextTurnID + 1} /\ t <= nextTurnID')
  <2>1. \/ journal' = journal
        \/ \E turn : RecordMessage(turn) /\ turn.id \in {pendingTurn.id, nextTurnID + 1}
                     /\ turn.id <= nextTurnID'
    <3>1. CASE AppendToPending(p)
      <4> DEFINE turn == [pendingTurn EXCEPT !.text = @ \union {p}, !.input = @ \union {p}, !.rev = @ + 1]
      <4>1. RecordMessage(turn) \/ journal' = journal
        BY <3>1 DEF AppendToPending, Accept, Refuse
      <4>2. turn.id = pendingTurn.id /\ pendingTurn.id <= nextTurnID'
        BY <1>0, <3>1 DEF AppendToPending, Given, Queued, TurnRecords
      <4> QED
        BY <4>1, <4>2
    <3>2. CASE SubmitTurn(p, shell)
      BY <1>0, <1>1, <3>2 DEF SubmitTurn, Accept, Refuse
    <3>3. CASE editMessage(p, shell)
      <4> DEFINE turn == [pendingTurn EXCEPT !.text = {p}, !.input = {p}, !.shell = shell, !.rev = @ + 1]
      <4>1. RecordMessage(turn)
        BY <3>3 DEF editMessage, RecordEdit
      <4>2. turn.id = pendingTurn.id /\ pendingTurn.id <= nextTurnID'
        BY <1>0, <3>3 DEF editMessage, Given, Queued, TurnRecords
      <4> QED
        BY <4>1, <4>2
    <3> QED
      BY <3>1, <3>2, <3>3 DEF submitParsedMessage
  <2> QED
    <3>1. CASE journal' = journal
      BY <3>1
    <3>2. ASSUME NEW turn, RecordMessage(turn), turn.id \in {pendingTurn.id, nextTurnID + 1},
                 turn.id <= nextTurnID'
          PROVE  \A t \in Turns : journal'[t].state # "none" =>
                   journal[t].state # "none" \/ (t \in {pendingTurn.id, nextTurnID + 1} /\ t <= nextTurnID')
      <4>1. \A t \in Turns : t # turn.id => journal'[t] = journal[t]
        BY <1>0, <3>2 DEF RecordMessage, Lasting
      <4> QED
        BY <3>2, <4>1
    <3> QED
      BY <2>1, <3>1, <3>2
<1>6. Counted'
  <2>1. nextTurnID' <= Cardinality(Sent)'
    BY <1>0, <1>1, <1>3, <1>4 DEF Counted
  <2>2. \A t \in Turns : journal'[t].state # "none" => t <= Cardinality(Sent)'
    BY <1>0, <1>1, <1>3, <1>4, <1>5, <2>1 DEF Counted
  <2> QED
    BY <2>1, <2>2 DEF Counted
<1>7. Given'
  BY <1>0, <1>1, <1>2, <1>4 DEF Given
<1>8. merged' = NoTurn /\ Up' /\ Up
  BY <1>0, <1>2 DEF Blank, Up
<1>9. Known' /\ Blank'
  <2>1. NoTurn.id \notin Turns
    BY Nothing, TurnCount DEF Turns
  <2>2. \A t \in Turns : journal'[t].state # "none" => t <= nextTurnID'
    <3> TAKE t \in Turns
    <3> HAVE journal'[t].state # "none"
    <3>1. CASE t <= nextTurnID'
      BY <3>1
    <3>2. CASE journal[t].state # "none"
      <4>1. t <= nextTurnID /\ t \in Nat
        BY <1>0, <1>8, <3>2 DEF Known
      <4> QED
        BY <1>1, <1>4, <4>1
    <3> QED
      BY <1>5, <3>1, <3>2
  <2> QED
    BY <1>8, <2>1, <2>2 DEF Known, Blank
<1> QED
  BY <1>6, <1>7, <1>9

LEMMA RemovalKnown ==
  ASSUME TypeInv, Lasting', Queued',
         OpenDraft \/ DraftRefused \/ removePendingMessage \/ RemovalRefused
  PROVE  Counted' /\ Given' /\ Known' /\ Blank'
<1>0. /\ Lasting /\ Queued /\ Controlled /\ Counted /\ Given /\ Known /\ Blank
      /\ Turns \in SUBSET Nat
  BY TypeParts, TurnCount DEF TypeInv
<1>1. CASE OpenDraft \/ DraftRefused
  <2>1. /\ UNCHANGED <<journal, fate, nextTurnID, merged, pendingTurn, turns, loop, proc>> /\ Up
    BY <1>1 DEF OpenDraft, DraftRefused, DraftCurrent, Up, durable, queueing, history
  <2> QED
    BY <1>0, <2>1, OthersKnown DEF Up
<1>2. CASE removePendingMessage \/ RemovalRefused
  <2>1. /\ turns \in Nat /\ nextTurnID \in Nat /\ pendingTurn.id \in Nat
    BY <1>0, TurnCount DEF Queued, TurnRecords
  <2>2. /\ UNCHANGED <<nextTurnID, merged, loop, proc>> /\ Up /\ Up'
        /\ Recorded(pendingTurn.id, "removed") /\ fate' = Discard("removed")
        /\ turns' \in {0, turns} /\ pendingTurn' \in {NoTurn, pendingTurn}
    BY <1>2 DEF removePendingMessage, RemovalRefused, DraftCurrent, RecordRemoval, Up, queueing
  <2>3. \A t \in Turns : journal'[t].state # "none" =>
          journal[t].state # "none" \/ t <= nextTurnID
    BY <1>0, <2>2, RecordedIs DEF Lasting, Given, Verdicts
  <2>4. Sent \in SUBSET Sent'
    BY <2>2 DEF Sent, Discard
  <2>5. /\ Cardinality(Sent) \in Nat /\ Cardinality(Sent)' \in Nat
        /\ Cardinality(Sent) <= Cardinality(Sent)'
    BY <1>0, <2>4, SentGrows
  <2>6. Counted'
    <3>1. nextTurnID' <= Cardinality(Sent)'
      BY <1>0, <2>1, <2>2, <2>5 DEF Counted
    <3>2. \A t \in Turns : journal'[t].state # "none" => t <= Cardinality(Sent)'
      BY <1>0, <2>1, <2>2, <2>3, <2>5, <3>1 DEF Counted
    <3> QED
      BY <3>1, <3>2 DEF Counted
  <2>7. Given'
    BY <1>0, <2>1, <2>2, Nothing DEF Given
  <2>8. Known' /\ Blank'
    <3>1. NoTurn.id \notin Turns
      BY Nothing, TurnCount DEF Turns
    <3>2. \A t \in Turns : journal'[t].state # "none" => t <= nextTurnID'
      BY <1>0, <2>1, <2>2, <2>3 DEF Known
    <3> QED
      BY <1>0, <2>2, <3>1, <3>2 DEF Known, Blank
  <2> QED
    BY <2>6, <2>7, <2>8
<1> QED
  BY <1>1, <1>2

LEMMA RecoveryKnown ==
  ASSUME TypeInv, Lasting', Queued', RecoverStarted \/ RecoverMerge \/ RecoverServe
  PROVE  Counted' /\ Given' /\ Known' /\ Blank'
<1>0. /\ Lasting /\ Queued /\ Controlled /\ Counted /\ Given /\ Known /\ Blank
      /\ Turns \in SUBSET Nat /\ ~Up /\ fate' = fate
  BY TypeParts, TurnCount DEF TypeInv, RecoverStarted, RecoverMerge, RecoverServe, Up, history
<1>1. CASE RecoverStarted
  <2> DEFINE t0 == First(InState({"started"}))
  <2>1. t0 \in Turns /\ journal[t0].state = "started"
    <3>1. InState({"started"}) \in SUBSET Turns /\ InState({"started"}) # {}
      BY <1>1 DEF InState, RecoverStarted
    <3>2. t0 \in InState({"started"})
      BY <3>1, FirstIs
    <3> QED
      BY <3>2 DEF InState
  <2>2. Recorded(t0, "interrupted") /\ UNCHANGED <<proc, merged, nextTurnID, turns, pendingTurn, loop>>
        /\ UNCHANGED <<outstanding, completedTurnID, publishQueue, request, signal, patch, stopping, failed, interrupt>>
    BY <1>1 DEF RecoverStarted, queueing, publishing, draining, control
  <2> HIDE DEF t0
  <2>3. \A t \in Turns : journal'[t].state # "none" <=> journal[t].state # "none"
    BY <1>0, <2>1, <2>2, RecordedIs DEF Lasting, Verdicts
  <2> QED
    BY <1>0, <2>2, <2>3, OthersKnown DEF Up
<1>2. CASE RecoverMerge
  <2> DEFINE first == First(Unstarted)
             next == First(Unstarted \ {first})
             turn == IF merged = NoTurn THEN FromJournal(first) ELSE merged
  <2>1. /\ first \in Turns /\ next \in Turns
        /\ journal[first].state = "unstarted" /\ journal[next].state = "unstarted"
    <3>1. first \in Unstarted /\ next \in Unstarted
      BY <1>2, TwoUnstarted, InStateIs, FirstIs DEF RecoverMerge
    <3> QED
      BY <3>1 DEF Unstarted, InState
  <2>2. Recorded(next, "merged") /\ UNCHANGED <<proc, nextTurnID, turns, pendingTurn, loop>>
        /\ UNCHANGED <<outstanding, completedTurnID, publishQueue, request, signal, patch, stopping, failed, interrupt>>
    BY <1>2 DEF RecoverMerge, queueing, publishing, draining, control
  <2>3. \A t \in Turns : journal'[t].state # "none" <=> journal[t].state # "none"
    BY <1>0, <2>1, <2>2, RecordedIs DEF Lasting, Verdicts
  <2>4. merged'.id = turn.id /\ turn.id \in {first, merged.id}
    <3>1. merged' = [turn EXCEPT !.text = @ \union journal[next].text,
                               !.input = IF turn.shell THEN @ ELSE @ \union journal[next].text]
      BY <1>2 DEF RecoverMerge
    <3>2. turn \in TurnRecords
      BY <1>0, <2>1, FromJournalTyped DEF Lasting, Queued
    <3>3. turn.id \in {first, merged.id}
      BY DEF FromJournal
    <3> HIDE DEF turn, next, first
    <3> QED
      BY <3>1, <3>2, <3>3 DEF TurnRecords
  <2>5. merged'.id \in Turns => journal'[merged'.id].state # "none"
    BY <1>0, <2>1, <2>3, <2>4 DEF Known
  <2>6. Counted'
    BY <1>0, <2>2, <2>3, CountKept
  <2> HIDE DEF first, next, turn
  <2> QED
    BY <1>0, <2>2, <2>5, <2>6 DEF Given, Known, Blank, Up
<1>3. CASE RecoverServe
  <2> DEFINE S == Turns \ InState({"none"})
  <2>1. S \in SUBSET Turns /\ \A t \in Turns : t \in S <=> journal[t].state # "none"
    BY DEF InState
  <2>2. /\ Highest(S) \in 0 .. Cardinality(Prompts)
        /\ \A u \in S : u <= Highest(S)
        /\ Highest(S) # 0 => Highest(S) \in S
    BY <2>1, HighestIs
  <2>3. /\ nextTurnID' = Highest(S) /\ merged' = NoTurn /\ pendingTurn' = Recovered
        /\ turns' = Recovered.id /\ UNCHANGED loop /\ proc' = "starting"
        /\ IF merged = NoTurn THEN UNCHANGED journal ELSE RecordMessage(Recovered)
    BY <1>3 DEF RecoverServe
  <2>4. Recovered \in TurnRecords
    BY <1>0, RecoveredTyped DEF Lasting, Queued
  <2>5. Recovered.id \in Turns => journal[Recovered.id].state # "none"
    <3>1. CASE merged # NoTurn
      <4>1. Recovered.id = merged.id
        BY <1>0, <3>1 DEF Recovered, Queued, TurnRecords
      <4> QED
        BY <1>0, <4>1 DEF Known
    <3>2. CASE merged = NoTurn /\ Unstarted # {}
      <4>1. First(Unstarted) \in Unstarted
        BY <3>2, InStateIs, FirstIs
      <4>2. Recovered.id = First(Unstarted)
        BY <3>2 DEF Recovered, FromJournal
      <4> QED
        BY <4>1, <4>2 DEF Unstarted, InState
    <3>3. CASE merged = NoTurn /\ Unstarted = {}
      <4>1. Recovered.id = 0
        BY <3>3, Nothing DEF Recovered
      <4> QED
        BY <4>1, TurnCount DEF Turns
    <3> QED
      BY <3>1, <3>2, <3>3
  <2>6. \A t \in Turns : journal'[t].state # "none" <=> journal[t].state # "none"
    <3>1. CASE merged = NoTurn
      BY <2>3, <3>1
    <3>2. CASE merged # NoTurn
      BY <1>0, <2>3, <2>4, <2>5, <3>2, MessageIs DEF Lasting
    <3> QED
      BY <3>1, <3>2
  <2>7. Cardinality(Sent)' = Cardinality(Sent)
    <3>1. Sent' = Sent
      BY <1>0 DEF Sent
    <3> QED
      BY <3>1
  <2> HIDE DEF S
  <2>8. Highest(S) \in Nat /\ Highest(S) <= Cardinality(Sent) /\ Cardinality(Sent) \in Nat
    <3>1. Cardinality(Sent) \in Nat
      BY <1>0, SentGrows DEF Sent
    <3> QED
      BY <1>0, <2>1, <2>2, <3>1, TurnCount DEF Counted
  <2>9. Counted'
    BY <1>0, <2>3, <2>6, <2>7, <2>8 DEF Counted
  <2>10. Recovered.id <= Highest(S)
    BY <1>0, <2>1, <2>2, <2>4, <2>5, <2>8, TurnCount DEF TurnRecords, Turns
  <2>11. loop = Idle /\ NoTurn.id \notin Turns
    BY <1>0, Nothing, TurnCount DEF Blank, Turns
  <2>12. Given'
    BY <2>3, <2>8, <2>10, <2>11, Nothing DEF Given
  <2>13. Known'
    BY <2>1, <2>2, <2>3, <2>6, <2>11 DEF Known
  <2>14. Blank'
    BY <2>3 DEF Blank, Up
  <2> QED
    BY <2>9, <2>12, <2>13, <2>14
<1> QED
  BY <1>1, <1>2, <1>3

LEMMA ExitKnown ==
  ASSUME TypeInv, Lasting', Exit
  PROVE  Counted' /\ Given' /\ Known' /\ Blank'
<1>1. fate' = fate /\ journal' = journal /\ nextTurnID' = 0
  BY DEF Exit, durable, history
<1>2. Counted'
  BY <1>1, CountKept
<1>3. NoTurn.id \notin Turns /\ NoTurn.id = 0
  BY Nothing, TurnCount DEF Turns
<1> QED
  BY <1>2, <1>3, Nothing DEF Exit, Given, Known, Blank, Up

\* Every step keeps the types and what they rest on.
LEMMA TypeStep ==
  ASSUME TypeInv, [Next]_vars
  PROVE  TypeInv'
<1>0. ASSUME Lasting', Queued', Controlled', Counted', Given', Known', Blank'
      PROVE  TypeInv'
  BY <1>0 DEF TypeInv, TypeOK, Lasting, Queued, Controlled, Records, Publications
<1>1. CASE UNCHANGED vars
  BY <1>1 DEF vars, durable, session, queueing, publishing, draining, control, history,
     TypeInv, TypeOK, Counted, Sent, Given, Known, Blank, Up
<1>2. CASE ClientStep
  <2>1. Lasting' /\ Queued' /\ Controlled'
    BY <1>2, ClientTyped
  <2>2. CASE \E p \in Prompts, shell \in Shells : submitParsedMessage(p, shell) \/ editMessage(p, shell)
    BY <1>0, <2>1, <2>2, PromptKnown
  <2>3. CASE OpenDraft \/ removePendingMessage \/ RemovalRefused \/ DraftRefused
    BY <1>0, <2>1, <2>3, RemovalKnown
  <2> QED
    BY <1>2, <2>2, <2>3 DEF ClientStep
<1>3. CASE LoopSteps
  BY <1>0, <1>3, LoopTyped, LoopKnown
<1>4. CASE InterruptStep
  <2>1. Lasting' /\ Queued' /\ Controlled'
    BY <1>4, InterruptTyped DEF InterruptStep
  <2> QED
    BY <1>0, <1>4, <2>1, InterruptKnown
<1>5. CASE \/ ControllerStep \/ PublishStatus \/ PeriodicPublish
           \/ observeSessionUpdate \/ sessionDrainReports \/ reportSessionUpdate
  BY <1>0, <1>5, ControllerTyped, ControlKnown
<1>6. CASE RecoveryStep
  <2>1. Lasting' /\ Queued' /\ Controlled'
    BY <1>6, RecoveryTyped
  <2> QED
    BY <1>0, <1>6, <2>1, RecoveryKnown, ControlKnown DEF RecoveryStep
<1>7. CASE ServeReturns \/ Crash
  <2>1. Exit
    BY <1>7 DEF ServeReturns, Crash
  <2> QED
    BY <1>0, <2>1, ExitTyped, ExitKnown
<1> QED
  BY <1>1, <1>2, <1>3, <1>4, <1>5, <1>6, <1>7 DEF Next

LEMMA TypeInit == Init => TypeInv
<1> SUFFICES ASSUME Init PROVE TypeInv
  OBVIOUS
<1>1. Lasting
  BY BoundsNatural, Nothing DEF Init, Lasting, NoRecord, Records, Verdicts, NoReport
<1>2. Queued
  BY Nothing, TurnCount, EmptySeq DEF Init, Memory, Queued
<1>3. Controlled
  BY Nothing DEF Init, Memory, Controlled, NoInterrupt
<1>4. Counted
  <2>1. Cardinality(Sent) \in Nat
    BY PromptsFinite, FS_Subset, FS_CardinalityType DEF Sent
  <2> QED
    BY <2>1 DEF Init, Memory, Counted, NoRecord
<1>5. Given /\ Known /\ Blank
  <2>1. NoTurn.id \notin Turns
    BY Nothing, TurnCount DEF Turns
  <2> QED
    BY <2>1, Nothing DEF Init, Memory, Given, Known, Blank, Up
<1> QED
  BY <1>1, <1>2, <1>3, <1>4, <1>5, TypeParts DEF TypeInv

\* Every variable holds what its Go field can hold, in every environment; in
\* particular no more turns are ever recorded than prompts were sent, whatever
\* fails and restarts, because a turn ID is counted on from the journal.
THEOREM Typed == Spec => []TypeOK
<1>1. TypeInv => TypeOK
  BY DEF TypeInv
<1> QED
  BY <1>1, TypeInit, TypeStep, PTL DEF Spec

-----------------------------------------------------------------------------
(* Interruptions                                                           *)

\* An interruption that holds interruptMu is for the turn that the loop has,
\* because the loop does not get another one before it is let go.
Targeted ==
  \A c \in Clients :
    /\ interrupt[c].at # "none" => interrupt[c].turn # 0
    /\ Interrupting(c) =>
         /\ interrupt[c].turn = loop.turn.id
         /\ loop.at \in {"active", "started", "running", "completed", "inactive", "closing", "ended"}

LEMMA TargetedStep ==
  ASSUME TypeInv, Targeted, [Next]_vars
  PROVE  Targeted'
<1>0. Queued /\ Controlled
  BY TypeParts DEF TypeInv
<1>1. CASE UNCHANGED vars
  BY <1>1 DEF vars, control, Targeted, Interrupting
<1>2. CASE LoopSteps
  <2>1. UNCHANGED interrupt
    BY <1>2 DEF LoopSteps, ReceiveTurn, takePendingTurn, ReturnTurn, ActivateTurn, StartTurn, RunTurn,
       CompleteTurn, DeactivateTurn, PublishIdle, finishTurn, NextTurn, control
  <2>2. CASE ReceiveTurn \/ takePendingTurn \/ ReturnTurn \/ NextTurn
    <3>1. \A c \in Clients : ~Interrupting(c)
      BY <2>2 DEF Targeted, ReceiveTurn, takePendingTurn, ReturnTurn, NextTurn
    <3> QED
      BY <2>1, <3>1 DEF Targeted, Interrupting
  <2>3. CASE ActivateTurn \/ StartTurn \/ RunTurn \/ CompleteTurn \/ DeactivateTurn \/ PublishIdle \/ finishTurn
    <3>1. /\ loop'.turn = loop.turn
          /\ loop'.at \in {"active", "started", "running", "completed", "inactive", "closing", "ended"}
      BY <1>0, <2>3 DEF ActivateTurn, StartTurn, RunTurn, CompleteTurn, DeactivateTurn, PublishIdle,
         finishTurn, LoopStep, Queued
    <3> QED
      BY <2>1, <3>1 DEF Targeted, Interrupting
  <2> QED
    BY <1>2, <2>2, <2>3 DEF LoopSteps
<1>3. CASE InterruptStep
  <2>1. PICK c \in Clients : AskInterrupt(c) \/ InterruptSettles(c) \/ stopInterruptedTurn(c)
    BY <1>3 DEF InterruptStep
  <2>2. loop'.turn = loop.turn /\ loop'.at = loop.at
    BY <1>0, <2>1 DEF AskInterrupt, InterruptSettles, LockInterrupt, ProviderInterrupt, InterruptDone,
       stopInterruptedTurn, Queued
  <2>3. \A d \in Clients : d # c => interrupt'[d] = interrupt[d]
    BY <1>0, <2>1 DEF AskInterrupt, InterruptSettles, LockInterrupt, ProviderInterrupt, InterruptDone,
       stopInterruptedTurn, InterruptAt, Controlled
  <2>4. /\ interrupt'[c].at # "none" => interrupt'[c].turn # 0
        /\ interrupt'[c].at \in {"recorded", "waiting"} =>
             /\ interrupt'[c].turn = loop.turn.id
             /\ loop.at \in {"active", "started", "running", "completed", "inactive", "closing", "ended"}
    <3>1. CASE AskInterrupt(c)
      <4>1. interrupt'[c] = [at |-> "asked", turn |-> ActiveTurn(loop)] /\ ActiveTurn(loop) # 0
        BY <1>0, <3>1 DEF AskInterrupt, Controlled
      <4> QED
        BY <4>1
    <3>2. CASE LockInterrupt(c)
      <4>1. CASE interrupt' = [interrupt EXCEPT ![c] = NoInterrupt]
        BY <1>0, <4>1 DEF Controlled, NoInterrupt
      <4>2. CASE ActiveTurn(loop) = interrupt[c].turn /\ interrupt' = [interrupt EXCEPT ![c].at = "recorded"]
        <5>1. interrupt[c].turn # 0
          BY <3>2 DEF LockInterrupt, Targeted
        <5>2. interrupt'[c].at = "recorded" /\ interrupt'[c].turn = interrupt[c].turn
          BY <1>0, <4>2 DEF Controlled
        <5> QED
          BY <4>2, <5>1, <5>2 DEF ActiveTurn
      <4> QED
        BY <3>2, <4>1, <4>2 DEF LockInterrupt, InterruptAt
    <3>3. CASE InterruptDone(c)
      BY <1>0, <3>3 DEF InterruptDone, Controlled, NoInterrupt
    <3>4. CASE ProviderInterrupt(c) \/ stopInterruptedTurn(c)
      <4>1. Interrupting(c)
        BY <3>4 DEF ProviderInterrupt, stopInterruptedTurn, Interrupting
      <4>2. \/ interrupt' = [interrupt EXCEPT ![c] = NoInterrupt]
            \/ interrupt' = [interrupt EXCEPT ![c].at = "waiting"]
        BY <3>4 DEF ProviderInterrupt, stopInterruptedTurn, InterruptAt
      <4>3. \/ interrupt'[c] = NoInterrupt
            \/ interrupt'[c].turn = interrupt[c].turn
        BY <1>0, <4>2 DEF Controlled
      <4>4. interrupt[c].turn # 0
        BY <4>1 DEF Targeted, Interrupting
      <4> QED
        BY <4>1, <4>3, <4>4 DEF Targeted, NoInterrupt
    <3> QED
      BY <2>1, <3>1, <3>2, <3>3, <3>4 DEF InterruptSettles
  <2> QED
    BY <2>2, <2>3, <2>4 DEF Targeted, Interrupting
<1>4. CASE ServeReturns \/ Crash
  BY <1>4 DEF ServeReturns, Crash, Exit, Targeted, Interrupting, NoInterrupt
<1>5. CASE ClientStep
  <2>1. UNCHANGED <<loop, interrupt>>
    BY <1>5 DEF ClientStep, submitParsedMessage, AppendToPending, SubmitTurn, editMessage, OpenDraft,
       removePendingMessage, RemovalRefused, DraftRefused, control
  <2> QED
    BY <2>1 DEF Targeted, Interrupting
<1>6. CASE \/ ControllerStep \/ RecoveryStep \/ PublishStatus \/ PeriodicPublish
           \/ observeSessionUpdate \/ sessionDrainReports \/ reportSessionUpdate
  <2>1. UNCHANGED <<loop, interrupt>>
    BY <1>6 DEF ControllerStep, AskDrain, WithdrawDrain, RecoveryStep, RecoverStarted, RecoverMerge,
       RecoverServe, Serve, PublishStatus, PeriodicPublish, observeSessionUpdate,
       sessionDrainReports, reportSessionUpdate, control
  <2> QED
    BY <2>1 DEF Targeted, Interrupting
<1> QED
  BY <1>1, <1>2, <1>3, <1>4, <1>5, <1>6 DEF Next

\* Only an interruption cuts a turn, and the one it was meant for.
LEMMA CutStep ==
  ASSUME TypeInv, Targeted, [Next]_vars, ~loop.cut, loop'.cut
  PROVE  \E c \in Clients : Interrupting(c) /\ interrupt[c].turn = loop.turn.id
<1>0. Queued /\ Controlled
  BY TypeParts DEF TypeInv
<1>1. CASE LoopSteps
  <2>1. loop'.cut = loop.cut \/ loop'.cut = FALSE
    <3>1. CASE ReceiveTurn \/ ReturnTurn \/ NextTurn
      BY <3>1, Nothing DEF ReceiveTurn, ReturnTurn, NextTurn, Idle
    <3>2. CASE takePendingTurn
      <4>1. loop' = Idle \/ loop' = [loop EXCEPT !.at = "taken", !.turn = pendingTurn]
        BY <3>2 DEF takePendingTurn
      <4> QED
        BY <1>0, <4>1, Nothing DEF Queued
    <3>3. CASE \/ ActivateTurn \/ StartTurn \/ RunTurn \/ CompleteTurn \/ DeactivateTurn
               \/ PublishIdle \/ finishTurn
      BY <1>0, <3>3 DEF ActivateTurn, StartTurn, RunTurn, CompleteTurn, DeactivateTurn, PublishIdle,
         finishTurn, LoopStep, Queued
    <3> QED
      BY <1>1, <3>1, <3>2, <3>3 DEF LoopSteps
  <2> QED
    BY <2>1
<1>2. CASE InterruptStep
  <2>1. PICK c \in Clients : AskInterrupt(c) \/ InterruptSettles(c) \/ stopInterruptedTurn(c)
    BY <1>2 DEF InterruptStep
  <2>2. Interrupting(c)
    BY <2>1 DEF AskInterrupt, InterruptSettles, LockInterrupt, ProviderInterrupt, InterruptDone,
       stopInterruptedTurn, Interrupting
  <2> QED
    BY <2>2 DEF Targeted
<1>3. CASE ServeReturns \/ Crash
  BY <1>3, Nothing DEF ServeReturns, Crash, Exit
<1>4. CASE \/ ClientStep \/ ControllerStep \/ RecoveryStep \/ PublishStatus \/ PeriodicPublish
           \/ observeSessionUpdate \/ sessionDrainReports \/ reportSessionUpdate \/ UNCHANGED vars
  <2>1. UNCHANGED loop
    BY <1>4 DEF ClientStep, submitParsedMessage, AppendToPending, SubmitTurn, editMessage, OpenDraft,
       removePendingMessage, RemovalRefused, DraftRefused, ControllerStep, AskDrain, WithdrawDrain,
       RecoveryStep, RecoverStarted, RecoverMerge,
       RecoverServe, Serve, PublishStatus, PeriodicPublish, observeSessionUpdate,
       sessionDrainReports, reportSessionUpdate, vars
  <2> QED
    BY <2>1
<1> QED
  BY <1>1, <1>2, <1>3, <1>4 DEF Next

\* interruptTurn: an interruption cuts short the turn that was active when the
\* client asked for it and no later one, although it reads the active turn
\* before it holds interruptMu and stops whatever the provider is running.
THEOREM InterruptionsHit == Spec => InterruptHitsItsTurn
<1>1. Init => Targeted
  BY DEF Init, Memory, Targeted, Interrupting, NoInterrupt
<1>2. TypeInv /\ Targeted /\ [Next]_vars =>
        [~loop.cut /\ loop'.cut =>
           \E c \in Clients : Interrupting(c) /\ interrupt[c].turn = loop.turn.id]_vars
  BY CutStep
<1> QED
  BY <1>1, <1>2, TypeInit, TypeStep, TargetedStep, PTL DEF Spec, InterruptHitsItsTurn

-----------------------------------------------------------------------------
(* Edits and removals                                                      *)

\* The pending turn is what the journal says of it, unless the journal has
\* failed since and says something of a later revision;
PendingKnown ==
  pendingTurn # NoTurn =>
    /\ pendingTurn.id \in Turns /\ journal[pendingTurn.id].state # "none"
    /\ pendingTurn.rev <= journal[pendingTurn.id].rev
    /\ pendingTurn.rev = journal[pendingTurn.id].rev => pendingTurn.text = journal[pendingTurn.id].text
    /\ ~failed => pendingTurn.rev = journal[pendingTurn.id].rev

\* a client that edits has seen all of the revision it has;
DraftKnown ==
  draft # NoTurn =>
    /\ draft.id \in Turns /\ journal[draft.id].state # "none"
    /\ draft.rev <= journal[draft.id].rev
    /\ draft.rev = journal[draft.id].rev => journal[draft.id].text \subseteq draft.text

\* and what recovery merges will be a later revision.
MergedKnown ==
  merged # NoTurn => merged.id \in Turns /\ merged.rev = journal[merged.id].rev

TextInv == PendingKnown /\ DraftKnown /\ MergedKnown

\* A turn by its fields.
LEMMA TurnFields ==
  ASSUME NEW t \in TurnRecords
  PROVE  /\ t.id \in 0 .. Cardinality(Prompts) /\ t.id \in Nat
         /\ t.text \in SUBSET Prompts /\ t.input \in SUBSET Prompts
         /\ t.shell \in BOOLEAN /\ t.rev \in Nat
BY TurnCount DEF TurnRecords

\* Steps that send or recover no message leave the texts alone.
Silent ==
  \A t \in Turns :
    /\ journal'[t].text = journal[t].text /\ journal'[t].rev = journal[t].rev
    /\ journal'[t].shell = journal[t].shell
    /\ journal[t].state # "none" => journal'[t].state # "none"

LEMMA SilentSteps ==
  ASSUME TypeInv, [Next]_vars
  PROVE  \/ Silent
         \/ RecoverServe /\ merged # NoTurn
         \/ \E p \in Prompts, shell \in Shells : submitParsedMessage(p, shell) \/ editMessage(p, shell)
<1>0. Lasting /\ Queued /\ Controlled
  BY TypeParts DEF TypeInv
<1>1. ASSUME UNCHANGED journal PROVE Silent
  BY <1>1 DEF Silent
<1>2. ASSUME NEW t, NEW state \in Verdicts \ {"none"}, Recorded(t, state)
      PROVE  Silent
  BY <1>0, <1>2, RecordedIs DEF Lasting, Silent
<1>3. CASE UNCHANGED vars
  BY <1>1, <1>3 DEF vars, durable
<1>4. CASE OpenDraft \/ removePendingMessage \/ RemovalRefused \/ DraftRefused
  BY <1>1, <1>2, <1>4 DEF OpenDraft, removePendingMessage, RemovalRefused, DraftRefused,
     RecordRemoval, durable, Verdicts
<1>5. CASE LoopSteps
  BY <1>1, <1>2, <1>5 DEF LoopSteps, ReceiveTurn, takePendingTurn, ReturnTurn, ActivateTurn, StartTurn,
     RunTurn, CompleteTurn, DeactivateTurn, PublishIdle, finishTurn, NextTurn, Appended, NotAppended,
     durable, Verdicts
<1>6. CASE InterruptStep
  <2>1. PICK c \in Clients : AskInterrupt(c) \/ InterruptSettles(c) \/ stopInterruptedTurn(c)
    BY <1>6 DEF InterruptStep
  <2>2. CASE LockInterrupt(c)
    <3> DEFINE t == interrupt[c].turn
               state == IF journal[t].state = "unstarted" THEN "started" ELSE journal[t].state
    <3>1. Recorded(t, state) \/ UNCHANGED journal
      BY <2>2 DEF LockInterrupt, Appended, NotAppended
    <3>2. ASSUME Recorded(t, state) PROVE Silent
      BY <1>0, <3>2, RecordedIs, LockStates DEF Lasting, Silent
    <3> QED
      BY <1>1, <3>1, <3>2
  <2>3. CASE AskInterrupt(c) \/ ProviderInterrupt(c) \/ InterruptDone(c) \/ stopInterruptedTurn(c)
    BY <1>1, <2>3 DEF AskInterrupt, ProviderInterrupt, InterruptDone, stopInterruptedTurn, durable
  <2> QED
    BY <2>1, <2>2, <2>3 DEF InterruptSettles
<1>7. CASE \/ ControllerStep \/ PublishStatus \/ PeriodicPublish \/ observeSessionUpdate
           \/ sessionDrainReports \/ reportSessionUpdate \/ ServeReturns \/ Crash \/ Serve
  BY <1>1, <1>7 DEF ControllerStep, AskDrain, WithdrawDrain, PublishStatus, PeriodicPublish,
     observeSessionUpdate, sessionDrainReports, reportSessionUpdate, ServeReturns, Crash, Exit, Serve,
     durable
<1>8. CASE RecoverStarted \/ RecoverMerge
  BY <1>2, <1>8 DEF RecoverStarted, RecoverMerge, Verdicts
<1>9. CASE RecoverServe /\ merged = NoTurn
  BY <1>1, <1>9 DEF RecoverServe
<1> QED
  BY <1>3, <1>4, <1>5, <1>6, <1>7, <1>8, <1>9 DEF Next, ClientStep, RecoveryStep

\* What else a step does to the pending turn, the draft and the merged one.
LEMMA TextKept ==
  ASSUME TypeInv, TextInv, Silent, Queued',
         pendingTurn' = pendingTurn \/ pendingTurn' = NoTurn,
         draft' = draft \/ draft' = pendingTurn \/ draft' = NoTurn,
         merged' = merged \/ merged' = NoTurn, failed => failed' \/ pendingTurn' = NoTurn
  PROVE  TextInv'
<1>1. PendingKnown'
  BY DEF TextInv, PendingKnown, Silent
<1>2. DraftKnown'
  BY DEF TextInv, PendingKnown, DraftKnown, Silent
<1>3. MergedKnown'
  BY DEF TextInv, MergedKnown, Silent
<1> QED
  BY <1>1, <1>2, <1>3 DEF TextInv

\* The steps of clients.
LEMMA PromptTexts ==
  ASSUME TypeInv, TextInv, TypeInv', NEW p \in Prompts, NEW shell \in Shells,
         submitParsedMessage(p, shell) \/ editMessage(p, shell)
  PROVE  TextInv'
<1>0. /\ Lasting /\ Queued /\ Controlled /\ Given /\ Known /\ Blank /\ Turns \in SUBSET Nat
      /\ shell \in BOOLEAN
  BY TypeParts, TurnCount DEF TypeInv, Shells
<1>1. /\ pendingTurn.id \in Nat /\ pendingTurn.rev \in Nat /\ nextTurnID \in Nat
      /\ draft.rev \in Nat
  BY <1>0, TurnCount, TurnFields DEF Queued, Lasting
<1>2. MergedKnown'
  <2>1. merged' = NoTurn
    BY <1>0 DEF submitParsedMessage, AppendToPending, SubmitTurn, editMessage, Accepting, DraftCurrent,
       Blank, Up
  <2> QED
    BY <2>1 DEF MergedKnown
\* What is recorded, of which turn, and what the pending turn is then.
<1>3. ASSUME NEW turn \in TurnRecords, RecordMessage(turn), turn.id \in Turns,
             journal[turn.id].rev < turn.rev \/ journal[turn.id].state = "none",
             pendingTurn' = turn \/ (pendingTurn' = pendingTurn /\ failed'),
             pendingTurn' # turn /\ pendingTurn # NoTurn => pendingTurn.rev < turn.rev,
             draft' \in {draft, NoTurn}
      PROVE  TextInv'
  <2>1. /\ journal' \in [Turns -> Records]
        /\ \A u \in Turns : u # turn.id => journal'[u] = journal[u]
        /\ journal'[turn.id].text = turn.text /\ journal'[turn.id].rev = turn.rev
        /\ journal'[turn.id].state # "none"
    BY <1>0, <1>3, MessageIs DEF Lasting
  <2>2. turn.rev \in Nat /\ journal[turn.id].rev \in Nat
    BY <1>0, <1>3, TurnFields DEF Lasting, Records
  <2>3. PendingKnown'
    <3>1. CASE pendingTurn' = turn
      BY <1>3, <2>1, <2>2, <3>1 DEF PendingKnown
    <3>2. CASE pendingTurn' = pendingTurn /\ failed' /\ pendingTurn' # turn
      <4>1. CASE pendingTurn.id = turn.id
        BY <1>1, <1>3, <2>1, <2>2, <3>2, <4>1 DEF TextInv, PendingKnown
      <4>2. CASE pendingTurn.id # turn.id
        BY <1>1, <1>3, <2>1, <2>2, <3>2, <4>2 DEF TextInv, PendingKnown
      <4> QED
        BY <4>1, <4>2
    <3> QED
      BY <1>3, <3>1, <3>2
  <2>4. DraftKnown'
    <3>1. CASE draft.id = turn.id
      BY <1>1, <1>3, <2>1, <2>2, <3>1 DEF TextInv, DraftKnown
    <3>2. CASE draft.id # turn.id
      BY <1>1, <1>3, <2>1, <2>2, <3>2 DEF TextInv, DraftKnown
    <3> QED
      BY <3>1, <3>2
  <2> QED
    BY <1>2, <2>3, <2>4 DEF TextInv
<1>4. CASE AppendToPending(p)
  <2> DEFINE turn == [pendingTurn EXCEPT !.text = @ \union {p}, !.input = @ \union {p}, !.rev = @ + 1]
  <2>1. turn \in TurnRecords /\ turn.id = pendingTurn.id /\ turn.rev = pendingTurn.rev + 1
    <3>1. pendingTurn \in TurnRecords
      BY <1>0 DEF Queued
    <3>2. pendingTurn.text \union {p} \in SUBSET Prompts /\ pendingTurn.input \union {p} \in SUBSET Prompts
      BY <3>1, TurnFields
    <3>3. turn \in TurnRecords
      BY <3>1, <3>2, MessageTyped
    <3> QED
      BY <3>1, <3>3 DEF TurnRecords
  <2>2. /\ \/ RecordMessage(turn) /\ (pendingTurn' = turn \/ (pendingTurn' = pendingTurn /\ failed'))
           \/ journal' = journal /\ failed' /\ pendingTurn' = pendingTurn
        /\ pendingTurn # NoTurn /\ ~failed /\ draft' = draft
    BY <1>4 DEF AppendToPending, Accept, Refuse, AppendFails, Accepting
  <2>3. pendingTurn.id \in Turns /\ journal[pendingTurn.id].rev = pendingTurn.rev
    BY <2>2 DEF TextInv, PendingKnown
  <2> HIDE DEF turn
  <2>4. CASE RecordMessage(turn) /\ (pendingTurn' = turn \/ (pendingTurn' = pendingTurn /\ failed'))
    BY <1>1, <1>3, <2>1, <2>2, <2>3, <2>4
  <2>5. CASE journal' = journal /\ failed' /\ pendingTurn' = pendingTurn
    BY <1>2, <2>2, <2>5 DEF TextInv, PendingKnown, DraftKnown
  <2> QED
    BY <2>2, <2>4, <2>5
<1>5. CASE SubmitTurn(p, shell)
  <2> DEFINE turn == [id |-> nextTurnID + 1, text |-> {p}, input |-> {p}, shell |-> shell, rev |-> 1]
  <2>1. turn \in TurnRecords /\ turn.id = nextTurnID + 1 /\ turn.rev = 1 /\ turn.id \in Turns
    BY <1>0, <1>5, RoomForTurn DEF TurnRecords, SubmitTurn, Turns
  <2>2. /\ \/ RecordMessage(turn) /\ (pendingTurn' = turn \/ (pendingTurn' = pendingTurn /\ failed'))
           \/ journal' = journal /\ failed' /\ pendingTurn' = pendingTurn
        /\ pendingTurn = NoTurn /\ ~failed /\ draft' = draft
    BY <1>5 DEF SubmitTurn, Accept, Refuse, AppendFails, Accepting
  <2>3. journal[turn.id].state = "none"
    <3>1. Up
      BY <1>5 DEF SubmitTurn, Accepting, Up
    <3> QED
      BY <1>0, <1>1, <2>1, <3>1 DEF Known
  <2> HIDE DEF turn
  <2>4. CASE RecordMessage(turn) /\ (pendingTurn' = turn \/ (pendingTurn' = pendingTurn /\ failed'))
    BY <1>3, <2>1, <2>2, <2>3, <2>4
  <2>5. CASE journal' = journal /\ failed' /\ pendingTurn' = pendingTurn
    BY <1>2, <2>2, <2>5 DEF TextInv, PendingKnown, DraftKnown
  <2> QED
    BY <2>2, <2>4, <2>5
<1>6. CASE editMessage(p, shell)
  <2> DEFINE turn == [pendingTurn EXCEPT !.text = {p}, !.input = {p}, !.shell = shell, !.rev = @ + 1]
  <2>1. turn \in TurnRecords /\ turn.id = pendingTurn.id /\ turn.rev = pendingTurn.rev + 1
    <3>1. pendingTurn \in TurnRecords
      BY <1>0 DEF Queued
    <3>2. turn \in TurnRecords
      BY <1>0, <3>1, MessageTyped
    <3> QED
      BY <3>1, <3>2 DEF TurnRecords
  <2>2. /\ RecordMessage(turn) /\ ~failed /\ draft' \in {draft, NoTurn}
        /\ pendingTurn' = turn \/ (pendingTurn' = pendingTurn /\ failed')
        /\ draft # NoTurn /\ pendingTurn.id = draft.id
    BY <1>6 DEF editMessage, RecordEdit, AppendFails, DraftCurrent
  <2>3. pendingTurn.id \in Turns /\ journal[pendingTurn.id].rev = pendingTurn.rev
    <3>1. pendingTurn # NoTurn
      BY <2>2, Nothing, TurnCount DEF TextInv, DraftKnown, Turns
    <3> QED
      BY <2>2, <3>1 DEF TextInv, PendingKnown
  <2> HIDE DEF turn
  <2> QED
    BY <1>1, <1>3, <2>1, <2>2, <2>3
<1> QED
  BY <1>4, <1>5, <1>6 DEF submitParsedMessage

\* Every step keeps them.
LEMMA TextStep ==
  ASSUME TypeInv, TextInv, TypeInv', [Next]_vars
  PROVE  TextInv'
<1>0. /\ Lasting /\ Queued /\ Controlled /\ Given /\ Known /\ Blank /\ Turns \in SUBSET Nat
  BY TypeParts, TurnCount DEF TypeInv
<1>1. Queued'
  BY DEF TypeInv, TypeOK, Queued, Publications
<1>2. CASE \E p \in Prompts, shell \in Shells : submitParsedMessage(p, shell) \/ editMessage(p, shell)
  BY <1>2, PromptTexts
<1>3. CASE RecoverServe
  <2>1. Recovered \in TurnRecords
    BY <1>0, RecoveredTyped DEF Lasting, Queued
  <2>2. /\ pendingTurn' = Recovered /\ merged' = NoTurn /\ draft' = draft /\ failed' = FALSE
        /\ IF merged = NoTurn THEN UNCHANGED journal ELSE RecordMessage(Recovered)
    BY <1>0, <1>3 DEF RecoverServe, Blank, Up
  <2>3. MergedKnown'
    BY <2>2 DEF MergedKnown
  <2>4. CASE merged = NoTurn /\ Unstarted = {}
    <3>1. Recovered = NoTurn
      BY <2>4 DEF Recovered
    <3> QED
      BY <2>2, <2>3, <2>4, <3>1 DEF TextInv, PendingKnown, DraftKnown
  <2>5. CASE merged = NoTurn /\ Unstarted # {}
    <3>1. First(Unstarted) \in Unstarted
      BY <2>5, InStateIs, FirstIs
    <3>2. Recovered = FromJournal(First(Unstarted))
      BY <2>5 DEF Recovered
    <3>3. /\ Recovered.id \in Turns /\ journal[Recovered.id].state # "none"
          /\ Recovered.rev = journal[Recovered.id].rev /\ Recovered.text = journal[Recovered.id].text
      BY <3>1, <3>2 DEF FromJournal, Unstarted, InState
    <3>4. Recovered.rev \in Nat
      BY <2>1, TurnFields
    <3> QED
      BY <2>2, <2>3, <2>5, <3>3, <3>4 DEF TextInv, PendingKnown, DraftKnown
  <2>6. CASE merged # NoTurn
    <3>1. Recovered = [merged EXCEPT !.rev = @ + 1]
      BY <2>6 DEF Recovered
    <3>2. Recovered.id = merged.id /\ Recovered.rev = merged.rev + 1 /\ merged.rev \in Nat
      BY <1>0, <3>1 DEF Queued, TurnRecords
    <3>3. merged.id \in Turns /\ merged.rev = journal[merged.id].rev /\ journal[merged.id].state # "none"
      BY <1>0, <2>6 DEF TextInv, MergedKnown, Known
    <3>4. /\ journal' \in [Turns -> Records]
          /\ \A u \in Turns : u # Recovered.id => journal'[u] = journal[u]
          /\ journal'[Recovered.id].text = Recovered.text /\ journal'[Recovered.id].rev = Recovered.rev
          /\ journal'[Recovered.id].state # "none"
      BY <1>0, <2>1, <2>2, <2>6, <3>2, <3>3, MessageIs DEF Lasting
    <3>5. PendingKnown'
      BY <2>2, <3>2, <3>3, <3>4 DEF PendingKnown
    <3>6. draft.rev \in Nat
      BY <1>0, TurnFields DEF Lasting
    <3>7. DraftKnown'
      <4>1. CASE draft.id = merged.id
        BY <2>2, <3>2, <3>3, <3>4, <3>6, <4>1 DEF TextInv, DraftKnown
      <4>2. CASE draft.id # merged.id
        BY <2>2, <3>2, <3>4, <4>2 DEF TextInv, DraftKnown
      <4> QED
        BY <4>1, <4>2
    <3> QED
      BY <2>3, <3>5, <3>7 DEF TextInv
  <2> QED
    BY <2>4, <2>5, <2>6
<1>4. CASE RecoverMerge
  <2> DEFINE first == First(Unstarted)
             next == First(Unstarted \ {first})
             turn == IF merged = NoTurn THEN FromJournal(first) ELSE merged
  <2>1. first \in Turns
    BY <1>4, TwoUnstarted, InStateIs, FirstIs DEF RecoverMerge
  <2>2. turn \in TurnRecords
    BY <1>0, <2>1, FromJournalTyped DEF Lasting, Queued
  <2>3. turn.id \in Turns /\ turn.rev = journal[turn.id].rev
    BY <2>1 DEF TextInv, MergedKnown, FromJournal
  <2>4. merged' = [turn EXCEPT !.text = @ \union journal[next].text,
                               !.input = IF turn.shell THEN @ ELSE @ \union journal[next].text]
    BY <1>4 DEF RecoverMerge
  <2>5. merged'.id = turn.id /\ merged'.rev = turn.rev
    <3> HIDE DEF first, next, turn
    <3> QED
      BY <2>2, <2>4 DEF TurnRecords
  <2>6. UNCHANGED <<pendingTurn, draft, failed>>
    BY <1>4 DEF RecoverMerge, queueing
  <2> HIDE DEF first, next, turn
  <2>7. Silent
    <3>1. ~(\E p \in Prompts, shell \in Shells : submitParsedMessage(p, shell) \/ editMessage(p, shell))
      BY <1>4 DEF RecoverMerge, submitParsedMessage, AppendToPending, SubmitTurn, editMessage,
         Accepting, DraftCurrent
    <3>2. ~RecoverServe
      BY <1>4 DEF RecoverMerge, RecoverServe
    <3> QED
      BY <1>4, <3>1, <3>2, SilentSteps DEF Next, RecoveryStep
  <2>8. PendingKnown' /\ DraftKnown'
    BY <2>6, <2>7 DEF TextInv, PendingKnown, DraftKnown, Silent
  <2>9. MergedKnown'
    BY <2>3, <2>5, <2>7 DEF MergedKnown, Silent
  <2> QED
    BY <2>8, <2>9 DEF TextInv
<1>5. CASE /\ ~(\E p \in Prompts, shell \in Shells : submitParsedMessage(p, shell) \/ editMessage(p, shell))
           /\ ~RecoverServe /\ ~RecoverMerge
  <2>1. Silent
    BY <1>5, SilentSteps
  <2>2. /\ pendingTurn' = pendingTurn \/ pendingTurn' = NoTurn
        /\ draft' = draft \/ draft' = pendingTurn \/ draft' = NoTurn
        /\ merged' = merged \/ merged' = NoTurn
        /\ (failed => failed' \/ pendingTurn' = NoTurn)
    <3>1. CASE ServeReturns \/ Crash
      BY <3>1 DEF ServeReturns, Crash, Exit
    <3>2. CASE OpenDraft \/ removePendingMessage \/ RemovalRefused \/ DraftRefused
      <4>1. CASE OpenDraft
        BY <4>1 DEF OpenDraft, queueing
      <4>2. CASE removePendingMessage
        BY <4>2 DEF removePendingMessage
      <4>3. CASE RemovalRefused \/ DraftRefused
        BY <4>3 DEF RemovalRefused, DraftRefused, AppendFails, queueing
      <4> QED
        BY <3>2, <4>1, <4>2, <4>3
    <3>3. CASE LoopSteps
      <4>1. draft' = draft /\ merged' = merged
        BY <3>3 DEF LoopSteps, ReceiveTurn, takePendingTurn, ReturnTurn, ActivateTurn, StartTurn, RunTurn,
           CompleteTurn, DeactivateTurn, PublishIdle, finishTurn, NextTurn
      <4>2. pendingTurn' = pendingTurn \/ pendingTurn' = NoTurn
        BY <3>3 DEF LoopSteps, ReceiveTurn, takePendingTurn, ReturnTurn, ActivateTurn, StartTurn, RunTurn,
           CompleteTurn, DeactivateTurn, PublishIdle, finishTurn, NextTurn, queueing
      <4>3. failed => failed'
        BY <3>3 DEF LoopSteps, ReceiveTurn, takePendingTurn, ReturnTurn, ActivateTurn, StartTurn, RunTurn,
           CompleteTurn, DeactivateTurn, PublishIdle, finishTurn, NextTurn, Appended, NotAppended,
           AppendFails
      <4> QED
        BY <4>1, <4>2, <4>3
    <3>4. CASE InterruptStep
      BY <3>4 DEF InterruptStep, AskInterrupt, InterruptSettles, LockInterrupt, ProviderInterrupt,
         InterruptDone, stopInterruptedTurn, Appended, NotAppended, AppendFails, queueing
    <3>5. CASE \/ ControllerStep \/ PublishStatus \/ PeriodicPublish \/ observeSessionUpdate
               \/ sessionDrainReports \/ reportSessionUpdate \/ Serve \/ RecoverStarted \/ UNCHANGED vars
      <4>1. UNCHANGED <<pendingTurn, draft, merged, failed>>
        BY <3>5 DEF ControllerStep, AskDrain, WithdrawDrain, PublishStatus, PeriodicPublish,
           observeSessionUpdate, sessionDrainReports, reportSessionUpdate, Serve, RecoverStarted, vars, queueing
      <4> QED
        BY <4>1
    <3> QED
      BY <1>5, <3>1, <3>2, <3>3, <3>4, <3>5 DEF Next, ClientStep, RecoveryStep
  <2> QED
    BY <1>1, <2>1, <2>2, TextKept
<1> QED
  BY <1>2, <1>3, <1>4, <1>5

\* A message is edited or removed at the revision that the client has seen,
\* and then it has seen what the journal says.
LEMMA DiscardStep ==
  ASSUME TypeInv, TextInv, [Next]_vars, NEW p \in Prompts, fate[p] = "accepted",
         fate'[p] \in {"replaced", "removed"}
  PROVE  p \in draft.text
<1>0. /\ Lasting /\ Queued /\ Controlled /\ Turns \in SUBSET Nat
  BY TypeParts, TurnCount DEF TypeInv
<1>1. DraftCurrent /\ p \in pendingTurn.text
  <2>1. CASE \E q \in Prompts, shell \in Shells : submitParsedMessage(q, shell)
    BY <1>0, <2>1 DEF submitParsedMessage, AppendToPending, SubmitTurn, Accept, Refuse, Lasting
  <2>2. CASE \E q \in Prompts, shell \in Shells : editMessage(q, shell)
    <3>1. PICK q \in Prompts, shell \in Shells : editMessage(q, shell)
      BY <2>2
    <3>2. DraftCurrent /\ fate' = [Discard("replaced") EXCEPT ![q] = "accepted"]
      BY <3>1 DEF editMessage, RecordEdit
    <3>3. fate'[p] = IF p = q THEN "accepted" ELSE Discard("replaced")[p]
      BY <3>2 DEF Discard
    <3> QED
      BY <3>2, <3>3 DEF Discard
  <2>3. CASE removePendingMessage \/ RemovalRefused
    BY <2>3 DEF removePendingMessage, RemovalRefused, RecordRemoval, Discard
  <2>4. CASE OpenDraft \/ DraftRefused \/ LoopSteps \/ InterruptStep \/ ServeReturns \/ Crash
    <3>1. fate' = fate
      BY <2>4 DEF OpenDraft, DraftRefused, LoopSteps, ReceiveTurn, takePendingTurn, ReturnTurn,
         ActivateTurn, StartTurn, RunTurn, CompleteTurn, DeactivateTurn, PublishIdle, finishTurn,
         NextTurn, InterruptStep, AskInterrupt, InterruptSettles, LockInterrupt, ProviderInterrupt,
         InterruptDone, stopInterruptedTurn, ServeReturns, Crash, Exit, history
    <3> QED
      BY <3>1
  <2>5. CASE \/ ControllerStep \/ PublishStatus \/ PeriodicPublish \/ observeSessionUpdate
             \/ sessionDrainReports \/ reportSessionUpdate \/ RecoveryStep \/ UNCHANGED vars
    <3>1. fate' = fate
      BY <2>5 DEF ControllerStep, AskDrain, WithdrawDrain, PublishStatus, PeriodicPublish,
         observeSessionUpdate, sessionDrainReports, reportSessionUpdate, RecoveryStep,
         Serve, RecoverStarted, RecoverMerge, RecoverServe, vars, history
    <3> QED
      BY <3>1
  <2> QED
    BY <2>1, <2>2, <2>3, <2>4, <2>5 DEF Next, ClientStep
<1>2. /\ ~failed /\ draft # NoTurn /\ pendingTurn # NoTurn
      /\ pendingTurn.id = draft.id /\ pendingTurn.rev = draft.rev
  BY <1>1, Nothing DEF DraftCurrent
<1>3. pendingTurn.rev = journal[pendingTurn.id].rev /\ pendingTurn.text = journal[pendingTurn.id].text
  BY <1>2 DEF TextInv, PendingKnown
<1> QED
  BY <1>1, <1>2, <1>3 DEF TextInv, DraftKnown

\* editMessage, removePendingMessage: a client never discards text that it had
\* not seen when it opened the message, through failures of the journal,
\* restarts and merges of turns, because every recorded change of a message has
\* a revision of its own.
THEOREM DiscardsAreSeen == Spec => DiscardsOnlySeen
<1>1. Init => TextInv
  BY DEF Init, Memory, TextInv, PendingKnown, DraftKnown, MergedKnown
<1>2. TypeInv /\ TextInv /\ [Next]_vars =>
        [\A p \in Prompts :
           fate[p] = "accepted" /\ fate'[p] \in {"replaced", "removed"} => p \in draft.text]_vars
  BY DiscardStep
<1> QED
  BY <1>1, <1>2, TypeInit, TypeStep, TextStep, PTL DEF Spec, DiscardsOnlySeen

-----------------------------------------------------------------------------
(* Prompts                                                                 *)

\* A turn that still answers for its prompts.
Live == {"unstarted", "started", "interrupted", "done"}
Holds(t, p) == p \in journal[t].text /\ journal[t].state \in Live

\* A prompt that was never accepted is nowhere, and a withdrawn one in no turn
\* that counts;
Fates ==
  \A p \in Prompts :
    /\ fate[p] \in {"unsent", "refused"} =>
         p \notin merged.text /\ \A t \in Turns : p \notin journal[t].text
    /\ fate[p] \in {"replaced", "removed"} =>
         p \notin merged.text /\ \A t \in Turns : ~Holds(t, p)

\* no two turns hold one, and one that is merged is held by none but the first;
Single ==
  \A p \in Prompts, t \in Turns :
    Holds(t, p) =>
      /\ \A u \in Turns : Holds(u, p) => u = t
      /\ p \in merged.text => t = merged.id

\* an accepted prompt is held until it ends;
Kept ==
  \A p \in Prompts :
    fate[p] = "accepted" =>
      \/ p \in merged.text
      \/ \E t \in Turns : Holds(t, p) /\ (journal[t].state = "done" => ran[p] > 0)

\* and it ran once at most, and not while its turn is unstarted.
RanOnce ==
  \A p \in Prompts :
    /\ ran[p] <= IF fate[p] = "accepted" THEN 1 ELSE 0
    /\ p \in merged.text => ran[p] = 0
    /\ \A t \in Turns : p \in journal[t].text /\ journal[t].state = "unstarted" => ran[p] = 0

\* The pending turn is the one the journal has, while the journal works;
PendingHeld ==
  pendingTurn # NoTurn =>
    /\ loop.at \notin {"idle", "received", "stopped"} => pendingTurn.id # loop.turn.id
    /\ ~failed => /\ journal[pendingTurn.id].state = "unstarted"
                  /\ pendingTurn.input = journal[pendingTurn.id].text
                  /\ pendingTurn.text = journal[pendingTurn.id].text

\* so is the turn that the loop took, and once it is recorded as started that
\* does not change any more.
LoopHeld ==
  LET r == journal[loop.turn.id] IN
  /\ loop.at \in {"taken", "active"} /\ ~failed =>
       /\ loop.turn.input = r.text /\ r.state \in {"unstarted", "started"}
       /\ \A p \in r.text : ran[p] = 0
  /\ loop.at = "started" =>
       loop.turn.input = r.text /\ r.state = "started" /\ \A p \in r.text : ran[p] = 0
  /\ loop.at = "running" =>
       loop.turn.input = r.text /\ r.state = "started" /\ \A p \in r.text : ran[p] = 1

\* What recovery merges are unstarted turns, into the first of them.
MergedHeld ==
  merged # NoTurn =>
    /\ merged.id \in Unstarted /\ \A t \in Unstarted : merged.id <= t
    /\ journal[merged.id].text \subseteq merged.text /\ merged.input = merged.text

NoShell ==
  /\ \A t \in Turns : ~journal[t].shell
  /\ ~pendingTurn.shell /\ ~merged.shell

KeptInv ==
  /\ Fates /\ Single /\ Kept /\ RanOnce
  /\ PendingHeld /\ LoopHeld /\ MergedHeld /\ NoShell

\* Holding, after a step.
LEMMA HoldsNext ==
  ASSUME NEW t \in Turns, NEW q \in Prompts
  PROVE  Holds(t, q)' <=> q \in journal'[t].text /\ journal'[t].state \in Live
BY DEF Holds, Live

\* The event of a turn that is not over: it goes on holding its prompts.
LEMMA EventKept ==
  ASSUME Lasting, Fates, Single, Kept, RanOnce, MergedHeld, \A u \in Turns : ~journal[u].shell,
         NEW t \in Turns, NEW state \in {"started", "interrupted", "done"}, Recorded(t, state),
         journal[t].state \in {"unstarted", "started"},
         merged # NoTurn => journal[t].state = "started",
         state = "done" => \A p \in Prompts : p \in journal[t].text => ran[p] > 0,
         UNCHANGED <<fate, ran, merged>>
  PROVE  Fates' /\ Single' /\ Kept' /\ RanOnce' /\ MergedHeld' /\ \A u \in Turns : ~journal'[u].shell
<1>1. \A u \in Turns : /\ u # t => journal'[u] = journal[u]
                       /\ journal'[u].state = IF u = t THEN state ELSE journal[u].state
                       /\ journal'[u].text = journal[u].text
                       /\ journal'[u].shell = journal[u].shell
  BY RecordedIs DEF Lasting, Verdicts
<1>2. \A u \in Turns, q \in Prompts : Holds(u, q)' <=> Holds(u, q)
  BY <1>1 DEF Holds, Live
<1>3. Fates'
  BY <1>1, <1>2 DEF Fates
<1>4. Single'
  BY <1>2 DEF Single
<1>5. Kept'
  <2> SUFFICES ASSUME NEW q \in Prompts, fate[q] = "accepted", q \notin merged.text
               PROVE  \E u \in Turns : Holds(u, q)' /\ (journal'[u].state = "done" => ran[q] > 0)
    BY DEF Kept
  <2>1. PICK u \in Turns : Holds(u, q) /\ (journal[u].state = "done" => ran[q] > 0)
    BY DEF Kept
  <2>2. journal'[u].state = "done" => ran[q] > 0
    BY <1>1, <2>1 DEF Holds
  <2> QED
    BY <1>2, <2>1, <2>2
<1>6. RanOnce'
  BY <1>1 DEF RanOnce
<1>7. MergedHeld'
  <2>1. ASSUME merged # NoTurn
        PROVE  /\ merged.id \in Unstarted' /\ \A u \in Unstarted' : merged.id <= u
               /\ merged.id \in Turns
    BY <1>1, <2>1 DEF MergedHeld, Unstarted, InState
  <2> QED
    BY <1>1, <2>1 DEF MergedHeld
<1> QED
  BY <1>1, <1>3, <1>4, <1>5, <1>6, <1>7

\* A message with a new prompt, of a turn that has not been recorded or has not
\* started; what it leaves out is withdrawn.
LEMMA MessageKept ==
  ASSUME Lasting, Lasting', Fates, Single, Kept, RanOnce, merged = NoTurn, merged' = NoTurn, ran' = ran,
         NEW p \in Prompts, fate[p] = "unsent", fate'[p] = "accepted",
         NEW turn \in TurnRecords, turn.id \in Turns, RecordMessage(turn), p \in turn.text,
         journal[turn.id].state \in {"none", "unstarted"},
         \A q \in Prompts : q # p /\ q \in turn.text => Holds(turn.id, q),
         \A q \in Prompts : q # p =>
           fate'[q] = IF Holds(turn.id, q) /\ q \notin turn.text THEN "replaced" ELSE fate[q]
  PROVE  Fates' /\ Single' /\ Kept' /\ RanOnce'
<1> DEFINE t == turn.id
<1>1. /\ \A u \in Turns : u # t => journal'[u] = journal[u]
      /\ journal'[t].text = turn.text /\ journal'[t].state = "unstarted"
  BY MessageIs DEF Lasting
<1>2. \A u \in Turns, q \in Prompts : Holds(u, q)' <=> IF u = t THEN q \in turn.text ELSE Holds(u, q)
  BY <1>1 DEF Holds, Live
<1>3. \A u \in Turns : p \notin journal[u].text
  BY DEF Fates
<1>4. ran[p] = 0 /\ \A q \in Prompts : ran[q] \in Nat
  BY DEF RanOnce, Lasting
<1>5. NoTurn.text = {}
  BY Nothing
<1> HIDE DEF t
<1>6. Fates'
  <2> SUFFICES ASSUME NEW q \in Prompts
               PROVE  /\ fate'[q] \in {"unsent", "refused"} => \A u \in Turns : q \notin journal'[u].text
                      /\ fate'[q] \in {"replaced", "removed"} => \A u \in Turns : ~Holds(u, q)'
    BY <1>5 DEF Fates
  <2>1. CASE q = p
    BY <2>1
  <2>2. CASE q # p /\ fate'[q] \in {"unsent", "refused"}
    <3>1. fate[q] = fate'[q] /\ \A u \in Turns : q \notin journal[u].text
      BY <2>2 DEF Fates
    <3>2. q \notin turn.text
      BY <2>2, <3>1 DEF Holds, t
    <3> QED
      BY <1>1, <2>2, <3>1, <3>2
  <2>3. CASE q # p /\ fate'[q] \in {"replaced", "removed"}
    <3>1. CASE Holds(t, q) /\ q \notin turn.text
      BY <1>2, <3>1 DEF Single, t
    <3>2. CASE ~(Holds(t, q) /\ q \notin turn.text)
      <4>1. fate[q] = fate'[q]
        BY <2>3, <3>2 DEF t
      <4>2. \A u \in Turns : ~Holds(u, q)
        BY <2>3, <4>1 DEF Fates
      <4>3. q \notin turn.text
        BY <2>3, <4>2 DEF t
      <4> QED
        BY <1>2, <2>3, <4>2, <4>3
    <3> QED
      BY <3>1, <3>2
  <2> QED
    BY <2>1, <2>2, <2>3
<1>7. Single'
  <2> SUFFICES ASSUME NEW q \in Prompts, NEW u \in Turns, Holds(u, q)', NEW v \in Turns, Holds(v, q)'
               PROVE  v = u
    BY <1>5 DEF Single
  <2>1. CASE q = p
    BY <1>2, <1>3, <2>1 DEF Holds
  <2>2. CASE q # p
    <3>1. Holds(u, q) /\ Holds(v, q)
      BY <1>2, <2>2 DEF t
    <3> QED
      BY <3>1 DEF Single
  <2> QED
    BY <2>1, <2>2
<1>8. Kept'
  <2> SUFFICES ASSUME NEW q \in Prompts, fate'[q] = "accepted"
               PROVE  \E u \in Turns : Holds(u, q)' /\ (journal'[u].state = "done" => ran[q] > 0)
    BY DEF Kept
  <2>1. CASE q = p
    BY <1>1, <1>2, <2>1 DEF t
  <2>2. CASE q # p
    <3>1. fate[q] = "accepted" /\ ~(Holds(t, q) /\ q \notin turn.text)
      BY <2>2 DEF t
    <3>2. PICK u \in Turns : Holds(u, q) /\ (journal[u].state = "done" => ran[q] > 0)
      BY <1>5, <3>1 DEF Kept
    <3>3. CASE u = t
      BY <1>1, <1>2, <3>1, <3>2, <3>3
    <3>4. CASE u # t
      BY <1>1, <1>2, <3>2, <3>4
    <3> QED
      BY <3>3, <3>4
  <2> QED
    BY <2>1, <2>2
<1>9. RanOnce'
  <2> SUFFICES ASSUME NEW q \in Prompts
               PROVE  /\ ran[q] <= IF fate'[q] = "accepted" THEN 1 ELSE 0
                      /\ \A u \in Turns : q \in journal'[u].text /\ journal'[u].state = "unstarted" => ran[q] = 0
    BY <1>5 DEF RanOnce
  <2>1. CASE q = p
    BY <1>4, <2>1
  <2>2. CASE q # p
    <3>1. Holds(t, q) => ran[q] = 0
      BY DEF RanOnce, Holds, Live, t
    <3>2. fate'[q] # fate[q] => Holds(t, q)
      BY <2>2 DEF t
    <3>3. ran[q] <= IF fate[q] = "accepted" THEN 1 ELSE 0
      BY DEF RanOnce
    <3>4. ran[q] <= IF fate'[q] = "accepted" THEN 1 ELSE 0
      BY <1>4, <3>1, <3>2, <3>3
    <3>5. ASSUME NEW u \in Turns, q \in journal'[u].text, journal'[u].state = "unstarted"
          PROVE  ran[q] = 0
      <4>1. CASE u = t
        BY <1>1, <2>2, <3>1, <3>5, <4>1 DEF t
      <4>2. CASE u # t
        BY <1>1, <3>5, <4>2 DEF RanOnce
      <4> QED
        BY <4>1, <4>2
    <3> QED
      BY <3>4, <3>5
  <2> QED
    BY <2>1, <2>2
<1> QED
  BY <1>6, <1>7, <1>8, <1>9

\* A prompt that is refused is nowhere.
LEMMA RefusedKept ==
  ASSUME Lasting, Fates, Single, Kept, RanOnce, UNCHANGED <<journal, merged, ran>>,
         NEW p \in Prompts, fate[p] = "unsent", fate' = [fate EXCEPT ![p] = "refused"]
  PROVE  Fates' /\ Single' /\ Kept' /\ RanOnce'
<1>1. \A u \in Turns, q \in Prompts : Holds(u, q)' <=> Holds(u, q)
  BY DEF Holds
<1>2. \A q \in Prompts : fate'[q] = IF q = p THEN "refused" ELSE fate[q]
  BY DEF Lasting
<1>3. Fates'
  BY <1>1, <1>2 DEF Fates
<1>4. Single'
  BY <1>1 DEF Single
<1>5. Kept'
  BY <1>1, <1>2 DEF Kept
<1>6. RanOnce'
  BY <1>2 DEF RanOnce
<1> QED
  BY <1>3, <1>4, <1>5, <1>6

\* The removal of a message withdraws what it holds.
LEMMA RemovalKept ==
  ASSUME Lasting, Fates, Single, Kept, RanOnce, merged = NoTurn, merged' = NoTurn, ran' = ran,
         NEW t \in Turns, Recorded(t, "removed"), journal[t].state = "unstarted",
         \A q \in Prompts : fate'[q] = IF q \in journal[t].text THEN "removed" ELSE fate[q]
  PROVE  Fates' /\ Single' /\ Kept' /\ RanOnce'
<1>1. \A u \in Turns : /\ u # t => journal'[u] = journal[u]
                       /\ journal'[u].state = IF u = t THEN "removed" ELSE journal[u].state
                       /\ journal'[u].text = journal[u].text
  BY RecordedIs DEF Lasting, Verdicts
<1>2. \A u \in Turns, q \in Prompts : Holds(u, q)' <=> u # t /\ Holds(u, q)
  BY <1>1 DEF Holds, Live
<1>3. \A q \in Prompts : q \in journal[t].text => Holds(t, q) /\ ran[q] = 0
  BY DEF Holds, Live, RanOnce
<1>4. NoTurn.text = {}
  BY Nothing
<1>5. Fates'
  <2> SUFFICES ASSUME NEW q \in Prompts
               PROVE  /\ fate'[q] \in {"unsent", "refused"} => \A u \in Turns : q \notin journal'[u].text
                      /\ fate'[q] \in {"replaced", "removed"} => \A u \in Turns : ~Holds(u, q)'
    BY <1>4 DEF Fates
  <2>1. CASE q \in journal[t].text
    BY <1>2, <1>3, <2>1 DEF Single
  <2>2. CASE q \notin journal[t].text
    BY <1>1, <1>2, <2>2 DEF Fates
  <2> QED
    BY <2>1, <2>2
<1>6. Single'
  BY <1>2, <1>4 DEF Single
<1>7. Kept'
  <2> SUFFICES ASSUME NEW q \in Prompts, fate'[q] = "accepted"
               PROVE  \E u \in Turns : Holds(u, q)' /\ (journal'[u].state = "done" => ran[q] > 0)
    BY DEF Kept
  <2>1. q \notin journal[t].text /\ fate[q] = "accepted"
    OBVIOUS
  <2>2. PICK u \in Turns : Holds(u, q) /\ (journal[u].state = "done" => ran[q] > 0)
    BY <1>4, <2>1 DEF Kept
  <2>3. u # t
    BY <2>1, <2>2 DEF Holds
  <2> QED
    BY <1>1, <1>2, <2>2, <2>3
<1>8. RanOnce'
  <2> SUFFICES ASSUME NEW q \in Prompts
               PROVE  /\ ran[q] <= IF fate'[q] = "accepted" THEN 1 ELSE 0
                      /\ \A u \in Turns : q \in journal'[u].text /\ journal'[u].state = "unstarted" => ran[q] = 0
    BY <1>4 DEF RanOnce
  <2>1. ran[q] <= IF fate'[q] = "accepted" THEN 1 ELSE 0
    BY <1>3 DEF RanOnce
  <2> QED
    BY <1>1, <2>1 DEF RanOnce
<1> QED
  BY <1>5, <1>6, <1>7, <1>8

\* A started turn is run.
LEMMA RunKept ==
  ASSUME Lasting, Fates, Single, Kept, RanOnce, UNCHANGED <<journal, fate, merged>>, merged = NoTurn,
         NEW t \in Turns, journal[t].state = "started",
         \A q \in Prompts : q \in journal[t].text => ran[q] = 0,
         \A q \in Prompts : ran'[q] = IF q \in journal[t].text THEN ran[q] + 1 ELSE ran[q]
  PROVE  Fates' /\ Single' /\ Kept' /\ RanOnce'
<1>1. \A u \in Turns, q \in Prompts : Holds(u, q)' <=> Holds(u, q)
  BY DEF Holds
<1>2. NoTurn.text = {}
  BY Nothing
<1>3. Fates' /\ Single'
  BY <1>1 DEF Fates, Single
<1>4. \A q \in Prompts : ran[q] \in Nat
  BY DEF Lasting
<1>5. Kept'
  <2> SUFFICES ASSUME NEW q \in Prompts, fate[q] = "accepted"
               PROVE  \E u \in Turns : Holds(u, q)' /\ (journal[u].state = "done" => ran'[q] > 0)
    BY DEF Kept
  <2>1. PICK u \in Turns : Holds(u, q) /\ (journal[u].state = "done" => ran[q] > 0)
    BY <1>2 DEF Kept
  <2>2. ran'[q] >= ran[q] /\ ran'[q] \in Nat
    BY <1>4
  <2> QED
    BY <1>1, <1>4, <2>1, <2>2
<1>6. RanOnce'
  <2> SUFFICES ASSUME NEW q \in Prompts
               PROVE  /\ ran'[q] <= IF fate[q] = "accepted" THEN 1 ELSE 0
                      /\ \A u \in Turns : q \in journal[u].text /\ journal[u].state = "unstarted" => ran'[q] = 0
    BY <1>2 DEF RanOnce
  <2>1. CASE q \in journal[t].text
    <3>1. Holds(t, q)
      BY <2>1 DEF Holds, Live
    <3>2. fate[q] = "accepted"
      BY <2>1, <3>1 DEF Fates, Lasting
    <3>3. ASSUME NEW u \in Turns, q \in journal[u].text, journal[u].state = "unstarted"
          PROVE  FALSE
      <4>1. Holds(u, q)
        BY <3>3 DEF Holds, Live
      <4> QED
        BY <3>1, <3>3, <4>1 DEF Single
    <3> QED
      BY <2>1, <3>2, <3>3
  <2>2. CASE q \notin journal[t].text
    BY <2>2 DEF RanOnce
  <2> QED
    BY <2>1, <2>2
<1> QED
  BY <1>3, <1>5, <1>6

\* An unstarted turn is merged into the first of them.
LEMMA MergeKept ==
  ASSUME TypeInv, KeptInv, RecoverMerge, Queued'
  PROVE  Fates' /\ Single' /\ Kept' /\ RanOnce' /\ MergedHeld' /\ NoShell'
<1> DEFINE first == First(Unstarted)
           next == First(Unstarted \ {first})
           turn == IF merged = NoTurn THEN FromJournal(first) ELSE merged
           more == journal[next].text
<1>0. Lasting /\ Queued /\ Turns \in SUBSET Nat
  BY TypeParts, TurnCount DEF TypeInv
<1>1. /\ first \in Unstarted /\ next \in Unstarted /\ next # first
      /\ \A t \in Unstarted : first <= t
  BY TwoUnstarted, InStateIs, FirstIs DEF RecoverMerge
<1>2. /\ first \in Turns /\ next \in Turns
      /\ journal[first].state = "unstarted" /\ journal[next].state = "unstarted"
  BY <1>1 DEF Unstarted, InState
<1>3. /\ turn \in TurnRecords /\ turn.id = first /\ ~turn.shell
      /\ journal[first].text \subseteq turn.text /\ turn.input = turn.text
  <2>1. CASE merged = NoTurn
    <3>1. turn = FromJournal(first)
      BY <2>1
    <3> QED
      <4>1. FromJournal(first) \in TurnRecords
        BY <1>0, <1>2, FromJournalTyped DEF Lasting
      <4>2. /\ FromJournal(first).id = first /\ FromJournal(first).shell = journal[first].shell
            /\ FromJournal(first).text = journal[first].text
            /\ FromJournal(first).input = journal[first].text
        BY DEF FromJournal
      <4>3. ~journal[first].shell
        BY <1>2 DEF KeptInv, NoShell
      <4> HIDE DEF first, turn
      <4> QED
        BY <3>1, <4>1, <4>2, <4>3
  <2>2. CASE merged # NoTurn
    <3>1. merged.id = first
      <4>1. merged.id \in Unstarted /\ \A t \in Unstarted : merged.id <= t
        BY <2>2 DEF KeptInv, MergedHeld
      <4>2. merged.id \in Nat /\ first \in Nat /\ merged.id <= first /\ first <= merged.id
        BY <1>0, <1>1, <1>2, <4>1, TurnFields DEF Queued
      <4> HIDE DEF first
      <4> QED
        BY <4>2
    <3> QED
      BY <1>0, <2>2, <3>1 DEF KeptInv, MergedHeld, NoShell, Queued
  <2> QED
    BY <2>1, <2>2
<1>4. \A q \in Prompts : q \in turn.text => q \in merged.text \/ Holds(first, q)
  BY <1>2 DEF FromJournal, Holds, Live
<1>5. /\ Recorded(next, "merged")
      /\ merged' = [turn EXCEPT !.text = @ \union more,
                                !.input = IF turn.shell THEN @ ELSE @ \union more]
      /\ UNCHANGED <<pendingTurn, fate, ran>>
  BY DEF RecoverMerge, queueing, history
<1>6. merged.text \subseteq turn.text
  BY Nothing
<1>7. more \in SUBSET Prompts
  BY <1>0, <1>2 DEF Lasting, Records
<1> HIDE DEF first, next, turn
<1>8. /\ merged'.text = turn.text \union more /\ merged'.input = turn.text \union more
      /\ merged'.id = first /\ ~merged'.shell
  BY <1>3, <1>5 DEF TurnRecords
<1>9. \A u \in Turns : /\ u # next => journal'[u] = journal[u]
                       /\ journal'[u].state = IF u = next THEN "merged" ELSE journal[u].state
                       /\ journal'[u].text = journal[u].text
                       /\ journal'[u].shell = journal[u].shell
  BY <1>0, <1>2, <1>5, RecordedIs DEF Lasting, Verdicts
<1>10. \A u \in Turns, q \in Prompts : Holds(u, q)' <=> u # next /\ Holds(u, q)
  BY <1>9 DEF Holds, Live
<1>11. \A q \in Prompts : q \in more => Holds(next, q) /\ ran[q] = 0 /\ q \notin turn.text
  <2> SUFFICES ASSUME NEW q \in Prompts, q \in more
               PROVE  Holds(next, q) /\ ran[q] = 0 /\ q \notin turn.text
    OBVIOUS
  <2>1. Holds(next, q) /\ ran[q] = 0
    BY <1>2 DEF Holds, Live, KeptInv, RanOnce
  <2>2. ~Holds(first, q)
    BY <1>1, <1>2, <2>1 DEF KeptInv, Single
  <2>3. q \notin merged.text
    <3>1. ASSUME q \in merged.text PROVE FALSE
      <4>1. merged.id = next /\ merged # NoTurn
        BY <1>2, <2>1, <3>1, Nothing DEF KeptInv, Single
      <4>2. merged.id <= first
        BY <1>1, <4>1 DEF KeptInv, MergedHeld
      <4>3. first <= next
        BY <1>1
      <4> QED
        BY <1>0, <1>1, <1>2, <4>1, <4>2, <4>3
    <3> QED
      BY <3>1
  <2> QED
    BY <1>4, <2>1, <2>2, <2>3
<1> HIDE DEF more
<1>12. Fates'
  <2> SUFFICES ASSUME NEW q \in Prompts, NEW u \in Turns
               PROVE  /\ fate[q] \in {"unsent", "refused"} => q \notin merged'.text /\ q \notin journal'[u].text
                      /\ fate[q] \in {"replaced", "removed"} => q \notin merged'.text /\ ~Holds(u, q)'
    BY <1>1, <1>2, <1>5 DEF Fates
  <2>1. q \in merged'.text => q \in merged.text \/ Holds(first, q) \/ Holds(next, q)
    BY <1>4, <1>8, <1>11
  <2>2. fate[q] \in {"unsent", "refused"} => q \notin merged.text /\ ~Holds(first, q) /\ ~Holds(next, q)
                                             /\ q \notin journal[u].text
    BY <1>2 DEF KeptInv, Fates, Holds
  <2>3. fate[q] \in {"replaced", "removed"} => q \notin merged.text /\ ~Holds(first, q) /\ ~Holds(next, q)
                                             /\ ~Holds(u, q)
    BY <1>2 DEF KeptInv, Fates
  <2> QED
    BY <1>9, <1>10, <2>1, <2>2, <2>3
<1>13. Single'
  <2> SUFFICES ASSUME NEW q \in Prompts, NEW t \in Turns, Holds(t, q)'
               PROVE  /\ \A u \in Turns : Holds(u, q)' => u = t
                      /\ q \in merged'.text => t = merged'.id
    BY DEF Single
  <2>1. t # next /\ Holds(t, q)
    BY <1>10
  <2>2. \A u \in Turns : Holds(u, q)' => u = t
    BY <1>10, <2>1 DEF KeptInv, Single
  <2>3. ASSUME q \in merged'.text PROVE t = first
    <3>1. q \notin more
      BY <1>2, <1>11, <2>1 DEF KeptInv, Single
    <3>2. CASE Holds(first, q)
      BY <1>2, <2>1, <3>2 DEF KeptInv, Single
    <3>3. CASE q \in merged.text
      <4>1. t = merged.id /\ merged # NoTurn
        BY <2>1, <3>3, Nothing DEF KeptInv, Single
      <4>2. merged.id \in Turns /\ merged.id <= first /\ first <= merged.id
        BY <1>1, <4>1 DEF KeptInv, MergedHeld, Unstarted, InState
      <4> QED
        BY <1>0, <1>2, <4>1, <4>2
    <3> QED
      BY <1>4, <1>8, <2>3, <3>1, <3>2, <3>3
  <2> QED
    BY <1>8, <2>2, <2>3
<1>14. Kept'
  <2> SUFFICES ASSUME NEW q \in Prompts, fate[q] = "accepted", q \notin merged'.text
               PROVE  \E u \in Turns : Holds(u, q)' /\ (journal'[u].state = "done" => ran[q] > 0)
    BY <1>5 DEF Kept
  <2>1. q \notin merged.text /\ q \notin more
    BY <1>6, <1>8
  <2>2. PICK u \in Turns : Holds(u, q) /\ (journal[u].state = "done" => ran[q] > 0)
    BY <2>1 DEF KeptInv, Kept
  <2>3. u # next
    BY <2>1, <2>2 DEF Holds, more
  <2> QED
    BY <1>9, <1>10, <2>2, <2>3
<1>15. RanOnce'
  <2>1. \A q \in Prompts : q \in merged'.text => ran[q] = 0
    BY <1>2, <1>4, <1>8, <1>11 DEF KeptInv, RanOnce, Holds
  <2> QED
    BY <1>5, <1>9, <2>1 DEF KeptInv, RanOnce
<1>16. MergedHeld'
  <2>1. Unstarted' = Unstarted \ {next}
    BY <1>9 DEF Unstarted, InState
  <2> QED
    BY <1>1, <1>2, <1>3, <1>8, <1>9, <2>1 DEF MergedHeld
<1>17. NoShell'
  BY <1>5, <1>8, <1>9 DEF KeptInv, NoShell
<1> QED
  BY <1>12, <1>13, <1>14, <1>15, <1>16, <1>17

\* The process serves what it has recovered.
LEMMA ServeKept ==
  ASSUME TypeInv, TextInv, KeptInv, RecoverServe, Lasting'
  PROVE  KeptInv'
<1>0. Lasting /\ Queued /\ Blank /\ Turns \in SUBSET Nat
  BY TypeParts, TurnCount DEF TypeInv
<1>1. Recovered \in TurnRecords
  BY <1>0, RecoveredTyped DEF Lasting, Queued
<1>2. /\ pendingTurn' = Recovered /\ merged' = NoTurn /\ fate' = fate /\ ran' = ran /\ loop' = loop
      /\ IF merged = NoTurn THEN UNCHANGED journal ELSE RecordMessage(Recovered)
  BY DEF RecoverServe, history
<1>3. loop.at = "idle"
  BY <1>0, Nothing DEF RecoverServe, Blank, Up
<1>4. NoTurn.text = {} /\ ~NoTurn.shell
  BY Nothing DEF NoTurn
<1>5. LoopHeld' /\ MergedHeld'
  BY <1>2, <1>3 DEF LoopHeld, MergedHeld
<1>6. CASE merged = NoTurn
  <2>1. journal' = journal
    BY <1>2, <1>6
  <2>2. Fates' /\ Single' /\ Kept' /\ RanOnce'
    BY <1>2, <1>6, <2>1 DEF KeptInv, Fates, Single, Kept, RanOnce, Holds
  <2>3. PendingHeld' /\ NoShell'
    <3>1. CASE Unstarted = {}
      <4>1. Recovered = NoTurn
        BY <1>6, <3>1 DEF Recovered
      <4> QED
        BY <1>2, <1>4, <2>1, <4>1 DEF PendingHeld, KeptInv, NoShell
    <3>2. CASE Unstarted # {}
      <4>1. First(Unstarted) \in Unstarted
        BY <3>2, InStateIs, FirstIs
      <4>2. Recovered = FromJournal(First(Unstarted))
        BY <1>6, <3>2 DEF Recovered
      <4>3. /\ Recovered.id \in Turns /\ journal[Recovered.id].state = "unstarted"
            /\ Recovered.input = journal[Recovered.id].text /\ Recovered.text = journal[Recovered.id].text
            /\ Recovered.shell = journal[Recovered.id].shell
        BY <4>1, <4>2 DEF FromJournal, Unstarted, InState
      <4> QED
        BY <1>2, <1>3, <1>4, <2>1, <4>3 DEF PendingHeld, KeptInv, NoShell
    <3> QED
      BY <3>1, <3>2
  <2> QED
    BY <1>5, <2>2, <2>3 DEF KeptInv
<1>7. CASE merged # NoTurn
  <2> DEFINE t == merged.id
  <2>1. /\ t \in Turns /\ journal[t].state = "unstarted" /\ journal[t].text \subseteq merged.text
        /\ merged.input = merged.text
    BY <1>7 DEF KeptInv, MergedHeld, Unstarted, InState
  <2>2. Recovered = [merged EXCEPT !.rev = @ + 1]
    BY <1>7 DEF Recovered
  <2>3. /\ Recovered.id = t /\ Recovered.text = merged.text /\ Recovered.input = merged.text
        /\ Recovered.shell = merged.shell
    BY <1>0, <2>1, <2>2 DEF Queued, TurnRecords
  <2>4. /\ \A u \in Turns : u # t => journal'[u] = journal[u]
        /\ journal'[t].text = merged.text /\ journal'[t].state = "unstarted"
        /\ journal'[t].shell = merged.shell
    BY <1>0, <1>1, <1>2, <1>7, <2>1, <2>3, MessageIs DEF Lasting
  <2> HIDE DEF t
  <2>5. \A u \in Turns, q \in Prompts : Holds(u, q)' <=> IF u = t THEN q \in merged.text ELSE Holds(u, q)
    BY <2>4 DEF Holds, Live
  <2>6. Fates'
    <3> SUFFICES ASSUME NEW q \in Prompts, NEW u \in Turns
                 PROVE  /\ fate[q] \in {"unsent", "refused"} => q \notin journal'[u].text
                        /\ fate[q] \in {"replaced", "removed"} => ~Holds(u, q)'
      BY <1>2, <1>4, <2>1 DEF Fates, t
    <3>1. CASE u = t
      BY <2>4, <2>5, <3>1 DEF KeptInv, Fates
    <3>2. CASE u # t
      BY <2>4, <2>5, <3>2 DEF KeptInv, Fates
    <3> QED
      BY <3>1, <3>2
  <2>7. Single'
    <3> SUFFICES ASSUME NEW q \in Prompts, NEW u \in Turns, Holds(u, q)', NEW v \in Turns, Holds(v, q)'
                 PROVE  v = u
      BY <1>2, <1>4 DEF Single
    <3>1. CASE q \in merged.text
      BY <2>5, <3>1 DEF KeptInv, Single, t
    <3>2. CASE q \notin merged.text
      BY <2>5, <3>2 DEF KeptInv, Single
    <3> QED
      BY <3>1, <3>2
  <2>8. Kept'
    <3> SUFFICES ASSUME NEW q \in Prompts, fate[q] = "accepted"
                 PROVE  \E u \in Turns : Holds(u, q)' /\ (journal'[u].state = "done" => ran[q] > 0)
      BY <1>2 DEF Kept
    <3>1. CASE q \in merged.text
      BY <2>1, <2>4, <2>5, <3>1 DEF t
    <3>2. CASE q \notin merged.text
      <4>1. PICK u \in Turns : Holds(u, q) /\ (journal[u].state = "done" => ran[q] > 0)
        BY <3>2 DEF KeptInv, Kept
      <4>2. u # t
        BY <2>1, <3>2, <4>1 DEF Holds, t
      <4> QED
        BY <2>4, <2>5, <4>1, <4>2
    <3> QED
      BY <3>1, <3>2
  <2>9. RanOnce'
    <3> SUFFICES ASSUME NEW q \in Prompts, NEW u \in Turns, q \in journal'[u].text, journal'[u].state = "unstarted"
                 PROVE  ran[q] = 0
      BY <1>2, <1>4 DEF KeptInv, RanOnce
    <3>1. CASE u = t
      BY <2>4, <3>1 DEF KeptInv, RanOnce
    <3>2. CASE u # t
      BY <2>4, <3>2 DEF KeptInv, RanOnce
    <3> QED
      BY <3>1, <3>2
  <2>10. PendingHeld'
    BY <1>2, <1>3, <2>3, <2>4 DEF PendingHeld
  <2>11. NoShell'
    BY <1>2, <1>4, <2>3, <2>4 DEF KeptInv, NoShell
  <2> QED
    BY <1>5, <2>6, <2>7, <2>8, <2>9, <2>10, <2>11 DEF KeptInv
<1> QED
  BY <1>6, <1>7

\* What becomes of the turns in memory when the loop stays where it is.
LEMMA MemoryKept ==
  ASSUME PendingHeld, LoopHeld, loop' = loop \/ (loop'.at = loop.at /\ loop'.turn = loop.turn),
         ran' = ran, failed => failed', pendingTurn' = pendingTurn \/ pendingTurn' = NoTurn,
         pendingTurn # NoTurn /\ ~failed' => journal'[pendingTurn.id] = journal[pendingTurn.id],
         loop.at \in {"taken", "active", "started", "running"} =>
           journal'[loop.turn.id] = journal[loop.turn.id]
  PROVE  PendingHeld' /\ LoopHeld'
<1>1. PendingHeld'
  BY DEF PendingHeld
<1>2. LoopHeld'
  BY DEF LoopHeld
<1> QED
  BY <1>1, <1>2

\* Steps that leave the prompts alone.
LEMMA SameKept ==
  ASSUME KeptInv, UNCHANGED <<journal, fate, ran, merged>>,
         pendingTurn' = pendingTurn \/ pendingTurn' = NoTurn
  PROVE  Fates' /\ Single' /\ Kept' /\ RanOnce' /\ MergedHeld' /\ NoShell'
<1>1. \A u \in Turns, q \in Prompts : Holds(u, q)' <=> Holds(u, q)
  BY DEF Holds
<1>2. Fates' /\ Single' /\ Kept' /\ RanOnce'
  BY <1>1 DEF KeptInv, Fates, Single, Kept, RanOnce
<1>3. MergedHeld'
  BY DEF KeptInv, MergedHeld, Unstarted, InState
<1>4. NoShell'
  BY DEF KeptInv, NoShell, NoTurn
<1> QED
  BY <1>2, <1>3, <1>4

LEMMA LoopKept ==
  ASSUME TypeInv, TextInv, KeptInv, LoopSteps
  PROVE  KeptInv'
<1> DEFINE t == loop.turn.id
<1>0. Lasting /\ Queued /\ Given /\ Blank /\ Turns \in SUBSET Nat
  BY TypeParts, TurnCount DEF TypeInv
<1>1. loop.at \notin {"idle", "stopped"} => t \in Turns
  BY <1>0, TurnCount, TurnFields DEF Queued, Given, Turns
<1>2. Fates /\ Single /\ Kept /\ RanOnce /\ PendingHeld /\ LoopHeld /\ MergedHeld /\ NoShell
  BY DEF KeptInv
<1>3. Up /\ UNCHANGED <<fate, merged>>
  BY DEF LoopSteps, ReceiveTurn, takePendingTurn, ReturnTurn, ActivateTurn, StartTurn, RunTurn,
     CompleteTurn, DeactivateTurn, PublishIdle, finishTurn, NextTurn, history
<1>4. merged = NoTurn
  BY <1>0, <1>3 DEF Blank
<1>5. CASE \/ ReceiveTurn \/ ReturnTurn \/ NextTurn
           \/ takePendingTurn /\ pendingTurn.id # loop.turn.id
  <2>1. UNCHANGED <<journal, fate, ran, merged, pendingTurn, failed>>
    BY <1>5 DEF ReceiveTurn, ReturnTurn, NextTurn, takePendingTurn, durable, history, queueing
  <2>2. loop'.at \in {"received", "stopped", "idle"}
    BY <1>5, Nothing DEF ReceiveTurn, ReturnTurn, NextTurn, takePendingTurn, Idle
  <2>3. PendingHeld' /\ LoopHeld'
    BY <1>2, <2>1, <2>2 DEF PendingHeld, LoopHeld
  <2> QED
    BY <2>1, <2>3, SameKept DEF KeptInv
<1>6. CASE takePendingTurn /\ pendingTurn.id = loop.turn.id
  <2>1. /\ UNCHANGED <<journal, fate, ran, merged, failed>> /\ pendingTurn' = NoTurn
        /\ loop'.at = "taken" /\ loop'.turn = pendingTurn
    BY <1>0, <1>6 DEF takePendingTurn, durable, history, Queued
  <2>2. pendingTurn # NoTurn /\ pendingTurn.id \in Turns
    <3>1. t \in Turns
      BY <1>1, <1>6 DEF takePendingTurn
    <3> QED
      BY <1>6, <3>1, Nothing, TurnCount DEF Turns
  <2>3. PendingHeld'
    BY <2>1 DEF PendingHeld
  <2>4. LoopHeld'
    <3>1. ~failed => /\ pendingTurn.input = journal[pendingTurn.id].text
                     /\ journal[pendingTurn.id].state = "unstarted"
      BY <1>2, <2>2 DEF PendingHeld
    <3>2. journal[pendingTurn.id].text \in SUBSET Prompts
      BY <1>0, <2>2 DEF Lasting, Records
    <3>3. ~failed => \A p \in journal[pendingTurn.id].text : ran[p] = 0
      BY <1>2, <2>2, <3>1, <3>2 DEF RanOnce
    <3> QED
      BY <2>1, <3>1, <3>3 DEF LoopHeld
  <2> QED
    BY <2>1, <2>3, <2>4, SameKept DEF KeptInv
<1>7. CASE ActivateTurn \/ DeactivateTurn \/ PublishIdle \/ finishTurn
  <2>1. /\ UNCHANGED <<journal, fate, ran, merged, failed, pendingTurn>>
        /\ loop'.turn = loop.turn /\ loop.at \in {"taken", "completed", "inactive", "closing"}
        /\ loop'.at \in {"completed", "inactive", "closing", "ended"} \/ (loop.at = "taken" /\ loop'.at = "active")
    BY <1>0, <1>7 DEF ActivateTurn, DeactivateTurn, PublishIdle, finishTurn, LoopStep, durable, history,
       queueing, Queued
  <2>2. PendingHeld' /\ LoopHeld'
    BY <1>2, <2>1 DEF PendingHeld, LoopHeld
  <2> QED
    BY <2>1, <2>2, SameKept DEF KeptInv
<1>8. CASE RunTurn
  <2>1. /\ UNCHANGED <<journal, fate, merged, failed, pendingTurn>>
        /\ loop'.turn = loop.turn /\ loop.at = "started" /\ loop'.at = "running"
        /\ ran' = [p \in Prompts |-> IF p \in loop.turn.input THEN ran[p] + 1 ELSE ran[p]]
    BY <1>0, <1>8 DEF RunTurn, LoopStep, durable, queueing, Queued
  <2>2. /\ t \in Turns /\ journal[t].state = "started" /\ loop.turn.input = journal[t].text
        /\ \A p \in journal[t].text : ran[p] = 0
    BY <1>1, <1>2, <2>1 DEF LoopHeld
  <2>3. journal[t].text \in SUBSET Prompts
    BY <1>0, <2>2 DEF Lasting, Records
  <2>4. Fates' /\ Single' /\ Kept' /\ RanOnce'
    BY <1>0, <1>2, <1>4, <2>1, <2>2, <2>3, RunKept
  <2>5. PendingHeld'
    BY <1>2, <2>1 DEF PendingHeld
  <2>6. LoopHeld'
    BY <2>1, <2>2, <2>3 DEF LoopHeld
  <2>7. MergedHeld' /\ NoShell'
    BY <1>2, <1>4, <2>1 DEF MergedHeld, NoShell
  <2> QED
    BY <2>4, <2>5, <2>6, <2>7 DEF KeptInv
<1>9. CASE StartTurn \/ CompleteTurn
  <2> DEFINE end == IF loop.at = "active" THEN "started" ELSE IF loop.cut THEN "interrupted" ELSE "done"
  <2>1. /\ ran' = ran /\ pendingTurn' = pendingTurn
        /\ loop'.turn = loop.turn /\ loop.at \in {"active", "running"}
        /\ loop'.at \in {"completed", "started"}
        /\ loop'.at = "started" => ~failed /\ Recorded(t, end) /\ end = "started"
        /\ \/ journal' = journal
           \/ Recorded(t, end) /\ (loop.at = "active" => ~failed)
        /\ failed => failed'
        /\ ~failed' => ~failed
    BY <1>0, <1>9 DEF StartTurn, CompleteTurn, LoopStep, Appended, NotAppended, AppendFails, history,
       queueing, Queued
  <2>2. t \in Turns /\ journal[t].text \in SUBSET Prompts
    BY <1>0, <1>1, <2>1 DEF Lasting, Records
  <2>3. /\ loop.at = "running" => journal[t].state = "started" /\ \A p \in journal[t].text : ran[p] = 1
        /\ loop.at = "active" /\ ~failed => /\ journal[t].state \in {"unstarted", "started"}
                                            /\ \A p \in journal[t].text : ran[p] = 0
                                            /\ loop.turn.input = journal[t].text
    BY <1>2, <2>1 DEF LoopHeld
  <2>4. Fates' /\ Single' /\ Kept' /\ RanOnce' /\ MergedHeld' /\ NoShell'
    <3>1. CASE journal' = journal
      BY <1>3, <2>1, <3>1, SameKept
    <3>2. CASE Recorded(t, end) /\ (loop.at = "active" => ~failed)
      <4>1. end \in {"started", "interrupted", "done"}
        OBVIOUS
      <4>2. end = "done" => \A p \in Prompts : p \in journal[t].text => ran[p] > 0
        BY <2>1, <2>3
      <4>3. journal[t].state \in {"unstarted", "started"}
        BY <2>1, <2>3, <3>2
      <4>4. Fates' /\ Single' /\ Kept' /\ RanOnce' /\ MergedHeld' /\ \A u \in Turns : ~journal'[u].shell
        <5> HIDE DEF t, end
        <5> QED
          BY <1>0, <1>2, <1>3, <1>4, <2>1, <2>2, <3>2, <4>1, <4>2, <4>3, EventKept DEF NoShell
      <4>5. NoShell'
        BY <1>2, <1>3, <2>1, <4>4 DEF NoShell
      <4> QED
        BY <4>4, <4>5
    <3> QED
      BY <2>1, <3>1, <3>2
  <2>5. \A u \in Turns : /\ u # t => journal'[u] = journal[u]
                         /\ journal'[u].text = journal[u].text
                         /\ Recorded(t, end) /\ u = t => journal'[u].state = end
    BY <1>0, <2>1, RecordedIs DEF Lasting, Verdicts
  <2>6. LoopHeld'
    BY <2>1, <2>2, <2>3, <2>5 DEF LoopHeld
  <2>7. PendingHeld'
    <3>1. pendingTurn # NoTurn => pendingTurn.id \in Turns
      BY DEF TextInv, PendingKnown
    <3> QED
      BY <1>2, <2>1, <2>5, <3>1 DEF PendingHeld
  <2> QED
    BY <2>4, <2>6, <2>7 DEF KeptInv
<1> QED
  BY <1>5, <1>6, <1>7, <1>8, <1>9 DEF LoopSteps

LEMMA PromptKept ==
  ASSUME TypeInv, TextInv, KeptInv, TypeInv', "shell" \notin Env, NEW p \in Prompts, NEW shell \in Shells,
         submitParsedMessage(p, shell) \/ editMessage(p, shell)
  PROVE  KeptInv'
<1>0. /\ Lasting /\ Queued /\ Controlled /\ Given /\ Known /\ Blank /\ Turns \in SUBSET Nat
      /\ shell = FALSE
  BY TypeParts, TurnCount DEF TypeInv, Shells
<1>1. Lasting'
  BY DEF TypeInv, TypeOK, Lasting, Records
<1>2. Fates /\ Single /\ Kept /\ RanOnce /\ PendingHeld /\ LoopHeld /\ MergedHeld /\ NoShell
  BY DEF KeptInv
<1>3. /\ merged = NoTurn /\ UNCHANGED <<merged, ran, loop>> /\ ~failed /\ fate[p] = "unsent" /\ Up
  BY <1>0 DEF submitParsedMessage, AppendToPending, SubmitTurn, editMessage, Accepting, DraftCurrent,
     Blank, Up
<1>4. MergedHeld'
  BY <1>3 DEF MergedHeld
<1>5. pendingTurn # NoTurn =>
        /\ pendingTurn.id \in Turns /\ journal[pendingTurn.id].state = "unstarted"
        /\ pendingTurn.input = journal[pendingTurn.id].text
        /\ pendingTurn.text = journal[pendingTurn.id].text
  BY <1>2, <1>3 DEF PendingHeld, TextInv, PendingKnown
\* A message was recorded,
<1>6. ASSUME NEW turn \in TurnRecords, RecordMessage(turn), turn.id \in Turns, turn.text = turn.input,
             p \in turn.text, ~turn.shell, journal[turn.id].state \in {"none", "unstarted"},
             \A q \in Prompts : q # p /\ q \in turn.text => Holds(turn.id, q),
             fate'[p] = "accepted",
             \A q \in Prompts : q # p =>
               fate'[q] = IF Holds(turn.id, q) /\ q \notin turn.text THEN "replaced" ELSE fate[q],
             loop.at \notin {"idle", "received", "stopped"} => turn.id # loop.turn.id,
             pendingTurn' = turn \/ (pendingTurn' = pendingTurn /\ failed')
      PROVE  KeptInv'
  <2>1. Fates' /\ Single' /\ Kept' /\ RanOnce'
    BY <1>0, <1>1, <1>2, <1>3, <1>6, MessageKept
  <2>2. /\ \A u \in Turns : u # turn.id => journal'[u] = journal[u]
        /\ journal'[turn.id].text = turn.text /\ journal'[turn.id].state = "unstarted"
        /\ ~journal'[turn.id].shell
    BY <1>0, <1>6, MessageIs DEF Lasting
  <2>3. PendingHeld'
    BY <1>2, <1>3, <1>6, <2>2 DEF PendingHeld
  <2>4. LoopHeld'
    <3>1. loop.at \in {"taken", "active", "started", "running"} =>
            journal'[loop.turn.id] = journal[loop.turn.id]
      <4>1. loop.turn.id \in 0 .. Cardinality(Prompts)
        BY <1>0, TurnFields DEF Queued
      <4>2. loop.at \in {"taken", "active", "started", "running"} => loop.turn.id \in Turns
        BY <1>0, <4>1, TurnCount DEF Given, Turns
      <4> QED
        BY <1>6, <2>2, <4>2
    <3> QED
      BY <1>2, <1>3, <3>1 DEF LoopHeld
  <2>5. NoShell'
    BY <1>2, <1>3, <1>6, <2>2 DEF NoShell
  <2> QED
    BY <1>4, <2>1, <2>3, <2>4, <2>5 DEF KeptInv
\* or refused.
<1>7. ASSUME UNCHANGED <<journal, pendingTurn>>, failed', fate' = [fate EXCEPT ![p] = "refused"]
      PROVE  KeptInv'
  <2>1. Fates' /\ Single' /\ Kept' /\ RanOnce'
    BY <1>0, <1>2, <1>3, <1>7, RefusedKept
  <2>2. PendingHeld' /\ LoopHeld'
    BY <1>2, <1>3, <1>7 DEF PendingHeld, LoopHeld
  <2>3. NoShell'
    BY <1>2, <1>3, <1>7 DEF NoShell
  <2> QED
    BY <1>4, <2>1, <2>2, <2>3 DEF KeptInv
<1>8. CASE AppendToPending(p)
  <2> DEFINE turn == [pendingTurn EXCEPT !.text = @ \union {p}, !.input = @ \union {p}, !.rev = @ + 1]
  <2>1. /\ turn \in TurnRecords /\ turn.id = pendingTurn.id
        /\ turn.text = pendingTurn.text \union {p} /\ turn.input = pendingTurn.input \union {p}
        /\ turn.shell = pendingTurn.shell
    <3>1. pendingTurn \in TurnRecords
      BY <1>0 DEF Queued
    <3>2. pendingTurn.text \union {p} \in SUBSET Prompts /\ pendingTurn.input \union {p} \in SUBSET Prompts
      BY <3>1, TurnFields
    <3>3. turn \in TurnRecords
      BY <3>1, <3>2, MessageTyped
    <3> QED
      BY <3>1, <3>3 DEF TurnRecords
  <2>2. /\ \/ /\ RecordMessage(turn) /\ fate' = [fate EXCEPT ![p] = "accepted"]
              /\ pendingTurn' = turn \/ (pendingTurn' = pendingTurn /\ failed')
           \/ journal' = journal /\ failed' /\ pendingTurn' = pendingTurn
              /\ fate' = [fate EXCEPT ![p] = "refused"]
        /\ pendingTurn # NoTurn
    BY <1>8 DEF AppendToPending, Accept, Refuse, AppendFails
  <2> HIDE DEF turn
  <2>3. \A q \in Prompts : q \in pendingTurn.text => Holds(turn.id, q)
    BY <1>5, <2>1, <2>2 DEF Holds, Live
  <2>4. CASE /\ RecordMessage(turn) /\ fate' = [fate EXCEPT ![p] = "accepted"]
             /\ pendingTurn' = turn \/ (pendingTurn' = pendingTurn /\ failed')
    <3>1. \A q \in Prompts : fate'[q] = IF q = p THEN "accepted" ELSE fate[q]
      BY <1>0, <2>4 DEF Lasting
    <3>2. \A q \in Prompts : Holds(turn.id, q) => q \in turn.text
      BY <1>5, <2>1, <2>2 DEF Holds
    <3>3. loop.at \notin {"idle", "received", "stopped"} => turn.id # loop.turn.id
      BY <1>2, <2>1, <2>2 DEF PendingHeld
    <3>4. /\ turn.text = turn.input /\ ~turn.shell /\ p \in turn.text /\ turn.id \in Turns
          /\ journal[turn.id].state = "unstarted"
      BY <1>2, <1>5, <2>1, <2>2 DEF NoShell
    <3>5. \A q \in Prompts : q # p /\ q \in turn.text => Holds(turn.id, q)
      BY <2>1, <2>3
    <3> QED
      BY <1>6, <2>1, <2>4, <3>1, <3>2, <3>3, <3>4, <3>5
  <2> QED
    BY <1>7, <2>2, <2>4
<1>9. CASE SubmitTurn(p, shell)
  <2> DEFINE turn == [id |-> nextTurnID + 1, text |-> {p}, input |-> {p}, shell |-> shell, rev |-> 1]
  <2>1. /\ turn \in TurnRecords /\ turn.id = nextTurnID + 1 /\ turn.text = {p} /\ turn.input = {p}
        /\ ~turn.shell /\ turn.id \in Turns
    <3>1. nextTurnID + 1 \in 1 .. Cardinality(Prompts) /\ shell \in BOOLEAN
      BY <1>0, <1>9, RoomForTurn DEF SubmitTurn
    <3>2. nextTurnID + 1 \in 0 .. Cardinality(Prompts)
      BY <3>1, TurnCount
    <3> QED
      BY <1>0, <3>1, <3>2 DEF TurnRecords, Turns
  <2>2. \/ /\ RecordMessage(turn) /\ fate' = [fate EXCEPT ![p] = "accepted"]
           /\ pendingTurn' = turn \/ (pendingTurn' = pendingTurn /\ failed')
        \/ journal' = journal /\ failed' /\ pendingTurn' = pendingTurn
           /\ fate' = [fate EXCEPT ![p] = "refused"]
    BY <1>9 DEF SubmitTurn, Accept, Refuse, AppendFails
  <2>3. nextTurnID \in Nat /\ loop.turn.id \in Nat /\ loop.turn.id <= nextTurnID
    BY <1>0, TurnCount, TurnFields DEF Queued, Given
  <2> HIDE DEF turn
  <2>4. journal[turn.id].state = "none"
    BY <1>0, <1>3, <2>1, <2>3 DEF Known
  <2>5. CASE /\ RecordMessage(turn) /\ fate' = [fate EXCEPT ![p] = "accepted"]
             /\ pendingTurn' = turn \/ (pendingTurn' = pendingTurn /\ failed')
    <3>1. \A q \in Prompts : fate'[q] = IF q = p THEN "accepted" ELSE fate[q]
      BY <1>0, <2>5 DEF Lasting
    <3>2. \A q \in Prompts : ~Holds(turn.id, q)
      BY <2>4 DEF Holds, Live
    <3>3. turn.id # loop.turn.id
      BY <2>1, <2>3
    <3> QED
      BY <1>6, <2>1, <2>4, <2>5, <3>1, <3>2, <3>3
  <2> QED
    BY <1>7, <2>2, <2>5
<1>10. CASE editMessage(p, shell)
  <2> DEFINE turn == [pendingTurn EXCEPT !.text = {p}, !.input = {p}, !.shell = shell, !.rev = @ + 1]
  <2>1. /\ turn \in TurnRecords /\ turn.id = pendingTurn.id
        /\ turn.text = {p} /\ turn.input = {p} /\ ~turn.shell
    <3>1. pendingTurn \in TurnRecords /\ shell \in BOOLEAN
      BY <1>0 DEF Queued
    <3>2. turn \in TurnRecords
      BY <3>1, MessageTyped
    <3> QED
      BY <1>0, <3>1, <3>2 DEF TurnRecords
  <2>2. /\ RecordMessage(turn) /\ fate' = [Discard("replaced") EXCEPT ![p] = "accepted"]
        /\ pendingTurn' = turn \/ (pendingTurn' = pendingTurn /\ failed')
        /\ draft # NoTurn /\ pendingTurn.id = draft.id
    BY <1>10 DEF editMessage, RecordEdit, AppendFails, DraftCurrent
  <2>3. pendingTurn # NoTurn
    BY <2>2, Nothing, TurnCount DEF TextInv, DraftKnown, Turns
  <2> HIDE DEF turn
  <2>4. \A q \in Prompts : Holds(turn.id, q) <=> q \in pendingTurn.text
    BY <1>5, <2>1, <2>3 DEF Holds, Live
  <2>5. \A q \in Prompts : fate'[q] = IF q = p THEN "accepted"
                                      ELSE IF q \in pendingTurn.text THEN "replaced" ELSE fate[q]
    BY <2>2 DEF Discard
  <2>6. loop.at \notin {"idle", "received", "stopped"} => turn.id # loop.turn.id
    BY <1>2, <2>1, <2>3 DEF PendingHeld
  <2> QED
    BY <1>5, <1>6, <2>1, <2>2, <2>3, <2>4, <2>5, <2>6
<1> QED
  BY <1>0, <1>8, <1>9, <1>10 DEF submitParsedMessage

LEMMA RemovalStepKept ==
  ASSUME TypeInv, TextInv, KeptInv, OpenDraft \/ DraftRefused \/ removePendingMessage \/ RemovalRefused
  PROVE  KeptInv'
<1>0. Lasting /\ Queued /\ Given /\ Blank /\ Turns \in SUBSET Nat
  BY TypeParts, TurnCount DEF TypeInv
<1>1. CASE OpenDraft \/ DraftRefused
  <2>1. UNCHANGED <<journal, fate, ran, merged, pendingTurn, loop>> /\ (failed => failed')
    BY <1>1 DEF OpenDraft, DraftRefused, AppendFails, durable, history, queueing
  <2>2. PendingHeld' /\ LoopHeld'
    BY <2>1, MemoryKept DEF KeptInv
  <2> QED
    BY <2>1, <2>2, SameKept DEF KeptInv
<1>2. CASE removePendingMessage \/ RemovalRefused
  <2> DEFINE t == pendingTurn.id
  <2>1. /\ DraftCurrent /\ Recorded(t, "removed") /\ fate' = Discard("removed")
        /\ UNCHANGED <<merged, ran, loop>>
        /\ pendingTurn' = NoTurn \/ (pendingTurn' = pendingTurn /\ failed')
    BY <1>2 DEF removePendingMessage, RemovalRefused, RecordRemoval, AppendFails, queueing
  <2>2. ~failed /\ pendingTurn # NoTurn /\ merged = NoTurn
    BY <1>0, <2>1, Nothing, TurnCount DEF DraftCurrent, TextInv, DraftKnown, Turns, Blank, Up
  <2>3. t \in Turns /\ journal[t].state = "unstarted" /\ pendingTurn.text = journal[t].text
    BY <2>2 DEF TextInv, PendingKnown, KeptInv, PendingHeld
  <2>4. \A q \in Prompts : fate'[q] = IF q \in journal[t].text THEN "removed" ELSE fate[q]
    BY <2>1, <2>3 DEF Discard
  <2>5. failed' => TRUE
    OBVIOUS
  <2>6. Fates' /\ Single' /\ Kept' /\ RanOnce'
    <3> HIDE DEF t
    <3> QED
      BY <1>0, <2>1, <2>2, <2>3, <2>4, RemovalKept DEF KeptInv
  <2>7. \A u \in Turns : /\ u # t => journal'[u] = journal[u]
                         /\ journal'[u].shell = journal[u].shell
    BY <1>0, <2>1, RecordedIs DEF Lasting, Verdicts
  <2>8. loop.at \in {"taken", "active", "started", "running"} =>
          journal'[loop.turn.id] = journal[loop.turn.id]
    <3>1. loop.turn.id \in 0 .. Cardinality(Prompts)
      BY <1>0, TurnFields DEF Queued
    <3>2. loop.at \in {"taken", "active", "started", "running"} => loop.turn.id \in Turns
      BY <1>0, <3>1, TurnCount DEF Given, Turns
    <3>3. loop.at \in {"taken", "active", "started", "running"} => loop.turn.id # t
      BY <2>2 DEF KeptInv, PendingHeld
    <3> QED
      BY <2>7, <3>2, <3>3
  <2>9. PendingHeld'
    BY <2>1 DEF KeptInv, PendingHeld
  <2>10. LoopHeld'
    BY <2>1, <2>2, <2>8 DEF KeptInv, LoopHeld
  <2>11. MergedHeld' /\ NoShell'
    BY <2>1, <2>2, <2>7, Nothing DEF KeptInv, MergedHeld, NoShell, NoTurn
  <2> QED
    BY <2>6, <2>9, <2>10, <2>11 DEF KeptInv
<1> QED
  BY <1>1, <1>2

LEMMA InterruptKept ==
  ASSUME TypeInv, TextInv, KeptInv, InterruptStep
  PROVE  KeptInv'
<1>0. Lasting /\ Queued /\ Given /\ Blank /\ Turns \in SUBSET Nat
  BY TypeParts, TurnCount DEF TypeInv
<1>1. PICK c \in Clients : AskInterrupt(c) \/ InterruptSettles(c) \/ stopInterruptedTurn(c)
  BY DEF InterruptStep
<1>2. /\ UNCHANGED <<fate, ran, merged, pendingTurn>> /\ proc = "serving"
      /\ loop'.turn = loop.turn /\ loop'.at = loop.at /\ (failed => failed')
  BY <1>0, <1>1 DEF AskInterrupt, InterruptSettles, LockInterrupt, ProviderInterrupt, InterruptDone,
     stopInterruptedTurn, Appended, NotAppended, AppendFails, history, queueing, Queued
<1>3. merged = NoTurn
  BY <1>0, <1>2 DEF Blank, Up
<1>4. CASE journal' = journal
  <2>1. PendingHeld' /\ LoopHeld'
    BY <1>2, <1>4, MemoryKept DEF KeptInv
  <2> QED
    BY <1>2, <1>4, <2>1, SameKept DEF KeptInv
\* Only the lock of the active turn is recorded, as a start.
<1>5. CASE journal' # journal
  <2> DEFINE t == loop.turn.id
             state == IF journal[t].state = "unstarted" THEN "started" ELSE journal[t].state
  <2>1. LockInterrupt(c)
    BY <1>1, <1>5 DEF InterruptSettles, AskInterrupt, ProviderInterrupt, InterruptDone, stopInterruptedTurn,
       durable
  <2>2. ~failed /\ ActiveTurn(loop) = interrupt[c].turn /\ interrupt[c].turn # 0
        /\ Recorded(interrupt[c].turn,
             IF journal[interrupt[c].turn].state = "unstarted" THEN "started" ELSE journal[interrupt[c].turn].state)
    <3>1. /\ ~failed /\ ActiveTurn(loop) = interrupt[c].turn
          /\ Recorded(interrupt[c].turn,
               IF journal[interrupt[c].turn].state = "unstarted" THEN "started" ELSE journal[interrupt[c].turn].state)
      BY <1>5, <2>1 DEF LockInterrupt, Appended, NotAppended, AppendFails
    <3>2. ASSUME interrupt[c].turn = 0 PROVE FALSE
      BY <1>0, <1>5, <3>1, <3>2, TurnCount DEF Recorded, Lasting, Turns
    <3> QED
      BY <3>1, <3>2
  <2>3. /\ interrupt[c].turn = t /\ t # 0 /\ Recorded(t, state)
        /\ loop.at \in {"active", "started", "running", "completed"}
    BY <2>2 DEF ActiveTurn
  <2>4. t \in Turns
    BY <1>0, <2>3, TurnCount, TurnFields DEF Queued, Turns
  <2>5. journal[t].state = "unstarted"
    <3>1. ASSUME journal[t].state # "unstarted" PROVE FALSE
      <4>1. state = journal[t].state
        BY <3>1
      <4>2. journal' = journal
        BY <1>0, <2>3, <2>4, <4>1 DEF Recorded, Lasting, Records
      <4> QED
        BY <1>5, <4>2
    <3> QED
      BY <3>1
  <2>6. Recorded(t, "started")
    BY <2>3, <2>5
  <2>7. /\ Fates' /\ Single' /\ Kept' /\ RanOnce' /\ MergedHeld' /\ \A u \in Turns : ~journal'[u].shell
    <3> HIDE DEF t, state
    <3> QED
      BY <1>0, <1>2, <1>3, <2>4, <2>5, <2>6, EventKept DEF KeptInv, NoShell
  <2>8. \A u \in Turns : /\ u # t => journal'[u] = journal[u]
                         /\ journal'[u].text = journal[u].text
                         /\ u = t => journal'[u].state = "started"
    <3>1. journal \in [Turns -> Records] /\ "started" \in Verdicts
      BY <1>0 DEF Lasting, Verdicts
    <3> HIDE DEF t, state
    <3> QED
      BY <2>6, <3>1, RecordedIs
  <2>9. loop.at \in {"active", "completed"}
    BY <2>3, <2>5 DEF KeptInv, LoopHeld
  <2>10. LoopHeld'
    BY <1>2, <2>2, <2>4, <2>8, <2>9 DEF KeptInv, LoopHeld
  <2>11. PendingHeld'
    <3>1. pendingTurn # NoTurn => pendingTurn.id \in Turns /\ pendingTurn.id # t
      BY <2>9 DEF TextInv, PendingKnown, KeptInv, PendingHeld
    <3> QED
      BY <1>2, <2>8, <3>1 DEF KeptInv, PendingHeld
  <2>12. NoShell'
    BY <1>2, <2>7 DEF KeptInv, NoShell
  <2> QED
    BY <2>7, <2>10, <2>11, <2>12 DEF KeptInv
<1> QED
  BY <1>4, <1>5

\* Every step keeps them, where no shell turn is merged and recovery is not
\* itself cut short.
LEMMA KeptStep ==
  ASSUME TypeInv, TextInv, KeptInv, TypeInv', [Next]_vars, "shell" \notin Env, "recoveryCrash" \notin Env
  PROVE  KeptInv'
<1>0. Lasting /\ Queued /\ Given /\ Blank /\ Turns \in SUBSET Nat
  BY TypeParts, TurnCount DEF TypeInv
<1>1. Lasting' /\ Queued'
  BY DEF TypeInv, TypeOK, Lasting, Queued, Records, Publications
<1>2. CASE ClientStep
  BY <1>2, PromptKept, RemovalStepKept DEF ClientStep
<1>3. CASE LoopSteps
  BY <1>3, LoopKept
<1>4. CASE InterruptStep
  BY <1>4, InterruptKept
<1>5. CASE \/ ControllerStep \/ PublishStatus \/ PeriodicPublish \/ observeSessionUpdate
           \/ sessionDrainReports \/ reportSessionUpdate \/ Serve \/ UNCHANGED vars
  <2>1. UNCHANGED <<journal, fate, ran, merged, pendingTurn, loop, failed>>
    BY <1>5 DEF ControllerStep, AskDrain, WithdrawDrain, PublishStatus, PeriodicPublish,
       observeSessionUpdate, sessionDrainReports, reportSessionUpdate, Serve, vars, durable, history, queueing
  <2>2. PendingHeld' /\ LoopHeld'
    BY <2>1, MemoryKept DEF KeptInv
  <2> QED
    BY <2>1, <2>2, SameKept DEF KeptInv
<1>6. CASE ServeReturns \/ Crash
  <2>1. Up /\ Exit
    BY <1>6 DEF ServeReturns, Crash, Up
  <2>2. UNCHANGED <<journal, fate, ran, merged>> /\ pendingTurn' = NoTurn /\ loop' = Idle
    BY <1>0, <2>1 DEF Blank, Exit, durable, history
  <2>3. PendingHeld' /\ LoopHeld'
    BY <2>2, Nothing DEF PendingHeld, LoopHeld
  <2> QED
    BY <2>2, <2>3, SameKept DEF KeptInv
<1>7. CASE RecoverServe
  BY <1>1, <1>7, ServeKept
<1>8. CASE RecoverStarted \/ RecoverMerge
  <2>1. UNCHANGED <<fate, ran, pendingTurn, loop, failed>> /\ ~Up
    BY <1>8 DEF RecoverStarted, RecoverMerge, history, queueing, Up
  <2>2. pendingTurn = NoTurn /\ loop.at = "idle"
    BY <1>0, <2>1, Nothing DEF Blank
  <2>3. PendingHeld' /\ LoopHeld'
    BY <2>1, <2>2 DEF PendingHeld, LoopHeld
  <2>4. CASE RecoverMerge
    BY <1>1, <2>3, <2>4, MergeKept DEF KeptInv
  <2>5. CASE RecoverStarted
    <3> DEFINE t == First(InState({"started"}))
    <3>1. t \in Turns /\ journal[t].state = "started"
      <4>1. InState({"started"}) \in SUBSET Turns /\ InState({"started"}) # {}
        BY <2>5 DEF InState, RecoverStarted
      <4>2. t \in InState({"started"})
        BY <4>1, FirstIs
      <4> QED
        BY <4>2 DEF InState
    <3>2. Recorded(t, "interrupted") /\ UNCHANGED merged
      BY <2>5 DEF RecoverStarted
    <3> HIDE DEF t
    <3>3. Fates' /\ Single' /\ Kept' /\ RanOnce' /\ MergedHeld' /\ \A u \in Turns : ~journal'[u].shell
      BY <1>0, <2>1, <3>1, <3>2, EventKept DEF KeptInv, NoShell
    <3>4. NoShell'
      BY <2>1, <3>2, <3>3 DEF KeptInv, NoShell
    <3> QED
      BY <2>3, <3>3, <3>4 DEF KeptInv
  <2> QED
    BY <1>8, <2>4, <2>5
<1> QED
  BY <1>2, <1>3, <1>4, <1>5, <1>6, <1>7, <1>8 DEF Next, RecoveryStep

LEMMA KeptInit == Init => KeptInv
<1> SUFFICES ASSUME Init PROVE KeptInv
  OBVIOUS
<1>1. Fates /\ Single /\ Kept /\ RanOnce
  BY Nothing DEF Init, Memory, Fates, Single, Kept, RanOnce, Holds, Live, NoRecord
<1>2. PendingHeld /\ LoopHeld /\ MergedHeld /\ NoShell
  BY Nothing DEF Init, Memory, PendingHeld, LoopHeld, MergedHeld, NoShell, NoRecord, NoTurn
<1> QED
  BY <1>1, <1>2 DEF KeptInv

\* submitParsedMessage, recoverJournal: an accepted prompt stays until it ends,
\* and none is handed to the provider twice or once it is withdrawn, for every
\* order of submissions, edits, interruptions, journal failures, stops and
\* crashes. Two known gaps are excluded: a shell turn that recovery merges (its
\* command is not extended) and a crash in the middle of recovery.
THEOREM NothingLost ==
  ASSUME "shell" \notin Env, "recoveryCrash" \notin Env
  PROVE  Spec => []PromptsKept
<1>1. Init => TextInv
  BY DEF Init, Memory, TextInv, PendingKnown, DraftKnown, MergedKnown
<1>2. KeptInv => PromptsKept
  <2> SUFFICES ASSUME KeptInv, NEW p \in Prompts
               PROVE  /\ ran[p] <= IF fate[p] = "accepted" THEN 1 ELSE 0
                      /\ fate[p] = "accepted" => p \in merged.text \/
                           \E t \in Turns :
                             /\ p \in journal[t].text
                             /\ journal[t].state \in {"unstarted", "started", "interrupted"}
                                \/ (journal[t].state = "done" /\ ran[p] > 0)
    BY DEF PromptsKept
  <2> QED
    BY DEF KeptInv, RanOnce, Kept, Holds, Live
<1>3. TypeInv /\ TextInv /\ KeptInv /\ TypeInv' /\ [Next]_vars => KeptInv'
  BY KeptStep
<1> QED
  BY <1>1, <1>2, <1>3, TypeInit, TypeStep, TextStep, KeptInit, PTL DEF Spec

-----------------------------------------------------------------------------
(* Turns that are left                                                     *)

LiveStates == {"unstarted", "started"}
Over == {"done", "interrupted", "removed", "merged"}
Holding == {"taken", "active", "started", "running", "completed", "inactive", "closing", "ended"}

\* While the process is up, a turn that is not over is the pending one or the
\* one of the loop,
TurnsHeld ==
  Up => \A t \in Turns : journal[t].state \in LiveStates =>
          t = pendingTurn.id \/ (t = loop.turn.id /\ loop.at \in {"taken", "active", "started", "running"})

\* the pending one is unstarted and newer than the one of the loop, which is
\* not over before it has run;
PendingLive ==
  pendingTurn # NoTurn =>
    /\ pendingTurn.id \in Turns /\ journal[pendingTurn.id].state = "unstarted"
    /\ loop.at \in Holding => loop.turn.id < pendingTurn.id

LoopLive == loop.at \in {"taken", "active"} => journal[loop.turn.id].state \in LiveStates

\* and outstanding counts them.
OutstandingCounts ==
  outstanding = (IF pendingTurn # NoTurn THEN 1 ELSE 0)
              + (IF loop.at \in Holding \ {"ended"} THEN 1 ELSE 0)

\* What recovery merges goes into the first unstarted turn.
MergedFirst == merged # NoTurn => merged.id \in Unstarted /\ \A t \in Unstarted : merged.id <= t

HeldInv == ~failed /\ TurnsHeld /\ PendingLive /\ LoopLive /\ OutstandingCounts /\ MergedFirst

\* The loop has a turn of the journal.
LEMMA LoopTurn ==
  ASSUME TypeInv, loop.at \in Holding
  PROVE  loop.turn.id \in Turns
<1>1. loop.turn.id \in 0 .. Cardinality(Prompts) /\ loop.turn.id # 0
  BY TypeParts, TurnFields DEF TypeInv, Queued, Given, Holding
<1> QED
  BY <1>1, TurnCount DEF Turns

\* and the pending one is another.
LEMMA PendingOther ==
  ASSUME TypeInv, HeldInv, loop.at \in Holding
  PROVE  loop.turn.id # pendingTurn.id
<1>1. loop.turn.id \in Turns /\ Turns \in SUBSET Nat
  BY LoopTurn, TurnCount
<1>2. CASE pendingTurn = NoTurn
  BY <1>1, <1>2, Nothing, TurnCount DEF Turns
<1>3. CASE pendingTurn # NoTurn
  <2>1. loop.turn.id < pendingTurn.id
    BY <1>3 DEF HeldInv, PendingLive
  <2>2. \A a \in Nat : ~(a < a)
    OBVIOUS
  <2> QED
    BY <1>1, <2>1, <2>2
<1> QED
  BY <1>2, <1>3

\* Steps that change no state of a turn, and not what holds them.
LEMMA HeldSame ==
  ASSUME TypeInv, HeldInv, \A t \in Turns : journal'[t].state = journal[t].state,
         pendingTurn' = NoTurn <=> pendingTurn = NoTurn, pendingTurn'.id = pendingTurn.id,
         loop'.at = loop.at, loop'.turn = loop.turn,
         UNCHANGED <<outstanding, merged, failed>>, Up' <=> Up
  PROVE  HeldInv'
<1>1. loop.at \in Holding => loop.turn.id \in Turns
  BY LoopTurn
<1>2. TurnsHeld' /\ PendingLive' /\ OutstandingCounts'
  BY DEF HeldInv, TurnsHeld, PendingLive, OutstandingCounts
<1>3. LoopLive'
  BY <1>1 DEF HeldInv, LoopLive, Holding
<1>4. Unstarted' = Unstarted
  BY DEF Unstarted, InState
<1>5. MergedFirst'
  BY <1>4 DEF HeldInv, MergedFirst
<1> QED
  BY <1>2, <1>3, <1>5 DEF HeldInv

\* No turn changes its state.
SameStates == \A t \in Turns : journal'[t].state = journal[t].state

\* A submission adds a turn, the next one, and it is pending.
Adds ==
  /\ Accepting /\ pendingTurn = NoTurn
  /\ nextTurnID + 1 \in Turns /\ journal[nextTurnID + 1].state = "none"
  /\ \A t \in Turns : journal'[t].state = IF t = nextTurnID + 1 THEN "unstarted" ELSE journal[t].state
  /\ pendingTurn' # NoTurn /\ pendingTurn'.id = nextTurnID + 1
  /\ outstanding' = outstanding + 1 /\ nextTurnID' = nextTurnID + 1
  /\ UNCHANGED <<settled, asked, report, proc, merged, loop, completedTurnID, publishQueue, request,
                 patch, control, draft, failed, unseen>>

\* An addition to the pending turn, or its edit, leaves it pending.
LEMMA SameMessage ==
  ASSUME TypeInv, HeldInv, pendingTurn # NoTurn, NEW turn \in TurnRecords, turn.id = pendingTurn.id,
         RecordMessage(turn)
  PROVE  SameStates /\ turn # NoTurn
<1>1. pendingTurn.id \in Turns /\ journal[pendingTurn.id].state = "unstarted"
  BY DEF HeldInv, PendingLive
<1>2. journal \in [Turns -> Records]
  BY TypeParts DEF TypeInv, Lasting
<1>3. SameStates
  BY <1>1, <1>2, MessageIs DEF SameStates
<1> QED
  BY <1>1, <1>3, Nothing, TurnCount DEF Turns

LEMMA Messages ==
  ASSUME TypeInv, TextInv, HeldInv, "diskFail" \notin Env, NEW p \in Prompts, NEW shell \in Shells,
         submitParsedMessage(p, shell) \/ editMessage(p, shell)
  PROVE  \/ Adds
         \/ /\ SameStates /\ pendingTurn # NoTurn /\ pendingTurn' # NoTurn /\ pendingTurn'.id = pendingTurn.id
            /\ UNCHANGED <<loop, outstanding, merged, failed, proc>>
<1>0. /\ Lasting /\ Queued /\ Controlled /\ Given /\ Known /\ Turns \in SUBSET Nat
      /\ ~AppendFails /\ shell \in BOOLEAN
  BY TypeParts, TurnCount DEF TypeInv, AppendFails, Shells
<1>1. CASE AppendToPending(p)
  <2> DEFINE turn == [pendingTurn EXCEPT !.text = @ \union {p}, !.input = @ \union {p}, !.rev = @ + 1]
  <2>1. turn \in TurnRecords /\ turn.id = pendingTurn.id
    <3>1. pendingTurn \in TurnRecords
      BY <1>0 DEF Queued
    <3>2. pendingTurn.text \union {p} \in SUBSET Prompts /\ pendingTurn.input \union {p} \in SUBSET Prompts
      BY <3>1, TurnFields
    <3>3. turn \in TurnRecords
      BY <3>1, <3>2, MessageTyped
    <3> QED
      BY <3>1, <3>3 DEF TurnRecords
  <2>2. /\ RecordMessage(turn) /\ pendingTurn' = turn /\ pendingTurn # NoTurn
        /\ UNCHANGED <<loop, outstanding, merged, failed, proc>>
    BY <1>0, <1>1 DEF AppendToPending, Accept
  <2> HIDE DEF turn
  <2> QED
    BY <2>1, <2>2, SameMessage
<1>2. CASE editMessage(p, shell)
  <2> DEFINE turn == [pendingTurn EXCEPT !.text = {p}, !.input = {p}, !.shell = shell, !.rev = @ + 1]
  <2>1. turn \in TurnRecords /\ turn.id = pendingTurn.id
    <3>1. pendingTurn \in TurnRecords
      BY <1>0 DEF Queued
    <3>2. turn \in TurnRecords
      BY <1>0, <3>1, MessageTyped
    <3> QED
      BY <3>1, <3>2 DEF TurnRecords
  <2>2. /\ RecordMessage(turn) /\ pendingTurn' = turn
        /\ UNCHANGED <<loop, outstanding, merged, failed, proc>>
        /\ draft # NoTurn /\ pendingTurn.id = draft.id
    BY <1>0, <1>2 DEF editMessage, RecordEdit, DraftCurrent
  <2>3. pendingTurn # NoTurn
    BY <2>2, Nothing, TurnCount DEF TextInv, DraftKnown, Turns
  <2> HIDE DEF turn
  <2> QED
    BY <2>1, <2>2, <2>3, SameMessage
<1>3. CASE SubmitTurn(p, shell)
  <2> DEFINE turn == [id |-> nextTurnID + 1, text |-> {p}, input |-> {p}, shell |-> shell, rev |-> 1]
  <2>1. turn \in TurnRecords /\ turn.id = nextTurnID + 1 /\ turn.id \in Turns
    <3>1. nextTurnID + 1 \in 1 .. Cardinality(Prompts)
      BY <1>3, RoomForTurn DEF SubmitTurn
    <3>2. nextTurnID + 1 \in 0 .. Cardinality(Prompts)
      BY <3>1, TurnCount
    <3> QED
      BY <1>0, <3>1, <3>2 DEF TurnRecords, Turns
  <2>2. /\ RecordMessage(turn) /\ pendingTurn = NoTurn /\ Accepting /\ nextTurnID' = turn.id
        /\ pendingTurn' = turn /\ outstanding' = outstanding + 1
        /\ UNCHANGED <<settled, asked, report, proc, merged, loop, completedTurnID, publishQueue, request,
                       patch, control, draft, failed, unseen>>
    BY <1>0, <1>3 DEF SubmitTurn, Accept, session, publishing, draining
  <2>3. nextTurnID \in Nat /\ Up
    BY <1>0, <2>2, TurnCount DEF Queued, Accepting, Up
  <2> HIDE DEF turn
  <2>4. journal[turn.id].state = "none"
    BY <1>0, <2>1, <2>3 DEF Known
  <2>5. \A u \in Turns : journal'[u].state = IF u = turn.id THEN "unstarted" ELSE journal[u].state
    BY <1>0, <2>1, <2>2, <2>4, MessageIs DEF Lasting
  <2>6. turn # NoTurn
    BY <2>1, Nothing, TurnCount DEF Turns
  <2> QED
    BY <2>1, <2>2, <2>4, <2>5, <2>6 DEF Adds
<1> QED
  BY <1>1, <1>2, <1>3 DEF submitParsedMessage

LEMMA HeldClient ==
  ASSUME TypeInv, TextInv, HeldInv, ClientStep, "diskFail" \notin Env
  PROVE  HeldInv'
<1>0. /\ Lasting /\ Queued /\ Controlled /\ Given /\ Known /\ Blank /\ Turns \in SUBSET Nat
      /\ ~AppendFails
  BY TypeParts, TurnCount DEF TypeInv, AppendFails
<1>1. CASE \E p \in Prompts, shell \in Shells : submitParsedMessage(p, shell) \/ editMessage(p, shell)
  <2>1. CASE Adds
    <3> DEFINE t == nextTurnID + 1
    <3>1. /\ t \in Turns /\ Up /\ pendingTurn = NoTurn /\ pendingTurn' # NoTurn /\ pendingTurn'.id = t
          /\ \A u \in Turns : journal'[u].state = IF u = t THEN "unstarted" ELSE journal[u].state
          /\ outstanding' = outstanding + 1 /\ UNCHANGED <<loop, merged, failed, proc>>
      BY <2>1 DEF Adds, Accepting, Up
    <3>2. loop.at \in Holding => loop.turn.id \in Turns /\ loop.turn.id # t /\ loop.turn.id < t
      BY <1>0, TurnCount, TurnFields, LoopTurn DEF Queued, Given
    <3> HIDE DEF t
    <3>3. TurnsHeld'
      <4>1. NoTurn.id \notin Turns
        BY Nothing, TurnCount DEF Turns
      <4> QED
        BY <3>1, <4>1 DEF HeldInv, TurnsHeld, LiveStates, Up
    <3>4. PendingLive' /\ LoopLive'
      BY <3>1, <3>2 DEF HeldInv, PendingLive, LoopLive, Holding
    <3>5. OutstandingCounts'
      BY <3>1 DEF HeldInv, OutstandingCounts, Holding
    <3>6. merged = NoTurn
      BY <1>0, <3>1 DEF Blank
    <3> QED
      BY <3>1, <3>3, <3>4, <3>5, <3>6 DEF HeldInv, MergedFirst
  <2>2. CASE ~Adds
    <3>1. /\ SameStates /\ pendingTurn # NoTurn /\ pendingTurn' # NoTurn /\ pendingTurn'.id = pendingTurn.id
          /\ UNCHANGED <<loop, outstanding, merged, failed, proc>>
      BY <1>1, <2>2, Messages
    <3> QED
      BY <3>1, HeldSame DEF SameStates, Up
  <2> QED
    BY <2>1, <2>2
<1>2. CASE removePendingMessage
  <2> DEFINE t == pendingTurn.id
  <2>1. /\ Recorded(t, "removed") /\ pendingTurn' = NoTurn /\ Up
        /\ outstanding' = IF outstanding > 0 THEN outstanding - 1 ELSE 0
        /\ UNCHANGED <<loop, merged, failed, proc>>
        /\ draft # NoTurn /\ pendingTurn.id = draft.id
    BY <1>2 DEF removePendingMessage, RecordRemoval, DraftCurrent, Up
  <2>2. t \in Turns /\ journal[t].state = "unstarted" /\ pendingTurn # NoTurn
    <3>1. pendingTurn # NoTurn
      BY <2>1, Nothing, TurnCount DEF TextInv, DraftKnown, Turns
    <3> QED
      BY <3>1 DEF HeldInv, PendingLive
  <2>3. \A u \in Turns : journal'[u].state = IF u = t THEN "removed" ELSE journal[u].state
    BY <1>0, <2>1, RecordedIs DEF Lasting, Verdicts
  <2> HIDE DEF t
  <2>4. loop.at \in Holding => loop.turn.id \in Turns /\ loop.turn.id # t
    <3>1. loop.at \in Holding => loop.turn.id \in Turns /\ loop.turn.id < t
      BY <2>2, LoopTurn DEF HeldInv, PendingLive, t
    <3> QED
      BY <1>0, <2>2, <3>1
  <2>5. TurnsHeld'
    BY <2>1, <2>3 DEF HeldInv, TurnsHeld, LiveStates, Up, t
  <2>6. PendingLive'
    BY <2>1 DEF PendingLive
  <2>7. LoopLive'
    BY <2>1, <2>3, <2>4 DEF HeldInv, LoopLive, Holding
  <2>8. OutstandingCounts'
    BY <2>1, <2>2 DEF HeldInv, OutstandingCounts
  <2>9. merged = NoTurn
    BY <1>0, <2>1 DEF Blank
  <2> QED
    BY <2>1, <2>5, <2>6, <2>7, <2>8, <2>9 DEF HeldInv, MergedFirst
<1>3. CASE OpenDraft
  <2>1. UNCHANGED <<journal, pendingTurn, loop, outstanding, merged, failed, proc>>
    BY <1>3 DEF OpenDraft, durable, queueing
  <2> QED
    BY <2>1, HeldSame DEF Up
<1>4. CASE RemovalRefused \/ DraftRefused
  BY <1>0, <1>4 DEF RemovalRefused, DraftRefused
<1> QED
  BY <1>1, <1>2, <1>3, <1>4 DEF ClientStep
LEMMA HeldLoop ==
  ASSUME TypeInv, HeldInv, LoopSteps, "diskFail" \notin Env
  PROVE  HeldInv'
<1> DEFINE t == loop.turn.id
<1>0. /\ Lasting /\ Queued /\ Controlled /\ Given /\ Known /\ Blank /\ Turns \in SUBSET Nat
      /\ ~AppendFails
  BY TypeParts, TurnCount DEF TypeInv, AppendFails
<1>1. /\ Up /\ UNCHANGED <<proc, merged>>
  BY DEF LoopSteps, ReceiveTurn, takePendingTurn, ReturnTurn, ActivateTurn, StartTurn, RunTurn,
     CompleteTurn, DeactivateTurn, PublishIdle, finishTurn, NextTurn
<1>2. merged = NoTurn /\ Up' /\ MergedFirst'
  BY <1>0, <1>1 DEF Blank, Up, MergedFirst
<1>3. CASE \/ ReceiveTurn \/ ReturnTurn \/ NextTurn
           \/ takePendingTurn /\ pendingTurn.id # loop.turn.id
  <2>1. /\ UNCHANGED <<journal, pendingTurn, failed, outstanding>>
        /\ loop.at \in {"idle", "received", "ended"} /\ loop'.at \in {"received", "stopped", "idle"}
    BY <1>3, Nothing DEF ReceiveTurn, ReturnTurn, NextTurn, takePendingTurn, durable, history, queueing, Idle
  <2>2. TurnsHeld'
    BY <1>1, <1>2, <2>1 DEF HeldInv, TurnsHeld
  <2>3. PendingLive' /\ LoopLive' /\ OutstandingCounts'
    BY <2>1 DEF HeldInv, PendingLive, LoopLive, OutstandingCounts, Holding
  <2> QED
    BY <1>2, <2>1, <2>2, <2>3 DEF HeldInv
<1>4. CASE takePendingTurn /\ pendingTurn.id = loop.turn.id
  <2>1. /\ UNCHANGED <<journal, failed, outstanding>> /\ pendingTurn' = NoTurn
        /\ loop.at = "received" /\ loop'.at = "taken" /\ loop'.turn = pendingTurn
    BY <1>0, <1>4 DEF takePendingTurn, durable, history, Queued
  <2>2. t # 0
    BY <1>0, <2>1 DEF Given
  <2>3. pendingTurn # NoTurn
    BY <1>4, <2>2, Nothing
  <2>4. TurnsHeld'
    BY <1>1, <2>1 DEF HeldInv, TurnsHeld
  <2>5. PendingLive' /\ LoopLive' /\ OutstandingCounts'
    BY <2>1, <2>3 DEF HeldInv, PendingLive, LoopLive, OutstandingCounts, Holding, LiveStates
  <2> QED
    BY <1>2, <2>1, <2>4, <2>5 DEF HeldInv
<1>5. CASE ActivateTurn \/ RunTurn \/ DeactivateTurn \/ PublishIdle \/ finishTurn
  <2>1. /\ UNCHANGED <<journal, failed, pendingTurn>> /\ loop'.turn = loop.turn
        /\ \/ loop.at = "taken" /\ loop'.at = "active" /\ outstanding' = outstanding
           \/ loop.at = "started" /\ loop'.at = "running" /\ outstanding' = outstanding
           \/ loop.at = "completed" /\ loop'.at = "inactive" /\ outstanding' = outstanding
           \/ loop.at = "inactive" /\ loop'.at = "closing" /\ outstanding' = outstanding
           \/ /\ loop.at = "closing" /\ loop'.at = "ended"
              /\ outstanding' = IF outstanding > 0 THEN outstanding - 1 ELSE 0
    BY <1>0, <1>5 DEF ActivateTurn, RunTurn, DeactivateTurn, PublishIdle, finishTurn, LoopStep, durable,
       history, queueing, Queued
  <2>2. TurnsHeld'
    BY <1>1, <2>1 DEF HeldInv, TurnsHeld
  <2>3. PendingLive' /\ LoopLive' /\ OutstandingCounts'
    BY <2>1 DEF HeldInv, PendingLive, LoopLive, OutstandingCounts, Holding
  <2> QED
    BY <1>2, <2>1, <2>2, <2>3 DEF HeldInv
<1>6. CASE StartTurn \/ CompleteTurn
  <2> DEFINE end == IF loop.at = "active" THEN "started" ELSE IF loop.cut THEN "interrupted" ELSE "done"
  <2>1. /\ UNCHANGED <<pendingTurn, outstanding, failed>> /\ loop'.turn = loop.turn
        /\ \/ loop.at = "active" /\ loop'.at = "started"
           \/ loop.at = "running" /\ loop'.at = "completed"
        /\ Recorded(t, end)
    BY <1>0, <1>6 DEF StartTurn, CompleteTurn, LoopStep, Appended, NotAppended, HeldInv, history,
       queueing, Queued
  <2>2. t \in Turns
    BY <2>1, LoopTurn DEF Holding
  <2>3. \A u \in Turns : journal'[u].state = IF u = t THEN end ELSE journal[u].state
    BY <1>0, <2>1, RecordedIs DEF Lasting, Verdicts
  <2>4. pendingTurn # NoTurn => pendingTurn.id \in Turns /\ t < pendingTurn.id /\ pendingTurn.id # t
    <3>1. loop.at \in Holding
      BY <2>1 DEF Holding
    <3>2. pendingTurn # NoTurn => pendingTurn.id \in Turns /\ t < pendingTurn.id
      BY <3>1 DEF HeldInv, PendingLive
    <3> HIDE DEF t
    <3> QED
      BY <1>0, <2>2, <3>2
  <2>5. loop.at = "running" => end \notin LiveStates
    BY DEF LiveStates
  <2>6. TurnsHeld'
    BY <1>1, <2>1, <2>3, <2>5 DEF HeldInv, TurnsHeld
  <2>7. PendingLive' /\ LoopLive' /\ OutstandingCounts'
    BY <2>1, <2>3, <2>4 DEF HeldInv, PendingLive, LoopLive, OutstandingCounts, Holding
  <2> QED
    BY <1>2, <2>1, <2>6, <2>7 DEF HeldInv
<1> QED
  BY <1>3, <1>4, <1>5, <1>6 DEF LoopSteps

\* What an interruption records: the start of the turn that the loop is about to start.
LEMMA LockHeld ==
  ASSUME TypeInv, HeldInv, InterruptStep, "diskFail" \notin Env
  PROVE  \A t \in Turns :
           \/ journal'[t].state = journal[t].state
           \/ /\ t = loop.turn.id /\ loop.at \in {"active", "started", "running"}
              /\ journal[t].state = "unstarted" /\ journal'[t].state = "started"
<1>0. Lasting /\ Queued /\ ~AppendFails /\ ~failed /\ Turns \in SUBSET Nat
  BY TypeParts, TurnCount DEF TypeInv, AppendFails, HeldInv
<1>1. PICK c \in Clients : AskInterrupt(c) \/ InterruptSettles(c) \/ stopInterruptedTurn(c)
  BY DEF InterruptStep
<1>2. CASE UNCHANGED journal
  BY <1>2
<1>3. CASE journal' # journal
  <2> DEFINE t == interrupt[c].turn
             state == IF journal[t].state = "unstarted" THEN "started" ELSE journal[t].state
  <2>1. LockInterrupt(c)
    BY <1>1, <1>3 DEF InterruptSettles, AskInterrupt, ProviderInterrupt, InterruptDone, stopInterruptedTurn,
       durable
  <2>2. ActiveTurn(loop) = t /\ Recorded(t, state) /\ Up
    BY <1>0, <1>3, <2>1 DEF LockInterrupt, Appended, NotAppended, Up
  <2>3. t \in Turns
    <3>1. ASSUME t \notin Turns PROVE journal' = journal
      BY <1>0, <2>2, <3>1 DEF Recorded, Lasting
    <3> QED
      BY <1>3, <3>1
  <2>4. t = loop.turn.id /\ loop.at \in {"active", "started", "running", "completed"}
    BY <2>2, <2>3, TurnCount DEF ActiveTurn, Turns
  <2>5. \A u \in Turns : journal'[u].state = IF u = t THEN state ELSE journal[u].state
    <3>1. state \in Verdicts
      BY <1>0, <2>3, LockStates DEF Lasting
    <3> HIDE DEF t, state
    <3> QED
      BY <1>0, <2>2, <3>1, RecordedIs DEF Lasting
  <2>6. journal[t].state = "unstarted" => loop.at \in {"active", "started", "running"}
    <3>1. loop.at \in Holding
      BY <2>4 DEF Holding
    <3>2. pendingTurn.id # t
      BY <2>4, <3>1, PendingOther
    <3> QED
      BY <2>2, <2>3, <2>4, <3>2 DEF HeldInv, TurnsHeld, LiveStates
  <2> QED
    BY <2>4, <2>5, <2>6
<1> QED
  BY <1>2, <1>3
LEMMA HeldInterrupt ==
  ASSUME TypeInv, HeldInv, InterruptStep, "diskFail" \notin Env
  PROVE  HeldInv'
<1>0. Lasting /\ Queued /\ Blank /\ ~AppendFails /\ ~failed /\ Turns \in SUBSET Nat
  BY TypeParts, TurnCount DEF TypeInv, AppendFails, HeldInv
<1>1. PICK c \in Clients : AskInterrupt(c) \/ InterruptSettles(c) \/ stopInterruptedTurn(c)
  BY DEF InterruptStep
<1>2. /\ UNCHANGED <<merged, pendingTurn, outstanding, proc, failed>> /\ proc = "serving"
      /\ loop'.turn = loop.turn /\ loop'.at = loop.at
  BY <1>0, <1>1 DEF AskInterrupt, InterruptSettles, LockInterrupt, ProviderInterrupt, InterruptDone,
     stopInterruptedTurn, Appended, NotAppended, history, queueing, Queued
<1>3. Up /\ Up' /\ merged = NoTurn /\ MergedFirst'
  BY <1>0, <1>2 DEF Blank, Up, MergedFirst
<1>4. \A t \in Turns :
        \/ journal'[t].state = journal[t].state
        \/ /\ t = loop.turn.id /\ loop.at \in {"active", "started", "running"}
           /\ journal[t].state = "unstarted" /\ journal'[t].state = "started"
  BY LockHeld
<1>5. loop.at \in Holding => loop.turn.id \in Turns
  BY LoopTurn
<1>6. TurnsHeld'
  BY <1>2, <1>3, <1>4 DEF HeldInv, TurnsHeld, LiveStates
<1>7. LoopLive'
  BY <1>2, <1>4, <1>5 DEF HeldInv, LoopLive, LiveStates, Holding
<1>8. PendingLive'
  <2>1. ASSUME pendingTurn # NoTurn
        PROVE  journal'[pendingTurn.id].state = journal[pendingTurn.id].state
    <3>1. pendingTurn.id \in Turns /\ (loop.at \in Holding => loop.turn.id < pendingTurn.id)
      BY <2>1 DEF HeldInv, PendingLive
    <3>2. loop.at \in Holding => loop.turn.id # pendingTurn.id
      BY PendingOther
    <3> QED
      BY <1>4, <3>1, <3>2 DEF Holding
  <2> QED
    BY <1>2, <2>1 DEF HeldInv, PendingLive
<1>9. OutstandingCounts'
  BY <1>2 DEF HeldInv, OutstandingCounts
<1> QED
  BY <1>0, <1>2, <1>3, <1>6, <1>7, <1>8, <1>9 DEF HeldInv

\* What recovery leaves pending, and which turns it had.
LEMMA RecoveredHeld ==
  ASSUME TypeInv, HeldInv, RecoverServe
  PROVE  /\ pendingTurn' = Recovered /\ Recovered \in TurnRecords
         /\ \A t \in Turns : journal'[t].state = journal[t].state
         /\ Recovered # NoTurn => Recovered.id \in Turns /\ journal[Recovered.id].state = "unstarted"
         /\ \A t \in Turns : journal[t].state \in LiveStates => t = Recovered.id /\ Recovered # NoTurn
<1>0. Lasting /\ Queued /\ Turns \in SUBSET Nat /\ MergedFirst
  BY TypeParts, TurnCount DEF TypeInv, HeldInv
<1>1. Recovered \in TurnRecords
  BY <1>0, RecoveredTyped DEF Lasting, Queued
<1>2. /\ pendingTurn' = Recovered
      /\ InState({"started"}) = {} /\ Cardinality(Unstarted) <= 1
      /\ IF merged = NoTurn THEN UNCHANGED journal ELSE RecordMessage(Recovered)
  BY DEF RecoverServe
<1>3. \A t \in Turns : journal[t].state \in LiveStates => t \in Unstarted
  BY <1>2 DEF Unstarted, InState, LiveStates
<1>4. \A t, u \in Unstarted : t = u
  <2>1. SUFFICES ASSUME NEW t \in Unstarted, NEW u \in Unstarted, t # u PROVE FALSE
    OBVIOUS
  <2>2. {t, u} \in SUBSET Unstarted /\ Unstarted \in SUBSET (1 .. Cardinality(Prompts))
    BY InStateIs DEF Turns
  <2>3. IsFiniteSet(Unstarted)
    <3>1. IsFiniteSet(1 .. Cardinality(Prompts))
      BY TurnCount, FS_Interval
    <3> QED
      BY <2>2, <3>1, FS_Subset
  <2>4. Cardinality({t, u}) <= Cardinality(Unstarted) /\ Cardinality(Unstarted) \in Nat
    BY <2>2, <2>3, FS_Subset, FS_CardinalityType
  <2>5. Cardinality({t, u}) = 2
    <3>1. IsFiniteSet({t}) /\ Cardinality({t}) = 1
      BY FS_Singleton
    <3>2. Cardinality({t} \union {u}) = Cardinality({t}) + 1
      BY <2>1, <3>1, FS_AddElement
    <3>3. {t} \union {u} = {t, u}
      OBVIOUS
    <3> QED
      BY <3>1, <3>2, <3>3
  <2> QED
    BY <1>2, <2>4, <2>5
<1>5. CASE merged # NoTurn
  <2>1. Recovered = [merged EXCEPT !.rev = @ + 1]
    BY <1>5 DEF Recovered
  <2>2. Recovered.id = merged.id
    BY <1>0, <2>1 DEF Queued, TurnRecords
  <2>3. merged.id \in Unstarted /\ merged.id \in Turns /\ journal[merged.id].state = "unstarted"
    BY <1>0, <1>5 DEF MergedFirst, Unstarted, InState
  <2>4. Recovered # NoTurn
    BY <2>2, <2>3, Nothing, TurnCount DEF Turns
  <2>5. \A t \in Turns : journal'[t].state = journal[t].state
    BY <1>0, <1>1, <1>2, <1>5, <2>2, <2>3, MessageIs DEF Lasting
  <2> QED
    BY <1>1, <1>2, <1>3, <1>4, <2>2, <2>3, <2>4, <2>5
<1>6. CASE merged = NoTurn /\ Unstarted = {}
  BY <1>1, <1>2, <1>3, <1>6 DEF Recovered
<1>7. CASE merged = NoTurn /\ Unstarted # {}
  <2> DEFINE first == First(Unstarted)
  <2>1. first \in Unstarted
    BY <1>7, InStateIs, FirstIs
  <2>2. Recovered.id = first
    BY <1>7 DEF Recovered, FromJournal
  <2> HIDE DEF first
  <2>3. first \in Turns /\ journal[first].state = "unstarted"
    BY <2>1 DEF Unstarted, InState
  <2>4. Recovered # NoTurn
    BY <2>2, <2>3, Nothing, TurnCount DEF Turns
  <2> QED
    BY <1>1, <1>2, <1>3, <1>4, <1>7, <2>1, <2>2, <2>3, <2>4
<1> QED
  BY <1>5, <1>6, <1>7
LEMMA HeldRecovery ==
  ASSUME TypeInv, HeldInv, RecoveryStep, "diskFail" \notin Env
  PROVE  HeldInv'
<1>0. Lasting /\ Queued /\ Blank /\ Turns \in SUBSET Nat
  BY TypeParts, TurnCount DEF TypeInv
<1>1. CASE Serve
  <2>1. UNCHANGED <<journal, pendingTurn, loop, outstanding, merged, failed>> /\ (Up' <=> Up)
    BY <1>1 DEF Serve, durable, queueing, Up
  <2> QED
    BY <2>1, HeldSame
<1>2. CASE RecoverServe
  <2>1. /\ pendingTurn' = Recovered /\ \A t \in Turns : journal'[t].state = journal[t].state
        /\ Recovered # NoTurn => Recovered.id \in Turns /\ journal[Recovered.id].state = "unstarted"
        /\ \A t \in Turns : journal[t].state \in LiveStates => t = Recovered.id /\ Recovered # NoTurn
    BY <1>2, RecoveredHeld
  <2>2. /\ loop' = loop /\ failed' = failed /\ merged' = NoTurn /\ ~Up
        /\ outstanding' = IF Recovered = NoTurn THEN 0 ELSE 1
    BY <1>2 DEF RecoverServe, Up
  <2>3. loop.at = "idle"
    BY <1>0, <2>2, Nothing DEF Blank
  <2>4. TurnsHeld' /\ PendingLive' /\ LoopLive' /\ MergedFirst'
    BY <2>1, <2>2, <2>3 DEF TurnsHeld, PendingLive, LoopLive, MergedFirst, Holding
  <2>5. OutstandingCounts'
    BY <2>1, <2>2, <2>3 DEF OutstandingCounts, Holding
  <2> QED
    BY <2>2, <2>4, <2>5 DEF HeldInv
<1>3. CASE RecoverStarted \/ RecoverMerge
  <2>1. UNCHANGED <<pendingTurn, loop, outstanding, failed, proc>> /\ ~Up
    BY <1>3 DEF RecoverStarted, RecoverMerge, queueing, Up
  <2>2. pendingTurn = NoTurn /\ loop.at = "idle"
    BY <1>0, <2>1, Nothing DEF Blank
  <2>3. TurnsHeld' /\ PendingLive' /\ LoopLive' /\ OutstandingCounts'
    BY <2>1, <2>2 DEF HeldInv, TurnsHeld, PendingLive, LoopLive, OutstandingCounts, Up
  <2>4. MergedFirst'
    <3>1. CASE RecoverStarted
      <4> DEFINE t == First(InState({"started"}))
      <4>1. t \in InState({"started"})
        BY <3>1, InStateIs, FirstIs DEF RecoverStarted
      <4>2. t \in Turns /\ journal[t].state = "started"
        BY <4>1 DEF InState
      <4>3. Recorded(t, "interrupted") /\ merged' = merged
        BY <3>1 DEF RecoverStarted
      <4> HIDE DEF t
      <4>4. \A u \in Turns : journal'[u].state = IF u = t THEN "interrupted" ELSE journal[u].state
        BY <1>0, <4>2, <4>3, RecordedIs DEF Lasting, Verdicts
      <4>5. Unstarted' = Unstarted
        BY <4>2, <4>4 DEF Unstarted, InState
      <4> QED
        BY <4>3, <4>5 DEF HeldInv, MergedFirst
    <3>2. CASE RecoverMerge
      <4> DEFINE first == First(Unstarted)
                 next == First(Unstarted \ {first})
                 turn == IF merged = NoTurn THEN FromJournal(first) ELSE merged
                 more == journal[next].text
      <4>1. /\ first \in Unstarted /\ next \in Unstarted /\ next # first
            /\ \A t \in Unstarted : first <= t
        BY <3>2, TwoUnstarted, InStateIs, FirstIs DEF RecoverMerge
      <4>2. first \in Turns /\ next \in Turns
        BY <4>1 DEF Unstarted, InState
      <4>3. /\ Recorded(next, "merged")
            /\ merged' = [turn EXCEPT !.text = @ \union more,
                                      !.input = IF turn.shell THEN @ ELSE @ \union more]
        BY <3>2 DEF RecoverMerge
      <4>4. turn \in TurnRecords /\ turn.id = first
        <5>1. CASE merged = NoTurn
          <6>1. FromJournal(first) \in TurnRecords /\ FromJournal(first).id = first
            BY <1>0, <4>2, FromJournalTyped DEF Lasting, FromJournal
          <6> HIDE DEF first
          <6> QED
            BY <5>1, <6>1
        <5>2. CASE merged # NoTurn
          <6>1. merged.id \in Unstarted /\ merged.id <= first /\ first <= merged.id
            BY <4>1, <5>2 DEF HeldInv, MergedFirst
          <6>2. merged.id \in Nat /\ first \in Nat
            BY <1>0, <4>2, TurnFields DEF Queued
          <6> HIDE DEF first
          <6>3. merged.id = first
            BY <6>1, <6>2
          <6> QED
            BY <1>0, <5>2, <6>3 DEF Queued
        <5> QED
          BY <5>1, <5>2
      <4> HIDE DEF first, next, turn, more
      <4>5. merged'.id = first
        BY <4>3, <4>4 DEF TurnRecords
      <4>6. \A u \in Turns : journal'[u].state = IF u = next THEN "merged" ELSE journal[u].state
        BY <1>0, <4>2, <4>3, RecordedIs DEF Lasting, Verdicts
      <4>7. Unstarted' = Unstarted \ {next}
        BY <4>2, <4>6 DEF Unstarted, InState
      <4> QED
        BY <4>1, <4>5, <4>7 DEF MergedFirst
    <3> QED
      BY <1>3, <3>1, <3>2
  <2> QED
    BY <2>1, <2>3, <2>4 DEF HeldInv
<1> QED
  BY <1>1, <1>2, <1>3 DEF RecoveryStep

\* Every step keeps track of the turns that are left, while the journal works.
LEMMA HeldStep ==
  ASSUME TypeInv, TextInv, HeldInv, [Next]_vars, "diskFail" \notin Env
  PROVE  HeldInv'
<1>1. CASE \/ ControllerStep \/ PublishStatus \/ PeriodicPublish \/ observeSessionUpdate
           \/ sessionDrainReports \/ reportSessionUpdate \/ UNCHANGED vars
  <2>1. UNCHANGED <<journal, pendingTurn, loop, outstanding, merged, failed, proc>>
    BY <1>1 DEF ControllerStep, AskDrain, WithdrawDrain, PublishStatus, PeriodicPublish,
       observeSessionUpdate, sessionDrainReports, reportSessionUpdate, vars, durable, queueing
  <2> QED
    BY <2>1, HeldSame DEF Up
<1>2. CASE ServeReturns \/ Crash
  <2>1. Exit
    BY <1>2 DEF ServeReturns, Crash
  <2>2. /\ pendingTurn' = NoTurn /\ loop'.at = "idle" /\ outstanding' = 0 /\ merged' = NoTurn
        /\ ~failed' /\ ~Up'
    BY <2>1, Nothing DEF Exit, Up
  <2> QED
    BY <2>2 DEF HeldInv, TurnsHeld, PendingLive, LoopLive, OutstandingCounts, MergedFirst, Holding
<1> QED
  BY <1>1, <1>2, HeldClient, HeldLoop, HeldInterrupt, HeldRecovery DEF Next

LEMMA HeldInit == Init => HeldInv
BY Nothing DEF Init, Memory, HeldInv, TurnsHeld, PendingLive, LoopLive, OutstandingCounts, MergedFirst,
   Holding, Up

-----------------------------------------------------------------------------
(* What becomes of a turn                                                  *)

\* One turn is over, or one that was left has started.
Moves(t) ==
  /\ t \in Turns
  /\ \/ journal'[t].state \in Over
     \/ journal[t].state \in LiveStates /\ journal'[t].state = "started"
  /\ \A u \in Turns : u # t => journal'[u].state = journal[u].state

\* By which steps.
LoopMoves(t) == Up /\ t = loop.turn.id /\ loop.at \in {"active", "started", "running"}
RecoveryMoves(t) ==
  \/ RecoverStarted /\ t \in InState({"started"}) /\ \A u \in InState({"started"}) : t <= u
  \/ RecoverMerge

LEMMA StateMoves ==
  ASSUME TypeInv, TextInv, HeldInv, [Next]_vars, "diskFail" \notin Env
  PROVE  SameStates \/ Adds
         \/ \E t \in Turns : Moves(t) /\ (LoopMoves(t) \/ RecoveryMoves(t) \/ removePendingMessage)
<1>0. /\ Lasting /\ Queued /\ Turns \in SUBSET Nat /\ ~AppendFails /\ ~failed
  BY TypeParts, TurnCount DEF TypeInv, HeldInv, AppendFails
<1>1. ASSUME UNCHANGED journal PROVE SameStates
  BY <1>1 DEF SameStates
<1>2. ASSUME NEW t \in Turns, NEW state \in Over, Recorded(t, state)
      PROVE  Moves(t)
  BY <1>0, <1>2, RecordedIs DEF Lasting, Verdicts, Over, Moves
<1>3. CASE ClientStep
  <2>1. CASE \E p \in Prompts, shell \in Shells : submitParsedMessage(p, shell) \/ editMessage(p, shell)
    BY <2>1, Messages
  <2>2. CASE OpenDraft \/ RemovalRefused \/ DraftRefused
    BY <1>0, <1>1, <2>2 DEF OpenDraft, RemovalRefused, DraftRefused, durable
  <2>3. CASE removePendingMessage
    <3>1. /\ Recorded(pendingTurn.id, "removed") /\ draft # NoTurn /\ pendingTurn.id = draft.id
      BY <2>3 DEF removePendingMessage, RecordRemoval, DraftCurrent
    <3>2. pendingTurn.id \in Turns
      BY <3>1 DEF TextInv, DraftKnown
    <3> QED
      BY <1>2, <2>3, <3>1, <3>2 DEF Over
  <2> QED
    BY <1>3, <2>1, <2>2, <2>3 DEF ClientStep
<1>4. CASE LoopSteps
  <2>1. CASE StartTurn
    <3>1. Recorded(loop.turn.id, "started") /\ loop.at = "active" /\ Up
      BY <1>0, <2>1 DEF StartTurn, Appended, NotAppended
    <3>2. loop.turn.id \in Turns /\ journal[loop.turn.id].state \in LiveStates
      BY <3>1, LoopTurn DEF HeldInv, LoopLive, Holding
    <3>3. \A u \in Turns : journal'[u].state = IF u = loop.turn.id THEN "started" ELSE journal[u].state
      BY <1>0, <3>1, <3>2, RecordedIs DEF Lasting, Verdicts
    <3>4. Moves(loop.turn.id)
      BY <3>2, <3>3 DEF Moves
    <3> QED
      BY <3>1, <3>2, <3>4 DEF LoopMoves
  <2>2. CASE CompleteTurn
    <3>1. /\ Recorded(loop.turn.id, IF loop.cut THEN "interrupted" ELSE "done")
          /\ loop.at = "running" /\ Up
      BY <1>0, <2>2 DEF CompleteTurn, Appended, NotAppended
    <3>2. loop.turn.id \in Turns
      BY <3>1, LoopTurn DEF Holding
    <3>3. Moves(loop.turn.id)
      BY <1>2, <3>1, <3>2 DEF Over
    <3> QED
      BY <3>1, <3>2, <3>3 DEF LoopMoves
  <2>3. CASE ~StartTurn /\ ~CompleteTurn
    BY <1>1, <1>4, <2>3 DEF LoopSteps, ReceiveTurn, takePendingTurn, ReturnTurn, ActivateTurn,
       RunTurn, DeactivateTurn, PublishIdle, finishTurn, NextTurn, durable
  <2> QED
    BY <2>1, <2>2, <2>3
<1>5. CASE InterruptStep
  <2>1. \A t \in Turns :
          \/ journal'[t].state = journal[t].state
          \/ /\ t = loop.turn.id /\ loop.at \in {"active", "started", "running"}
             /\ journal[t].state = "unstarted" /\ journal'[t].state = "started"
    BY <1>5, LockHeld
  <2>2. Up
    BY <1>5 DEF InterruptStep, AskInterrupt, InterruptSettles, LockInterrupt, ProviderInterrupt, InterruptDone,
       stopInterruptedTurn, Up
  <2>3. CASE ~SameStates
    <3>1. PICK t \in Turns : /\ t = loop.turn.id /\ loop.at \in {"active", "started", "running"}
                             /\ journal[t].state = "unstarted" /\ journal'[t].state = "started"
      BY <2>1, <2>3 DEF SameStates
    <3>2. Moves(t) /\ LoopMoves(t)
      BY <2>1, <2>2, <3>1 DEF Moves, LoopMoves, LiveStates
    <3> QED
      BY <3>2
  <2> QED
    BY <2>3
<1>6. CASE \/ ControllerStep \/ PublishStatus \/ PeriodicPublish \/ observeSessionUpdate
           \/ sessionDrainReports \/ reportSessionUpdate \/ ServeReturns \/ Crash \/ Serve
           \/ UNCHANGED vars
  BY <1>1, <1>6 DEF ControllerStep, AskDrain, WithdrawDrain, PublishStatus, PeriodicPublish,
     observeSessionUpdate, sessionDrainReports, reportSessionUpdate, ServeReturns, Crash, Exit, Serve,
     vars, durable
<1>7. CASE RecoverStarted
  <2> DEFINE t == First(InState({"started"}))
  <2>1. t \in InState({"started"}) /\ \A u \in InState({"started"}) : t <= u
    BY <1>7, InStateIs, FirstIs DEF RecoverStarted
  <2>2. Recorded(t, "interrupted")
    BY <1>7 DEF RecoverStarted
  <2> HIDE DEF t
  <2>3. t \in Turns
    BY <2>1 DEF InState
  <2> QED
    BY <1>2, <1>7, <2>1, <2>2, <2>3 DEF RecoveryMoves, Over
<1>8. CASE RecoverMerge
  <2> DEFINE next == First(Unstarted \ {First(Unstarted)})
  <2>1. next \in Unstarted
    BY <1>8, TwoUnstarted, InStateIs, FirstIs DEF RecoverMerge
  <2>2. Recorded(next, "merged")
    BY <1>8 DEF RecoverMerge
  <2> HIDE DEF next
  <2>3. next \in Turns
    BY <2>1 DEF Unstarted, InState
  <2> QED
    BY <1>2, <1>8, <2>2, <2>3 DEF RecoveryMoves, Over
<1>9. CASE RecoverServe
  BY <1>9, RecoveredHeld DEF SameStates
<1> QED
  BY <1>3, <1>4, <1>5, <1>6, <1>7, <1>8, <1>9 DEF Next, RecoveryStep

\* Its state stays, or the turn is over, or one that was left has started.
Advances(t) ==
  \/ journal'[t].state = journal[t].state
  \/ journal'[t].state \in Over
  \/ journal[t].state \in LiveStates /\ journal'[t].state = "started"

LEMMA StateSteps ==
  ASSUME TypeInv, TextInv, HeldInv, [Next]_vars, "diskFail" \notin Env
  PROVE  (\A t \in Turns : Advances(t)) \/ Adds
BY StateMoves DEF Advances, SameStates, Moves

-----------------------------------------------------------------------------
(* Drains                                                                  *)

\* The IDs of requests count up.
RequestsMinted ==
  \A k \in Kinds :
    /\ asked[k] <= minted /\ request[k] <= minted
    /\ report[k].id <= minted /\ patch[k].id <= minted

\* A report, written or about to be, says Drained for a request that stands.
SaysDrained(k) ==
  asked[k] # 0 /\ [id |-> asked[k], drained |-> TRUE] \in {report[k], patch[k]}

\* Then nothing is left, and nothing is let in.
DrainHeld ==
  \A k \in Kinds : SaysDrained(k) =>
    /\ \A t \in Turns : journal[t].state \notin LiveStates
    /\ Up => request[k] = asked[k]

DrainInv == RequestsMinted /\ DrainHeld

\* Nobody has said anything new.
LEMMA SaidBefore ==
  ASSUME TypeInv, RequestsMinted, [Next]_vars, NEW k \in Kinds, SaysDrained(k)'
  PROVE  SaysDrained(k) \/ sessionDrainReports \/ RecoverServe
<1>0. /\ Lasting /\ Controlled /\ minted \in Nat
      /\ Lasting => asked \in [Kinds -> Nat] /\ report \in [Kinds -> [id : Int, drained : BOOLEAN]]
      /\ Controlled => patch \in [Kinds -> [id : Int, drained : BOOLEAN]]
  BY TypeParts, BoundsNatural DEF TypeInv, Lasting, Controlled
<1>1. CASE UNCHANGED <<asked, report, patch>>
  BY <1>1 DEF SaysDrained
<1>2. CASE \E l \in Kinds : AskDrain(l)
  <2>1. PICK l \in Kinds : AskDrain(l)
    BY <1>2
  <2>2. /\ asked' = [asked EXCEPT ![l] = minted + 1] /\ patch' = patch
        /\ report' = report \/ report' = [report EXCEPT ![l] = NoReport]
    BY <2>1 DEF AskDrain, draining
  <2>3. CASE k = l
    <3>1. asked'[k] = minted + 1 /\ (report'[k] = report[k] \/ report'[k].id = 0)
      BY <1>0, <2>2, <2>3 DEF NoReport
    <3>2. report'[k].id = minted + 1 \/ patch[k].id = minted + 1
      BY <2>2, <3>1 DEF SaysDrained
    <3>3. report[k].id \in Int /\ patch[k].id \in Int
      BY <1>0
    <3> QED
      BY <1>0, <3>1, <3>2, <3>3 DEF RequestsMinted
  <2>4. CASE k # l
    BY <1>0, <2>2, <2>4 DEF SaysDrained
  <2> QED
    BY <2>3, <2>4
<1>3. CASE \E l \in Kinds : WithdrawDrain(l)
  <2>1. PICK l \in Kinds : WithdrawDrain(l)
    BY <1>3
  <2>2. /\ asked' = [asked EXCEPT ![l] = 0] /\ patch' = patch
        /\ report' = [report EXCEPT ![l] = NoReport]
    BY <2>1 DEF WithdrawDrain, draining
  <2>3. CASE k = l
    BY <1>0, <2>2, <2>3 DEF SaysDrained
  <2>4. CASE k # l
    BY <1>0, <2>2, <2>4 DEF SaysDrained
  <2> QED
    BY <2>3, <2>4
<1>4. CASE reportSessionUpdate
  <2>1. asked' = asked /\ report' = patch /\ patch' = NoPatch
    BY <1>4 DEF reportSessionUpdate
  <2>2. NoPatch[k].drained = FALSE
    BY DEF NoPatch
  <2> QED
    BY <2>1, <2>2 DEF SaysDrained
<1>5. CASE ServeReturns \/ Crash
  <2>1. asked' = asked /\ report' = report /\ patch' = NoPatch
    BY <1>5 DEF ServeReturns, Crash, Exit, session
  <2>2. NoPatch[k].drained = FALSE
    BY DEF NoPatch
  <2> QED
    BY <2>1, <2>2 DEF SaysDrained
<1>6. CASE \/ ClientStep \/ LoopSteps \/ InterruptStep \/ PublishStatus \/ PeriodicPublish
           \/ observeSessionUpdate \/ UNCHANGED vars \/ RecoverStarted \/ RecoverMerge \/ Serve
  <2>1. UNCHANGED <<asked, report, patch>>
    BY <1>6 DEF ClientStep, submitParsedMessage, AppendToPending, SubmitTurn, editMessage, OpenDraft,
       removePendingMessage, RemovalRefused, DraftRefused,
       LoopSteps, ReceiveTurn, takePendingTurn, ReturnTurn, ActivateTurn, StartTurn,
       RunTurn, CompleteTurn, DeactivateTurn, PublishIdle, finishTurn, NextTurn,
       InterruptStep, AskInterrupt, InterruptSettles, LockInterrupt, ProviderInterrupt, InterruptDone,
       stopInterruptedTurn, PublishStatus, PeriodicPublish, observeSessionUpdate, vars,
       RecoverStarted, RecoverMerge, Serve, session, draining
  <2> QED
    BY <1>1, <2>1
<1> QED
  BY <1>2, <1>3, <1>4, <1>5, <1>6 DEF Next, ControllerStep, RecoveryStep

\* A process that is up takes a request that stands, and keeps it.
LEMMA RequestStays ==
  ASSUME TypeInv, RequestsMinted, [Next]_vars, NEW k \in Kinds, SaysDrained(k)', SaysDrained(k),
         Up => request[k] = asked[k], Up'
  PROVE  request'[k] = asked'[k]
<1>0. Lasting /\ Controlled /\ minted \in Nat
  BY TypeParts, BoundsNatural DEF TypeInv, Lasting
<1>1. CASE UNCHANGED <<asked, request, proc>>
  BY <1>1 DEF Up
<1>2. CASE RecoverServe \/ observeSessionUpdate
  BY <1>2 DEF RecoverServe, observeSessionUpdate, session
<1>3. CASE ControllerStep
  <2>1. PICK l \in Kinds : AskDrain(l) \/ WithdrawDrain(l)
    BY <1>3 DEF ControllerStep
  <2>2. /\ UNCHANGED <<request, patch, proc>>
        /\ \/ asked' = [asked EXCEPT ![l] = minted + 1]
           \/ asked' = [asked EXCEPT ![l] = 0]
        /\ report' = report \/ report' = [report EXCEPT ![l] = NoReport]
    BY <2>1 DEF AskDrain, WithdrawDrain, draining
  <2>3. CASE k = l
    <3>1. asked'[k] \in {0, minted + 1} /\ (report'[k] = report[k] \/ report'[k].id = 0)
      BY <1>0, <2>2, <2>3 DEF NoReport, Lasting
    <3>2. asked'[k] = minted + 1 /\ (report'[k].id = minted + 1 \/ patch[k].id = minted + 1)
      BY <2>2, <3>1 DEF SaysDrained
    <3>3. report[k].id \in Int /\ patch[k].id \in Int
      BY <1>0 DEF Lasting, Controlled
    <3> QED
      BY <1>0, <3>1, <3>2, <3>3 DEF RequestsMinted
  <2>4. CASE k # l
    BY <1>0, <2>2, <2>4 DEF Up, Lasting
  <2> QED
    BY <2>3, <2>4
<1>4. CASE ServeReturns \/ Crash
  BY <1>4 DEF ServeReturns, Crash, Exit, Up
<1>5. CASE RecoverStarted \/ RecoverMerge
  BY <1>5 DEF RecoverStarted, RecoverMerge, Up
<1>6. CASE Serve
  BY <1>6 DEF Serve, session, draining, Up
<1>7. CASE \/ ClientStep \/ LoopSteps \/ InterruptStep \/ PublishStatus \/ PeriodicPublish
           \/ sessionDrainReports \/ reportSessionUpdate \/ UNCHANGED vars
  <2>1. UNCHANGED <<asked, request, proc>>
    BY <1>7 DEF ClientStep, submitParsedMessage, AppendToPending, SubmitTurn, editMessage, OpenDraft,
       removePendingMessage, RemovalRefused, DraftRefused,
       LoopSteps, ReceiveTurn, takePendingTurn, ReturnTurn, ActivateTurn, StartTurn,
       RunTurn, CompleteTurn, DeactivateTurn, PublishIdle, finishTurn, NextTurn,
       InterruptStep, AskInterrupt, InterruptSettles, LockInterrupt, ProviderInterrupt, InterruptDone,
       stopInterruptedTurn, PublishStatus, PeriodicPublish, sessionDrainReports, reportSessionUpdate, vars,
       session, draining
  <2> QED
    BY <1>1, <2>1
<1> QED
  BY <1>2, <1>3, <1>4, <1>5, <1>6, <1>7 DEF Next, RecoveryStep
LEMMA ReportFields ==
  ASSUME NEW id \in Int, NEW k, NEW n, NEW q
  PROVE  /\ drainReport(id, k, n, q).id = id
         /\ drainReport(id, k, n, q).drained =>
              id # 0 /\ n = 0 /\ (k = "idleDrain" => q = <<>>)
BY DEF drainReport, NoReport

LEMMA MintedStep ==
  ASSUME TypeInv, RequestsMinted, [Next]_vars
  PROVE  RequestsMinted'
<1>0. /\ minted \in Nat /\ asked \in [Kinds -> Nat] /\ request \in [Kinds -> Nat]
      /\ report \in [Kinds -> [id : Int, drained : BOOLEAN]]
      /\ patch \in [Kinds -> [id : Int, drained : BOOLEAN]]
  BY TypeParts, BoundsNatural DEF TypeInv, Lasting, Controlled
<1>1. /\ \A k \in Kinds : NoPatch[k].id = -1 /\ NoRequest[k] = 0
      /\ NoReport.id = 0
  BY DEF NoPatch, NoRequest, NoReport
<1>2. CASE UNCHANGED <<asked, request, report, patch, minted>>
  BY <1>2 DEF RequestsMinted
<1>3. CASE ControllerStep
  <2>1. PICK l \in Kinds : AskDrain(l) \/ WithdrawDrain(l)
    BY <1>3 DEF ControllerStep
  <2>2. /\ UNCHANGED <<request, patch>>
        /\ \/ asked' = [asked EXCEPT ![l] = minted + 1] /\ minted' = minted + 1
           \/ asked' = [asked EXCEPT ![l] = 0] /\ minted' = minted
        /\ report' = report \/ report' = [report EXCEPT ![l] = NoReport]
    BY <2>1 DEF AskDrain, WithdrawDrain, draining
  <2>3. \A k \in Kinds : asked'[k] <= minted' /\ (report'[k] = report[k] \/ report'[k] = NoReport)
    <3> TAKE k \in Kinds
    <3>1. asked[k] \in Nat /\ asked[k] <= minted
      BY <1>0 DEF RequestsMinted
    <3>2. /\ report'[k] = report[k] \/ report'[k] = NoReport
          /\ asked'[k] \in {asked[k], 0, minted + 1}
          /\ minted' = minted + 1 \/ (minted' = minted /\ asked'[k] # minted + 1)
      BY <1>0, <2>2, <3>1
    <3> QED
      BY <1>0, <3>1, <3>2
  <2>4. minted <= minted' /\ minted' \in Nat
    BY <1>0, <2>2
  <2> SUFFICES ASSUME NEW k \in Kinds
               PROVE  request[k] <= minted' /\ report'[k].id <= minted' /\ patch[k].id <= minted'
    BY <2>2, <2>3 DEF RequestsMinted
  <2>5. report[k].id \in Int /\ patch[k].id \in Int /\ request[k] \in Nat
    BY <1>0
  <2>6. request[k] <= minted /\ report[k].id <= minted /\ patch[k].id <= minted
    BY DEF RequestsMinted
  <2> QED
    BY <1>0, <1>1, <2>3, <2>4, <2>5, <2>6
<1>4. CASE observeSessionUpdate
  BY <1>4 DEF observeSessionUpdate, session, RequestsMinted
<1>5. CASE sessionDrainReports
  <2>1. /\ UNCHANGED <<asked, request, report, minted>>
        /\ patch' = [k \in Kinds |-> drainReport(request[k], k, outstanding, publishQueue)]
    BY <1>5 DEF sessionDrainReports, session
  <2>2. \A k \in Kinds : patch'[k].id = request[k]
    BY <1>0, <2>1, ReportFields
  <2> QED
    BY <2>1, <2>2 DEF RequestsMinted
<1>6. CASE reportSessionUpdate
  BY <1>0, <1>1, <1>6 DEF reportSessionUpdate, RequestsMinted
<1>7. CASE ServeReturns \/ Crash
  BY <1>0, <1>1, <1>7 DEF ServeReturns, Crash, Exit, session, RequestsMinted
<1>8. CASE RecoverServe
  <2>1. PICK seed : /\ report' = [k \in Kinds |-> drainReport(asked[k], k, outstanding', seed)]
                    /\ request' = asked /\ UNCHANGED <<asked, minted, patch>>
    BY <1>8 DEF RecoverServe
  <2>2. \A k \in Kinds : report'[k].id = asked[k]
    BY <1>0, <2>1, ReportFields
  <2> QED
    BY <2>1, <2>2 DEF RequestsMinted
<1>9. CASE \/ ClientStep \/ LoopSteps \/ InterruptStep \/ PublishStatus \/ PeriodicPublish
           \/ UNCHANGED vars \/ RecoverStarted \/ RecoverMerge \/ Serve
  <2>1. UNCHANGED <<asked, request, report, patch, minted>>
    BY <1>9 DEF ClientStep, submitParsedMessage, AppendToPending, SubmitTurn, editMessage, OpenDraft,
       removePendingMessage, RemovalRefused, DraftRefused,
       LoopSteps, ReceiveTurn, takePendingTurn, ReturnTurn, ActivateTurn, StartTurn,
       RunTurn, CompleteTurn, DeactivateTurn, PublishIdle, finishTurn, NextTurn,
       InterruptStep, AskInterrupt, InterruptSettles, LockInterrupt, ProviderInterrupt, InterruptDone,
       stopInterruptedTurn, PublishStatus, PeriodicPublish, vars,
       RecoverStarted, RecoverMerge, Serve, session, draining
  <2> QED
    BY <1>2, <2>1
<1> QED
  BY <1>3, <1>4, <1>5, <1>6, <1>7, <1>8, <1>9 DEF Next, RecoveryStep

\* Nothing outstanding, nothing left.
LEMMA NothingLeft ==
  ASSUME TypeInv, HeldInv, Up, outstanding = 0
  PROVE  \A t \in Turns : journal[t].state \notin LiveStates
<1>1. pendingTurn = NoTurn /\ loop.at \notin {"taken", "active", "started", "running"}
  BY DEF HeldInv, OutstandingCounts, Holding
<1>2. NoTurn.id \notin Turns
  BY Nothing, TurnCount DEF Turns
<1> QED
  BY <1>1, <1>2 DEF HeldInv, TurnsHeld

LEMMA DrainStep ==
  ASSUME TypeInv, TextInv, HeldInv, DrainInv, [Next]_vars, "diskFail" \notin Env
  PROVE  DrainInv'
<1>0. /\ asked \in [Kinds -> Nat] /\ request \in [Kinds -> Nat]
  BY TypeParts DEF TypeInv, Lasting, Controlled
<1>1. RequestsMinted /\ DrainHeld /\ RequestsMinted'
  BY MintedStep DEF DrainInv
<1>2. SUFFICES ASSUME NEW k \in Kinds, SaysDrained(k)'
               PROVE  /\ \A t \in Turns : journal'[t].state \notin LiveStates
                      /\ Up' => request'[k] = asked'[k]
  BY <1>1 DEF DrainInv, DrainHeld
<1>3. CASE SaysDrained(k)
  <2>1. /\ \A t \in Turns : journal[t].state \notin LiveStates
        /\ Up => request[k] = asked[k]
    BY <1>1, <1>3 DEF DrainHeld
  <2>2. Up' => request'[k] = asked'[k]
    BY <1>1, <1>2, <1>3, <2>1, RequestStays
  <2>3. ~Adds
    BY <1>3, <2>1 DEF Adds, Accepting, Requested, SaysDrained, Up
  <2>4. \A t \in Turns : Advances(t)
    BY <2>3, StateSteps
  <2> QED
    BY <2>1, <2>2, <2>4 DEF Advances, LiveStates, Over
<1>4. CASE ~SaysDrained(k) /\ sessionDrainReports
  <2>1. /\ UNCHANGED <<asked, request, report, journal>> /\ Up
        /\ patch' = [l \in Kinds |-> drainReport(request[l], l, outstanding, publishQueue)]
    BY <1>4 DEF sessionDrainReports, session, durable
  <2>2. patch'[k] = drainReport(request[k], k, outstanding, publishQueue)
    BY <2>1
  <2>3. patch'[k] = [id |-> asked[k], drained |-> TRUE]
    BY <1>2, <1>4, <2>1 DEF SaysDrained
  <2>4. request[k] = asked[k] /\ outstanding = 0
    <3>1. request[k] \in Int
      BY <1>0
    <3>2. patch'[k].id = request[k] /\ (patch'[k].drained => outstanding = 0)
      BY <2>2, <3>1, ReportFields
    <3> QED
      BY <2>3, <3>2
  <2> QED
    BY <2>1, <2>4, NothingLeft
<1>5. CASE ~SaysDrained(k) /\ RecoverServe
  <2>1. PICK seed : report' = [l \in Kinds |-> drainReport(asked[l], l, outstanding', seed)]
    BY <1>5 DEF RecoverServe
  <2>2. /\ request' = asked /\ UNCHANGED <<asked, patch>>
        /\ outstanding' = IF Recovered = NoTurn THEN 0 ELSE 1
    BY <1>5 DEF RecoverServe
  <2>3. report'[k] = drainReport(asked[k], k, outstanding', seed)
    BY <2>1
  <2>4. report'[k] = [id |-> asked[k], drained |-> TRUE]
    BY <1>2, <1>5, <2>2 DEF SaysDrained
  <2>5. outstanding' = 0
    <3>1. asked[k] \in Int
      BY <1>0
    <3>2. report'[k].drained => outstanding' = 0
      BY <2>3, <3>1, ReportFields
    <3> QED
      BY <2>4, <3>2
  <2>6. Recovered = NoTurn
    BY <2>2, <2>5
  <2>7. \A t \in Turns : journal'[t].state \notin LiveStates
    BY <1>5, <2>6, RecoveredHeld
  <2> QED
    BY <2>2, <2>7
<1> QED
  BY <1>1, <1>2, <1>3, <1>4, <1>5, SaidBefore

LEMMA DrainInit == Init => DrainInv
<1> SUFFICES ASSUME Init PROVE DrainInv
  OBVIOUS
<1>1. RequestsMinted
  BY DEF Init, Memory, RequestsMinted, NoRequest, NoReport, NoPatch
<1>2. DrainHeld
  BY DEF Init, Memory, DrainHeld, SaysDrained, NoRequest
<1> QED
  BY <1>1, <1>2 DEF DrainInv

LEMMA TextInit == Init => TextInv
BY DEF Init, Memory, TextInv, PendingKnown, DraftKnown, MergedKnown

\* The first half of DrainedIsQuiet.
NoTurnIsLeft ==
  \A k \in Kinds :
    asked[k] # 0 /\ report[k] = [id |-> asked[k], drained |-> TRUE] =>
      InState({"unstarted", "started"}) = {}

\* sessionDrainReports, submitParsedMessage, initializeSessionUpdate: while the
\* report of a request that still stands says Drained, no accepted turn waits
\* or runs, however crashes, forced stops, edits and withdrawn requests come in
\* between; only the journal has to work, because a submission that fails may
\* have been recorded although nobody counts it as outstanding.
THEOREM DrainedLeavesNoTurn ==
  ASSUME "diskFail" \notin Env
  PROVE  Spec => []NoTurnIsLeft
<1>1. DrainInv => NoTurnIsLeft
  BY DEF DrainInv, DrainHeld, NoTurnIsLeft, SaysDrained, InState, LiveStates
<1>2. TypeInv /\ TextInv /\ HeldInv /\ [Next]_vars => HeldInv'
  BY HeldStep
<1>3. TypeInv /\ TextInv /\ HeldInv /\ DrainInv /\ [Next]_vars => DrainInv'
  BY DrainStep
<1>4. TypeInv /\ TextInv /\ TypeInv' /\ [Next]_vars => TextInv'
  BY TextStep
<1> QED
  BY <1>1, <1>2, <1>3, <1>4, TypeInit, TypeStep, TextInit, HeldInit, DrainInit, PTL DEF Spec

-----------------------------------------------------------------------------
(* Publications                                                            *)

\* A publication that is queued has the current mark and comes last.
Enqueues(active) ==
  publishQueue' = Append(publishQueue, [active |-> active, settledTurnID |-> completedTurnID'])

\* What happens to the queue, the marker file and the turns that were not seen.
Queueing ==
  /\ publishQueue' = publishQueue \/ \E active \in BOOLEAN : Enqueues(active)
  /\ settled' = settled /\ (Up' <=> Up)
  /\ unseen' = unseen \/ ActivateTurn
  /\ completedTurnID' = completedTurnID \/ PublishIdle \/ removePendingMessage

LEMMA QueueSteps ==
  ASSUME TypeInv, [Next]_vars
  PROVE  Queueing \/ PublishStatus \/ RecoverServe \/ ServeReturns \/ Crash
<1>0. \A l : (ActiveTurn(l) # 0) \in BOOLEAN
  OBVIOUS
<1>1. CASE UNCHANGED <<publishQueue, settled, unseen, proc, completedTurnID>>
  BY <1>1 DEF Queueing, Up
<1>2. CASE removePendingMessage
  BY <1>0, <1>2 DEF removePendingMessage, queueSessionStatusPublish, Queueing, Enqueues, Up
<1>3. CASE ActivateTurn
  BY <1>3 DEF ActivateTurn, queueSessionStatusPublish, Queueing, Enqueues, Up, durable
<1>4. CASE PublishIdle
  BY <1>4 DEF PublishIdle, queueSessionStatusPublish, Queueing, Enqueues, Up, durable, history
<1>5. CASE PeriodicPublish \/ Serve
  BY <1>0, <1>5 DEF PeriodicPublish, Serve, queueSessionStatusPublish, Queueing, Enqueues, Up, durable, history
<1>6. CASE \/ ControllerStep \/ observeSessionUpdate \/ sessionDrainReports \/ reportSessionUpdate
           \/ RecoverStarted \/ RecoverMerge \/ InterruptStep \/ UNCHANGED vars
  BY <1>1, <1>6 DEF ControllerStep, AskDrain, WithdrawDrain, observeSessionUpdate, sessionDrainReports,
     reportSessionUpdate, RecoverStarted, RecoverMerge, InterruptStep, AskInterrupt, InterruptSettles,
     LockInterrupt, ProviderInterrupt, InterruptDone, stopInterruptedTurn, vars, durable, publishing, history
<1>7. CASE ClientStep /\ ~removePendingMessage
  BY <1>1, <1>7 DEF ClientStep, submitParsedMessage, AppendToPending, SubmitTurn, editMessage, OpenDraft,
     RemovalRefused, DraftRefused, durable, publishing, history
<1>8. CASE LoopSteps /\ ~ActivateTurn /\ ~PublishIdle
  BY <1>1, <1>8 DEF LoopSteps, ReceiveTurn, takePendingTurn, ReturnTurn, StartTurn, RunTurn,
     CompleteTurn, DeactivateTurn, finishTurn, NextTurn, durable, publishing, history
<1> QED
  BY <1>2, <1>3, <1>4, <1>5, <1>6, <1>7, <1>8 DEF Next, RecoveryStep

\* The queue after it.
LEMMA QueueGrows ==
  ASSUME TypeInv, completedTurnID' \in Nat,
         publishQueue' = publishQueue \/ \E active \in BOOLEAN : Enqueues(active)
  PROVE  /\ Len(publishQueue) \in Nat /\ Len(publishQueue') \in Nat
         /\ Len(publishQueue) <= Len(publishQueue')
         /\ \A i \in 1 .. Len(publishQueue) : publishQueue'[i] = publishQueue[i]
         /\ \A i \in 1 .. Len(publishQueue') :
              i \in 1 .. Len(publishQueue) \/ publishQueue'[i].settledTurnID = completedTurnID'
<1>1. publishQueue \in Seq(Publications)
  BY TypeParts DEF TypeInv, Queued
<1>2. Len(publishQueue) \in Nat
  BY <1>1, LenProperties
<1>3. CASE publishQueue' = publishQueue
  BY <1>2, <1>3
<1>4. CASE \E active \in BOOLEAN : Enqueues(active)
  <2>1. PICK active \in BOOLEAN : Enqueues(active)
    BY <1>4
  <2> DEFINE e == [active |-> active, settledTurnID |-> completedTurnID']
  <2>2. e \in Publications /\ publishQueue' = Append(publishQueue, e)
    BY <2>1 DEF Publications, Enqueues
  <2>3. e.settledTurnID = completedTurnID'
    OBVIOUS
  <2> HIDE DEF e
  <2>4. /\ Len(publishQueue') = Len(publishQueue) + 1
        /\ \A i \in 1 .. Len(publishQueue) : publishQueue'[i] = publishQueue[i]
        /\ publishQueue'[Len(publishQueue) + 1] = e
    BY <1>1, <2>2, AppendProperties
  <2> QED
    BY <1>2, <2>3, <2>4
<1> QED
  BY <1>3, <1>4

\* A turn that becomes active leaves the queue with Active=TRUE at its end.
LEMMA ActiveLast ==
  ASSUME TypeInv, ActivateTurn
  PROVE  /\ Len(publishQueue') \in Nat \ {0}
         /\ publishQueue'[Len(publishQueue')].active = TRUE
<1>1. publishQueue \in Seq(Publications) /\ completedTurnID \in Nat
  BY TypeParts DEF TypeInv, Queued
<1>2. Len(publishQueue) \in Nat /\ (publishQueue # <<>> => Len(publishQueue) # 0)
  BY <1>1, LenProperties, EmptySeq
<1>3. CASE publishQueue' = Append(publishQueue, [active |-> TRUE, settledTurnID |-> completedTurnID])
  <2> DEFINE e == [active |-> TRUE, settledTurnID |-> completedTurnID]
  <2>1. e \in Publications /\ publishQueue' = Append(publishQueue, e)
    BY <1>1, <1>3 DEF Publications
  <2>2. e.active = TRUE
    OBVIOUS
  <2> HIDE DEF e
  <2>3. /\ Len(publishQueue') = Len(publishQueue) + 1
        /\ publishQueue'[Len(publishQueue) + 1] = e
    BY <1>1, <2>1, AppendProperties
  <2> QED
    BY <1>2, <2>2, <2>3
<1>4. CASE publishQueue' = publishQueue /\ publishQueue # <<>> /\ Last(publishQueue).active = TRUE
  BY <1>2, <1>4 DEF Last
<1> QED
  BY <1>3, <1>4 DEF ActivateTurn, queueSessionStatusPublish

\* A publication leaves the rest of the queue.
LEMMA QueueShrinks ==
  ASSUME TypeInv, PublishStatus
  PROVE  /\ Len(publishQueue) \in Nat \ {0} /\ Len(publishQueue') = Len(publishQueue) - 1
         /\ \A i \in 1 .. Len(publishQueue') : publishQueue'[i] = publishQueue[i + 1]
         /\ Head(publishQueue) = publishQueue[1] /\ Head(publishQueue) \in Publications
<1>1. publishQueue \in Seq(Publications) /\ publishQueue # <<>> /\ publishQueue' = Tail(publishQueue)
  BY TypeParts DEF TypeInv, Queued, PublishStatus
<1>2. Len(publishQueue) \in Nat /\ Len(publishQueue) # 0
  BY <1>1, LenProperties, EmptySeq
<1> QED
  BY <1>1, <1>2, HeadTailProperties

\* What ran without having been published as activity is in the queue, or will
\* be when the journal is read.
SeenInv ==
  /\ \A t \in unseen : journal[t].state # "none"
  /\ Up /\ unseen # {} => \E i \in 1 .. Len(publishQueue) : publishQueue[i].active
  /\ ~Up /\ unseen # {} => \E t \in Turns : journal[t].state # "none" /\ settled < t

\* A turn that is recorded stays so.
LEMMA NotForgotten ==
  ASSUME TypeInv, TextInv, HeldInv, [Next]_vars, "diskFail" \notin Env,
         NEW t \in Turns, journal[t].state # "none"
  PROVE  journal'[t].state # "none"
BY StateSteps DEF Advances, Adds, Over

Seed == <<[active |-> TRUE, settledTurnID |-> 0]>>

\* What a restart puts in the queue.
LEMMA Seeded ==
  ASSUME TypeInv, RecoverServe
  PROVE  /\ UNCHANGED <<settled, unseen, stopping, loop, asked, patch>> /\ Up' /\ ~Up
         /\ publishQueue' = Seed \/ publishQueue' = <<>>
         /\ (\E t \in Turns : journal[t].state # "none" /\ settled < t) => publishQueue' = Seed
         /\ completedTurnID' = Highest(InState(Over))
         /\ \A k \in Kinds : report'[k] = drainReport(asked[k], k, outstanding', publishQueue')
<1>0. settled \in Nat /\ Turns \in SUBSET Nat
  BY TypeParts, TurnCount DEF TypeInv, Lasting
<1>1. /\ UNCHANGED <<settled, unseen, stopping, loop, asked, patch>> /\ Up' /\ ~Up
      /\ nextTurnID' = Highest(Turns \ InState({"none"}))
      /\ publishQueue' = IF nextTurnID' > settled THEN Seed ELSE <<>>
      /\ completedTurnID' = Highest(InState(Over))
      /\ report' = [k \in Kinds |-> drainReport(asked[k], k, outstanding', publishQueue')]
  BY DEF RecoverServe, Seed, Up, Over, control, history
<1>2. ASSUME NEW t \in Turns, journal[t].state # "none", settled < t
      PROVE  nextTurnID' > settled
  <2>1. t \in Turns \ InState({"none"})
    BY <1>2 DEF InState
  <2>2. t <= nextTurnID' /\ nextTurnID' \in 0 .. Cardinality(Prompts)
    BY <1>1, <2>1, HighestIs
  <2> QED
    BY <1>0, <1>2, <2>2, TurnCount
<1> QED
  BY <1>1, <1>2

LEMMA SeenStep ==
  ASSUME TypeInv, TypeInv', TextInv, HeldInv, SeenInv, [Next]_vars, "diskFail" \notin Env,
         Up /\ ~Up' /\ unseen # {} => \E t \in unseen : settled < t
  PROVE  SeenInv'
<1>0. /\ unseen \in SUBSET Turns /\ unseen' \in SUBSET Turns
      /\ completedTurnID' \in Nat
  BY DEF TypeInv, TypeOK
<1>1. CASE Queueing
  <2>1. ASSUME NEW t \in unseen' PROVE journal'[t].state # "none"
    <3>1. CASE unseen' = unseen
      BY <1>0, <2>1, <3>1, NotForgotten DEF SeenInv
    <3>2. CASE ActivateTurn
      <4>1. unseen' = unseen \union {loop.turn.id} /\ journal' = journal /\ loop.at = "taken"
        BY <3>2 DEF ActivateTurn, durable
      <4>2. journal[loop.turn.id].state # "none"
        BY <4>1 DEF HeldInv, LoopLive, LiveStates
      <4> QED
        BY <2>1, <4>1, <4>2 DEF SeenInv
    <3> QED
      BY <1>1, <3>1, <3>2 DEF Queueing
  <2>2. Up' /\ unseen' # {} => \E i \in 1 .. Len(publishQueue') : publishQueue'[i].active
    <3>1. CASE unseen' = unseen
      <4>1. /\ Len(publishQueue) \in Nat /\ Len(publishQueue') \in Nat
            /\ Len(publishQueue) <= Len(publishQueue')
            /\ \A i \in 1 .. Len(publishQueue) : publishQueue'[i] = publishQueue[i]
        BY <1>0, <1>1, QueueGrows DEF Queueing
      <4>2. \A i \in 1 .. Len(publishQueue) : i \in 1 .. Len(publishQueue')
        BY <4>1
      <4> QED
        BY <1>1, <3>1, <4>1, <4>2 DEF Queueing, SeenInv
    <3>2. CASE ActivateTurn
      <4>1. Len(publishQueue') \in Nat \ {0} /\ publishQueue'[Len(publishQueue')].active = TRUE
        BY <3>2, ActiveLast
      <4>2. Len(publishQueue') \in 1 .. Len(publishQueue')
        BY <4>1
      <4> QED
        BY <4>1, <4>2
    <3> QED
      BY <1>1, <3>1, <3>2 DEF Queueing
  <2>3. ~Up' /\ unseen' # {} => \E t \in Turns : journal'[t].state # "none" /\ settled' < t
    <3>1. ~Up' => unseen' = unseen /\ ~Up /\ settled' = settled
      BY <1>1 DEF Queueing, ActivateTurn
    <3> QED
      BY <3>1, NotForgotten DEF SeenInv
  <2> QED
    BY <2>1, <2>2, <2>3 DEF SeenInv
<1>2. CASE PublishStatus
  <2>1. /\ Up /\ Up' /\ journal' = journal
        /\ unseen' = IF Head(publishQueue).active THEN {} ELSE unseen
    BY <1>2 DEF PublishStatus, Up
  <2>2. CASE Head(publishQueue).active
    BY <2>1, <2>2 DEF SeenInv
  <2>3. CASE ~Head(publishQueue).active
    <3>1. /\ Len(publishQueue) \in Nat \ {0} /\ Len(publishQueue') = Len(publishQueue) - 1
          /\ \A i \in 1 .. Len(publishQueue') : publishQueue'[i] = publishQueue[i + 1]
          /\ ~publishQueue[1].active
      BY <1>2, <2>3, QueueShrinks
    <3>2. ASSUME unseen' # {} PROVE \E i \in 1 .. Len(publishQueue') : publishQueue'[i].active
      <4>1. PICK i \in 1 .. Len(publishQueue) : publishQueue[i].active
        BY <2>1, <2>3, <3>2 DEF SeenInv
      <4>2. i - 1 \in 1 .. Len(publishQueue') /\ (i - 1) + 1 = i
        BY <3>1, <4>1
      <4> QED
        BY <3>1, <4>1, <4>2
    <3> QED
      BY <2>1, <2>3, <3>2 DEF SeenInv
  <2> QED
    BY <2>2, <2>3
<1>3. CASE RecoverServe
  <2>1. UNCHANGED <<settled, unseen>> /\ Up' /\ ~Up
    BY <1>3, Seeded
  <2>2. ASSUME unseen' # {} PROVE publishQueue' = Seed
    BY <1>3, <2>1, <2>2, Seeded DEF SeenInv
  <2>3. 1 \in 1 .. Len(Seed) /\ Seed[1].active
    BY DEF Seed
  <2> QED
    BY <1>0, <2>1, <2>2, <2>3, NotForgotten DEF SeenInv
<1>4. CASE ServeReturns \/ Crash
  <2>1. UNCHANGED <<journal, settled, unseen>> /\ ~Up'
    BY <1>4 DEF ServeReturns, Crash, Exit, durable, history, Up
  <2> QED
    BY <1>0, <2>1 DEF SeenInv
<1> QED
  BY <1>1, <1>2, <1>3, <1>4, QueueSteps

\* The report of an idle drain means that all of it has been published.
IdleDrained == \A k \in Kinds : SaysDrained(k) /\ k = "idleDrain" => unseen = {}

LEMMA IdleStep ==
  ASSUME TypeInv, HeldInv, DrainInv, SeenInv, IdleDrained, [Next]_vars, "diskFail" \notin Env
  PROVE  IdleDrained'
<1>0. asked \in [Kinds -> Nat] /\ request \in [Kinds -> Nat] /\ RequestsMinted
  BY TypeParts DEF TypeInv, Lasting, Controlled, DrainInv
<1>1. SUFFICES ASSUME NEW k \in Kinds, SaysDrained(k)', k = "idleDrain" PROVE unseen' = {}
  BY DEF IdleDrained
<1>2. CASE SaysDrained(k)
  <2>1. unseen = {}
    BY <1>1, <1>2 DEF IdleDrained
  <2>2. ~ActivateTurn
    <3>1. ASSUME ActivateTurn PROVE FALSE
      <4>1. loop.at = "taken"
        BY <3>1 DEF ActivateTurn
      <4>2. loop.turn.id \in Turns /\ journal[loop.turn.id].state \in LiveStates
        BY <4>1, LoopTurn DEF HeldInv, LoopLive, Holding
      <4> QED
        BY <1>2, <4>2 DEF DrainInv, DrainHeld
    <3> QED
      BY <3>1
  <2>3. unseen' = unseen \/ unseen' = {}
    BY <2>2, QueueSteps, Seeded DEF Queueing, PublishStatus, ServeReturns, Crash, Exit, history
  <2> QED
    BY <2>1, <2>3
<1>3. CASE ~SaysDrained(k) /\ sessionDrainReports
  <2>1. /\ UNCHANGED <<asked, request, report, unseen>> /\ Up
        /\ patch' = [l \in Kinds |-> drainReport(request[l], l, outstanding, publishQueue)]
    BY <1>3 DEF sessionDrainReports, session, history
  <2>2. patch'[k] = drainReport(request[k], k, outstanding, publishQueue)
    BY <2>1
  <2>3. patch'[k] = [id |-> asked[k], drained |-> TRUE]
    BY <1>1, <1>3, <2>1 DEF SaysDrained
  <2>4. publishQueue = <<>>
    <3>1. request[k] \in Int
      BY <1>0
    <3>2. patch'[k].drained => publishQueue = <<>>
      BY <1>1, <2>2, <3>1, ReportFields
    <3> QED
      BY <2>3, <3>2
  <2>5. Len(publishQueue) = 0
    BY <2>4
  <2> QED
    BY <2>1, <2>5 DEF SeenInv
<1>4. CASE ~SaysDrained(k) /\ RecoverServe
  <2>1. /\ UNCHANGED <<settled, unseen, asked, patch>> /\ ~Up
        /\ (\E t \in Turns : journal[t].state # "none" /\ settled < t) => publishQueue' = Seed
        /\ report'[k] = drainReport(asked[k], k, outstanding', publishQueue')
    BY <1>4, Seeded
  <2>2. report'[k] = [id |-> asked[k], drained |-> TRUE]
    BY <1>1, <1>4, <2>1 DEF SaysDrained
  <2>3. publishQueue' = <<>>
    <3>1. asked[k] \in Int
      BY <1>0
    <3>2. report'[k].drained => publishQueue' = <<>>
      BY <1>1, <2>1, <3>1, ReportFields
    <3> QED
      BY <2>2, <3>2
  <2>4. publishQueue' # Seed
    <3>1. Len(Seed) = 1 /\ Len(<<>>) = 0
      BY DEF Seed
    <3> QED
      BY <2>3, <3>1
  <2> QED
    BY <2>1, <2>4 DEF SeenInv
<1> QED
  BY <1>0, <1>1, <1>2, <1>3, <1>4, SaidBefore

QuietInv == SeenInv /\ IdleDrained

LEMMA QuietInit == Init => QuietInv
BY DEF Init, Memory, QuietInv, SeenInv, IdleDrained, SaysDrained, NoRequest

LEMMA QuietMeans == DrainInv /\ QuietInv => DrainedIsQuiet
BY DEF DrainInv, DrainHeld, QuietInv, IdleDrained, DrainedIsQuiet, SaysDrained, InState, LiveStates

\* A process that nothing stops does not come back with turns unseen.
NeverStopped == ~stopping /\ (~Up => unseen = {})

LEMMA NeverStoppedStep ==
  ASSUME TypeInv, HeldInv, NeverStopped, [Next]_vars,
         "diskFail" \notin Env, "crash" \notin Env, "timeout" \notin Env
  PROVE  NeverStopped' /\ (Up => Up')
<1>1. ~stopping'
  BY DEF Next, NeverStopped, vars, control, ClientStep, submitParsedMessage, AppendToPending, SubmitTurn,
     editMessage, OpenDraft, removePendingMessage, RemovalRefused, DraftRefused,
     LoopSteps, ReceiveTurn, takePendingTurn, ReturnTurn, ActivateTurn, StartTurn,
     RunTurn, CompleteTurn, DeactivateTurn, PublishIdle, finishTurn, NextTurn,
     InterruptStep, AskInterrupt, InterruptSettles, LockInterrupt, ProviderInterrupt, InterruptDone,
     stopInterruptedTurn, PublishStatus, PeriodicPublish, sessionDrainReports, reportSessionUpdate,
     observeSessionUpdate, ControllerStep, AskDrain, WithdrawDrain, RecoveryStep, RecoverStarted,
     RecoverMerge, RecoverServe, Serve, ServeReturns, Crash, Exit
<1>2. ~Up' => ~Up /\ unseen' = unseen
  <2>1. CASE Queueing
    BY <2>1 DEF Queueing, ActivateTurn
  <2>2. CASE PublishStatus
    BY <2>2 DEF PublishStatus, Up
  <2>3. CASE RecoverServe
    BY <2>3, Seeded
  <2>4. CASE ServeReturns \/ Crash
    <3>1. proc = "recovering" /\ Exit
      BY <2>4 DEF ServeReturns, Crash, HeldInv, NeverStopped
    <3> QED
      BY <3>1 DEF Exit, Up, history
  <2> QED
    BY <2>1, <2>2, <2>3, <2>4, QueueSteps
<1> QED
  BY <1>1, <1>2 DEF NeverStopped

LEMMA QuietStep ==
  ASSUME TypeInv, TypeInv', TextInv, HeldInv, DrainInv, QuietInv, [Next]_vars, "diskFail" \notin Env,
         Up /\ ~Up' /\ unseen # {} => \E t \in unseen : settled < t
  PROVE  QuietInv'
BY SeenStep, IdleStep DEF QuietInv

-----------------------------------------------------------------------------
(* Drains of a process that is stopped                                     *)

\* A turn that has a record and is not left is over.
Ended(t) == journal[t].state \in Over
NoDraft == draft = NoTurn

\* Without edits, turns end in the order of their IDs,
InOrder ==
  \A t, u \in Turns :
    t < u /\ journal[t].state # "none" =>
      /\ Ended(u) => Ended(t)
      /\ journal[u].state = "started" => journal[t].state # "unstarted"

LoopRecorded == loop.at \in Holding => journal[loop.turn.id].state # "none"

\* so that the marks of completed turns stay behind those that are not over,
Marks == {0} \union InState(Over)
MarksBehind ==
  /\ settled \in Marks /\ completedTurnID \in Marks
  /\ Up => settled <= completedTurnID
  /\ \A i \in 1 .. Len(publishQueue) :
       publishQueue[i].settledTurnID \in Marks /\ publishQueue[i].settledTurnID <= completedTurnID
  /\ loop.at \in {"taken", "active"} => completedTurnID < loop.turn.id

\* also behind one of those that were not published;
AheadIn(t, queue) ==
  \E i \in 1 .. Len(queue) :
    queue[i].active /\ \A j \in 1 .. (i - 1) : queue[j].settledTurnID < t
UnseenAhead == unseen # {} => \E t \in unseen : settled < t /\ (Up => AheadIn(t, publishQueue))

\* and a process that is stopped on purpose leaves one unstarted turn.
OneLeft ==
  /\ ~Up \/ stopping => \A t, u \in Unstarted : t = u
  /\ stopping => loop.at # "taken" /\ (loop.at = "active" => loop.turn.id \notin Unstarted)
  /\ \A c \in Clients : Interrupting(c) => interrupt[c].turn \notin Unstarted
  /\ merged = NoTurn

OrderInv == NoDraft /\ InOrder /\ LoopRecorded /\ MarksBehind /\ UnseenAhead /\ OneLeft

LEMMA MarksAreIDs == \A m : m \in Marks \/ m \in Marks' => m \in Nat
BY DEF Marks, InState, Turns

LEMMA NoDraftStep ==
  ASSUME NoDraft, [Next]_vars, "edit" \notin Env
  PROVE  NoDraft' /\ ~removePendingMessage
<1>1. ~removePendingMessage /\ \A p, shell : ~editMessage(p, shell)
  BY DEF NoDraft, removePendingMessage, editMessage, DraftCurrent
<1>2. draft' = draft
  BY <1>1 DEF Next, vars, ClientStep, submitParsedMessage, AppendToPending, SubmitTurn,
     OpenDraft, RemovalRefused, DraftRefused,
     LoopSteps, ReceiveTurn, takePendingTurn, ReturnTurn, ActivateTurn, StartTurn,
     RunTurn, CompleteTurn, DeactivateTurn, PublishIdle, finishTurn, NextTurn,
     InterruptStep, AskInterrupt, InterruptSettles, LockInterrupt, ProviderInterrupt, InterruptDone,
     stopInterruptedTurn, PublishStatus, PeriodicPublish, sessionDrainReports, reportSessionUpdate,
     observeSessionUpdate, ControllerStep, AskDrain, WithdrawDrain, RecoveryStep, RecoverStarted,
     RecoverMerge, RecoverServe, Serve, ServeReturns, Crash, Exit
<1> QED
  BY <1>1, <1>2 DEF NoDraft

\* A turn that is over stays so.
LEMMA EndedStays ==
  ASSUME TypeInv, TextInv, HeldInv, [Next]_vars, "diskFail" \notin Env
  PROVE  /\ \A t \in Turns : Ended(t) => Ended(t)'
         /\ Marks \in SUBSET Marks'
<1>1. \A t \in Turns : Ended(t) => Ended(t)'
  BY StateSteps DEF Advances, Adds, Ended, Over, LiveStates
<1> QED
  BY <1>1 DEF Marks, InState, Ended

\* A turn that moves is the first of those that are left.
LEMMA FirstLeft ==
  ASSUME TypeInv, HeldInv, OrderInv, NEW t \in Turns, LoopMoves(t) \/ RecoveryMoves(t),
         NEW s \in Turns, s < t, journal[s].state # "none"
  PROVE  Ended(s)
<1>0. Lasting /\ Queued /\ s \in Nat /\ t \in Nat /\ ~(s = t)
  BY TypeParts, TurnCount DEF TypeInv
<1>1. journal[s].state \notin LiveStates => Ended(s)
  BY <1>0 DEF Lasting, Records, Verdicts, Ended, Over, LiveStates
<1>2. CASE LoopMoves(t)
  <2>1. Up /\ t = loop.turn.id /\ loop.at \in Holding
    BY <1>2 DEF LoopMoves, Holding
  <2>2. pendingTurn = NoTurn => pendingTurn.id \notin Turns
    BY Nothing, TurnCount DEF Turns
  <2>3. s # pendingTurn.id
    BY <1>0, <2>1, <2>2 DEF HeldInv, PendingLive
  <2> QED
    BY <1>0, <1>1, <2>1, <2>3 DEF HeldInv, TurnsHeld
<1>3. CASE RecoverStarted /\ t \in InState({"started"}) /\ \A u \in InState({"started"}) : t <= u
  <2>1. journal[s].state # "started"
    BY <1>0, <1>3 DEF InState
  <2>2. journal[s].state # "unstarted"
    BY <1>3 DEF OrderInv, InOrder, InState
  <2> QED
    BY <1>1, <2>1, <2>2 DEF LiveStates
<1>4. CASE RecoverMerge
  <2>1. ~Up /\ Cardinality(Unstarted) > 1
    BY <1>4 DEF RecoverMerge, Up
  <2>2. First(Unstarted) \in Unstarted /\ First(Unstarted \ {First(Unstarted)}) \in Unstarted \ {First(Unstarted)}
    BY <2>1, TwoUnstarted, InStateIs, FirstIs
  <2> QED
    BY <2>1, <2>2 DEF OrderInv, OneLeft
<1> QED
  BY <1>2, <1>3, <1>4 DEF RecoveryMoves

\* Turns keep ending in order.
LEMMA InOrderStep ==
  ASSUME TypeInv, TextInv, HeldInv, OrderInv, [Next]_vars, "diskFail" \notin Env, "edit" \notin Env
  PROVE  InOrder'
<1>0. /\ Lasting /\ Known /\ Turns \in SUBSET Nat /\ nextTurnID \in Nat /\ InOrder
      /\ \A a \in Nat : ~(a + 1 <= a)
  BY TypeParts, TurnCount DEF TypeInv, Queued, OrderInv
<1>1. CASE SameStates
  BY <1>0, <1>1 DEF SameStates, InOrder, Ended
<1>2. CASE Adds
  <2> DEFINE n == nextTurnID + 1
  <2>1. /\ n \in Turns /\ journal[n].state = "none" /\ Up
        /\ \A t \in Turns : journal'[t].state = IF t = n THEN "unstarted" ELSE journal[t].state
    BY <1>2 DEF Adds, Accepting, Up
  <2>2. ASSUME NEW u \in Turns, n < u PROVE journal[u].state = "none"
    <3>1. ~(u <= nextTurnID)
      BY <1>0, <2>2
    <3> QED
      BY <1>0, <2>1, <3>1 DEF Known
  <2> HIDE DEF n
  <2>3. SUFFICES ASSUME NEW t \in Turns, NEW u \in Turns, t < u, journal'[t].state # "none"
                 PROVE  /\ Ended(u)' => Ended(t)'
                        /\ journal'[u].state = "started" => journal'[t].state # "unstarted"
    BY DEF InOrder
  <2>4. CASE t = n
    BY <2>1, <2>2, <2>3, <2>4 DEF Ended, Over
  <2>5. CASE t # n
    BY <1>0, <2>1, <2>3, <2>5 DEF Ended, Over, InOrder
  <2> QED
    BY <2>4, <2>5
<1>3. CASE \E t \in Turns : Moves(t) /\ (LoopMoves(t) \/ RecoveryMoves(t))
  <2>1. PICK x \in Turns : Moves(x) /\ (LoopMoves(x) \/ RecoveryMoves(x))
    BY <1>3
  <2>2. \A s \in Turns : s < x /\ journal[s].state # "none" => Ended(s)
    BY <2>1, FirstLeft
  <2>3. \A s \in Turns : s # x => journal'[s].state = journal[s].state
    BY <2>1 DEF Moves
  <2>4. /\ journal'[x].state \in Over \/ (journal[x].state \in LiveStates /\ journal'[x].state = "started")
        /\ journal'[x].state # "unstarted" /\ ~(x < x)
    BY <1>0, <2>1 DEF Moves, Over
  <2>5. SUFFICES ASSUME NEW t \in Turns, NEW u \in Turns, t < u, journal'[t].state # "none"
                 PROVE  /\ Ended(u)' => Ended(t)'
                        /\ journal'[u].state = "started" => journal'[t].state # "unstarted"
    BY DEF InOrder
  <2>6. t # u
    BY <1>0, <2>5
  <2>7. CASE u = x
    <3>1. Ended(t) /\ journal'[t].state = journal[t].state
      BY <2>2, <2>3, <2>5, <2>6, <2>7
    <3> QED
      BY <3>1 DEF Ended, Over
  <2>8. CASE t = x
    <3>1. journal[x].state # "none" => (Ended(u) => Ended(x))
      BY <1>0, <2>5, <2>8 DEF InOrder
    <3>2. journal'[u].state = journal[u].state
      BY <2>3, <2>6, <2>8
    <3> QED
      BY <2>4, <2>8, <3>1, <3>2 DEF Ended, Over, LiveStates
  <2>9. CASE t # x /\ u # x
    BY <1>0, <2>3, <2>5, <2>9 DEF InOrder, Ended
  <2> QED
    BY <2>7, <2>8, <2>9
<1> QED
  BY <1>1, <1>2, <1>3, StateMoves, NoDraftStep DEF OrderInv

\* A turn the loop has was recorded.
LEMMA LoopRecordedStep ==
  ASSUME TypeInv, TextInv, HeldInv, LoopRecorded, [Next]_vars, "diskFail" \notin Env
  PROVE  LoopRecorded'
<1>1. CASE loop'.at \in Holding => loop.at \in Holding /\ loop'.turn = loop.turn
  BY <1>1, LoopTurn, NotForgotten DEF LoopRecorded
<1>2. CASE takePendingTurn
  <2>1. loop'.at \in Holding => loop'.turn = pendingTurn /\ pendingTurn # NoTurn /\ journal' = journal
    <3>1. loop.turn.id # 0
      BY <1>2, TypeParts DEF takePendingTurn, TypeInv, Given
    <3> QED
      BY <1>2, <3>1, Nothing, TypeParts DEF takePendingTurn, durable, Holding, TypeInv, Queued
  <2> QED
    BY <2>1 DEF LoopRecorded, HeldInv, PendingLive
<1>3. CASE LoopSteps /\ ~takePendingTurn
  <2>1. Queued
    BY TypeParts DEF TypeInv
  <2>2. loop'.at \in Holding => loop.at \in Holding /\ loop'.turn = loop.turn
    BY <1>3, <2>1, Nothing DEF LoopSteps, ReceiveTurn, ReturnTurn, ActivateTurn, StartTurn, RunTurn, CompleteTurn,
       DeactivateTurn, PublishIdle, finishTurn, NextTurn, LoopStep, Queued, Holding
  <2> QED
    BY <1>1, <2>2
<1>4. CASE InterruptStep
  <2>1. Queued
    BY TypeParts DEF TypeInv
  <2>2. loop'.at = loop.at /\ loop'.turn = loop.turn
    BY <1>4, <2>1 DEF InterruptStep, AskInterrupt, InterruptSettles, LockInterrupt, ProviderInterrupt,
       InterruptDone, stopInterruptedTurn, Queued
  <2> QED
    BY <1>1, <2>2
<1>5. CASE ServeReturns \/ Crash
  BY <1>1, <1>5, Nothing DEF ServeReturns, Crash, Exit, Holding
<1>6. CASE \/ ClientStep \/ ControllerStep \/ PublishStatus \/ PeriodicPublish \/ observeSessionUpdate
           \/ sessionDrainReports \/ reportSessionUpdate \/ RecoveryStep \/ UNCHANGED vars
  <2>1. loop' = loop
    BY <1>6 DEF vars, ClientStep, submitParsedMessage, AppendToPending, SubmitTurn, editMessage, OpenDraft,
       removePendingMessage, RemovalRefused, DraftRefused, ControllerStep, AskDrain, WithdrawDrain,
       PublishStatus, PeriodicPublish, observeSessionUpdate, sessionDrainReports, reportSessionUpdate,
       RecoveryStep, RecoverStarted, RecoverMerge, RecoverServe, Serve
  <2> QED
    BY <1>1, <2>1
<1> QED
  BY <1>2, <1>3, <1>4, <1>5, <1>6 DEF Next

\* The turns of the loop that are about to run are ahead of the mark.
LoopAhead == loop.at \in {"taken", "active"} => completedTurnID < loop.turn.id

LEMMA LoopAheadStep ==
  ASSUME TypeInv, TypeInv', TextInv, HeldInv, OrderInv, [Next]_vars, "diskFail" \notin Env, "edit" \notin Env
  PROVE  LoopAhead'
<1>0. /\ Queued /\ Blank /\ Turns \in SUBSET Nat /\ ~removePendingMessage /\ MarksBehind
      /\ completedTurnID \in Nat
  BY TypeParts, TurnCount, NoDraftStep DEF TypeInv, Queued, OrderInv
<1>1. CASE takePendingTurn
  <2>1. loop.turn.id # 0 /\ completedTurnID' = completedTurnID
    BY <1>1, TypeParts DEF takePendingTurn, TypeInv, Given, publishing
  <2>2. loop'.at = "taken" => loop'.turn = pendingTurn /\ pendingTurn # NoTurn
    BY <1>0, <1>1, <2>1, Nothing DEF takePendingTurn, Queued
  <2>3. loop'.at # "active"
    BY <1>0, <1>1, Nothing DEF takePendingTurn, Queued
  <2>4. pendingTurn # NoTurn => completedTurnID < pendingTurn.id
    <3>1. ASSUME pendingTurn # NoTurn, pendingTurn.id <= completedTurnID PROVE FALSE
      <4>1. pendingTurn.id \in Turns /\ journal[pendingTurn.id].state = "unstarted"
        BY <3>1 DEF HeldInv, PendingLive
      <4>2. completedTurnID \in Turns /\ Ended(completedTurnID)
        <5>1. completedTurnID # 0
          BY <1>0, <3>1, <4>1 DEF Turns
        <5> QED
          BY <1>0, <5>1 DEF MarksBehind, Marks, InState, Ended
      <4>3. pendingTurn.id # completedTurnID
        BY <4>1, <4>2 DEF Ended, Over
      <4>4. pendingTurn.id < completedTurnID
        <5>1. pendingTurn.id \in Nat
          BY <1>0, <4>1
        <5> QED
          BY <1>0, <3>1, <4>3, <5>1
      <4> QED
        BY <4>1, <4>2, <4>4 DEF OrderInv, InOrder, Ended, Over
    <3>2. pendingTurn # NoTurn => pendingTurn.id \in Nat
      BY <1>0 DEF HeldInv, PendingLive
    <3> QED
      BY <1>0, <3>1, <3>2
  <2> QED
    BY <2>1, <2>2, <2>3, <2>4 DEF LoopAhead
<1>2. CASE loop'.at \notin {"taken", "active"}
  BY <1>2 DEF LoopAhead
<1>3. CASE loop.at \in {"taken", "active"} /\ loop'.turn = loop.turn /\ completedTurnID' = completedTurnID
  BY <1>0, <1>3 DEF LoopAhead, MarksBehind
<1>4. CASE LoopSteps /\ ~takePendingTurn
  BY <1>0, <1>2, <1>3, <1>4, Nothing DEF LoopSteps, ReceiveTurn, ReturnTurn, ActivateTurn, StartTurn, RunTurn,
     CompleteTurn, DeactivateTurn, PublishIdle, finishTurn, NextTurn, LoopStep, Queued, publishing
<1>5. CASE InterruptStep
  <2>1. loop'.at = loop.at /\ loop'.turn = loop.turn /\ completedTurnID' = completedTurnID
    BY <1>0, <1>5 DEF InterruptStep, AskInterrupt, InterruptSettles, LockInterrupt, ProviderInterrupt,
       InterruptDone, stopInterruptedTurn, Queued, publishing
  <2> QED
    BY <1>2, <1>3, <2>1
<1>6. CASE ServeReturns \/ Crash
  BY <1>2, <1>6, Nothing DEF ServeReturns, Crash, Exit
<1>7. CASE RecoveryStep
  <2>1. CASE ~Up
    <3>1. loop' = Idle
      BY <1>0, <1>7, <2>1 DEF RecoveryStep, RecoverStarted, RecoverMerge, RecoverServe, Serve, Blank
    <3> QED
      BY <1>2, <3>1, Nothing
  <2>2. CASE Up
    <3>1. loop' = loop /\ completedTurnID' = completedTurnID
      BY <1>7, <2>2 DEF RecoveryStep, RecoverStarted, RecoverMerge, RecoverServe, Serve, Up
    <3> QED
      BY <1>2, <1>3, <3>1
  <2> QED
    BY <2>1, <2>2
<1>8. CASE \/ ClientStep \/ ControllerStep \/ PublishStatus \/ PeriodicPublish \/ observeSessionUpdate
           \/ sessionDrainReports \/ reportSessionUpdate \/ UNCHANGED vars
  <2>1. loop' = loop /\ completedTurnID' = completedTurnID
    BY <1>0, <1>8 DEF vars, ClientStep, submitParsedMessage, AppendToPending, SubmitTurn, editMessage, OpenDraft,
       RemovalRefused, DraftRefused, ControllerStep, AskDrain, WithdrawDrain, publishing,
       PublishStatus, PeriodicPublish, observeSessionUpdate, sessionDrainReports, reportSessionUpdate
  <2> QED
    BY <1>2, <1>3, <2>1
<1> QED
  BY <1>1, <1>4, <1>5, <1>6, <1>7, <1>8 DEF Next

\* A turn that has run is over when the loop marks it.
LEMMA InactiveEnded ==
  ASSUME TypeInv, HeldInv, LoopRecorded, Up, loop.at = "inactive"
  PROVE  loop.turn.id \in Turns /\ Ended(loop.turn.id)
<1>1. loop.at \in Holding
  BY DEF Holding
<1>2. /\ loop.turn.id \in Turns /\ loop.turn.id # pendingTurn.id
      /\ journal[loop.turn.id].state # "none" /\ Lasting
  BY <1>1, LoopTurn, PendingOther, TypeParts DEF LoopRecorded, TypeInv
<1>3. journal[loop.turn.id].state \notin LiveStates
  BY <1>2 DEF HeldInv, TurnsHeld
<1> QED
  BY <1>2, <1>3 DEF Lasting, Records, Verdicts, Ended, Over, LiveStates

\* The marks keep behind.
LEMMA MarksStep ==
  ASSUME TypeInv, TypeInv', TextInv, HeldInv, OrderInv, [Next]_vars, "diskFail" \notin Env, "edit" \notin Env
  PROVE  MarksBehind'
<1>0. /\ Queued /\ Lasting /\ Blank /\ Turns \in SUBSET Nat /\ MarksBehind
      /\ completedTurnID \in Nat /\ completedTurnID' \in Nat /\ settled \in Nat /\ ~removePendingMessage
  BY TypeParts, TurnCount, NoDraftStep DEF TypeInv, TypeOK, Queued, Lasting, OrderInv
<1>1. LoopAhead'
  BY LoopAheadStep
<1>2. Marks \in SUBSET Marks'
  BY EndedStays
<1>3. CASE Queueing
  <2>1. completedTurnID <= completedTurnID' /\ completedTurnID' \in Marks'
    <3>1. CASE completedTurnID' = completedTurnID
      BY <1>0, <1>2, <3>1 DEF MarksBehind
    <3>2. CASE PublishIdle
      <4>1. /\ Up /\ loop.at = "inactive" /\ completedTurnID' = markTurnCompleted(loop.turn.id)
        BY <3>2 DEF PublishIdle
      <4>2. loop.turn.id \in Turns /\ Ended(loop.turn.id)
        BY <4>1, InactiveEnded DEF OrderInv
      <4>3. loop.turn.id \in Nat
        BY <1>0, <4>2
      <4>4. loop.turn.id \in Marks'
        BY <1>2, <4>2 DEF Marks, InState, Ended
      <4> QED
        BY <1>0, <1>2, <4>1, <4>3, <4>4 DEF MarksBehind, markTurnCompleted
    <3> QED
      BY <1>0, <1>3, <3>1, <3>2 DEF Queueing
  <2>2. settled' \in Marks' /\ (Up' => settled' <= completedTurnID')
    BY <1>0, <1>2, <1>3, <2>1 DEF Queueing, MarksBehind
  <2>3. /\ Len(publishQueue) \in Nat
        /\ \A i \in 1 .. Len(publishQueue) : publishQueue'[i] = publishQueue[i]
        /\ \A i \in 1 .. Len(publishQueue') :
             i \in 1 .. Len(publishQueue) \/ publishQueue'[i].settledTurnID = completedTurnID'
    BY <1>0, <1>3, QueueGrows DEF Queueing
  <2>4. ASSUME NEW i \in 1 .. Len(publishQueue')
        PROVE  /\ publishQueue'[i].settledTurnID \in Marks'
               /\ publishQueue'[i].settledTurnID <= completedTurnID'
    <3>1. CASE i \in 1 .. Len(publishQueue)
      <4>1. /\ publishQueue[i].settledTurnID \in Marks
            /\ publishQueue[i].settledTurnID <= completedTurnID
        BY <1>0, <3>1 DEF MarksBehind
      <4>2. publishQueue[i].settledTurnID \in Nat
        BY <4>1, MarksAreIDs
      <4> QED
        BY <1>0, <1>2, <2>1, <2>3, <3>1, <4>1, <4>2
    <3>2. CASE publishQueue'[i].settledTurnID = completedTurnID'
      BY <1>0, <2>1, <3>2
    <3> QED
      BY <2>3, <3>1, <3>2
  <2> QED
    BY <1>1, <2>1, <2>2, <2>4 DEF MarksBehind, LoopAhead
<1>4. CASE PublishStatus
  <2>1. /\ Up /\ completedTurnID' = completedTurnID
        /\ \/ settled' = settled
           \/ /\ ~Head(publishQueue).active /\ Head(publishQueue).settledTurnID > settled
              /\ settled' = Head(publishQueue).settledTurnID
    BY <1>4 DEF PublishStatus, recordSettledActivity, Up
  <2>2. /\ Len(publishQueue) \in Nat \ {0} /\ Len(publishQueue') = Len(publishQueue) - 1
        /\ \A i \in 1 .. Len(publishQueue') : publishQueue'[i] = publishQueue[i + 1]
        /\ Head(publishQueue) = publishQueue[1] /\ Head(publishQueue) \in Publications
    BY <1>4, QueueShrinks
  <2>3. 1 \in 1 .. Len(publishQueue)
    BY <2>2
  <2>4. settled' \in Marks' /\ settled' <= completedTurnID'
    <3>1. settled \in Marks /\ settled <= completedTurnID
      BY <1>0, <2>1 DEF MarksBehind
    <3>2. /\ Head(publishQueue).settledTurnID \in Marks
          /\ Head(publishQueue).settledTurnID <= completedTurnID
      BY <1>0, <2>2, <2>3 DEF MarksBehind
    <3> QED
      BY <1>2, <2>1, <3>1, <3>2
  <2>5. ASSUME NEW i \in 1 .. Len(publishQueue')
        PROVE  /\ publishQueue'[i].settledTurnID \in Marks'
               /\ publishQueue'[i].settledTurnID <= completedTurnID'
    <3>1. i + 1 \in 1 .. Len(publishQueue)
      BY <2>2
    <3> QED
      BY <1>0, <1>2, <2>1, <2>2, <3>1 DEF MarksBehind
  <2>6. completedTurnID' \in Marks'
    BY <1>0, <1>2, <2>1 DEF MarksBehind
  <2> QED
    BY <1>1, <2>4, <2>5, <2>6 DEF MarksBehind, LoopAhead
<1>5. CASE RecoverServe
  <2>1. /\ settled' = settled /\ Up' /\ ~Up
        /\ publishQueue' = Seed \/ publishQueue' = <<>>
        /\ completedTurnID' = Highest(InState(Over))
    BY <1>5, Seeded
  <2>2. /\ \A u \in InState(Over) : u <= completedTurnID'
        /\ completedTurnID' # 0 => completedTurnID' \in InState(Over)
    BY <2>1, HighestIs, InStateIs
  <2>3. completedTurnID' \in Marks /\ settled \in Marks
    BY <1>0, <2>2 DEF MarksBehind, Marks, Ended, InState
  <2>4. settled' <= completedTurnID'
    BY <1>0, <2>1, <2>2, <2>3 DEF Marks, Ended, InState
  <2>5. ASSUME NEW i \in 1 .. Len(publishQueue') PROVE publishQueue'[i].settledTurnID = 0
    <3>1. CASE publishQueue' = Seed
      <4>1. Len(Seed) = 1 /\ Seed[1].settledTurnID = 0
        BY DEF Seed
      <4> QED
        BY <2>5, <3>1, <4>1
    <3>2. CASE publishQueue' = <<>>
      BY <2>5, <3>2
    <3> QED
      BY <2>1, <3>1, <3>2
  <2> QED
    BY <1>0, <1>1, <1>2, <2>1, <2>3, <2>4, <2>5 DEF MarksBehind, LoopAhead, Marks
<1>6. CASE ServeReturns \/ Crash
  <2>1. settled' = settled /\ completedTurnID' = 0 /\ publishQueue' = <<>> /\ ~Up'
    BY <1>6 DEF ServeReturns, Crash, Exit, durable, Up
  <2> QED
    BY <1>0, <1>1, <1>2, <2>1 DEF MarksBehind, LoopAhead, Marks
<1> QED
  BY <1>3, <1>4, <1>5, <1>6, QueueSteps

\* One of the turns that were not published stays ahead of the marks.
LEMMA UnseenStep ==
  ASSUME TypeInv, TypeInv', TextInv, HeldInv, SeenInv, OrderInv, [Next]_vars,
         "diskFail" \notin Env, "edit" \notin Env
  PROVE  UnseenAhead'
<1>0. /\ Turns \in SUBSET Nat /\ MarksBehind /\ UnseenAhead /\ unseen \in SUBSET Turns
      /\ completedTurnID \in Nat /\ completedTurnID' \in Nat /\ settled \in Nat
  BY TypeParts, TurnCount DEF TypeInv, TypeOK, OrderInv
<1>1. CASE Queueing /\ unseen' = unseen
  <2>1. settled' = settled /\ (Up' <=> Up)
    BY <1>1 DEF Queueing
  <2>2. /\ Len(publishQueue) \in Nat /\ Len(publishQueue') \in Nat
        /\ Len(publishQueue) <= Len(publishQueue')
        /\ \A i \in 1 .. Len(publishQueue) : publishQueue'[i] = publishQueue[i]
    BY <1>0, <1>1, QueueGrows DEF Queueing
  <2>3. ASSUME NEW t, AheadIn(t, publishQueue) PROVE AheadIn(t, publishQueue')
    <3>1. PICK i \in 1 .. Len(publishQueue) :
            publishQueue[i].active /\ \A j \in 1 .. (i - 1) : publishQueue[j].settledTurnID < t
      BY <2>3 DEF AheadIn
    <3>2. i \in 1 .. Len(publishQueue') /\ \A j \in 1 .. (i - 1) : j \in 1 .. Len(publishQueue)
      BY <2>2
    <3> QED
      BY <2>2, <3>1, <3>2 DEF AheadIn
  <2> QED
    BY <1>0, <1>1, <2>1, <2>3 DEF UnseenAhead
<1>2. CASE Queueing /\ ActivateTurn
  <2> DEFINE t == loop.turn.id
             n == Len(publishQueue')
  <2>1. /\ t \in unseen' /\ Up /\ settled' = settled /\ completedTurnID' = completedTurnID
        /\ loop.at = "taken"
    BY <1>2 DEF ActivateTurn, Queueing
  <2>2. t \in Nat /\ completedTurnID < t /\ settled < t
    <3>1. t \in Turns
      BY <2>1, LoopTurn DEF Holding
    <3>2. t \in Nat
      BY <1>0, <3>1
    <3> HIDE DEF t
    <3>3. completedTurnID < t /\ settled <= completedTurnID
      BY <1>0, <2>1 DEF MarksBehind, t
    <3> QED
      BY <1>0, <3>2, <3>3
  <2>3. n \in Nat \ {0} /\ publishQueue'[n].active = TRUE
    BY <1>2, ActiveLast
  <2>4. MarksBehind'
    BY MarksStep
  <2>5. \A j \in 1 .. n : publishQueue'[j].settledTurnID <= completedTurnID /\ publishQueue'[j].settledTurnID \in Nat
    BY <2>1, <2>4, MarksAreIDs DEF MarksBehind
  <2>6. \A j \in 1 .. (n - 1) : j \in 1 .. n
    BY <2>3
  <2> HIDE DEF t
  <2>7. \A j \in 1 .. (n - 1) : publishQueue'[j].settledTurnID < t
    BY <1>0, <2>2, <2>5, <2>6
  <2>8. n \in 1 .. n
    BY <2>3
  <2>9. AheadIn(t, publishQueue')
    BY <2>3, <2>7, <2>8 DEF AheadIn
  <2> QED
    BY <2>1, <2>2, <2>9 DEF UnseenAhead
<1>3. CASE PublishStatus
  <2>1. /\ Up /\ Up'
        /\ \/ settled' = settled
           \/ /\ ~Head(publishQueue).active /\ Head(publishQueue).settledTurnID > settled
              /\ settled' = Head(publishQueue).settledTurnID
        /\ unseen' = IF Head(publishQueue).active THEN {} ELSE unseen
    BY <1>3 DEF PublishStatus, recordSettledActivity, Up
  <2>2. CASE Head(publishQueue).active
    BY <2>1, <2>2 DEF UnseenAhead
  <2>3. CASE ~Head(publishQueue).active /\ unseen # {}
    <3>1. /\ Len(publishQueue) \in Nat \ {0} /\ Len(publishQueue') = Len(publishQueue) - 1
          /\ \A i \in 1 .. Len(publishQueue') : publishQueue'[i] = publishQueue[i + 1]
          /\ Head(publishQueue) = publishQueue[1]
      BY <1>3, QueueShrinks
    <3>2. PICK t \in unseen : settled < t /\ AheadIn(t, publishQueue)
      BY <1>0, <2>1, <2>3 DEF UnseenAhead
    <3>3. PICK i \in 1 .. Len(publishQueue) :
            publishQueue[i].active /\ \A j \in 1 .. (i - 1) : publishQueue[j].settledTurnID < t
      BY <3>2 DEF AheadIn
    <3>4. i # 1
      BY <2>3, <3>1, <3>3
    <3>5. /\ i - 1 \in 1 .. Len(publishQueue') /\ (i - 1) + 1 = i /\ 1 \in 1 .. (i - 1)
          /\ \A j \in 1 .. ((i - 1) - 1) : j + 1 \in 1 .. (i - 1) /\ j \in 1 .. Len(publishQueue')
      BY <3>1, <3>3, <3>4
    <3>6. settled' < t
      BY <2>1, <3>1, <3>2, <3>3, <3>5
    <3>7. publishQueue'[i - 1].active
      BY <3>1, <3>3, <3>5
    <3>8. \A j \in 1 .. ((i - 1) - 1) : publishQueue'[j].settledTurnID < t
      BY <3>1, <3>3, <3>5
    <3>9. AheadIn(t, publishQueue')
      BY <3>5, <3>7, <3>8 DEF AheadIn
    <3> QED
      BY <2>1, <2>3, <3>2, <3>6, <3>9 DEF UnseenAhead
  <2> QED
    BY <2>1, <2>2, <2>3 DEF UnseenAhead
<1>4. CASE RecoverServe
  <2>1. UNCHANGED <<settled, unseen>> /\ Up' /\ ~Up
    BY <1>4, Seeded
  <2>2. ASSUME unseen # {} PROVE \E t \in unseen : settled < t /\ AheadIn(t, publishQueue')
    <3>1. PICK t \in unseen : settled < t
      BY <1>0, <2>2 DEF UnseenAhead
    <3>2. t \in Turns /\ journal[t].state # "none"
      BY <1>0 DEF SeenInv
    <3>3. publishQueue' = Seed
      BY <1>4, <3>1, <3>2, Seeded
    <3>4. Len(Seed) = 1 /\ Seed[1].active
      BY DEF Seed
    <3>5. AheadIn(t, Seed)
      BY <3>4 DEF AheadIn
    <3> QED
      BY <3>1, <3>3, <3>5
  <2> QED
    BY <2>1, <2>2 DEF UnseenAhead
<1>5. CASE ServeReturns \/ Crash
  <2>1. UNCHANGED <<settled, unseen>> /\ ~Up'
    BY <1>5 DEF ServeReturns, Crash, Exit, durable, history, Up
  <2> QED
    BY <1>0, <2>1 DEF UnseenAhead
<1> QED
  BY <1>1, <1>2, <1>3, <1>4, <1>5, QueueSteps DEF Queueing

\* An interruption that is under way has a turn that has started.
InterruptedStarted == \A c \in Clients : Interrupting(c) => interrupt[c].turn \notin Unstarted

\* Which turns are unstarted after a step.
LEMMA UnstartedStep ==
  ASSUME TypeInv, TextInv, HeldInv, [Next]_vars, "diskFail" \notin Env
  PROVE  Unstarted' \in SUBSET Unstarted \/ (Adds /\ \A t \in Unstarted' : t = nextTurnID + 1 \/ t \in Unstarted)
<1>1. CASE \A t \in Turns : Advances(t)
  BY <1>1 DEF Advances, Unstarted, InState, Over, LiveStates
<1>2. CASE Adds
  BY <1>2 DEF Adds, Unstarted, InState
<1> QED
  BY <1>1, <1>2, StateSteps

LEMMA InterruptedStep ==
  ASSUME TypeInv, TextInv, HeldInv, LoopRecorded, Targeted, InterruptedStarted, [Next]_vars, "diskFail" \notin Env
  PROVE  InterruptedStarted'
<1>0. Controlled /\ Lasting /\ ~AppendFails /\ ~failed
  BY TypeParts DEF TypeInv, HeldInv, AppendFails
<1>1. CASE UNCHANGED interrupt
  <2>1. SUFFICES ASSUME NEW c \in Clients, Interrupting(c) PROVE interrupt[c].turn \notin Unstarted'
    BY <1>1 DEF InterruptedStarted, Interrupting
  <2>2. interrupt[c].turn \notin Unstarted
    BY <2>1 DEF InterruptedStarted
  <2>3. Adds => interrupt[c].turn # nextTurnID + 1
    <3>1. interrupt[c].turn = loop.turn.id /\ loop.at \in Holding
      BY <2>1 DEF Targeted, Holding
    <3> QED
      BY <3>1 DEF Adds, LoopRecorded
  <2> QED
    BY <2>2, <2>3, UnstartedStep
<1>2. CASE InterruptStep
  <2>1. Unstarted' \in SUBSET Unstarted
    BY <1>2, LockHeld DEF Unstarted, InState
  <2>2. PICK c \in Clients : AskInterrupt(c) \/ InterruptSettles(c) \/ stopInterruptedTurn(c)
    BY <1>2 DEF InterruptStep
  <2>3. ASSUME NEW d \in Clients, d # c PROVE interrupt'[d] = interrupt[d]
    BY <1>0, <2>2, <2>3 DEF AskInterrupt, InterruptSettles, LockInterrupt, ProviderInterrupt, InterruptDone,
       stopInterruptedTurn, InterruptAt, Controlled
  <2>4. CASE Interrupting(c)' /\ Interrupting(c) /\ interrupt'[c].turn = interrupt[c].turn
    BY <2>1, <2>3, <2>4 DEF InterruptedStarted, Interrupting
  <2>5. CASE ~Interrupting(c)'
    BY <2>1, <2>3, <2>5 DEF InterruptedStarted, Interrupting
  <2>6. CASE LockInterrupt(c)
    <3>1. CASE interrupt' = [interrupt EXCEPT ![c] = NoInterrupt]
      <4>1. ~Interrupting(c)'
        BY <1>0, <3>1 DEF Interrupting, NoInterrupt, Controlled
      <4> QED
        BY <2>5, <4>1
    <3>2. CASE InterruptAt(c, "recorded")
      <4> DEFINE s == interrupt[c].turn
                 state == IF journal[s].state = "unstarted" THEN "started" ELSE journal[s].state
      <4>1. interrupt'[c].turn = s /\ Recorded(s, state)
        BY <1>0, <2>6, <3>2 DEF LockInterrupt, InterruptAt, Appended, NotAppended, Controlled, NoInterrupt
      <4>2. s \in Turns => journal'[s].state # "unstarted"
        <5>1. s \in Turns => state \in Verdicts /\ state # "unstarted"
          BY <1>0 DEF Lasting, Records, Verdicts
        <5> HIDE DEF s, state
        <5> QED
          BY <1>0, <4>1, <5>1, RecordedIs DEF Lasting
      <4>3. interrupt'[c].turn \notin Unstarted'
        BY <4>1, <4>2 DEF Unstarted, InState
      <4> QED
        BY <2>1, <2>3, <4>3 DEF InterruptedStarted, Interrupting
    <3> QED
      BY <2>6, <3>1, <3>2 DEF LockInterrupt
  <2>7. CASE ~LockInterrupt(c)
    <3>1. Interrupting(c)' => Interrupting(c) /\ interrupt'[c].turn = interrupt[c].turn
      BY <1>0, <2>2, <2>7 DEF AskInterrupt, InterruptSettles, ProviderInterrupt, InterruptDone,
         stopInterruptedTurn, InterruptAt, Interrupting, NoInterrupt, Controlled
    <3> QED
      BY <2>4, <2>5, <3>1
  <2> QED
    BY <2>6, <2>7
<1>3. CASE ServeReturns \/ Crash
  BY <1>3 DEF ServeReturns, Crash, Exit, InterruptedStarted, Interrupting, NoInterrupt
<1>4. CASE RecoveryStep
  BY <1>1, <1>4 DEF RecoveryStep, RecoverStarted, RecoverMerge, RecoverServe, Serve, control
<1>5. CASE ClientStep \/ LoopSteps
  BY <1>1, <1>5 DEF ClientStep, submitParsedMessage, AppendToPending, SubmitTurn, editMessage, OpenDraft,
     removePendingMessage, RemovalRefused, DraftRefused, LoopSteps, ReceiveTurn, takePendingTurn, ReturnTurn,
     ActivateTurn, StartTurn, RunTurn, CompleteTurn, DeactivateTurn, PublishIdle, finishTurn, NextTurn, control
<1>6. CASE \/ ControllerStep \/ PublishStatus \/ PeriodicPublish \/ observeSessionUpdate
           \/ sessionDrainReports \/ reportSessionUpdate \/ UNCHANGED vars
  BY <1>1, <1>6 DEF vars, ControllerStep, AskDrain, WithdrawDrain, PublishStatus, PeriodicPublish,
     observeSessionUpdate, sessionDrainReports, reportSessionUpdate, control
<1> QED
  BY <1>2, <1>3, <1>4, <1>5, <1>6 DEF Next

\* At most one turn is left to whoever comes after.
Stops == stopping => loop.at # "taken" /\ (loop.at = "active" => loop.turn.id \notin Unstarted)
OneUnstarted == ~Up \/ stopping => \A t, u \in Unstarted : t = u

LEMMA StopsStep ==
  ASSUME TypeInv, TextInv, HeldInv, OrderInv, Targeted, [Next]_vars, "diskFail" \notin Env
  PROVE  Stops'
<1>0. Queued /\ Controlled /\ Stops
  BY TypeParts DEF TypeInv, OrderInv, OneLeft, Stops
<1>1. stopping' /\ loop'.at = "active" /\ loop'.turn = loop.turn /\ loop.turn.id \notin Unstarted
        => loop'.turn.id \notin Unstarted'
  <2>1. Adds => ~stopping'
    BY DEF Adds, Accepting, control
  <2> QED
    BY <2>1, UnstartedStep
<1>2. CASE UNCHANGED <<stopping, loop>>
  BY <1>0, <1>1, <1>2 DEF Stops
<1>3. CASE LoopSteps
  <2>1. stopping' = stopping
    BY <1>3 DEF LoopSteps, ReceiveTurn, takePendingTurn, ReturnTurn, ActivateTurn, StartTurn, RunTurn,
       CompleteTurn, DeactivateTurn, PublishIdle, finishTurn, NextTurn, control
  <2>2. stopping => loop'.at \notin {"taken", "active"}
    BY <1>0, <1>3, Nothing DEF LoopSteps, ReceiveTurn, takePendingTurn, ReturnTurn, ActivateTurn, StartTurn, RunTurn,
       CompleteTurn, DeactivateTurn, PublishIdle, finishTurn, NextTurn, LoopStep, Queued, Stops
  <2> QED
    BY <2>1, <2>2 DEF Stops
<1>4. CASE InterruptStep
  <2>1. loop'.at = loop.at /\ loop'.turn = loop.turn
    BY <1>0, <1>4 DEF InterruptStep, AskInterrupt, InterruptSettles, LockInterrupt, ProviderInterrupt,
       InterruptDone, stopInterruptedTurn, Queued
  <2>2. PICK c \in Clients : AskInterrupt(c) \/ InterruptSettles(c) \/ stopInterruptedTurn(c)
    BY <1>4 DEF InterruptStep
  <2>3. CASE AskInterrupt(c) \/ InterruptSettles(c)
    <3>1. stopping' = stopping
      BY <2>3 DEF AskInterrupt, InterruptSettles, LockInterrupt, ProviderInterrupt, InterruptDone
    <3> QED
      BY <1>0, <1>1, <2>1, <3>1 DEF Stops
  <2>4. CASE stopInterruptedTurn(c)
    <3>1. Interrupting(c)
      BY <2>4 DEF stopInterruptedTurn
    <3>2. loop.turn.id \notin Unstarted /\ loop.at # "taken"
      BY <3>1 DEF Targeted, OrderInv, OneLeft
    <3> QED
      BY <1>1, <2>1, <3>2 DEF Stops
  <2> QED
    BY <2>2, <2>3, <2>4
<1>5. CASE ServeReturns \/ Crash
  BY <1>5 DEF ServeReturns, Crash, Exit, Stops
<1>6. CASE \/ ClientStep \/ ControllerStep \/ PublishStatus \/ PeriodicPublish \/ observeSessionUpdate
           \/ sessionDrainReports \/ reportSessionUpdate \/ RecoveryStep \/ UNCHANGED vars
  BY <1>2, <1>6 DEF vars, ClientStep, submitParsedMessage, AppendToPending, SubmitTurn, editMessage, OpenDraft,
     removePendingMessage, RemovalRefused, DraftRefused, ControllerStep, AskDrain, WithdrawDrain,
     PublishStatus, PeriodicPublish, observeSessionUpdate, sessionDrainReports, reportSessionUpdate,
     RecoveryStep, RecoverStarted, RecoverMerge, RecoverServe, Serve, control
<1> QED
  BY <1>3, <1>4, <1>5, <1>6 DEF Next

LEMMA OneUnstartedStep ==
  ASSUME TypeInv, TextInv, HeldInv, OrderInv, Targeted, [Next]_vars, "diskFail" \notin Env, "crash" \notin Env
  PROVE  OneUnstarted'
<1>0. OneUnstarted /\ Controlled
  BY TypeParts DEF TypeInv, OrderInv, OneLeft, OneUnstarted
<1>1. Adds => Up' /\ ~stopping'
  BY DEF Adds, Accepting, control, Up
<1>2. CASE ~Up \/ stopping
  BY <1>0, <1>1, <1>2, UnstartedStep DEF OneUnstarted, Adds, Accepting, Up
<1>3. CASE \E c \in Clients : stopInterruptedTurn(c) /\ Up /\ ~stopping
  <2>1. PICK c \in Clients : stopInterruptedTurn(c)
    BY <1>3
  <2>2. Interrupting(c) /\ Up
    BY <1>3, <2>1 DEF stopInterruptedTurn
  <2>3. loop.turn.id \notin Unstarted
    BY <2>2 DEF Targeted, OrderInv, OneLeft
  <2>4. \A t \in Unstarted : t = pendingTurn.id
    BY <2>2, <2>3 DEF HeldInv, TurnsHeld, Unstarted, InState, LiveStates
  <2>5. journal' = journal
    BY <2>1 DEF stopInterruptedTurn, durable
  <2> QED
    BY <2>4, <2>5 DEF OneUnstarted, Unstarted, InState
<1>4. CASE Up /\ ~stopping /\ \A c \in Clients : ~stopInterruptedTurn(c)
  <2>1. ~stopping'
    BY <1>4 DEF Next, vars, control, ClientStep, submitParsedMessage, AppendToPending, SubmitTurn,
       editMessage, OpenDraft, removePendingMessage, RemovalRefused, DraftRefused,
       LoopSteps, ReceiveTurn, takePendingTurn, ReturnTurn, ActivateTurn, StartTurn,
       RunTurn, CompleteTurn, DeactivateTurn, PublishIdle, finishTurn, NextTurn,
       InterruptStep, AskInterrupt, InterruptSettles, LockInterrupt, ProviderInterrupt, InterruptDone,
       PublishStatus, PeriodicPublish, sessionDrainReports, reportSessionUpdate,
       observeSessionUpdate, ControllerStep, AskDrain, WithdrawDrain, RecoveryStep, RecoverStarted,
       RecoverMerge, RecoverServe, Serve, ServeReturns, Crash, Exit
  <2>2. Up'
    BY <1>4, QueueSteps, Seeded DEF Queueing, PublishStatus, Up, ServeReturns, Crash, HeldInv
  <2> QED
    BY <2>1, <2>2 DEF OneUnstarted
<1> QED
  BY <1>2, <1>3, <1>4

LEMMA NothingMergedStep ==
  ASSUME TypeInv, OrderInv, [Next]_vars
  PROVE  merged' = NoTurn
<1>1. merged = NoTurn /\ ~RecoverMerge
  <2>1. ASSUME RecoverMerge PROVE FALSE
    <3>1. ~Up /\ Cardinality(Unstarted) > 1
      BY <2>1 DEF RecoverMerge, Up
    <3>2. First(Unstarted) \in Unstarted /\ First(Unstarted \ {First(Unstarted)}) \in Unstarted \ {First(Unstarted)}
      BY <3>1, TwoUnstarted, InStateIs, FirstIs
    <3> QED
      BY <3>1, <3>2 DEF OrderInv, OneLeft
  <2> QED
    BY <2>1 DEF OrderInv, OneLeft
<1> QED
  BY <1>1 DEF Next, vars, ClientStep, submitParsedMessage, AppendToPending, SubmitTurn,
     editMessage, OpenDraft, removePendingMessage, RemovalRefused, DraftRefused,
     LoopSteps, ReceiveTurn, takePendingTurn, ReturnTurn, ActivateTurn, StartTurn,
     RunTurn, CompleteTurn, DeactivateTurn, PublishIdle, finishTurn, NextTurn,
     InterruptStep, AskInterrupt, InterruptSettles, LockInterrupt, ProviderInterrupt, InterruptDone,
     stopInterruptedTurn, PublishStatus, PeriodicPublish, sessionDrainReports, reportSessionUpdate,
     observeSessionUpdate, ControllerStep, AskDrain, WithdrawDrain, RecoveryStep, RecoverStarted,
     RecoverServe, Serve, ServeReturns, Crash, Exit

LEMMA OrderStep ==
  ASSUME TypeInv, TypeInv', TextInv, HeldInv, SeenInv, OrderInv, Targeted, [Next]_vars,
         "diskFail" \notin Env, "crash" \notin Env, "edit" \notin Env
  PROVE  OrderInv'
<1>1. NoDraft' /\ InOrder' /\ LoopRecorded' /\ MarksBehind' /\ UnseenAhead'
  BY NoDraftStep, InOrderStep, LoopRecordedStep, MarksStep, UnseenStep DEF OrderInv
<1>2. InterruptedStarted'
  BY InterruptedStep DEF OrderInv, OneLeft, InterruptedStarted
<1>3. Stops' /\ OneUnstarted' /\ merged' = NoTurn
  BY StopsStep, OneUnstartedStep, NothingMergedStep
<1> QED
  BY <1>1, <1>2, <1>3 DEF OrderInv, OneLeft, InterruptedStarted, Stops, OneUnstarted

LEMMA OrderInit == Init => OrderInv
<1> SUFFICES ASSUME Init PROVE OrderInv
  OBVIOUS
<1>1. \A t \in Turns : journal[t].state = "none"
  BY DEF Init, NoRecord
<1>2. NoDraft /\ InOrder /\ LoopRecorded /\ UnseenAhead /\ OneLeft
  BY <1>1, Nothing DEF Init, Memory, NoDraft, InOrder, LoopRecorded, UnseenAhead, OneLeft, Unstarted, InState,
     Interrupting, NoInterrupt, Holding
<1>3. MarksBehind
  BY <1>1, Nothing DEF Init, Memory, MarksBehind, Marks, InState, Up
<1> QED
  BY <1>2, <1>3 DEF OrderInv

\* sessionDrainReports, queueSessionStatusPublish, initializeSessionUpdate:
\* while the report of a request that still stands says Drained, no accepted
\* turn waits or runs, and for an idle drain every turn that ran has been
\* published as activity. The journal has to work, nothing crashes, and not
\* both an edit and a forced restart come in: each of these lets the marker of
\* the settled turns overtake a turn that nobody has seen.
THEOREM QuietWhenDrained ==
  ASSUME "diskFail" \notin Env, "crash" \notin Env, "edit" \notin Env \/ "timeout" \notin Env
  PROVE  Spec => []DrainedIsQuiet
<1>1. Init => TypeInv /\ TextInv /\ HeldInv /\ DrainInv /\ QuietInv /\ Targeted
  BY TypeInit, TextInit, HeldInit, DrainInit, QuietInit DEF Init, Memory, Targeted, Interrupting, NoInterrupt
<1>2. TypeInv /\ TextInv /\ HeldInv /\ DrainInv /\ Targeted /\ [Next]_vars
        => TypeInv' /\ TextInv' /\ HeldInv' /\ DrainInv' /\ Targeted'
  BY TypeStep, TextStep, HeldStep, DrainStep, TargetedStep
<1>3. CASE "timeout" \notin Env
  <2>1. Init => NeverStopped
    BY DEF Init, Memory, NeverStopped
  <2>2. TypeInv /\ TextInv /\ HeldInv /\ DrainInv /\ QuietInv /\ NeverStopped /\ TypeInv' /\ [Next]_vars
          => QuietInv' /\ NeverStopped'
    BY <1>3, NeverStoppedStep, QuietStep
  <2> QED
    BY <1>1, <1>2, <2>1, <2>2, QuietMeans, PTL DEF Spec
<1>4. CASE "edit" \notin Env
  <2>1. OrderInv /\ unseen # {} => \E t \in unseen : settled < t
    BY DEF OrderInv, UnseenAhead
  <2>2. TypeInv /\ TextInv /\ HeldInv /\ DrainInv /\ QuietInv /\ Targeted /\ OrderInv /\ TypeInv' /\ [Next]_vars
          => QuietInv' /\ OrderInv'
    BY <1>4, <2>1, QuietStep, OrderStep DEF QuietInv
  <2> QED
    BY <1>1, <1>2, <2>2, OrderInit, QuietMeans, PTL DEF Spec
<1> QED
  BY <1>3, <1>4
=============================================================================
