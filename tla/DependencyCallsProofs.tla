------------------------ MODULE DependencyCallsProofs ------------------------
(***************************************************************************)
(* What one call of detectCycle reports, for every graph of Tasks and      *)
(* whatever is created and deleted while it walks.                         *)
(***************************************************************************)
EXTENDS DependencyCalls, SequenceTheorems, TLAPS

-----------------------------------------------------------------------------
(* Graphs: reachability as the least closed set.                           *)

Graph(g) == g \in [Names -> SUBSET Names]

Below(g, h) == \A n \in Names : g[n] \subseteq h[n]

LEMMA ReachIsNames == ASSUME NEW g, NEW S PROVE Reach(g, S) \subseteq Names
  BY DEF Reach

LEMMA ReachStart ==
  ASSUME NEW g, NEW S \in SUBSET Names PROVE S \subseteq Reach(g, S)
  BY DEF Reach

LEMMA ReachStep ==
  ASSUME NEW g, Graph(g), NEW S, NEW m \in Reach(g, S), NEW n \in g[m]
  PROVE  n \in Reach(g, S)
<1>1. m \in Names /\ n \in Names
  BY DEF Reach, Graph
<1>2. SUFFICES ASSUME NEW C \in SUBSET Names, S \subseteq C, Closed(g, C)
               PROVE  n \in C
  BY <1>1 DEF Reach
<1>3. m \in C
  BY <1>2 DEF Reach
<1>. QED BY <1>2, <1>3 DEF Closed

LEMMA ReachClosed ==
  ASSUME NEW g, Graph(g), NEW S PROVE Closed(g, Reach(g, S))
  BY ReachStep DEF Closed

LEMMA ReachLeast ==
  ASSUME NEW g, NEW S, NEW C \in SUBSET Names, S \subseteq C, Closed(g, C)
  PROVE  Reach(g, S) \subseteq C
  BY DEF Reach

\* What is reached from names that are reached is reached.
LEMMA ReachOn ==
  ASSUME NEW g, Graph(g), NEW S, NEW T, S \subseteq Reach(g, T)
  PROVE  Reach(g, S) \subseteq Reach(g, T)
<1>1. Reach(g, T) \in SUBSET Names
  BY ReachIsNames
<1>2. Closed(g, Reach(g, T))
  BY ReachClosed
<1>. QED BY <1>1, <1>2, ReachLeast

LEMMA ReachGrows ==
  ASSUME NEW g, NEW h, Graph(h), Below(g, h), NEW S, NEW T \in SUBSET Names, S \subseteq T
  PROVE  Reach(g, S) \subseteq Reach(h, T)
<1>1. Reach(h, T) \in SUBSET Names /\ T \subseteq Reach(h, T)
  BY ReachIsNames, ReachStart
<1>2. Closed(h, Reach(h, T))
  BY ReachClosed
<1>3. Closed(g, Reach(h, T))
  BY <1>1, <1>2 DEF Closed, Below
<1>. QED BY <1>1, <1>3, ReachLeast

LEMMA ReachSplit ==
  ASSUME NEW g, Graph(g), NEW S \in SUBSET Names, NEW m \in Reach(g, S)
  PROVE  \E s \in S : m \in Reach(g, {s})
<1>. DEFINE C == {n \in Names : \E s \in S : n \in Reach(g, {s})}
<1>1. S \subseteq C
  <2>1. ASSUME NEW s \in S PROVE s \in Reach(g, {s})
    BY ReachStart
  <2>. QED BY <2>1
<1>2. Closed(g, C)
  <2>1. SUFFICES ASSUME NEW n \in C, NEW k \in g[n] PROVE k \in C
    BY DEF Closed
  <2>2. PICK s \in S : n \in Reach(g, {s})
    OBVIOUS
  <2>3. k \in Reach(g, {s})
    BY <2>1, <2>2, ReachStep
  <2>4. k \in Names
    BY <2>3, ReachIsNames
  <2>. QED BY <2>3, <2>4
<1>3. C \in SUBSET Names
  OBVIOUS
<1>4. Reach(g, S) \subseteq C
  <2>. HIDE DEF C
  <2>. QED BY <1>1, <1>2, <1>3, ReachLeast
<1>. QED BY <1>4

\* A walk from a name that meets a cycle meets one from a dependency of it.
LEMMA CircularStep ==
  ASSUME NEW g, Graph(g), NEW n \in Names, Circular(g, n)
  PROVE  \E s \in g[n] : Circular(g, s)
<1>1. PICK m \in Reach(g, {n}) : OnCycle(g, m)
  BY DEF Circular
<1>2. g[n] \in SUBSET Names
  BY DEF Graph
<1>. DEFINE C == {n} \union Reach(g, g[n])
<1>3. C \in SUBSET Names /\ {n} \subseteq C
  BY ReachIsNames
<1>4. Closed(g, C)
  <2>1. g[n] \subseteq Reach(g, g[n])
    BY <1>2, ReachStart
  <2>2. Closed(g, Reach(g, g[n]))
    BY ReachClosed
  <2>. QED BY <2>1, <2>2 DEF Closed
<1>5. m \in C
  <2>. HIDE DEF C
  <2>. QED BY <1>3, <1>4, ReachLeast
<1>6. m \in Reach(g, g[n])
  BY <1>1, <1>5 DEF OnCycle
<1>7. PICK s \in g[n] : m \in Reach(g, {s})
  BY <1>2, <1>6, ReachSplit
<1>. QED BY <1>1, <1>7 DEF Circular

LEMMA OnCycleGrows ==
  ASSUME NEW g, NEW h, Graph(h), Below(g, h), NEW n \in Names, OnCycle(g, n)
  PROVE  OnCycle(h, n)
<1>1. h[n] \in SUBSET Names /\ g[n] \subseteq h[n]
  BY DEF Graph, Below
<1>2. Reach(g, g[n]) \subseteq Reach(h, h[n])
  BY <1>1, ReachGrows
<1>. QED BY <1>2 DEF OnCycle

LEMMA CircularGrows ==
  ASSUME NEW g, NEW h, Graph(h), Below(g, h), NEW n \in Names, Circular(g, n)
  PROVE  Circular(h, n)
<1>1. PICK m \in Reach(g, {n}) : OnCycle(g, m)
  BY DEF Circular
<1>2. m \in Names /\ m \in Reach(h, {n})
  BY ReachIsNames, ReachGrows
<1>3. OnCycle(h, m)
  BY <1>1, <1>2, OnCycleGrows
<1>. QED BY <1>2, <1>3 DEF Circular

-----------------------------------------------------------------------------
(* The stack of calls.                                                     *)

LEMMA SuccsAreNames ==
  ASSUME NEW list \in Lists \union {Absent} PROVE Succs(list) \in SUBSET Names
  BY CallAssumption DEF Succs, Range

LEMMA NextOne ==
  ASSUME NEW f \in Frame
  PROVE  /\ [f EXCEPT !.next = @ + 1] \in Frame
         /\ [f EXCEPT !.next = @ + 1].name = f.name
         /\ [f EXCEPT !.next = @ + 1].list = f.list
         /\ [f EXCEPT !.next = @ + 1].next = f.next + 1
<1>1. f.next \in Nat \ {0} /\ f.next + 1 \in Nat \ {0}
  BY DEF Frame
<1>. QED BY <1>1 DEF Frame

LEMMA AdvanceStack ==
  ASSUME NEW s \in Seq(Frame), s # <<>>
  PROVE  /\ Advance(s) \in Seq(Frame) /\ Len(Advance(s)) = Len(s)
         /\ \A k \in 1 .. Len(s) :
              /\ Advance(s)[k].name = s[k].name /\ Advance(s)[k].list = s[k].list
              /\ k < Len(s) => Advance(s)[k].next = s[k].next
              /\ k = Len(s) => Advance(s)[k].next = s[k].next + 1
<1>1. Len(s) \in 1 .. Len(s) /\ DOMAIN s = 1 .. Len(s)
  OBVIOUS
<1>2. \A k \in 1 .. Len(s) : s[k] \in Frame
  OBVIOUS
<1>3. Advance(s) = [k \in 1 .. Len(s) |->
        IF k = Len(s) THEN [s[k] EXCEPT !.next = @ + 1] ELSE s[k]]
  BY <1>1 DEF Advance
<1>4. \A k \in 1 .. Len(s) : Advance(s)[k] \in Frame
  BY <1>2, <1>3, NextOne
<1>5. Advance(s) \in Seq(Frame) /\ Len(Advance(s)) = Len(s)
  BY <1>3, <1>4
<1>. QED BY <1>2, <1>3, <1>5, NextOne

LEMMA FrontStack ==
  ASSUME NEW s \in Seq(Frame), Len(s) > 1
  PROVE  /\ Front(s) \in Seq(Frame) /\ Front(s) # <<>> /\ Len(Front(s)) = Len(s) - 1
         /\ \A k \in 1 .. Len(s) - 1 : Front(s)[k] = s[k]
<1>1. 1 \in Int /\ Len(s) - 1 \in Int /\ Len(s) - 1 >= 1
  OBVIOUS
<1>2. \A k \in 1 .. Len(s) - 1 : s[k] \in Frame
  OBVIOUS
<1>. DEFINE front == SubSeq(s, 1, Len(s) - 1)
<1>3. /\ front \in Seq(Frame) /\ Len(front) = Len(s) - 1
      /\ \A k \in 1 .. Len(s) - 1 : front[k] = s[k]
  BY <1>1, <1>2, SubSeqProperties
<1>4. Front(s) = front
  BY DEF Front
<1>. HIDE DEF front
<1>5. front # <<>>
  BY <1>1, <1>3
<1>. QED BY <1>3, <1>4, <1>5

LEMMA AppendStack ==
  ASSUME NEW s \in Seq(Frame), NEW f \in Frame
  PROVE  /\ Append(s, f) \in Seq(Frame) /\ Len(Append(s, f)) = Len(s) + 1
         /\ \A k \in 1 .. Len(s) : Append(s, f)[k] = s[k]
         /\ Append(s, f)[Len(s) + 1] = f
  OBVIOUS

\* What a step of the walk is about: the last call and the name it comes to.
LEMMA TopCall ==
  ASSUME TypeOK, AtCall
  PROVE  /\ Len(calls) \in Nat \ {0}
         /\ calls[Len(calls)] \in Frame
         /\ Callee = calls[Len(calls)].list[calls[Len(calls)].next]
         /\ calls[Len(calls)].next \in 1 .. Len(calls[Len(calls)].list)
         /\ Callee \in Names /\ Callee \in Range(calls[Len(calls)].list)
<1>1. calls \in Seq(Frame) /\ calls # <<>>
  BY DEF TypeOK, AtCall, Walking
<1>2. Len(calls) \in Nat \ {0} /\ calls[Len(calls)] \in Frame
  BY <1>1
<1>. DEFINE f == calls[Len(calls)]
<1>3. f.list \in Seq(Names) /\ f.next \in Nat \ {0} /\ f.next <= Len(f.list)
  BY <1>2 DEF Frame, AtCall, Last
<1>4. Callee = f.list[f.next]
  BY DEF Callee, Last
<1>. QED BY <1>2, <1>3, <1>4 DEF Range

-----------------------------------------------------------------------------
(* Type correctness.                                                       *)

LEMMA TypeInit == Init => TypeOK
<1>1. SUFFICES ASSUME Init PROVE TypeOK
  OBVIOUS
<1>2. task \in Names /\ Call(task, <<task>>) \in Frame
  BY <1>1, CallAssumption DEF Init, Call, Frame
<1>3. \A n \in Names : Succs(cache[n]) \in SUBSET Names
  BY <1>1, SuccsAreNames DEF Init
<1>. QED BY <1>1, <1>2, <1>3, CallAssumption DEF Init, TypeOK

LEMMA TypeStep == TypeOK /\ [Next]_vars => TypeOK'
<1>1. SUFFICES ASSUME TypeOK, [Next]_vars PROVE TypeOK'
  OBVIOUS
<1>2. CASE ReportCycle
  <2>1. Callee \in Names
    BY <1>1, <1>2, TopCall DEF ReportCycle
  <2>. QED BY <1>1, <1>2, <2>1 DEF TypeOK, ReportCycle
<1>3. CASE MissTask
  <2>1. Callee \in Names
    BY <1>1, <1>3, TopCall DEF MissTask
  <2>2. Advance(calls) \in Seq(Frame)
    BY <1>1, <1>3, AdvanceStack DEF TypeOK, MissTask, AtCall, Walking
  <2>. QED BY <1>1, <1>3, <2>1, <2>2 DEF TypeOK, MissTask
<1>4. CASE EnterTask
  <2>1. Callee \in Names
    BY <1>1, <1>4, TopCall DEF EnterTask
  <2>2. Call(Callee, cache[Callee]) \in Frame
    BY <1>1, <1>4, <2>1, CallAssumption DEF TypeOK, EnterTask, Call, Frame
  <2>3. calls' \in Seq(Frame)
    BY <1>1, <1>4, <2>2, AppendStack DEF TypeOK, EnterTask
  <2>. QED BY <1>1, <1>4, <2>1, <2>3 DEF TypeOK, EnterTask
<1>5. CASE LeaveTask
  <2>1. Advance(Front(calls)) \in Seq(Frame)
    BY <1>1, <1>5, FrontStack, AdvanceStack DEF TypeOK, LeaveTask
  <2>. QED BY <1>1, <1>5, <2>1 DEF TypeOK, LeaveTask, Cleared
<1>6. CASE Finish
  BY <1>1, <1>6 DEF TypeOK, Finish
<1>7. ASSUME NEW n \in Names, NEW list \in Lists, Create(n, list) PROVE TypeOK'
  <2>1. Succs(list) \in SUBSET Names
    BY SuccsAreNames
  <2>. QED BY <1>1, <1>7, <2>1, CallAssumption DEF TypeOK, Create
<1>8. ASSUME NEW n \in Names, Delete(n) PROVE TypeOK'
  BY <1>1, <1>8, CallAssumption DEF TypeOK, Delete
<1>9. CASE UNCHANGED vars
  BY <1>1, <1>9 DEF TypeOK, vars
<1>. QED BY <1>1, <1>2, <1>3, <1>4, <1>5, <1>6, <1>7, <1>8, <1>9 DEF Next, Walk, CacheChange

\* The state keeps its shape: every loop variable stays in its bounds and no
\* call is made for a name no Task lists.
THEOREM TypeCorrect == Spec => []TypeOK
  BY TypeInit, TypeStep, PTL DEF Spec

-----------------------------------------------------------------------------
(* The inductive invariant.                                                *)

\* What the three graphs have to do with each other: `Now' lies between the
\* other two, and as long as the cache stands still they are one.
Graphs ==
  /\ Below(steady, Now) /\ Below(Now, ever)
  /\ changes = 0 =>
       /\ steady = Now /\ ever = Now
       /\ \A n \in unseen : cache[n] = Absent

\* Every name the walk did not find, and every name it is at, was reached.
Reached ==
  /\ unseen \subseteq Reach(ever, {task})
  /\ \A k \in 2 .. Len(calls) : calls[k].name \in Reach(ever, {task})

\* Each call is the one its caller is at.
Chained ==
  Walking =>
    /\ culprit = NoName
    /\ calls[1].list = <<task>>
    /\ \A k \in 1 .. Len(calls) : calls[k].next <= Len(calls[k].list) + 1
    /\ \A k \in 1 .. Len(calls) - 1 :
         /\ calls[k].next <= Len(calls[k].list)
         /\ calls[k].list[calls[k].next] = calls[k + 1].name

\* The marks left are those of the calls in progress and of missing Tasks.
Marked ==
  Walking => \A n \in visited \ unseen : \E k \in 2 .. Len(calls) : calls[k].name = n

\* The list a call walks stands for what its Task depends on, both of a Task
\* that is there throughout and of one that is not any more.
ListsTrue ==
  \A k \in 2 .. Len(calls) :
    /\ steady[calls[k].name] \subseteq Range(calls[k].list)
    /\ Range(calls[k].list) \subseteq ever[calls[k].name]

\* Each call is reached from the dependencies of every call below it.
OnPath ==
  \A i \in 2 .. Len(calls), j \in 2 .. Len(calls) :
    i < j => calls[j].name \in Reach(ever, ever[calls[i].name])

\* What a call has behind it leads to no cycle of lasting Tasks.
PastClear ==
  \A k \in 1 .. Len(calls) : \A i \in 1 .. calls[k].next - 1 :
    ~Circular(steady, calls[k].list[i])

Inv ==
  /\ TypeOK /\ Graphs /\ Reached /\ Chained /\ Marked /\ ListsTrue /\ OnPath /\ PastClear
  /\ NoCycleMissed /\ CyclesAreReal

-----------------------------------------------------------------------------
(* It holds at first and every step keeps it.                              *)

LEMMA GraphTypes ==
  ASSUME TypeOK PROVE Graph(steady) /\ Graph(ever) /\ Graph(Now) /\ task \in Names
<1>1. \A n \in Names : Succs(cache[n]) \in SUBSET Names
  BY SuccsAreNames DEF TypeOK
<1>. QED BY <1>1, CallAssumption DEF TypeOK, Graph, Now

LEMMA InvInit == Init => Inv
<1>1. SUFFICES ASSUME Init PROVE Inv
  OBVIOUS
<1>2. TypeOK
  BY <1>1, TypeInit
<1>3. Graphs
  <2>1. steady = Now /\ ever = Now
    BY <1>1 DEF Init, Now
  <2>2. Below(Now, Now)
    BY DEF Below
  <2>. QED BY <1>1, <2>1, <2>2 DEF Graphs, Init
<1>4. calls = <<Call(task, <<task>>)>> /\ Len(calls) = 1 /\ calls[1] = Call(task, <<task>>)
  BY <1>1 DEF Init
<1>5. calls[1].list = <<task>> /\ calls[1].next = 1 /\ Len(calls[1].list) = 1
  BY <1>4 DEF Call
<1>6. Reached /\ Marked /\ ListsTrue /\ OnPath
  BY <1>1, <1>4 DEF Init, Reached, Marked, ListsTrue, OnPath
<1>7. Chained
  BY <1>1, <1>4, <1>5 DEF Init, Chained
<1>8. PastClear
  BY <1>4, <1>5 DEF PastClear
<1>9. NoCycleMissed /\ CyclesAreReal
  BY <1>1, <1>4, CallAssumption DEF Init, NoCycleMissed, CyclesAreReal, Accepts, Walking
<1>. QED BY <1>2, <1>3, <1>6, <1>7, <1>8, <1>9 DEF Inv

\* The name a call comes to is one more step along the graph.
LEMMA CalleeReached ==
  ASSUME Inv, AtCall
  PROVE  /\ Callee \in Reach(ever, {task})
         /\ \A i \in 2 .. Len(calls) : Callee \in Reach(ever, ever[calls[i].name])
<1>. DEFINE top == calls[Len(calls)]
<1>1. /\ Len(calls) \in Nat \ {0} /\ top \in Frame
      /\ Callee \in Names /\ Callee \in Range(top.list)
  BY TopCall DEF Inv
<1>2. Graph(ever) /\ task \in Names
  BY GraphTypes DEF Inv
<1>3. CASE Len(calls) = 1
  <2>1. Range(<<task>>) = {task}
    BY DEF Range
  <2>2. top.list = <<task>>
    BY <1>3 DEF Inv, Chained, AtCall
  <2>3. Callee = task
    BY <1>1, <2>1, <2>2
  <2>. QED BY <1>2, <1>3, <2>3, ReachStart
<1>4. CASE Len(calls) > 1
  <2>1. Len(calls) \in 2 .. Len(calls)
    BY <1>1, <1>4
  <2>2. Callee \in ever[top.name] /\ top.name \in Reach(ever, {task})
    BY <1>1, <2>1 DEF Inv, ListsTrue, Reached
  <2>3. Callee \in Reach(ever, {task})
    BY <1>2, <2>2, ReachStep
  <2>4. ASSUME NEW i \in 2 .. Len(calls) PROVE Callee \in Reach(ever, ever[calls[i].name])
    <3>1. CASE i = Len(calls)
      <4>1. top.name \in Names
        BY <1>1 DEF Frame
      <4>2. ever[top.name] \in SUBSET Names
        BY <1>2, <4>1 DEF Graph
      <4>. QED BY <2>2, <3>1, <4>2, ReachStart
    <3>2. CASE i < Len(calls)
      <4>1. top.name \in Reach(ever, ever[calls[i].name])
        BY <2>1, <2>4, <3>2 DEF Inv, OnPath
      <4>. QED BY <1>2, <2>2, <4>1, ReachStep
    <3>. QED BY <1>1, <2>4, <3>1, <3>2
  <2>. QED BY <2>3, <2>4
<1>5. Len(calls) \in Nat \ {0}
  BY <1>1
<1>6. \A n \in Nat \ {0} : n = 1 \/ n > 1
  OBVIOUS
<1>. QED BY <1>3, <1>4, <1>5, <1>6

LEMMA ReportKeepsInv == ASSUME Inv, TypeOK', ReportCycle PROVE Inv'
<1>1. calls' = <<>> /\ Len(calls') = 0 /\ ~Walking' /\ culprit' = Callee /\ Callee \in Names
  BY TopCall DEF ReportCycle, Walking, Inv
<1>2. UNCHANGED <<cache, task, visited, unseen, steady, ever, changes>>
  BY DEF ReportCycle
<1>3. Now' = Now
  BY <1>2 DEF Now
<1>4. Graphs' /\ Reached' /\ Chained' /\ Marked' /\ ListsTrue' /\ OnPath' /\ PastClear'
  <2>1. 1 .. Len(calls') = {} /\ 2 .. Len(calls') = {}
    BY <1>1
  <2>2. Graphs' /\ Chained' /\ Marked'
    BY <1>1, <1>2, <1>3 DEF Inv, Graphs, Chained, Marked
  <2>3. Reached'
    BY <1>2, <2>1 DEF Inv, Reached
  <2>. QED BY <2>1, <2>2, <2>3 DEF ListsTrue, OnPath, PastClear
<1>5. NoCycleMissed'
  BY <1>1, CallAssumption DEF NoCycleMissed, Accepts
<1>6. CyclesAreReal'
  <2>1. SUFFICES ASSUME Callee \notin unseen
                 PROVE  Callee \in Reach(ever, {task}) /\ OnCycle(ever, Callee)
    BY <1>1, <1>2 DEF CyclesAreReal
  <2>2. PICK i \in 2 .. Len(calls) : calls[i].name = Callee
    BY <2>1 DEF ReportCycle, AtCall, Inv, Marked
  <2>. QED BY <2>2, CalleeReached DEF ReportCycle, OnCycle
<1>. QED BY <1>4, <1>5, <1>6 DEF Inv

\* A Task that was not found leads to no cycle of lasting Tasks.
LEMMA MissingIsClear ==
  ASSUME Inv, NEW n \in Names, cache[n] = Absent PROVE ~Circular(steady, n)
<1>1. Graph(steady)
  BY GraphTypes DEF Inv
<1>2. steady[n] = {}
  BY DEF Inv, Graphs, Below, Now, Succs
<1>. QED BY <1>1, <1>2, CircularStep

LEMMA MissKeepsInv == ASSUME Inv, TypeOK', MissTask PROVE Inv'
<1>. DEFINE L == Len(calls)
<1>1. /\ L \in Nat \ {0} /\ Walking /\ calls # <<>> /\ calls \in Seq(Frame)
      /\ Callee = calls[L].list[calls[L].next] /\ Callee \in Names
      /\ calls[L].next \in 1 .. Len(calls[L].list)
  BY TopCall DEF MissTask, AtCall, Walking, Inv, TypeOK
<1>2. /\ Len(calls') = L /\ Walking'
      /\ \A k \in 1 .. L :
           /\ calls'[k].name = calls[k].name /\ calls'[k].list = calls[k].list
           /\ k < L => calls'[k].next = calls[k].next
           /\ k = L => calls'[k].next = calls[k].next + 1
  <2>1. calls' = Advance(calls)
    BY DEF MissTask
  <2>2. Len(calls') = L /\ calls' \in Seq(Frame)
    BY <1>1, <2>1, AdvanceStack
  <2>3. calls' # <<>>
    BY <1>1, <2>2
  <2>. QED BY <1>1, <2>1, <2>2, <2>3, AdvanceStack DEF Walking
<1>3. UNCHANGED <<cache, task, culprit, steady, ever, changes>> /\ Now' = Now
  BY DEF MissTask, Now
<1>4. unseen' = unseen \union {Callee} /\ visited' = visited \union {Callee}
      /\ cache[Callee] = Absent
  BY DEF MissTask
<1>5. \A k \in 1 .. L : calls[k].next \in Nat /\ Len(calls[k].list) \in Nat
  <2>1. \A k \in 1 .. L : calls[k] \in Frame
    BY <1>1
  <2>. QED BY <2>1 DEF Frame
<1>6. Graphs'
  BY <1>3, <1>4 DEF Inv, Graphs
<1>7. Reached'
  <2>1. Callee \in Reach(ever, {task})
    BY CalleeReached DEF MissTask
  <2>2. unseen' \subseteq Reach(ever, {task})
    BY <1>4, <2>1 DEF Inv, Reached
  <2>3. \A k \in 2 .. L : k \in 1 .. L
    BY <1>1
  <2>4. \A k \in 2 .. L : calls'[k].name \in Reach(ever, {task})
    BY <1>2, <2>3 DEF Inv, Reached
  <2>. QED BY <1>2, <1>3, <2>2, <2>4 DEF Reached
<1>8. Chained'
  <2>1. 1 \in 1 .. L /\ culprit = NoName /\ calls[1].list = <<task>>
    BY <1>1 DEF Inv, Chained
  <2>2. ASSUME NEW k \in 1 .. L PROVE calls'[k].next <= Len(calls'[k].list) + 1
    <3>1. calls[k].next <= Len(calls[k].list) + 1
      BY <1>1, <2>2 DEF Inv, Chained
    <3>2. CASE k = L
      <4>1. calls'[k].next = calls[k].next + 1 /\ calls'[k].list = calls[k].list
        BY <1>2, <2>2, <3>2
      <4>2. calls[k].next + 1 <= Len(calls[k].list) + 1
        BY <1>1, <1>5, <2>2, <3>2
      <4>. QED BY <4>1, <4>2
    <3>3. CASE k < L
      BY <1>2, <2>2, <3>1, <3>3
    <3>. QED BY <1>1, <2>2, <3>2, <3>3
  <2>3. ASSUME NEW k \in 1 .. L - 1
        PROVE  /\ calls'[k].next <= Len(calls'[k].list)
               /\ calls'[k].list[calls'[k].next] = calls'[k + 1].name
    <3>1. k \in 1 .. L /\ k + 1 \in 1 .. L /\ k < L
      BY <1>1, <2>3
    <3>2. /\ calls[k].next <= Len(calls[k].list)
          /\ calls[k].list[calls[k].next] = calls[k + 1].name
      BY <1>1, <2>3 DEF Inv, Chained
    <3>. QED BY <1>2, <3>1, <3>2
  <2>. QED BY <1>2, <1>3, <2>1, <2>2, <2>3 DEF Chained
<1>9. Marked'
  BY <1>1, <1>2, <1>3, <1>4 DEF Inv, Marked
<1>10. ListsTrue' /\ OnPath'
  <2>1. \A k \in 2 .. L : k \in 1 .. L
    BY <1>1
  <2>2. \A k \in 2 .. L : calls'[k].name = calls[k].name /\ calls'[k].list = calls[k].list
    BY <1>2, <2>1
  <2>3. ListsTrue'
    BY <1>2, <1>3, <2>2 DEF Inv, ListsTrue
  <2>4. OnPath'
    BY <1>2, <1>3, <2>2 DEF Inv, OnPath
  <2>. QED BY <2>3, <2>4
<1>11. PastClear'
  <2>1. ~Circular(steady, Callee)
    BY <1>1, <1>4, MissingIsClear
  <2>2. SUFFICES ASSUME NEW k \in 1 .. L, NEW i \in 1 .. calls'[k].next - 1
                 PROVE  ~Circular(steady, calls[k].list[i])
    BY <1>2, <1>3 DEF PastClear
  <2>3. (i \in 1 .. calls[k].next - 1) \/ (k = L /\ i = calls[k].next)
    <3>1. calls[k].next \in Nat /\ calls'[k].next \in Nat /\ (k = L \/ k < L)
      BY <1>1, <1>2, <1>5, <2>2
    <3>2. CASE k = L
      <4>1. calls'[k].next = calls[k].next + 1
        BY <1>2, <2>2, <3>2
      <4>2. i \in 1 .. calls[k].next - 1 \/ i = calls[k].next
        BY <2>2, <3>1, <4>1
      <4>. QED BY <3>2, <4>2
    <3>3. CASE k < L
      <4>1. calls'[k].next = calls[k].next
        BY <1>2, <2>2, <3>3
      <4>. QED BY <2>2, <3>1, <4>1
    <3>. QED BY <3>1, <3>2, <3>3
  <2>4. CASE i \in 1 .. calls[k].next - 1
    BY <2>2, <2>4 DEF Inv, PastClear
  <2>5. CASE k = L /\ i = calls[k].next
    BY <1>1, <2>1, <2>5
  <2>. QED BY <2>3, <2>4, <2>5
<1>12. NoCycleMissed' /\ CyclesAreReal'
  <2>1. culprit' = NoName
    BY <1>1, <1>3 DEF Inv, Chained
  <2>. QED BY <1>2, <2>1, CallAssumption DEF NoCycleMissed, CyclesAreReal, Accepts
<1>. QED BY <1>6, <1>7, <1>8, <1>9, <1>10, <1>11, <1>12 DEF Inv

LEMMA EnterKeepsInv == ASSUME Inv, TypeOK', EnterTask PROVE Inv'
<1>. DEFINE L == Len(calls)
            new == Call(Callee, cache[Callee])
<1>1. /\ L \in Nat \ {0} /\ Walking /\ calls # <<>> /\ calls \in Seq(Frame)
      /\ Callee = calls[L].list[calls[L].next] /\ Callee \in Names
      /\ calls[L].next \in 1 .. Len(calls[L].list)
  BY TopCall DEF EnterTask, AtCall, Walking, Inv, TypeOK
<1>2. /\ new \in Frame /\ new.name = Callee /\ new.list = cache[Callee] /\ new.next = 1
      /\ Succs(cache[Callee]) = Range(cache[Callee])
  BY <1>1, CallAssumption DEF EnterTask, Inv, TypeOK, Call, Frame, Succs
<1>3. /\ Len(calls') = L + 1 /\ Walking'
      /\ \A k \in 1 .. L : calls'[k] = calls[k]
      /\ calls'[L + 1] = new
  <2>1. calls' = Append(calls, new)
    BY DEF EnterTask
  <2>2. Len(calls') = L + 1 /\ calls' \in Seq(Frame)
    BY <1>1, <1>2, <2>1, AppendStack
  <2>3. calls' # <<>>
    BY <1>1, <2>2
  <2>4. (\A k \in 1 .. L : calls'[k] = calls[k]) /\ calls'[L + 1] = new
    BY <1>1, <1>2, <2>1, AppendStack
  <2>. QED BY <2>2, <2>3, <2>4 DEF Walking
<1>4. UNCHANGED <<cache, task, culprit, unseen, steady, ever, changes>> /\ Now' = Now
  BY DEF EnterTask, Now
<1>5. visited' = visited \union {Callee}
  BY DEF EnterTask
<1>6. /\ Callee \in Reach(ever, {task})
      /\ \A i \in 2 .. L : Callee \in Reach(ever, ever[calls[i].name])
  BY CalleeReached DEF EnterTask
<1>. HIDE DEF new
<1>7. \A k \in 1 .. L + 1 : k \in 1 .. L \/ k = L + 1
  BY <1>1
<1>8. Graphs'
  BY <1>4 DEF Inv, Graphs
<1>9. Reached'
  <2>1. \A k \in 2 .. L + 1 : (k \in 2 .. L /\ k \in 1 .. L) \/ k = L + 1
    BY <1>1
  <2>2. \A k \in 2 .. L + 1 : calls'[k].name \in Reach(ever, {task})
    BY <1>2, <1>3, <1>6, <2>1 DEF Inv, Reached
  <2>. QED BY <1>3, <1>4, <2>2 DEF Inv, Reached
<1>10. Chained'
  <2>1. Len(new.list) \in Nat
    BY <1>2 DEF Frame
  <2>2. culprit' = NoName /\ calls'[1].list = <<task'>>
    BY <1>1, <1>3, <1>4 DEF Inv, Chained
  <2>3. \A k \in 1 .. L + 1 : calls'[k].next <= Len(calls'[k].list) + 1
    <3>1. \A k \in 1 .. L : calls[k].next <= Len(calls[k].list) + 1
      BY <1>1 DEF Inv, Chained
    <3>2. 1 <= Len(new.list) + 1
      BY <2>1
    <3>. QED BY <1>2, <1>3, <1>7, <3>1, <3>2
  <2>4. ASSUME NEW k \in 1 .. L
        PROVE  /\ calls'[k].next <= Len(calls'[k].list)
               /\ calls'[k].list[calls'[k].next] = calls'[k + 1].name
    <3>1. CASE k = L
      BY <1>1, <1>2, <1>3, <3>1
    <3>2. CASE k < L
      <4>1. k \in 1 .. L - 1 /\ k + 1 \in 1 .. L
        BY <1>1, <2>4, <3>2
      <4>. QED BY <1>1, <1>3, <2>4, <4>1 DEF Inv, Chained
    <3>. QED BY <1>1, <2>4, <3>1, <3>2
  <2>5. L + 1 - 1 = L
    BY <1>1
  <2>. QED BY <1>3, <2>2, <2>3, <2>4, <2>5 DEF Chained
<1>11. Marked'
  BY <1>1, <1>2, <1>3, <1>4, <1>5 DEF Inv, Marked
<1>12. ListsTrue'
  <2>1. steady[Callee] \subseteq Succs(cache[Callee]) /\ Succs(cache[Callee]) \subseteq ever[Callee]
    BY <1>1 DEF Inv, Graphs, Below, Now
  <2>2. \A k \in 2 .. L + 1 : (k \in 2 .. L /\ k \in 1 .. L) \/ k = L + 1
    BY <1>1
  <2>3. \A k \in 2 .. L + 1 :
          /\ steady[calls'[k].name] \subseteq Range(calls'[k].list)
          /\ Range(calls'[k].list) \subseteq ever[calls'[k].name]
    <3>1. SUFFICES ASSUME NEW k \in 2 .. L + 1
                   PROVE  /\ steady[calls'[k].name] \subseteq Range(calls'[k].list)
                          /\ Range(calls'[k].list) \subseteq ever[calls'[k].name]
      OBVIOUS
    <3>2. CASE k = L + 1
      BY <1>2, <1>3, <2>1, <3>2
    <3>3. CASE k \in 2 .. L /\ k \in 1 .. L
      BY <1>3, <3>3 DEF Inv, ListsTrue
    <3>. QED BY <2>2, <3>1, <3>2, <3>3
  <2>. QED BY <1>3, <1>4, <2>3 DEF ListsTrue
<1>13. OnPath'
  <2>1. SUFFICES ASSUME NEW i \in 2 .. L + 1, NEW j \in 2 .. L + 1, i < j
                 PROVE  calls'[j].name \in Reach(ever, ever[calls'[i].name])
    BY <1>3, <1>4 DEF OnPath
  <2>2. i \in 2 .. L /\ i \in 1 .. L /\ ((j \in 2 .. L /\ j \in 1 .. L) \/ j = L + 1)
    BY <1>1, <2>1
  <2>. QED BY <1>2, <1>3, <1>6, <2>1, <2>2 DEF Inv, OnPath
<1>14. PastClear'
  <2>1. 1 .. new.next - 1 = {}
    BY <1>2
  <2>. QED BY <1>3, <1>4, <1>7, <2>1 DEF Inv, PastClear
<1>15. NoCycleMissed' /\ CyclesAreReal'
  BY <1>1, <1>3, <1>4 DEF Inv, Chained, NoCycleMissed, CyclesAreReal, Accepts
<1>. QED BY <1>8, <1>9, <1>10, <1>11, <1>12, <1>13, <1>14, <1>15 DEF Inv

\* A call that has gone through its list has met no cycle of lasting Tasks.
LEMMA ListClear ==
  ASSUME Inv, Walking, ~AtCall
  PROVE  \A n \in Range(calls[Len(calls)].list) : ~Circular(steady, n)
<1>. DEFINE top == calls[Len(calls)]
<1>1. Len(calls) \in 1 .. Len(calls) /\ top \in Frame
  BY DEF Inv, TypeOK, Walking
<1>2. ~(top.next <= Len(top.list)) /\ top.next <= Len(top.list) + 1
  BY <1>1 DEF AtCall, Last, Inv, Chained
<1>3. top.list \in Seq(Names) /\ top.next \in Nat /\ Len(top.list) \in Nat
  BY <1>1 DEF Frame
<1>4. top.next = Len(top.list) + 1
  BY <1>2, <1>3
<1>5. ASSUME NEW i \in DOMAIN top.list PROVE ~Circular(steady, top.list[i])
  <2>1. i \in 1 .. top.next - 1
    BY <1>3, <1>4, <1>5
  <2>. QED BY <1>1, <2>1 DEF Inv, PastClear
<1>. QED BY <1>5 DEF Range

LEMMA LeaveKeepsInv == ASSUME Inv, TypeOK', LeaveTask PROVE Inv'
<1>. DEFINE L == Len(calls)
            M == L - 1
<1>1. /\ L \in Nat /\ M \in Nat \ {0} /\ L = M + 1 /\ M < L
      /\ calls # <<>> /\ Walking /\ calls \in Seq(Frame)
  <2>1. calls \in Seq(Frame) /\ L > 1
    BY DEF LeaveTask, Inv, TypeOK
  <2>2. L \in Nat
    BY <2>1
  <2>3. M \in Nat \ {0} /\ L = M + 1 /\ M < L
    BY <2>1, <2>2
  <2>4. calls # <<>>
    BY <2>1
  <2>. QED BY <2>1, <2>2, <2>3, <2>4 DEF Walking
<1>2. /\ Len(calls') = M /\ Walking' /\ calls' \in Seq(Frame)
      /\ \A k \in 1 .. M :
           /\ calls'[k].name = calls[k].name /\ calls'[k].list = calls[k].list
           /\ k < M => calls'[k].next = calls[k].next
           /\ k = M => calls'[k].next = calls[k].next + 1
  <2>1. /\ Front(calls) \in Seq(Frame) /\ Front(calls) # <<>> /\ Len(Front(calls)) = M
        /\ \A k \in 1 .. M : Front(calls)[k] = calls[k]
    BY <1>1, FrontStack DEF LeaveTask
  <2>2. calls' = Advance(Front(calls))
    BY DEF LeaveTask
  <2>3. /\ Len(calls') = M /\ calls' \in Seq(Frame)
        /\ \A k \in 1 .. M :
             /\ calls'[k].name = Front(calls)[k].name
             /\ calls'[k].list = Front(calls)[k].list
             /\ k < M => calls'[k].next = Front(calls)[k].next
             /\ k = M => calls'[k].next = Front(calls)[k].next + 1
    BY <2>1, <2>2, AdvanceStack
  <2>4. calls' # <<>>
    BY <1>1, <2>3
  <2>5. Walking'
    BY <2>4 DEF Walking
  <2>. QED BY <2>1, <2>3, <2>5
<1>3. UNCHANGED <<cache, task, culprit, unseen, steady, ever, changes>> /\ Now' = Now
  BY DEF LeaveTask, Now
<1>4. visited' = visited \ {calls[L].name}
  BY DEF LeaveTask, Last, Cleared
<1>5. \A k \in 1 .. L :
        /\ calls[k] \in Frame /\ calls[k].next \in Nat /\ Len(calls[k].list) \in Nat
  <2>1. \A k \in 1 .. L : calls[k] \in Frame
    BY <1>1
  <2>. QED BY <2>1 DEF Frame
<1>6. /\ calls[M].next <= Len(calls[M].list)
      /\ calls[M].list[calls[M].next] = calls[L].name
  <2>1. M \in 1 .. L - 1
    BY <1>1
  <2>. QED BY <1>1, <2>1 DEF Inv, Chained
<1>7. ~Circular(steady, calls[L].name)
  <2>1. \A n \in Range(calls[L].list) : ~Circular(steady, n)
    BY <1>1, ListClear DEF LeaveTask
  <2>2. L \in 2 .. L /\ L \in 1 .. L
    BY <1>1
  <2>3. steady[calls[L].name] \subseteq Range(calls[L].list)
    BY <2>2 DEF Inv, ListsTrue
  <2>4. calls[L].name \in Names
    BY <1>5, <2>2 DEF Frame
  <2>5. Graph(steady)
    BY GraphTypes DEF Inv
  <2>. QED BY <2>1, <2>3, <2>4, <2>5, CircularStep
<1>8. /\ \A k \in 2 .. M : k \in 1 .. M /\ k \in 2 .. L
      /\ \A k \in 1 .. M : k \in 1 .. L /\ (k = M \/ k < M)
  <2>1. \A l \in Nat, m \in Nat : \A k \in 1 .. m :
          l = m + 1 => k \in 1 .. l /\ (k = m \/ k < m) /\ (k >= 2 => k \in 2 .. l)
    OBVIOUS
  <2>2. \A m \in Nat : \A k \in 2 .. m : k \in 1 .. m /\ k >= 2
    OBVIOUS
  <2>. HIDE DEF L, M
  <2>3. L \in Nat /\ M \in Nat /\ L = M + 1
    BY <1>1
  <2>. QED BY <2>1, <2>2, <2>3
<1>9. \A k \in 2 .. M : calls'[k].name = calls[k].name /\ calls'[k].list = calls[k].list
  BY <1>2, <1>8
<1>10. Graphs'
  BY <1>3 DEF Inv, Graphs
<1>11. Reached'
  BY <1>2, <1>3, <1>8, <1>9 DEF Inv, Reached
<1>12. Chained'
  <2>1. 1 \in 1 .. M /\ culprit = NoName /\ calls[1].list = <<task>>
    BY <1>1 DEF Inv, Chained
  <2>2. ASSUME NEW k \in 1 .. M PROVE calls'[k].next <= Len(calls'[k].list) + 1
    <3>1. CASE k = M
      <4>1. calls'[k].next = calls[k].next + 1 /\ calls'[k].list = calls[k].list
        BY <1>2, <2>2, <3>1
      <4>2. calls[k].next + 1 <= Len(calls[k].list) + 1
        BY <1>5, <1>6, <1>8, <2>2, <3>1
      <4>. QED BY <4>1, <4>2
    <3>2. CASE k < M
      <4>1. calls[k].next <= Len(calls[k].list) + 1
        BY <1>1, <1>8, <2>2 DEF Inv, Chained
      <4>. QED BY <1>2, <2>2, <3>2, <4>1
    <3>. QED BY <1>8, <2>2, <3>1, <3>2
  <2>3. ASSUME NEW k \in 1 .. M - 1
        PROVE  /\ calls'[k].next <= Len(calls'[k].list)
               /\ calls'[k].list[calls'[k].next] = calls'[k + 1].name
    <3>1. k \in 1 .. M /\ k + 1 \in 1 .. M /\ k < M /\ k \in 1 .. L - 1
      BY <1>1, <2>3
    <3>2. /\ calls[k].next <= Len(calls[k].list)
          /\ calls[k].list[calls[k].next] = calls[k + 1].name
      BY <1>1, <3>1 DEF Inv, Chained
    <3>. QED BY <1>2, <3>1, <3>2
  <2>. QED BY <1>2, <1>3, <2>1, <2>2, <2>3 DEF Chained
<1>13. Marked'
  <2>1. SUFFICES ASSUME NEW n \in visited \ unseen, n # calls[L].name
                 PROVE  \E k \in 2 .. M : calls[k].name = n
    BY <1>2, <1>3, <1>4, <1>9 DEF Marked
  <2>2. PICK k \in 2 .. L : calls[k].name = n
    BY <1>1, <2>1 DEF Inv, Marked
  <2>3. k \in 2 .. M
    BY <1>1, <2>1, <2>2
  <2>. QED BY <2>2, <2>3
<1>14. ListsTrue' /\ OnPath'
  <2>1. ListsTrue'
    BY <1>2, <1>3, <1>8, <1>9 DEF Inv, ListsTrue
  <2>2. OnPath'
    BY <1>2, <1>3, <1>8, <1>9 DEF Inv, OnPath
  <2>. QED BY <2>1, <2>2
<1>15. PastClear'
  <2>1. SUFFICES ASSUME NEW k \in 1 .. M, NEW i \in 1 .. calls'[k].next - 1
                 PROVE  ~Circular(steady, calls[k].list[i])
    BY <1>2, <1>3 DEF PastClear
  <2>2. calls'[k].next \in Nat
    <3>1. calls'[k] \in Frame
      BY <1>2, <2>1
    <3>. QED BY <3>1 DEF Frame
  <2>3. k \in 1 .. L /\ calls[k].next \in Nat /\ (k = M \/ k < M)
    BY <1>5, <1>8, <2>1
  <2>4. (i \in 1 .. calls[k].next - 1) \/ (k = M /\ i = calls[k].next)
    <3>1. CASE k = M
      <4>1. calls'[k].next = calls[k].next + 1
        BY <1>2, <2>1, <3>1
      <4>2. i \in 1 .. calls[k].next - 1 \/ i = calls[k].next
        BY <2>1, <2>2, <2>3, <4>1
      <4>. QED BY <3>1, <4>2
    <3>2. CASE k < M
      <4>1. calls'[k].next = calls[k].next
        BY <1>2, <2>1, <3>2
      <4>. QED BY <2>1, <2>2, <2>3, <4>1
    <3>. QED BY <2>3, <3>1, <3>2
  <2>5. CASE i \in 1 .. calls[k].next - 1
    BY <2>3, <2>5 DEF Inv, PastClear
  <2>6. CASE k = M /\ i = calls[k].next
    BY <1>6, <1>7, <2>6
  <2>. QED BY <2>4, <2>5, <2>6
<1>16. NoCycleMissed' /\ CyclesAreReal'
  <2>1. culprit' = NoName
    BY <1>1, <1>3 DEF Inv, Chained
  <2>. QED BY <1>2, <2>1, CallAssumption DEF NoCycleMissed, CyclesAreReal, Accepts
<1>. QED BY <1>10, <1>11, <1>12, <1>13, <1>14, <1>15, <1>16 DEF Inv

LEMMA FinishKeepsInv == ASSUME Inv, TypeOK', Finish PROVE Inv'
<1>1. calls' = <<>> /\ Len(calls') = 0 /\ ~Walking'
  BY DEF Finish, Walking
<1>2. UNCHANGED <<cache, task, visited, culprit, unseen, steady, ever, changes>>
  BY DEF Finish
<1>3. Now' = Now
  BY <1>2 DEF Now
<1>4. Walking /\ Len(calls) = 1 /\ calls[1].list = <<task>> /\ culprit = NoName
  <2>1. Walking
    BY DEF Finish, Walking
  <2>. QED BY <2>1 DEF Finish, Inv, Chained
<1>5. Graphs' /\ Reached' /\ Chained' /\ Marked' /\ ListsTrue' /\ OnPath' /\ PastClear'
  <2>1. 1 .. Len(calls') = {} /\ 2 .. Len(calls') = {}
    BY <1>1
  <2>2. Graphs' /\ Chained' /\ Marked'
    BY <1>1, <1>2, <1>3 DEF Inv, Graphs, Chained, Marked
  <2>3. Reached'
    BY <1>2, <2>1 DEF Inv, Reached
  <2>. QED BY <2>1, <2>2, <2>3 DEF ListsTrue, OnPath, PastClear
<1>6. NoCycleMissed'
  <2>1. task \in Range(calls[Len(calls)].list)
    BY <1>4 DEF Range
  <2>2. ~Circular(steady, task)
    BY <1>4, <2>1, ListClear DEF Finish
  <2>. QED BY <1>2, <2>2 DEF NoCycleMissed
<1>7. CyclesAreReal'
  BY <1>2, <1>4, CallAssumption DEF CyclesAreReal
<1>. QED BY <1>5, <1>6, <1>7 DEF Inv

LEMMA CreateKeepsInv ==
  ASSUME Inv, TypeOK', NEW n \in Names, NEW list \in Lists, Create(n, list)
  PROVE  Inv'
<1>1. /\ UNCHANGED <<task, calls, visited, culprit, unseen, steady>>
      /\ cache[n] = Absent /\ changes' = changes + 1
      /\ cache' = [cache EXCEPT ![n] = list]
      /\ ever' = [ever EXCEPT ![n] = @ \union Succs(list)]
  BY DEF Create
<1>2. /\ cache \in [Names -> Lists \union {Absent}] /\ changes \in Nat
      /\ ever \in [Names -> SUBSET Names]
  BY CallAssumption DEF Inv, TypeOK
<1>3. Graph(steady) /\ Graph(ever) /\ Graph(ever') /\ task \in Names
  <2>1. Graph(ever')
    BY DEF TypeOK, Graph
  <2>. QED BY <2>1, GraphTypes DEF Inv
<1>4. Below(ever, ever')
  BY <1>1, <1>2 DEF Below
<1>5. Walking' = Walking
  BY <1>1 DEF Walking
<1>6. Graphs'
  <2>1. changes' # 0
    BY <1>1, <1>2
  <2>2. \A m \in Names : Now'[m] = IF m = n THEN Succs(list) ELSE Now[m]
    BY <1>1, <1>2 DEF Now
  <2>3. steady[n] = {}
    BY <1>1 DEF Inv, Graphs, Below, Now, Succs
  <2>4. Below(steady, Now) /\ Below(Now, ever)
    BY DEF Inv, Graphs
  <2>5. Below(steady, Now)'
    BY <1>1, <2>2, <2>3, <2>4 DEF Below
  <2>6. Below(Now, ever)'
    BY <1>1, <1>2, <2>2, <2>4 DEF Below
  <2>. QED BY <2>1, <2>5, <2>6 DEF Graphs
<1>7. Reach(ever, {task}) \subseteq Reach(ever', {task})
  BY <1>3, <1>4, ReachGrows
<1>8. \A k \in 2 .. Len(calls) : calls[k].name \in Names
  BY ReachIsNames DEF Inv, Reached
<1>9. \A m \in Names : Reach(ever, ever[m]) \subseteq Reach(ever', ever'[m])
  <2>1. SUFFICES ASSUME NEW m \in Names PROVE Reach(ever, ever[m]) \subseteq Reach(ever', ever'[m])
    OBVIOUS
  <2>2. ever'[m] \in SUBSET Names /\ ever[m] \subseteq ever'[m]
    BY <1>3, <1>4 DEF Graph, Below
  <2>. QED BY <1>3, <1>4, <2>2, ReachGrows
<1>10. Reached'
  BY <1>1, <1>7 DEF Inv, Reached
<1>11. Chained' /\ Marked' /\ PastClear'
  BY <1>1, <1>5 DEF Inv, Chained, Marked, PastClear
<1>12. ListsTrue'
  BY <1>1, <1>4, <1>8 DEF Inv, ListsTrue, Below
<1>13. OnPath'
  BY <1>1, <1>8, <1>9 DEF Inv, OnPath
<1>14. NoCycleMissed'
  BY <1>1, <1>5 DEF Inv, NoCycleMissed, Accepts
<1>15. CyclesAreReal'
  <2>1. SUFFICES ASSUME culprit \in Names \ unseen
                 PROVE  culprit \in Reach(ever', {task}) /\ OnCycle(ever', culprit)
    BY <1>1 DEF CyclesAreReal
  <2>2. culprit \in Reach(ever, {task}) /\ OnCycle(ever, culprit)
    BY <2>1 DEF Inv, CyclesAreReal
  <2>. QED BY <1>3, <1>4, <1>7, <2>1, <2>2, OnCycleGrows
<1>. QED BY <1>6, <1>10, <1>11, <1>12, <1>13, <1>14, <1>15 DEF Inv

LEMMA DeleteKeepsInv == ASSUME Inv, TypeOK', NEW n \in Names, Delete(n) PROVE Inv'
<1>1. /\ UNCHANGED <<task, calls, visited, culprit, unseen, ever>>
      /\ changes' = changes + 1
      /\ cache' = [cache EXCEPT ![n] = Absent]
      /\ steady' = [steady EXCEPT ![n] = {}]
  BY DEF Delete
<1>2. /\ cache \in [Names -> Lists \union {Absent}] /\ changes \in Nat
      /\ steady \in [Names -> SUBSET Names] /\ calls \in Seq(Frame) /\ task \in Names
  BY CallAssumption DEF Inv, TypeOK
<1>3. Graph(steady) /\ Graph(ever)
  BY GraphTypes DEF Inv
<1>4. Below(steady', steady)
  BY <1>1, <1>2 DEF Below
<1>5. \A m \in Names : ~Circular(steady, m) => ~Circular(steady', m)
  BY <1>3, <1>4, CircularGrows
<1>6. Walking' = Walking
  BY <1>1 DEF Walking
<1>7. Graphs'
  <2>1. changes' # 0
    BY <1>1, <1>2
  <2>2. \A m \in Names : Now'[m] = IF m = n THEN {} ELSE Now[m]
    BY <1>1, <1>2 DEF Now, Succs
  <2>3. Below(steady, Now) /\ Below(Now, ever)
    BY DEF Inv, Graphs
  <2>4. Below(steady, Now)'
    BY <1>1, <1>2, <2>2, <2>3 DEF Below
  <2>5. Below(Now, ever)'
    BY <1>1, <2>2, <2>3 DEF Below
  <2>. QED BY <2>1, <2>4, <2>5 DEF Graphs
<1>8. Reached' /\ Chained' /\ Marked' /\ OnPath' /\ CyclesAreReal'
  BY <1>1, <1>6 DEF Inv, Reached, Chained, Marked, OnPath, CyclesAreReal
<1>9. ListsTrue'
  <2>1. \A k \in 2 .. Len(calls) : calls[k].name \in Names
    BY ReachIsNames DEF Inv, Reached
  <2>. QED BY <1>1, <1>4, <2>1 DEF Inv, ListsTrue, Below
<1>10. PastClear'
  <2>1. SUFFICES ASSUME NEW k \in 1 .. Len(calls), NEW i \in 1 .. calls[k].next - 1
                 PROVE  ~Circular(steady', calls[k].list[i])
    BY <1>1 DEF PastClear
  <2>2. ~Circular(steady, calls[k].list[i])
    BY <2>1 DEF Inv, PastClear
  <2>3. calls[k].list[i] \in Names
    <3>1. calls[k] \in Frame
      BY <1>2, <2>1
    <3>2. /\ calls[k].list \in Seq(Names) /\ calls[k].next \in Nat
          /\ Len(calls[k].list) \in Nat
      BY <3>1 DEF Frame
    <3>3. calls[k].next <= Len(calls[k].list) + 1
      <4>1. Walking
        BY <2>1 DEF Walking
      <4>. QED BY <2>1, <4>1 DEF Inv, Chained
    <3>4. i \in 1 .. Len(calls[k].list)
      BY <2>1, <3>2, <3>3
    <3>. QED BY <3>2, <3>4
  <2>. QED BY <1>5, <2>2, <2>3
<1>11. NoCycleMissed'
  BY <1>1, <1>2, <1>5, <1>6 DEF Inv, NoCycleMissed, Accepts
<1>. QED BY <1>7, <1>8, <1>9, <1>10, <1>11 DEF Inv

LEMMA StutterKeepsInv == ASSUME Inv, UNCHANGED vars PROVE Inv'
<1>1. Walking' = Walking /\ Now' = Now
  BY DEF vars, Walking, Now
<1>2. TypeOK' /\ Graphs' /\ Reached'
  BY <1>1 DEF Inv, vars, TypeOK, Graphs, Reached
<1>3. Chained' /\ Marked' /\ ListsTrue' /\ OnPath' /\ PastClear'
  BY <1>1 DEF Inv, vars, Chained, Marked, ListsTrue, OnPath, PastClear
<1>4. NoCycleMissed' /\ CyclesAreReal'
  BY <1>1 DEF Inv, vars, NoCycleMissed, CyclesAreReal, Accepts
<1>. QED BY <1>2, <1>3, <1>4 DEF Inv

LEMMA InvStep == Inv /\ [Next]_vars => Inv'
<1>1. SUFFICES ASSUME Inv, [Next]_vars PROVE Inv'
  OBVIOUS
<1>2. TypeOK'
  BY <1>1, TypeStep DEF Inv
<1>3. CASE ReportCycle
  BY <1>1, <1>2, <1>3, ReportKeepsInv
<1>4. CASE MissTask
  BY <1>1, <1>2, <1>4, MissKeepsInv
<1>5. CASE EnterTask
  BY <1>1, <1>2, <1>5, EnterKeepsInv
<1>6. CASE LeaveTask
  BY <1>1, <1>2, <1>6, LeaveKeepsInv
<1>7. CASE Finish
  BY <1>1, <1>2, <1>7, FinishKeepsInv
<1>8. CASE CacheChange
  BY <1>1, <1>2, <1>8, CreateKeepsInv, DeleteKeepsInv DEF CacheChange
<1>9. CASE UNCHANGED vars
  BY <1>1, <1>9, StutterKeepsInv
<1>. QED BY <1>1, <1>3, <1>4, <1>5, <1>6, <1>7, <1>8, <1>9 DEF Next, Walk

LEMMA InvHolds == Spec => []Inv
  BY InvInit, InvStep, PTL DEF Spec

-----------------------------------------------------------------------------
(* What it gives.                                                          *)

\* In a cache that stood still the three graphs are one, and a missing Task is
\* one that is still missing: what is left is the cycles and nothing else.
LEMMA ExactWhenComplete == Inv => CompleteGraphExact
<1>1. SUFFICES ASSUME Inv, ~Walking, changes = 0,
                      \A n \in Reach(Now, {task}) : cache[n] # Absent
               PROVE  culprit # NoName <=> Circular(Now, task)
  BY DEF CompleteGraphExact
<1>2. steady = Now /\ ever = Now /\ \A n \in unseen : cache[n] = Absent
  BY <1>1 DEF Inv, Graphs
<1>3. CASE culprit = NoName
  BY <1>1, <1>2, <1>3 DEF Inv, NoCycleMissed, Accepts
<1>4. CASE culprit # NoName
  <2>1. culprit \in Names
    BY <1>1, <1>4 DEF Inv, TypeOK
  <2>2. culprit \notin unseen
    BY <1>1, <1>2 DEF Inv, Reached
  <2>3. culprit \in Reach(Now, {task}) /\ OnCycle(Now, culprit)
    BY <1>1, <1>2, <2>1, <2>2 DEF Inv, CyclesAreReal
  <2>. QED BY <1>4, <2>3 DEF Circular
<1>. QED BY <1>3, <1>4

\* detectCycle can be relied on, for every graph and whatever is created and
\* deleted while it walks: no cycle of Tasks that are there throughout is missed,
\* a name is reported for a cycle back to it or because its Task was missing, and
\* in a complete graph that stands still the report is exact.
THEOREM WalkCorrect == Spec => []WalkExact
<1>1. Inv => WalkExact
  BY ExactWhenComplete DEF Inv, WalkExact
<1>. QED BY <1>1, InvHolds, PTL
=============================================================================
