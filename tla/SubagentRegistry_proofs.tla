---------------------- MODULE SubagentRegistry_proofs ----------------------
(***************************************************************************)
(* Proofs about the subagent registry, for every number of chats,          *)
(* subagents, runs, slots and levels.                                      *)
(***************************************************************************)
EXTENDS SubagentRegistry, FiniteSetTheorems, TLAPS

USE DEF registryVars

(* Setting a status leaves a table of records a table of records.          *)
LEMMA StatusTyped ==
    ASSUME NEW f \in [AgentIds -> Agents], NEW a \in AgentIds,
           NEW status \in Live \union Final
    PROVE  [f EXCEPT ![a].status = status] \in [AgentIds -> Agents]
<1>1. [f[a] EXCEPT !.status = status] \in Agents
  BY DEF Agents
<1>2. QED
  BY <1>1

(* Each field of a record has its type.                                    *)
LEMMA RecordTyped ==
    ASSUME TypeOK, NEW a \in AgentIds
    PROVE  /\ agents[a] \in Agents
           /\ agents[a].chat \in Chats \union {None}
           /\ agents[a].parent \in AgentIds \union {None}
           /\ agents[a].depth \in 0..MaxDepth
           /\ agents[a].run \in RunIds \union {None}
<1>1. agents[a] \in Agents
  BY DEF TypeOK
<1>2. QED
  BY <1>1 DEF Agents

(* The sender's depth is a depth, and its record, if any, a subagent's.    *)
LEMMA CallerTyped ==
    ASSUME TypeOK, NEW s
    PROVE  /\ Caller(s) \in AgentIds \union {None}
           /\ Caller(s) # None => Caller(s) = s /\ s \in AgentIds /\ Present(s)
           /\ CallerDepth(s) \in 0..MaxDepth
<1>1. CASE s \in AgentIds
  BY <1>1, RecordTyped, LimitAssumption DEF Caller, CallerDepth
<1>2. CASE s \notin AgentIds
  BY <1>2, LimitAssumption DEF Caller, CallerDepth
<1>3. QED
  BY <1>1, <1>2

(* Adding a message to a mailbox leaves the mailboxes typed.               *)
LEMMA MailTyped ==
    ASSUME mailbox \in [Sessions -> Seq(Mail)], NEW s, NEW m \in Mail
    PROVE  [mailbox EXCEPT ![s] = Append(@, m)] \in [Sessions -> Seq(Mail)]
<1>1. CASE s \in Sessions
  <2>1. Append(mailbox[s], m) \in Seq(Mail)
    BY <1>1
  <2>2. QED
    BY <1>1, <2>1, Zenon
<1>2. CASE s \notin Sessions
  BY <1>2
<1>3. QED
  BY <1>1, <1>2

(* No call leaves a record, a mailbox or a run link outside its type       *)
(* (multi_agent.rs, every method of the registry).                         *)
LEMMA TypedStep == TypeOK /\ [Next]_registryVars => TypeOK'
<1> SUFFICES ASSUME TypeOK, [Next]_registryVars PROVE TypeOK'
  OBVIOUS
<1> USE IdAssumption, LimitAssumption DEF TypeOK, Live, Final
<1>1. ASSUME NEW a \in AgentIds, NEW c \in Chats, NEW s \in Sessions,
             NEW p \in RunIds, Reserve(a, c, s, p)
      PROVE  TypeOK'
  <2>1. /\ Caller(s) \in AgentIds \union {None}
        /\ CallerDepth(s) + 1 \in 0..MaxDepth
    BY <1>1, CallerTyped DEF Reserve, DepthAllowed
  <2>2. [status |-> "Pending", chat |-> c, parent |-> Caller(s),
         parentRun |-> p, depth |-> CallerDepth(s) + 1, run |-> None] \in Agents
    BY <2>1 DEF Agents
  <2>3. QED
    BY <1>1, <2>2 DEF Reserve
<1>2. ASSUME NEW a \in AgentIds, NEW p \in RunIds, Restart(a, p)
      PROVE  TypeOK'
  <2>1. [agents[a] EXCEPT !.status = "Pending", !.run = None, !.parentRun = p] \in Agents
    BY RecordTyped DEF Agents
  <2>2. QED
    BY <1>2, <2>1 DEF Restart
<1>3. ASSUME NEW a \in AgentIds, NEW r \in RunIds, AttachRun(a, r)
      PROVE  TypeOK'
  <2>1. [agents[a] EXCEPT !.status = "Running", !.run = r] \in Agents
    BY RecordTyped DEF Agents
  <2>2. QED
    BY <1>3, <2>1 DEF AttachRun
<1>4. ASSUME NEW a \in AgentIds, FailReserved(a)
      PROVE  TypeOK'
  BY <1>4, StatusTyped DEF FailReserved
<1>5. ASSUME NEW a \in AgentIds, RequestStop(a)
      PROVE  TypeOK'
  BY <1>5, StatusTyped DEF RequestStop
<1>6. ASSUME NEW a \in AgentIds, SendMessage(a)
      PROVE  TypeOK'
  <2>1. [agents EXCEPT ![a].status = "Running"] \in [AgentIds -> Agents]
    BY StatusTyped
  <2>2. [mailbox EXCEPT ![a] = Append(@, [kind |-> "note", run |-> None])]
            \in [Sessions -> Seq(Mail)]
    <3>1. [kind |-> "note", run |-> None] \in Mail
      BY DEF Mail
    <3>2. mailbox \in [Sessions -> Seq(Mail)]
      OBVIOUS
    <3>3. QED
      BY <3>1, <3>2, MailTyped, Zenon
  <2>3. QED
    BY <1>6, <2>1, <2>2 DEF SendMessage
<1>7. ASSUME NEW r \in RunIds, NEW outcome \in Outcomes, CompleteRun(r, outcome)
      PROVE  TypeOK'
  <2> DEFINE a == runToAgent[r]
  <2>1. a \in AgentIds
    BY <1>7 DEF CompleteRun, CompletionApplies
  <2>2. EndStatus(a, outcome) \in Final
    BY DEF EndStatus, Outcomes
  <2>3. agents' \in [AgentIds -> Agents]
    BY <1>7, <2>1, <2>2, StatusTyped DEF CompleteRun
  <2>4. mailbox' \in [Sessions -> Seq(Mail)]
    <3> DEFINE kind == IF EndStatus(a, outcome) = "Completed" THEN "completed" ELSE "ended"
               m == [kind |-> kind, run |-> r]
    <3>1. m \in Mail
      BY DEF Mail
    <3>2. mailbox' = [mailbox EXCEPT ![Recipient(a)] = Append(@, m)]
      BY <1>7, Zenon DEF CompleteRun
    <3> HIDE DEF m
    <3>3. mailbox \in [Sessions -> Seq(Mail)]
      OBVIOUS
    <3>4. QED
      BY <3>1, <3>2, <3>3, MailTyped, Zenon
  <2>5. delivered' \in [RunIds -> Nat]
    BY <1>7 DEF CompleteRun
  <2>6. QED
    BY <1>7, <2>3, <2>4, <2>5 DEF CompleteRun
<1>8. ASSUME NEW s \in Sessions, Drain(s)
      PROVE  TypeOK'
  BY <1>8 DEF Drain
<1>9. ASSUME NEW c \in Chats, RemoveRoot(c)
      PROVE  TypeOK'
  <2>1. [Blank EXCEPT !.status = "removed"] \in Agents
    BY DEF Blank, Agents
  <2>2. QED
    BY <1>9, <2>1 DEF RemoveRoot
<1>10. ASSUME NEW n \in 1..MaxAgents, SetLimit(n)
       PROVE  TypeOK'
  BY <1>10 DEF SetLimit
<1>11. CASE UNCHANGED registryVars
  BY <1>11
<1>12. QED
  BY <1>1, <1>2, <1>3, <1>4, <1>5, <1>6, <1>7, <1>8, <1>9, <1>10, <1>11
     DEF Next, AgentStep, RunStep

(* An empty registry is typed.                                             *)
LEMMA TypedInit == Init => TypeOK
BY IdAssumption, LimitAssumption
   DEF Init, TypeOK, Live, Final, Blank, Sessions, Agents

(* The type invariant: whatever is called in whatever order, the four maps *)
(* of the registry stay typed.                                             *)
THEOREM TypeCorrect == Spec => []TypeOK
BY TypedInit, TypedStep, PTL DEF Spec
-----------------------------------------------------------------------------
(* The slot pool: what each method does to the set of live subagents       *)

(* The pool counts as the registry does.  (An instance carries its own     *)
(* copy of the operators its module extends.)                              *)
LEMMA SameCount == \A S : Pool!Cardinality(S) = Cardinality(S)
BY DEF Pool!Cardinality, Cardinality

(* A method that leaves the limit alone and makes no subagent live is a    *)
(* release (or a stutter) of the pool.                                     *)
LEMMA OnlyReleases ==
    ASSUME Active' \subseteq Active, UNCHANGED limit
    PROVE  Pool!Next
<1>1. Active' = Active \ (Active \ Active')
  OBVIOUS
<1>2. (Active \ Active') \in SUBSET Active
  OBVIOUS
<1>3. Pool!Release
  BY <1>1, <1>2, Zenon DEF Pool!Release
<1>4. QED
  BY <1>3 DEF Pool!Next

(* A method that gives a subagent without a slot one, when one is free, is *)
(* an acquisition.                                                         *)
LEMMA TakesOneSlot ==
    ASSUME NEW a \in AgentIds, a \notin Active, SlotFree,
           Active' = Active \union {a}, UNCHANGED limit
    PROVE  Pool!Next
<1>1. a \in AgentIds \ Active
  OBVIOUS
<1>2. Pool!Acquire
  BY <1>1, SameCount, Zenon DEF Pool!Acquire, SlotFree
<1>3. QED
  BY <1>2 DEF Pool!Next

(* Every call on the registry is a step of the slot pool.                  *)
LEMMA SlotStep ==
    ASSUME TypeOK, [Next]_registryVars
    PROVE  [Pool!Next]_(Pool!slotVars)
<1> USE DEF Active, Live, Final
<1>1. ASSUME NEW a \in AgentIds, NEW c \in Chats, NEW s \in Sessions,
             NEW p \in RunIds, Reserve(a, c, s, p)
      PROVE  Pool!Next
  <2>1. a \notin Active /\ Active' = Active \union {a}
    BY <1>1 DEF Reserve, TypeOK
  <2>2. QED
    BY <1>1, <2>1, TakesOneSlot DEF Reserve
<1>2. ASSUME NEW a \in AgentIds, NEW p \in RunIds, Restart(a, p)
      PROVE  Pool!Next
  <2>1. a \notin Active /\ Active' = Active \union {a}
    BY <1>2, RecordTyped DEF Restart, Restartable, TypeOK, Agents
  <2>2. QED
    BY <1>2, <2>1, TakesOneSlot DEF Restart, Restartable
<1>3. ASSUME NEW a \in AgentIds, NEW r \in RunIds, AttachRun(a, r)
      PROVE  Pool!Next
  BY <1>3, OnlyReleases DEF AttachRun, Attachable, TypeOK
<1>4. ASSUME NEW a \in AgentIds, FailReserved(a)
      PROVE  Pool!Next
  BY <1>4, OnlyReleases DEF FailReserved, TypeOK
<1>5. ASSUME NEW a \in AgentIds, RequestStop(a)
      PROVE  Pool!Next
  BY <1>5, OnlyReleases DEF RequestStop, TypeOK
<1>6. ASSUME NEW a \in AgentIds, SendMessage(a)
      PROVE  Pool!Next
  BY <1>6, OnlyReleases DEF SendMessage, Steerable, TypeOK
<1>7. ASSUME NEW r \in RunIds, NEW outcome \in Outcomes, CompleteRun(r, outcome)
      PROVE  Pool!Next
  BY <1>7, OnlyReleases DEF CompleteRun, CompletionApplies, TypeOK
<1>8. ASSUME NEW s \in Sessions, Drain(s)
      PROVE  Pool!Next
  BY <1>8, OnlyReleases DEF Drain
<1>9. ASSUME NEW c \in Chats, RemoveRoot(c)
      PROVE  Pool!Next
  BY <1>9, OnlyReleases DEF RemoveRoot, TypeOK, Blank
<1>10. ASSUME NEW n \in 1..MaxAgents, SetLimit(n)
       PROVE  Pool!Next
  BY <1>10 DEF SetLimit, Pool!Next, Pool!SetLimit
<1>11. CASE UNCHANGED registryVars
  BY <1>11 DEF Pool!slotVars
<1>12. QED
  BY <1>1, <1>2, <1>3, <1>4, <1>5, <1>6, <1>7, <1>8, <1>9, <1>10, <1>11
     DEF Next, AgentStep, RunStep

(* The registry implements the slot pool: reserve and restart take one     *)
(* free slot, and nothing else makes a subagent live.                      *)
THEOREM SlotPoolImplemented == Spec => ImplementsSlotPool
<1>1. Init => Pool!Init
  BY DEF Init, Pool!Init, Active, Live, Blank
<1>2. TypeOK /\ [Next]_registryVars => [Pool!Next]_(Pool!slotVars)
  BY SlotStep
<1>3. QED
  BY <1>1, <1>2, TypeCorrect, PTL DEF Spec, ImplementsSlotPool, Pool!Spec

(* Admission is inductive only together with the finiteness of the set it  *)
(* counts: there may be infinitely many subagent ids.                      *)
SlotsCounted ==
    /\ IsFiniteSet(Active)
    /\ Capacity

(* However reservations, restarts, stops, completions, deletions and       *)
(* settings changes interleave, the live subagents can be counted, and     *)
(* their number stays below the top of the clamp.                          *)
THEOREM SlotsAreCounted == Spec => []SlotsCounted
<1> USE LimitAssumption DEF SlotsCounted, Capacity
<1>1. Init => SlotsCounted
  <2>1. Init => Active = {}
    BY DEF Init, Active, Live, Blank
  <2>2. QED
    BY <2>1, FS_EmptySet
<1>2. TypeOK /\ SlotsCounted /\ [Next]_registryVars => SlotsCounted'
  <2> SUFFICES ASSUME TypeOK, SlotsCounted, [Next]_registryVars
               PROVE  SlotsCounted'
    OBVIOUS
  <2>1. [Pool!Next]_(Pool!slotVars)
    BY SlotStep
  <2>2. Cardinality(Active) \in Nat
    BY FS_CardinalityType
  <2>3. CASE Pool!Acquire
    <3>1. PICK w \in AgentIds \ Active : Active' = Active \union {w}
      BY <2>3 DEF Pool!Acquire
    <3>2. IsFiniteSet(Active') /\ Cardinality(Active') = Cardinality(Active) + 1
      BY <3>1, FS_AddElement
    <3>3. limit \in 1..MaxAgents
      BY DEF TypeOK
    <3>4. Cardinality(Active) < limit
      BY <2>3, SameCount, Zenon DEF Pool!Acquire
    <3>5. QED
      BY <2>2, <3>2, <3>3, <3>4
  <2>4. CASE Pool!Release
    <3>1. Active' \subseteq Active
      BY <2>4 DEF Pool!Release
    <3>2. IsFiniteSet(Active') /\ Cardinality(Active') <= Cardinality(Active)
      BY <3>1, FS_Subset
    <3>3. Cardinality(Active') \in Nat
      BY <3>2, FS_CardinalityType
    <3>4. QED
      BY <2>2, <3>2, <3>3
  <2>5. CASE Pool!SetLimit \/ UNCHANGED Pool!slotVars
    BY <2>5 DEF Pool!SetLimit, Pool!slotVars
  <2>6. QED
    BY <2>1, <2>3, <2>4, <2>5 DEF Pool!Next
<1>3. QED
  BY <1>1, <1>2, TypeCorrect, PTL DEF Spec

(* The live subagents never outnumber the top of the clamp.                *)
THEOREM CapacityHolds == Spec => []Capacity
<1>1. SlotsCounted => Capacity
  BY DEF SlotsCounted
<1>2. QED
  BY <1>1, SlotsAreCounted, PTL
-----------------------------------------------------------------------------
(* Runs and the records they end                                           *)

(* EveryRunFindsItsChild is inductive once a record's run is known to have *)
(* been issued: attach_run then never reuses another record's run.         *)
RunsLinked ==
    /\ EveryRunFindsItsChild
    /\ \A a \in AgentIds : agents[a].run # None => agents[a].run \in issued

(* A completion is delivered once because the record it ended stays ended  *)
(* as long as it carries the run.                                          *)
CompletionsSpent ==
    \A r \in RunIds :
        /\ delivered[r] = 0 \/ (delivered[r] = 1 /\ r \in issued)
        /\ delivered[r] = 1 =>
               \A a \in AgentIds : agents[a].run = r => agents[a].status \notin Live

(* One step preserves both.                                                *)
LEMMA RunStepsLinked ==
    ASSUME TypeOK, RunsLinked, [Next]_registryVars
    PROVE  RunsLinked'
<1> USE IdAssumption DEF RunsLinked, EveryRunFindsItsChild
<1>0. \A a \in AgentIds : agents[a].run \in RunIds \union {None}
  BY RecordTyped
<1>1. ASSUME NEW a \in AgentIds, NEW c \in Chats, NEW s \in Sessions,
             NEW p \in RunIds, Reserve(a, c, s, p)
      PROVE  RunsLinked'
  BY <1>1 DEF Reserve, TypeOK
<1>2. ASSUME NEW a \in AgentIds, NEW p \in RunIds, Restart(a, p)
      PROVE  RunsLinked'
  BY <1>2, RecordTyped DEF Restart, TypeOK, Agents
<1>3. ASSUME NEW a \in AgentIds, NEW r \in RunIds, AttachRun(a, r)
      PROVE  RunsLinked'
  <2>1. /\ agents'[a].status = "Running" /\ agents'[a].run = r
        /\ \A b \in AgentIds \ {a} : agents'[b] = agents[b]
    BY <1>3, RecordTyped DEF AttachRun, TypeOK, Agents
  <2>2. /\ runToAgent'[r] = a
        /\ \A q \in RunIds \ {r} : runToAgent'[q] = runToAgent[q]
        /\ issued' = issued \union {r} /\ r \notin issued
    BY <1>3 DEF AttachRun, TypeOK
  <2>3. QED
    BY <1>0, <2>1, <2>2
<1>4. ASSUME NEW a \in AgentIds, FailReserved(a)
      PROVE  RunsLinked'
  BY <1>4, RecordTyped DEF FailReserved, TypeOK, Agents
<1>5. ASSUME NEW a \in AgentIds, RequestStop(a)
      PROVE  RunsLinked'
  BY <1>5, RecordTyped DEF RequestStop, TypeOK, Agents
<1>6. ASSUME NEW a \in AgentIds, SendMessage(a)
      PROVE  RunsLinked'
  BY <1>6, RecordTyped DEF SendMessage, TypeOK, Agents
<1>7. ASSUME NEW r \in RunIds, NEW outcome \in Outcomes, CompleteRun(r, outcome)
      PROVE  RunsLinked'
  <2>1. EndStatus(runToAgent[r], outcome) # "Stopping"
    BY DEF EndStatus, Outcomes
  <2>2. QED
    BY <1>7, <2>1, RecordTyped DEF CompleteRun, CompletionApplies, TypeOK, Agents
<1>8. ASSUME NEW s \in Sessions, Drain(s)
      PROVE  RunsLinked'
  BY <1>8 DEF Drain
<1>9. ASSUME NEW c \in Chats, RemoveRoot(c)
      PROVE  RunsLinked'
  <2> DEFINE gone == {a \in AgentIds : Present(a) /\ agents[a].chat = c}
  <2>1. \A a \in AgentIds :
            agents'[a] = IF a \in gone THEN [Blank EXCEPT !.status = "removed"]
                                       ELSE agents[a]
    BY <1>9, Zenon DEF RemoveRoot
  <2>2. \A r \in RunIds :
            runToAgent'[r] = IF \E a \in gone : agents[a].run = r
                             THEN None ELSE runToAgent[r]
    BY <1>9, Zenon DEF RemoveRoot
  <2>3. issued' = issued
    BY <1>9 DEF RemoveRoot
  <2>4. \A a \in gone : agents'[a].run = None /\ agents'[a].status = "removed"
    BY <2>1 DEF Blank
  <2>5. \A a \in AgentIds \ gone : agents'[a] = agents[a]
    BY <2>1
  <2>6. gone \subseteq AgentIds
    OBVIOUS
  <2> HIDE DEF gone
  <2>7. QED
    BY <1>0, <2>2, <2>3, <2>4, <2>5, <2>6
<1>10. ASSUME NEW n \in 1..MaxAgents, SetLimit(n)
       PROVE  RunsLinked'
  BY <1>10 DEF SetLimit
<1>11. CASE UNCHANGED registryVars
  BY <1>11
<1>12. QED
  BY <1>1, <1>2, <1>3, <1>4, <1>5, <1>6, <1>7, <1>8, <1>9, <1>10, <1>11
     DEF Next, AgentStep, RunStep

(* The end of a live child's run always finds the child, so the slot it    *)
(* holds is given back.                                                    *)
THEOREM RunsFound == Spec => []EveryRunFindsItsChild
<1>1. Init => RunsLinked
  BY DEF Init, RunsLinked, EveryRunFindsItsChild, Blank
<1>2. TypeOK /\ RunsLinked /\ [Next]_registryVars => RunsLinked'
  BY RunStepsLinked
<1>3. RunsLinked => EveryRunFindsItsChild
  BY DEF RunsLinked
<1>4. QED
  BY <1>1, <1>2, <1>3, TypeCorrect, PTL DEF Spec
(* One step keeps a spent completion spent.                                *)
LEMMA CompletionStepsSpent ==
    ASSUME TypeOK, RunsLinked, CompletionsSpent, [Next]_registryVars
    PROVE  CompletionsSpent'
<1> USE IdAssumption DEF CompletionsSpent, Live, Final
<1>0. \A a \in AgentIds : agents[a].run \in RunIds \union {None}
  BY RecordTyped
<1>1. ASSUME NEW a \in AgentIds, NEW c \in Chats, NEW s \in Sessions,
             NEW p \in RunIds, Reserve(a, c, s, p)
      PROVE  CompletionsSpent'
  BY <1>1 DEF Reserve, TypeOK
<1>2. ASSUME NEW a \in AgentIds, NEW p \in RunIds, Restart(a, p)
      PROVE  CompletionsSpent'
  BY <1>2, RecordTyped DEF Restart, TypeOK, Agents
<1>3. ASSUME NEW a \in AgentIds, NEW r \in RunIds, AttachRun(a, r)
      PROVE  CompletionsSpent'
  <2>1. /\ agents'[a].run = r
        /\ \A b \in AgentIds \ {a} : agents'[b] = agents[b]
    BY <1>3, RecordTyped DEF AttachRun, TypeOK, Agents
  <2>2. issued' = issued \union {r} /\ r \notin issued /\ delivered' = delivered
    BY <1>3 DEF AttachRun
  <2>3. QED
    BY <2>1, <2>2
<1>4. ASSUME NEW a \in AgentIds, FailReserved(a)
      PROVE  CompletionsSpent'
  BY <1>4, RecordTyped DEF FailReserved, TypeOK, Agents
<1>5. ASSUME NEW a \in AgentIds, RequestStop(a)
      PROVE  CompletionsSpent'
  BY <1>5, RecordTyped DEF RequestStop, TypeOK, Agents
<1>6. ASSUME NEW a \in AgentIds, SendMessage(a)
      PROVE  CompletionsSpent'
  BY <1>6, RecordTyped DEF SendMessage, Steerable, TypeOK, Agents
<1>7. ASSUME NEW r \in RunIds, NEW outcome \in Outcomes, CompleteRun(r, outcome)
      PROVE  CompletionsSpent'
  <2> DEFINE a == runToAgent[r]
  <2>1. a \in AgentIds /\ agents[a].run = r /\ agents[a].status \in Live
    BY <1>7 DEF CompleteRun, CompletionApplies, TypeOK
  <2>2. \A b \in AgentIds : agents[b].run = r => b = a
    BY DEF RunsLinked, EveryRunFindsItsChild
  <2>3. delivered[r] = 0 /\ r \in issued
    BY <2>1 DEF RunsLinked
  <2>4. /\ agents'[a].run = r /\ agents'[a].status \notin Live
        /\ \A b \in AgentIds \ {a} : agents'[b] = agents[b]
    <3>1. EndStatus(a, outcome) \notin Live
      BY DEF EndStatus, Outcomes
    <3>2. agents' = [agents EXCEPT ![a].status = EndStatus(a, outcome)]
      BY <1>7 DEF CompleteRun
    <3> HIDE DEF a
    <3>3. QED
      BY <2>1, <3>1, <3>2, RecordTyped DEF TypeOK, Agents
  <2>5. /\ delivered'[r] = 1 /\ issued' = issued
        /\ \A q \in RunIds \ {r} : delivered'[q] = delivered[q]
    BY <1>7, <2>3 DEF CompleteRun, TypeOK
  <2> HIDE DEF a
  <2>6. QED
    BY <2>1, <2>2, <2>3, <2>4, <2>5
<1>8. ASSUME NEW s \in Sessions, Drain(s)
      PROVE  CompletionsSpent'
  BY <1>8 DEF Drain
<1>9. ASSUME NEW c \in Chats, RemoveRoot(c)
      PROVE  CompletionsSpent'
  BY <1>9 DEF RemoveRoot, Blank
<1>10. ASSUME NEW n \in 1..MaxAgents, SetLimit(n)
       PROVE  CompletionsSpent'
  BY <1>10 DEF SetLimit
<1>11. CASE UNCHANGED registryVars
  BY <1>11
<1>12. QED
  BY <1>1, <1>2, <1>3, <1>4, <1>5, <1>6, <1>7, <1>8, <1>9, <1>10, <1>11
     DEF Next, AgentStep, RunStep

(* However late or often a run reports its end, its completion reaches a   *)
(* mailbox at most once.                                                   *)
THEOREM DeliveredAtMostOnce == Spec => []DeliveredOnce
<1>1. Init => RunsLinked /\ CompletionsSpent
  BY DEF Init, RunsLinked, EveryRunFindsItsChild, CompletionsSpent, Blank
<1>2. TypeOK /\ RunsLinked /\ CompletionsSpent /\ [Next]_registryVars
          => RunsLinked' /\ CompletionsSpent'
  BY RunStepsLinked, CompletionStepsSpent
<1>3. CompletionsSpent => DeliveredOnce
  BY DEF CompletionsSpent, DeliveredOnce
<1>4. QED
  BY <1>1, <1>2, <1>3, TypeCorrect, PTL DEF Spec

-----------------------------------------------------------------------------
(* Reservations                                                            *)

(* A reservation nobody has attached a run to carries no run.              *)
PendingFree ==
    \A a \in AgentIds : agents[a].status = "Pending" => agents[a].run = None

(* A child waits for its run with no run of an earlier turn left on it.    *)
THEOREM PendingIsFree == Spec => []PendingFree
<1>1. Init => PendingFree
  BY DEF Init, Blank, PendingFree
<1>2. TypeOK /\ PendingFree /\ [Next]_registryVars => PendingFree'
  <2> SUFFICES ASSUME TypeOK, PendingFree, [Next]_registryVars PROVE PendingFree'
    OBVIOUS
  <2> USE DEF PendingFree, TypeOK, Agents
  <2>r. \A a \in AgentIds : agents[a] \in Agents
    OBVIOUS
  <2>1. ASSUME NEW a \in AgentIds, AgentStep(a)
        PROVE  PendingFree'
    <3>1. CASE \E c \in Chats, s \in Sessions, p \in RunIds : Reserve(a, c, s, p)
      BY <3>1 DEF Reserve
    <3>2. CASE \E p \in RunIds : Restart(a, p)
      BY <2>r, <3>2 DEF Restart
    <3>3. CASE \E r \in RunIds : AttachRun(a, r)
      BY <2>r, <3>3 DEF AttachRun
    <3>4. CASE FailReserved(a)
      BY <2>r, <3>4 DEF FailReserved
    <3>5. CASE RequestStop(a)
      BY <2>r, <3>5 DEF RequestStop
    <3>6. CASE SendMessage(a)
      BY <2>r, <3>6 DEF SendMessage
    <3>7. QED
      BY <2>1, <3>1, <3>2, <3>3, <3>4, <3>5, <3>6 DEF AgentStep
  <2>2. ASSUME NEW r \in RunIds, NEW outcome \in Outcomes, CompleteRun(r, outcome)
        PROVE  PendingFree'
    <3> DEFINE a == runToAgent[r]
               status == EndStatus(a, outcome)
    <3>1. a \in AgentIds /\ agents' = [agents EXCEPT ![a].status = status]
      BY <2>2 DEF CompleteRun, CompletionApplies
    <3>2. status \in Final
      BY DEF EndStatus, Outcomes, Final
    <3> HIDE DEF a, status
    <3>3. QED
      BY <2>r, <3>1, <3>2 DEF Final
  <2>3. ASSUME NEW c \in Chats, RemoveRoot(c)
        PROVE  PendingFree'
    BY <2>3 DEF RemoveRoot, Blank
  <2>4. QED
    BY <2>1, <2>2, <2>3 DEF Next, RunStep, Drain, SetLimit
<1>3. QED
  BY <1>1, <1>2, TypeCorrect, PTL DEF Spec

-----------------------------------------------------------------------------
(* The delegation tree                                                     *)

(* One step keeps the tree well formed.  A new child is nobody's parent; a *)
(* removed chat takes parent and child together.                           *)
LEMMA TreeStep ==
    ASSUME TypeOK, DelegationTree, [Next]_registryVars
    PROVE  DelegationTree'
<1> USE IdAssumption, LimitAssumption DEF DelegationTree, Present, Live, Final
<1>1. ASSUME NEW a \in AgentIds, NEW c \in Chats, NEW s \in Sessions,
             NEW p \in RunIds, Reserve(a, c, s, p)
      PROVE  DelegationTree'
  <2> DEFINE up == Caller(s)
  <2>1. /\ up \in AgentIds \union {None}
        /\ up # None => Present(up) /\ agents[up].chat = c /\ up # a
        /\ CallerDepth(s) \in 0..MaxDepth /\ CallerDepth(s) + 1 <= MaxDepth
        /\ CallerDepth(s) = IF up = None THEN 0 ELSE agents[up].depth
    BY <1>1, CallerTyped DEF Reserve, OwnChat, DepthAllowed, CallerDepth
  <2>2. /\ agents'[a] = [status |-> "Pending", chat |-> c, parent |-> up,
               parentRun |-> p, depth |-> CallerDepth(s) + 1, run |-> None]
        /\ \A b \in AgentIds \ {a} : agents'[b] = agents[b]
        /\ ~Present(a)
    BY <1>1 DEF Reserve, TypeOK
  <2> HIDE DEF up
  <2>3. \A b \in AgentIds : agents[b].parent \in AgentIds \union {None}
    BY RecordTyped
  <2>4. QED
    BY <2>1, <2>2, <2>3
<1>2. ASSUME NEW a \in AgentIds, NEW p \in RunIds, Restart(a, p)
      PROVE  DelegationTree'
  <2>1. /\ agents'[a].status = "Pending" /\ Present(a)
        /\ \A b \in AgentIds : /\ b # a => agents'[b] = agents[b]
                               /\ agents'[b].chat = agents[b].chat
                               /\ agents'[b].parent = agents[b].parent
                               /\ agents'[b].depth = agents[b].depth
    BY <1>2, RecordTyped DEF Restart, Restartable, TypeOK, Agents
  <2>2. QED
    BY <2>1, RecordTyped
<1>3. ASSUME \A b \in AgentIds : /\ Present(b) <=> Present(b)'
                                 /\ agents'[b].chat = agents[b].chat
                                 /\ agents'[b].parent = agents[b].parent
                                 /\ agents'[b].depth = agents[b].depth
      PROVE  DelegationTree'
  BY <1>3, RecordTyped
<1>4. ASSUME NEW a \in AgentIds, NEW r \in RunIds, AttachRun(a, r)
      PROVE  DelegationTree'
  BY <1>3, <1>4, RecordTyped DEF AttachRun, Attachable, TypeOK, Agents
<1>5. ASSUME NEW a \in AgentIds, FailReserved(a)
      PROVE  DelegationTree'
  BY <1>3, <1>5, RecordTyped DEF FailReserved, TypeOK, Agents
<1>6. ASSUME NEW a \in AgentIds, RequestStop(a)
      PROVE  DelegationTree'
  BY <1>3, <1>6, RecordTyped DEF RequestStop, TypeOK, Agents
<1>7. ASSUME NEW a \in AgentIds, SendMessage(a)
      PROVE  DelegationTree'
  BY <1>3, <1>7, RecordTyped DEF SendMessage, Steerable, TypeOK, Agents
<1>8. ASSUME NEW r \in RunIds, NEW outcome \in Outcomes, CompleteRun(r, outcome)
      PROVE  DelegationTree'
  <2>1. EndStatus(runToAgent[r], outcome) \in Final
    BY DEF EndStatus, Outcomes
  <2>2. QED
    BY <1>3, <1>8, <2>1, RecordTyped
       DEF CompleteRun, CompletionApplies, TypeOK, Agents
<1>9. ASSUME NEW s \in Sessions, Drain(s)
      PROVE  DelegationTree'
  BY <1>9 DEF Drain
<1>10. ASSUME NEW c \in Chats, RemoveRoot(c)
       PROVE  DelegationTree'
  <2>1. \A b \in AgentIds : Present(b)' => agents'[b] = agents[b] /\ agents[b].chat # c
    BY <1>10 DEF RemoveRoot, Blank, TypeOK
  <2>2. \A b \in AgentIds : Present(b) /\ agents[b].chat # c => agents'[b] = agents[b]
    BY <1>10 DEF RemoveRoot, TypeOK
  <2>3. QED
    BY <2>1, <2>2, RecordTyped
<1>11. ASSUME NEW n \in 1..MaxAgents, SetLimit(n)
       PROVE  DelegationTree'
  BY <1>11 DEF SetLimit
<1>12. CASE UNCHANGED registryVars
  BY <1>12
<1>13. QED
  BY <1>1, <1>2, <1>4, <1>5, <1>6, <1>7, <1>8, <1>9, <1>10, <1>11, <1>12
     DEF Next, AgentStep, RunStep

(* Every recorded child sits one level below a recorded parent of its own  *)
(* chat, and no delegation is deeper than the limit.                       *)
THEOREM TreeWellFormed == Spec => []DelegationTree
<1>1. Init => DelegationTree
  BY DEF Init, DelegationTree, Present, Live, Final, Blank
<1>2. TypeOK /\ DelegationTree /\ [Next]_registryVars => DelegationTree'
  BY TreeStep
<1>3. QED
  BY <1>1, <1>2, TypeCorrect, PTL DEF Spec

-----------------------------------------------------------------------------
(* A stop request                                                          *)

(* No call turns a stopping child back into a working one.                 *)
THEOREM StopNeverUndone == Spec => StopIsKept
<1> DEFINE Kept == \A a \in AgentIds :
               agents[a].status = "Stopping" =>
                   agents'[a].status \in {"Stopping", "Interrupted", "Failed", "removed"}
<1>1. ASSUME TypeOK, [Next]_registryVars
      PROVE  Kept
  <2> USE <1>1 DEF TypeOK, Live, Final
  <2>1. ASSUME NEW a \in AgentIds, AgentStep(a)
        PROVE  Kept
    <3>1. CASE \E c \in Chats, s \in Sessions, p \in RunIds : Reserve(a, c, s, p)
      BY <3>1 DEF Reserve
    <3>2. CASE \E p \in RunIds : Restart(a, p)
      BY <3>2 DEF Restart, Restartable
    <3>3. CASE \E r \in RunIds : AttachRun(a, r)
      BY <3>3 DEF AttachRun, Attachable
    <3>4. CASE FailReserved(a)
      BY <3>4, RecordTyped DEF FailReserved, Agents
    <3>5. CASE RequestStop(a)
      BY <3>5, RecordTyped DEF RequestStop, Agents
    <3>6. CASE SendMessage(a)
      BY <3>6 DEF SendMessage, Steerable
    <3>7. QED
      BY <2>1, <3>1, <3>2, <3>3, <3>4, <3>5, <3>6 DEF AgentStep
  <2>2. ASSUME NEW r \in RunIds, NEW outcome \in Outcomes, CompleteRun(r, outcome)
        PROVE  Kept
    <3> DEFINE a == runToAgent[r]
    <3>1. agents[a].status = "Stopping" => EndStatus(a, outcome) = "Interrupted"
      BY DEF EndStatus
    <3>2. a \in AgentIds /\ agents' = [agents EXCEPT ![a].status = EndStatus(a, outcome)]
      BY <2>2 DEF CompleteRun, CompletionApplies
    <3> HIDE DEF a
    <3>3. QED
      BY <3>1, <3>2, RecordTyped DEF Agents
  <2>3. ASSUME NEW c \in Chats, RemoveRoot(c)
        PROVE  Kept
    BY <2>3 DEF RemoveRoot, Blank
  <2>4. QED
    BY <1>1, <2>1, <2>2, <2>3 DEF Next, RunStep, Drain, SetLimit
<1>2. QED
  BY <1>1, TypeCorrect, PTL DEF Spec, StopIsKept
=============================================================================
