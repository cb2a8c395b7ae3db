-------------------------- MODULE Approvals_proofs --------------------------
(***************************************************************************)
(* Proofs about the approval gate, for every number of runs, tools,        *)
(* prompts and questions and every assignment of risks.                    *)
(***************************************************************************)
EXTENDS Approvals, TLAPS

USE DEF vars, callVars, promptVars, stopVars, Ids

(* A run on a prompt is at a call of a tool: TypeOK needs it, because the  *)
(* answer AllowSession puts that tool among the grants.                    *)
AskingForATool == \A r \in Runs : phase[r] = "asking" => tool[r] \in Tools

Typed == TypeOK /\ AskingForATool

(* Every step keeps both.                                                  *)
LEMMA TypedAlways == Spec => []Typed
<1> USE ApprovalsAssumption
    DEF Typed, TypeOK, AskingForATool, Phases, Waiting, Replies, Decisions, Allowing
<1>1. Init => Typed
  BY DEF Init
<1>2. Typed /\ [Next]_vars => Typed'
  <2> SUFFICES ASSUME Typed, [Next]_vars PROVE Typed'
    OBVIOUS
  <2>1. ASSUME NEW r \in Runs, Task(r) PROVE Typed'
    <3>1. ASSUME NEW t \in Tools \union {None}, Call(r, t) PROVE Typed'
      BY <3>1 DEF Call, Goto
    <3>2. CASE GateOpen(r)
      BY <3>2 DEF GateOpen, Goto
    <3>3. ASSUME NEW i \in Prompts, AskPermission(r, i) PROVE Typed'
      BY <3>3 DEF AskPermission, Goto
    <3>4. ASSUME NEW i \in Questions, AskOperator(r, i) PROVE Typed'
      BY <3>4 DEF AskOperator, Goto
    <3>5. CASE Decided(r)
      <4>1. grants' \in SUBSET Tools
        BY <3>5 DEF Decided
      <4>2. CASE reply[prompt[r]] \in Allowing
        BY <3>5, <4>1, <4>2 DEF Decided, Goto
      <4>3. CASE reply[prompt[r]] \notin Allowing
        BY <3>5, <4>1, <4>3 DEF Decided, CallEnds, Goto
      <4>4. QED
        BY <4>2, <4>3
    <3>6. CASE Ran(r)
      BY <3>6 DEF Ran, CallEnds, Goto
    <3>7. CASE Answered(r)
      BY <3>7 DEF Answered, QuestionEnds, CallEnds, Goto
    <3>8. CASE DeadlinePasses(r)
      BY <3>8 DEF DeadlinePasses, Goto
    <3>9. CASE DropChannel(r)
      BY <3>9 DEF DropChannel, Goto
    <3>10. CASE GiveUpAsking(r)
      BY <3>10 DEF GiveUpAsking, QuestionEnds, CallEnds, Goto, Forgotten
    <3>11. QED
      BY <2>1, <3>1, <3>2, <3>3, <3>4, <3>5, <3>6, <3>7, <3>8, <3>9, <3>10 DEF Task
  <2>2. ASSUME NEW r \in Runs, Cancellation(r) PROVE Typed'
    <3>1. CASE ListPrompts(r)
      BY <3>1 DEF ListPrompts, PromptsOf
    <3>2. ASSUME NEW i \in Prompts, RejectPrompt(r, i) PROVE Typed'
      BY <3>2 DEF RejectPrompt
    <3>3. CASE ResolveQuestions(r)
      BY <3>3 DEF ResolveQuestions
    <3>4. QED
      BY <2>2, <3>1, <3>2, <3>3 DEF Cancellation
  <2>3. CASE Operator
    <3>1. ASSUME NEW r \in Runs, Stop(r) PROVE Typed'
      BY <3>1 DEF Stop
    <3>2. ASSUME NEW i \in Prompts, NEW decision \in Decisions,
                 RespondToPermission(i, decision)
          PROVE  Typed'
      BY <3>2 DEF RespondToPermission, Addressees
    <3>3. ASSUME NEW i \in Questions, AnswerQuestion(i) PROVE Typed'
      BY <3>3 DEF AnswerQuestion
    <3>4. CASE SetPolicy
      BY <3>4 DEF SetPolicy
    <3>5. ASSUME NEW t \in Tools, GrantExpires(t) PROVE Typed'
      BY <3>5 DEF GrantExpires
    <3>6. QED
      BY <2>3, <3>1, <3>2, <3>3, <3>4, <3>5 DEF Operator
  <2>4. CASE UNCHANGED vars
    BY <2>4
  <2>5. QED
    BY <2>1, <2>2, <2>3, <2>4 DEF Next
<1>3. QED
  BY <1>1, <1>2, PTL DEF Spec

(* Every variable keeps its type (state.rs, the tables of AppState).       *)
THEOREM TypeCorrect == Spec => []TypeOK
<1>1. Typed => TypeOK
  BY DEF Typed
<1>2. QED
  BY <1>1, TypedAlways, PTL

-----------------------------------------------------------------------------
(* The inductive invariant.  The safety properties speak of what a run     *)
(* waits for, what was sent and what was said; none is inductive without   *)
(* the links between the tables, the runs and the channels.                *)

(* What a run that waits, waits for, is its own.                           *)
PromptsOwned ==
    \A r \in Runs :
        /\ phase[r] \in {"idle", "called"} => prompt[r] = None
        /\ phase[r] = "asking" => prompt[r] \in Prompts /\ asker[prompt[r]] = r
        /\ phase[r] \in Waiting =>
              prompt[r] \in Questions /\ asker[prompt[r]] = r
        /\ phase[r] = "running" /\ prompt[r] # None =>
              prompt[r] \in Prompts /\ asker[prompt[r]] = r

(* An entry of a table has its run waiting and nothing on its channel.     *)
EntriesOpen ==
    /\ \A i \in permissions :
          /\ asker[i] \in Runs
          /\ prompt[asker[i]] = i /\ phase[asker[i]] = "asking"
          /\ reply[i] = None /\ said[i] = None
    /\ \A i \in questions :
          /\ asker[i] \in Runs
          /\ prompt[asker[i]] = i /\ phase[asker[i]] \in Waiting
          /\ reply[i] = None

(* Nothing was sent on an id before it was put up, and what allows is what *)
(* the operator said.                                                      *)
RepliesSent ==
    /\ \A i \in Ids : asker[i] = None => reply[i] = None
    /\ \A i \in Prompts : asker[i] = None => said[i] = None
    /\ \A i \in Prompts : reply[i] \in Allowing => said[i] = reply[i]

(* A cancellation rejects prompts of its own run, whose flag is set.       *)
StopsFlagged ==
    \A r \in Runs :
        /\ stop[r] # "no" => cancelled[r]
        /\ rejecting[r] # {} => cancelled[r]
        /\ \A i \in rejecting[r] : asker[i] = r

Linked ==
    /\ PromptsOwned
    /\ EntriesOpen
    /\ RepliesSent
    /\ StopsFlagged
    /\ RefusedByItsOwn
    /\ RunsOnWhatWasAllowed
    /\ DeliveredIsHeard

(* Every step of a typed state keeps the links.                            *)
LEMMA LinkedKept ==
    ASSUME Typed, Linked, [Next]_vars
    PROVE  Linked'
<1> USE ApprovalsAssumption
    DEF Typed, TypeOK, AskingForATool, Phases, Waiting, Replies, Decisions, Allowing, Linked,
        PromptsOwned, EntriesOpen, RepliesSent, StopsFlagged,
        RefusedByItsOwn, RunsOnWhatWasAllowed, DeliveredIsHeard
<1>1. ASSUME NEW r \in Runs, Task(r) PROVE Linked'
  <2>1. ASSUME NEW t \in Tools \union {None}, Call(r, t) PROVE Linked'
    BY <2>1 DEF Call, Goto
  <2>2. CASE GateOpen(r)
    BY <2>2 DEF GateOpen, Goto
  <2>3. ASSUME NEW i \in Prompts, AskPermission(r, i) PROVE Linked'
    BY <2>3 DEF AskPermission, Goto, Fresh
  <2>4. ASSUME NEW i \in Questions, AskOperator(r, i) PROVE Linked'
    BY <2>4 DEF AskOperator, Goto, Fresh
  <2>5. CASE Decided(r)
    BY <2>5 DEF Decided, CallEnds, Goto
  <2>6. CASE Ran(r)
    BY <2>6 DEF Ran, CallEnds, Goto
  <2>7. CASE Answered(r)
    BY <2>7 DEF Answered, QuestionEnds, CallEnds, Goto
  <2>8. CASE DeadlinePasses(r)
    BY <2>8 DEF DeadlinePasses, Goto
  <2>9. CASE DropChannel(r)
    BY <2>9 DEF DropChannel, Goto
  <2>10. CASE GiveUpAsking(r)
    BY <2>10 DEF GiveUpAsking, QuestionEnds, CallEnds, Goto, Forgotten
  <2>11. QED
    BY <1>1, <2>1, <2>2, <2>3, <2>4, <2>5, <2>6, <2>7, <2>8, <2>9, <2>10 DEF Task
<1>2. ASSUME NEW r \in Runs, Cancellation(r) PROVE Linked'
  <2>1. CASE ListPrompts(r)
    BY <2>1 DEF ListPrompts, PromptsOf
  <2>2. ASSUME NEW i \in Prompts, RejectPrompt(r, i) PROVE Linked'
    BY <2>2 DEF RejectPrompt
  <2>3. CASE ResolveQuestions(r)
    BY <2>3 DEF ResolveQuestions
  <2>4. QED
    BY <1>2, <2>1, <2>2, <2>3 DEF Cancellation
<1>3. CASE Operator
  <2>1. ASSUME NEW r \in Runs, Stop(r) PROVE Linked'
    BY <2>1 DEF Stop
  <2>2. ASSUME NEW i \in Prompts, NEW decision \in Decisions, RespondToPermission(i, decision) PROVE Linked'
    BY <2>2 DEF RespondToPermission, Addressees
  <2>3. ASSUME NEW i \in Questions, AnswerQuestion(i) PROVE Linked'
    BY <2>3 DEF AnswerQuestion, Hearing, Asking
  <2>4. CASE SetPolicy
    BY <2>4 DEF SetPolicy
  <2>5. ASSUME NEW t \in Tools, GrantExpires(t) PROVE Linked'
    BY <2>5 DEF GrantExpires
  <2>6. QED
    BY <1>3, <2>1, <2>2, <2>3, <2>4, <2>5 DEF Operator
<1>4. CASE UNCHANGED vars
  BY <1>4
<1>5. QED
  BY <1>1, <1>2, <1>3, <1>4 DEF Next

(* The invariant of prompts, tables, replies and stops holds throughout.   *)
LEMMA LinkedAlways == Spec => [](Typed /\ Linked)
<1>1. Init => Linked
  BY ApprovalsAssumption
  DEF Init, Linked, PromptsOwned, EntriesOpen, RepliesSent, StopsFlagged, Allowing,
      Waiting, Replies, Decisions, RefusedByItsOwn, RunsOnWhatWasAllowed, DeliveredIsHeard
<1>2. Typed /\ Linked /\ [Next]_vars => Linked'
  BY LinkedKept
<1>3. QED
  BY <1>1, <1>2, TypedAlways, PTL DEF Spec

(* A run whose call was gated goes on only with the operator's own word on *)
(* the prompt of that very call (gate, agent.rs:4966-4989): no answer      *)
(* meant for another run, and no earlier one of the same run, lets it by.  *)
THEOREM AllowedOnlyByTheOperator == Spec => []RunsOnWhatWasAllowed
<1>1. Linked => RunsOnWhatWasAllowed
  BY DEF Linked
<1>2. QED
  BY <1>1, LinkedAlways, PTL

(* With any number of runs stopping at any moment, a prompt is refused by  *)
(* the operator or by its own run's Stop (cancel_run, state.rs:634).       *)
THEOREM StopRefusesItsOwn == Spec => []RefusedByItsOwn
<1>1. Linked => RefusedByItsOwn
  BY DEF Linked
<1>2. QED
  BY <1>1, LinkedAlways, PTL

(* Nothing stays in either table once the run that put it there has gone   *)
(* on (ask_permission, ask_operator, cancel_run).                          *)
THEOREM NothingLeftOnScreen == Spec => []EveryPromptIsAwaited
<1>1. Linked => EveryPromptIsAwaited
  BY DEF Linked, EntriesOpen, EveryPromptIsAwaited, Waiting
<1>2. QED
  BY <1>1, LinkedAlways, PTL

(* With any number of questions and runs, a time-out is reported over an   *)
(* answer said to be delivered only if the answer met the very end of the  *)
(* wait: one sent before that is taken, and the send fails once the        *)
(* channel is dropped (ask_operator, state.rs:739; answer_question,        *)
(* state.rs:757).                                                          *)
THEOREM AnswersHeard == Spec => []DeliveredIsHeard
<1>1. Linked => DeliveredIsHeard
  BY DEF Linked
<1>2. QED
  BY <1>1, LinkedAlways, PTL
=============================================================================
