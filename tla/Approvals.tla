----------------------------- MODULE Approvals -----------------------------
(***************************************************************************)
(* What stands between a tool call and its effect: the gate of             *)
(* src-tauri/src/agent.rs, and the prompts, questions, grants and          *)
(* cancellation of AppState in src-tauri/src/state.rs.                     *)
(*                                                                         *)
(* A run makes one call at a time and waits on at most one prompt or       *)
(* question.  Its waiting ends when it takes the reply from its channel,   *)
(* which is a later step than the reply's being sent.  A prompt stays on   *)
(* some screen after it was answered (a window and a browser tab may both  *)
(* show it), so the operator may answer any prompt ever put up.            *)
(*                                                                         *)
(* cancel_run is split where it gives up a lock: the flag, the list of the *)
(* run's prompts, each rejection, the questions.  The question whether to  *)
(* ask and the entry in the table are one step of the run: nothing but the *)
(* policy and the grants lies between them.                                *)
(*                                                                         *)
(* Runs are registered from the start and are never removed (SubagentRuns  *)
(* has the life of a run), and the catalogue has no tool whose risk is     *)
(* Destructive: exactly the tools that are not Read require approval.      *)
(*                                                                         *)
(* A definition whose name extends the name of the next one is a seeded    *)
(* slip: what that definition would be if the code had the named mistake.  *)
(***************************************************************************)
EXTENDS Naturals, FiniteSets

CONSTANTS
    Runs,
    Tools,
    Risk,       \* each tool's risk in the catalogue
    Prompts,    \* ids of prompts (a bound; new_id never repeats)
    Questions,  \* ids of questions (a bound)
    Choices,    \* the policies the operator turns between (a bound)
    None

Allowing == {"AllowOnce", "AllowSession"}

Decisions == Allowing \union {"Reject"}

(* "late" is the answer that met the end of the wait; "gone" a channel the *)
(* run is through with.                                                    *)
Replies == Decisions \union {"answer", "late", "cancelled", "gone"}

ASSUME ApprovalsAssumption ==
    /\ Risk \in [Tools -> {"Read", "Write", "Execute"}]
    /\ Choices \subseteq {"AskAlways", "AskRiskyOnly", "AutoRunSandbox"}
    /\ Prompts \intersect Questions = {}
    /\ None \notin Runs \union Tools \union Prompts \union Questions \union Replies

VARIABLES
    policy,       \* AppSettings.approval_policy
    grants,       \* tools whose session grant is younger than eight hours
    phase,        \* where each run is
    tool,         \* the tool it calls
    prompt,       \* the prompt or question of that call
    cancelled,    \* RunHandle.cancelled
    permissions,  \* AppState.permissions: prompts waiting for an answer
    questions,    \* AppState.questions
    asker,        \* the run each id was put up for
    reply,        \* what was sent on each id's channel: the sender is told so
    said,         \* what the operator first decided on each prompt
    stop,         \* where the cancellation of each run is
    rejecting     \* the prompts it listed and has still to reject

callVars == <<phase, tool, prompt>>

promptVars == <<permissions, questions, asker, reply, said>>

stopVars == <<cancelled, stop, rejecting>>

vars == <<policy, grants, callVars, promptVars, stopVars>>

Ids == Prompts \union Questions

Phases == {"idle", "called", "asking", "running", "wondering", "elapsed", "expired"}

(* A run that has not yet taken its question off the table.                *)
Waiting == {"wondering", "elapsed", "expired"}

Init ==
    /\ policy = "AskAlways"
    /\ grants = {}
    /\ phase = [r \in Runs |-> "idle"]
    /\ tool = [r \in Runs |-> None]
    /\ prompt = [r \in Runs |-> None]
    /\ cancelled = [r \in Runs |-> FALSE]
    /\ permissions = {}
    /\ questions = {}
    /\ asker = [i \in Ids |-> None]
    /\ reply = [i \in Ids |-> None]
    /\ said = [i \in Prompts |-> None]
    /\ stop = [r \in Runs |-> "no"]
    /\ rejecting = [r \in Runs |-> {}]

Goto(r, where) == phase' = [phase EXCEPT ![r] = where]

CallEnds(r) ==
    /\ Goto(r, "idle")
    /\ tool' = [tool EXCEPT ![r] = None]
    /\ prompt' = [prompt EXCEPT ![r] = None]

-----------------------------------------------------------------------------
(* A run and its tool calls                                                *)

(* The cancellation flag is read once per call, ahead of the arguments.    *)
(* ask_operator is the call that has no tool.                              *)
Call(r, t) ==
    /\ phase[r] = "idle"
    /\ ~cancelled[r]
    /\ Goto(r, "called")
    /\ tool' = [tool EXCEPT ![r] = t]
    /\ UNCHANGED <<policy, grants, prompt, promptVars, stopVars>>

NeedsApproval(t) ==
    /\ t \notin grants
    /\ \/ policy = "AskAlways" /\ Risk[t] # "Read"
       \/ policy = "AskRiskyOnly" /\ Risk[t] = "Execute"

GateOpen(r) ==
    /\ phase[r] = "called" /\ tool[r] # None
    /\ ~NeedsApproval(tool[r])
    /\ Goto(r, "running")
    /\ UNCHANGED <<policy, grants, tool, prompt, promptVars, stopVars>>

Fresh(i, S) ==
    /\ asker[i] = None
    /\ i = CHOOSE j \in S : asker[j] = None

AskPermission(r, i) ==
    /\ phase[r] = "called" /\ tool[r] # None
    /\ NeedsApproval(tool[r])
    /\ Fresh(i, Prompts)
    /\ Goto(r, "asking")
    /\ prompt' = [prompt EXCEPT ![r] = i]
    /\ asker' = [asker EXCEPT ![i] = r]
    /\ permissions' = permissions \union {i}
    /\ UNCHANGED <<policy, grants, tool, questions, reply, said, stopVars>>

(* The run takes its reply: only AllowSession leaves a grant.              *)
Decided(r) ==
    /\ phase[r] = "asking"
    /\ reply[prompt[r]] # None
    /\ IF reply[prompt[r]] \in Allowing
       THEN Goto(r, "running") /\ UNCHANGED <<tool, prompt>>
       ELSE CallEnds(r)
    /\ grants' = IF reply[prompt[r]] = "AllowSession" THEN grants \union {tool[r]} ELSE grants
    /\ UNCHANGED <<policy, promptVars, stopVars>>

Ran(r) ==
    /\ phase[r] = "running"
    /\ CallEnds(r)
    /\ UNCHANGED <<policy, grants, promptVars, stopVars>>

-----------------------------------------------------------------------------
(* ask_operator: a question with a deadline.  tokio's timeout looks at the  *)
(* channel, then at the clock; the channel is dropped when the wait is     *)
(* over, and the entry removed after that.  Answers may come between any   *)
(* two of these.                                                           *)

AskOperator(r, i) ==
    /\ phase[r] = "called" /\ tool[r] = None
    /\ Fresh(i, Questions)
    /\ Goto(r, "wondering")
    /\ prompt' = [prompt EXCEPT ![r] = i]
    /\ asker' = [asker EXCEPT ![i] = r]
    /\ questions' = questions \union {i}
    /\ UNCHANGED <<policy, grants, tool, permissions, reply, said, stopVars>>

(* The call is over, and the channel with it.                              *)
QuestionEnds(r) ==
    /\ CallEnds(r)
    /\ reply' = [reply EXCEPT ![prompt[r]] = "gone"]

Answered(r) ==
    /\ phase[r] = "wondering"
    /\ reply[prompt[r]] # None
    /\ QuestionEnds(r)
    /\ UNCHANGED <<policy, grants, permissions, questions, asker, said, stopVars>>

(* The clock is looked at before the channel.                              *)
DeadlinePassesFirst(r) ==
    /\ phase[r] = "wondering"
    /\ Goto(r, "elapsed")
    /\ UNCHANGED <<policy, grants, tool, prompt, promptVars, stopVars>>

(* The channel was empty, and the time is over.                            *)
DeadlinePasses(r) ==
    /\ phase[r] = "wondering"
    /\ reply[prompt[r]] = None
    /\ Goto(r, "elapsed")
    /\ UNCHANGED <<policy, grants, tool, prompt, promptVars, stopVars>>

DropChannel(r) ==
    /\ phase[r] = "elapsed"
    /\ Goto(r, "expired")
    /\ UNCHANGED <<policy, grants, tool, prompt, promptVars, stopVars>>

ForgottenNever(i) == questions

Forgotten(i) == questions \ {i}

GiveUpAsking(r) ==
    /\ phase[r] = "expired"
    /\ questions' = Forgotten(prompt[r])
    /\ QuestionEnds(r)
    /\ UNCHANGED <<policy, grants, permissions, asker, said, stopVars>>

-----------------------------------------------------------------------------
(* The operator                                                            *)

AddresseesByRun(i) == {j \in permissions : asker[j] = asker[i]}

Addressees(i) == permissions \intersect {i}

RespondToPermission(i, decision) ==
    /\ asker[i] # None
    /\ said' = [said EXCEPT ![i] = IF @ = None THEN decision ELSE @]
    /\ permissions' = permissions \ Addressees(i)
    /\ reply' = [j \in Ids |-> IF j \in Addressees(i) THEN decision ELSE reply[j]]
    /\ UNCHANGED <<policy, grants, callVars, questions, asker, stopVars>>

HearingAnyWaiting(i) == i \in questions

Asking(i, where) == \E r \in Runs : phase[r] \in where /\ prompt[r] = i

(* The send succeeds while the run still holds the other end.              *)
Hearing(i) == i \in questions /\ Asking(i, {"wondering", "elapsed"})

(* The operator is told it was delivered exactly when the send succeeds.   *)
AnswerQuestion(i) ==
    /\ i \in questions
    /\ questions' = questions \ {i}
    /\ reply' = IF Hearing(i)
                THEN [reply EXCEPT ![i] = IF Asking(i, {"elapsed"}) THEN "late" ELSE "answer"]
                ELSE reply
    /\ UNCHANGED <<policy, grants, callVars, permissions, asker, said, stopVars>>

SetPolicy ==
    /\ policy' \in Choices
    /\ UNCHANGED <<grants, callVars, promptVars, stopVars>>

(* Eight hours after it was given or renewed.                              *)
GrantExpires(t) ==
    /\ t \in grants
    /\ grants' = grants \ {t}
    /\ UNCHANGED <<policy, callVars, promptVars, stopVars>>

-----------------------------------------------------------------------------
(* cancel_run                                                              *)

Stop(r) ==
    /\ stop[r] = "no"
    /\ cancelled' = [cancelled EXCEPT ![r] = TRUE]
    /\ stop' = [stop EXCEPT ![r] = "flagged"]
    /\ UNCHANGED <<policy, grants, callVars, promptVars, rejecting>>

PromptsOfAnyRun(r) == permissions

PromptsOfOthers(r) == {i \in permissions : asker[i] # r}

PromptsAndQuestionsOf(r) == {i \in permissions \union questions : asker[i] = r}

PromptsOf(r) == {i \in permissions : asker[i] = r}

ListPrompts(r) ==
    /\ stop[r] = "flagged"
    /\ stop' = [stop EXCEPT ![r] = "rejecting"]
    /\ rejecting' = [rejecting EXCEPT ![r] = PromptsOf(r)]
    /\ UNCHANGED <<policy, grants, callVars, promptVars, cancelled>>

RejectPrompt(r, i) ==
    /\ stop[r] = "rejecting"
    /\ i \in rejecting[r]
    /\ rejecting' = [rejecting EXCEPT ![r] = @ \ {i}]
    /\ permissions' = permissions \ {i}
    /\ reply' = IF i \in permissions THEN [reply EXCEPT ![i] = "Reject"] ELSE reply
    /\ UNCHANGED <<policy, grants, callVars, questions, asker, said, cancelled, stop>>

ResolveQuestions(r) ==
    /\ stop[r] = "rejecting"
    /\ rejecting[r] = {}
    /\ LET own == {i \in questions : asker[i] = r}
       IN  /\ questions' = questions \ own
           /\ reply' = [i \in Ids |-> IF i \in own THEN "cancelled" ELSE reply[i]]
    /\ stop' = [stop EXCEPT ![r] = "no"]
    /\ UNCHANGED <<policy, grants, callVars, permissions, asker, said, cancelled, rejecting>>

-----------------------------------------------------------------------------

Task(r) ==
    \/ \E t \in Tools \union {None} : Call(r, t)
    \/ GateOpen(r)
    \/ \E i \in Prompts : AskPermission(r, i)
    \/ \E i \in Questions : AskOperator(r, i)
    \/ Decided(r) \/ Ran(r) \/ Answered(r)
    \/ DeadlinePasses(r) \/ DropChannel(r) \/ GiveUpAsking(r)

Cancellation(r) ==
    \/ ListPrompts(r)
    \/ \E i \in Prompts : RejectPrompt(r, i)
    \/ ResolveQuestions(r)

Operator ==
    \/ \E r \in Runs : Stop(r)
    \/ \E i \in Prompts, decision \in Decisions : RespondToPermission(i, decision)
    \/ \E i \in Questions : AnswerQuestion(i)
    \/ SetPolicy
    \/ \E t \in Tools : GrantExpires(t)

Next ==
    \/ \E r \in Runs : Task(r) \/ Cancellation(r)
    \/ Operator

Spec == Init /\ [][Next]_vars

(* Runs are tokio tasks, polled until they wait; a cancellation is         *)
(* straight-line code.  The operator promises nothing.                     *)
FairSpec ==
    /\ Spec
    /\ \A r \in Runs : WF_vars(Task(r)) /\ WF_vars(Cancellation(r))

-----------------------------------------------------------------------------
(* Properties                                                              *)

TypeOK ==
    /\ policy \in {"AskAlways", "AskRiskyOnly", "AutoRunSandbox"}
    /\ grants \in SUBSET Tools
    /\ phase \in [Runs -> Phases]
    /\ tool \in [Runs -> Tools \union {None}]
    /\ prompt \in [Runs -> Ids \union {None}]
    /\ cancelled \in [Runs -> BOOLEAN]
    /\ permissions \in SUBSET Prompts
    /\ questions \in SUBSET Questions
    /\ asker \in [Ids -> Runs \union {None}]
    /\ reply \in [Ids -> Replies \union {None}]
    /\ said \in [Prompts -> Decisions \union {None}]
    /\ stop \in [Runs -> {"no", "flagged", "rejecting"}]
    /\ rejecting \in [Runs -> SUBSET Prompts]

(* A prompt is refused only by the operator or by the Stop of its own run. *)
(* state.rs:632, "with several chats running, Stop in one must not answer  *)
(* for another".                                                           *)
RefusedByItsOwn ==
    \A i \in Prompts :
        reply[i] = "Reject" => said[i] = "Reject" \/ cancelled[asker[i]]

(* A call that was gated runs on the operator's answer to its own prompt:  *)
(* not on one meant for an earlier call of the run, or another run's.      *)
RunsOnWhatWasAllowed ==
    \A r \in Runs :
        phase[r] = "running" /\ prompt[r] # None =>
            /\ asker[prompt[r]] = r
            /\ said[prompt[r]] = reply[prompt[r]]
            /\ said[prompt[r]] \in Allowing

(* What the two tables hold, a run waits for: nothing is left on screen    *)
(* once its run has gone on.                                               *)
EveryPromptIsAwaited ==
    /\ \A i \in permissions :
          \E r \in Runs : asker[i] = r /\ prompt[r] = i /\ phase[r] = "asking"
    /\ \A i \in questions :
          \E r \in Runs :
              asker[i] = r /\ prompt[r] = i /\ phase[r] \in Waiting

(* A run does not report that nobody answered when the operator was told   *)
(* that it had been answered: neither an answer already on the channel     *)
(* when the time is over, nor one sent once the channel is gone.           *)
(* state.rs:755, "Returns false when the question is gone (already         *)
(* answered, timed out, or its run cancelled)".  The answer that meets the *)
(* end of the wait itself, after timeout has looked at the channel and     *)
(* before it drops it, is excepted: it is reported delivered and discarded.*)
DeliveredIsHeard ==
    \A r \in Runs : phase[r] \in {"elapsed", "expired"} => reply[prompt[r]] # "answer"

(* Stop ends a run that is sitting on a prompt: one that waits when the    *)
(* flag is set gets its answer.  state.rs:675, "`cancel_run` rejects the   *)
(* prompts belonging to that run, which is what makes Stop end a run that  *)
(* is sitting on a prompt".                                                *)
StopDismissesPrompt ==
    \A r \in Runs : phase[r] = "asking" /\ stop[r] = "flagged" ~> phase[r] # "asking"

(* A cancelled run does not stay on a prompt.  state.rs:674, "the two ways *)
(* out are the operator answering and the run being cancelled".            *)
StopLeavesNoPrompt ==
    \A r \in Runs : cancelled[r] ~> phase[r] # "asking"
=============================================================================
