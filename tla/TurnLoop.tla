------------------------------ MODULE TurnLoop ------------------------------
(***************************************************************************)
(* One turn of the agent: orchestrate, tool_round and what they decide on. *)
(*                                                                         *)
(* A turn assembles its prompt, records the operator's message, chooses    *)
(* and loads a model, alternates rounds with tool calls, and writes an     *)
(* answer.  Between rounds the loop adds user messages of its own (notes): *)
(* corrections of a reply, asks for a plan, repairs, steering.  When the   *)
(* conversation nears the model's window its older part is compacted.      *)
(*                                                                         *)
(* The conversation is a sequence of messages without their text.  What a  *)
(* reply says, which calls it makes and what a tool returns are choices of *)
(* the model and the tools, so they are nondeterministic.  So is the size  *)
(* of the conversation: any boundary may find it too large.                *)
(*                                                                         *)
(* Stop ends the turn where the task next calls run.check; RunFails has    *)
(* that among the errors, as nothing else reads the flag.                  *)
(* A definition whose name extends the name of the next one is a seeded    *)
(* slip: what that definition would be if the code had the named mistake.  *)
(***************************************************************************)
EXTENDS Naturals, Sequences, FiniteSets

CONSTANTS
    MaxToolRounds,   \* MAX_TOOL_ROUNDS
    MaxCalls,        \* bound: tool calls in one reply
    EscalateAt,      \* failed tool steps that bring the fallback model (3)
    KeepRounds,      \* rounds compaction leaves alone (2)
    MaxSteers,       \* bound: steering messages of one turn
    Modes,           \* the modes turns are started in
    Workflows,       \* named workflows of requests, or "none"
    Histories,       \* earlier messages of the chat, as sequences of messages
    Slips            \* what a reply of a tool round can get wrong

Message ==
    [role : {"system"}, what : {"prompt"}, calls : {0}]
    \union [role : {"user"}, what : {"past", "request", "note", "digest"}, calls : {0}]
    \union [role : {"assistant"}, what : {"text", "calls"}, calls : 0 .. MaxCalls]
    \union [role : {"tool"}, what : {"result"}, calls : {0}]

Msg(role, what) == [role |-> role, what |-> what, calls |-> 0]
Calls(n) == [role |-> "assistant", what |-> "calls", calls |-> n]
Note == Msg("user", "note")
Text == Msg("assistant", "text")
Result == Msg("tool", "result")

(* Only the text of earlier turns goes back in, never the calls they made.  *)
ASSUME TurnAssumption ==
    /\ MaxToolRounds \in Nat \ {0}
    /\ MaxCalls \in Nat \ {0}
    /\ EscalateAt \in Nat \ {0}
    /\ KeepRounds \in Nat \ {0}
    /\ MaxSteers \in Nat
    /\ Modes \subseteq {"Agent", "Plan"}
    /\ Workflows \subseteq {"none", "dashboard", "package"}
    /\ Histories \subseteq Seq({Msg("user", "past"), Text})
    /\ Slips \subseteq {"markup", "mimicry", "mode", "folder", "tools"}

VARIABLES
    pc,         \* where the task is
    chat,       \* the messages of the next request
    pending,    \* calls of the last reply without a result
    ground,     \* the run's Grounding record
    loop,       \* the locals of the tool loop
    plan,       \* the published checklist
    denied,     \* the audit log has a denied call of this run
    failures,   \* failed tool steps in the run's receipt
    record,     \* rows of the turn in the chat's stored transcript
    setup       \* what the turn was started with, and steering to come
vars == <<pc, chat, pending, ground, loop, plan, denied, failures, record,
          setup>>

Ended == {"done", "failed"}

Init ==
    /\ pc = "assemble"
    /\ chat = <<>>
    /\ pending = 0
    /\ ground = [planned |-> FALSE, planAsked |-> FALSE, called |-> FALSE,
                 asked |-> FALSE, wrote |-> FALSE, sourced |-> FALSE,
                 malformed |-> 0, told |-> {}, retries |-> 0]
    /\ loop = [rounds |-> 0, secondChance |-> TRUE, finalize |-> FALSE,
               repairs |-> 0, fallback |-> FALSE, asks |-> 0, answers |-> 0,
               stage |-> 1, clipped |-> FALSE]
    /\ plan = "none"
    /\ denied = FALSE
    /\ failures = 0
    /\ record = <<>>
    /\ setup \in [mode : Modes, tools : BOOLEAN,
                  workflow : Workflows, steers : {MaxSteers}]

-----------------------------------------------------------------------------
(* Compaction.  A round starts at an assistant message.                    *)

Starts(c) == {i \in DOMAIN c : c[i].role = "assistant"}

(* The starts of the last KeepRounds rounds, or of all when there are      *)
(* fewer; the first of them is the first message that stays.               *)
LastStarts(c) ==
    {i \in Starts(c) : Cardinality({j \in Starts(c) : j > i}) < KeepRounds}

CutAt(c) == CHOOSE i \in LastStarts(c) : \A j \in LastStarts(c) : i <= j

(* The last user message of the dropped part that is not a digest, or 0.   *)
PromptAtFirst(c, cut) ==
    LET users == {i \in 1 .. cut - 1 : c[i].role = "user" /\ c[i].what # "digest"}
    IN  IF users = {} THEN 0 ELSE CHOOSE i \in users : \A j \in users : i <= j

PromptAt(c, cut) ==
    LET users == {i \in 1 .. cut - 1 : c[i].role = "user" /\ c[i].what # "digest"}
    IN  IF users = {} THEN 0 ELSE CHOOSE i \in users : \A j \in users : j <= i

Lifted(c, cut) ==
    IF PromptAt(c, cut) = 0 THEN <<>> ELSE <<c[PromptAt(c, cut)]>>

Middle(c, cut) ==
    LET p == PromptAt(c, cut)
    IN  IF p = 0 THEN SubSeq(c, 2, cut - 1)
        ELSE SubSeq(c, 2, p - 1) \o SubSeq(c, p + 1, cut - 1)

Recent(c, cut) == SubSeq(c, cut, Len(c))

(* The middle becomes one digest; without a summary its tool results are   *)
(* clipped and every message stays.                                        *)
Digested(c, cut) ==
    <<c[1]>> \o Lifted(c, cut) \o <<Msg("user", "digest")>> \o Recent(c, cut)
Clipped(c, cut) ==
    <<c[1]>> \o Lifted(c, cut) \o Middle(c, cut) \o Recent(c, cut)

Compacts(c) == Starts(c) # {} /\ Middle(c, CutAt(c)) # <<>>

-----------------------------------------------------------------------------
(* Before the loop.                                                        *)

Goto(from, to) == pc = from /\ pc' = to

(* The conversation is a local of the task and goes with it.               *)
Fail(from) ==
    /\ Goto(from, "failed")
    /\ record' = Append(record, "failure")
    /\ chat' = <<>>
    /\ pending' = 0
    /\ UNCHANGED <<ground, loop, plan, denied, failures, setup>>

(* The prompt, the tools, the history and the request.  Reading the        *)
(* workbook of a dashboard request is the only thing that can fail.        *)
Assemble ==
    /\ Goto("assemble", "record")
    /\ \E past \in Histories :
         chat' = <<Msg("system", "prompt")>> \o past \o <<Msg("user", "request")>>
    /\ UNCHANGED <<pending, ground, loop, plan, denied, failures, record,
                   setup>>

AssembleFails == setup.workflow = "dashboard" /\ Fail("assemble")

RecordRequest ==
    /\ Goto("record", "route")
    /\ record' = Append(record, "request")
    /\ UNCHANGED <<chat, pending, ground, loop, plan, denied, failures, setup>>

(* A model is chosen, checked and loaded; without tools there is no loop.  *)
Route ==
    /\ Goto("route", IF setup.tools THEN "boundary" ELSE "answer")
    /\ UNCHANGED <<chat, pending, ground, loop, plan, denied, failures, record,
                   setup>>

-----------------------------------------------------------------------------
(* The tool loop.                                                          *)

Escalates ==
    /\ ~loop.fallback
    /\ setup.workflow = "dashboard"
    /\ ~denied
    /\ failures >= EscalateAt

Escalate ==
    /\ pc = "boundary"
    /\ Escalates
    /\ loop' = [loop EXCEPT !.fallback = TRUE]
    /\ chat' = Append(chat, Note)
    /\ UNCHANGED <<pc, pending, ground, plan, denied, failures, record, setup>>

(* That a summary failed is remembered for the properties.                 *)
CompactIfNeeded ==
    /\ ~Escalates
    /\ Goto("boundary", "send")
    /\ \/ UNCHANGED <<chat, loop>>
       \/ /\ Compacts(chat)
          /\ chat' = Digested(chat, CutAt(chat))
          /\ UNCHANGED loop
       \/ /\ Compacts(chat)
          /\ chat' = Clipped(chat, CutAt(chat))
          /\ loop' = [loop EXCEPT !.clipped = TRUE]
    /\ UNCHANGED <<pending, ground, plan, denied, failures, record, setup>>

(* Requests are counted for the properties, up to one more than there may  *)
(* be (bound).                                                             *)
Counted(n) == IF n > MaxToolRounds + 4 THEN n ELSE n + 1

(* The request of a round, with the steering that has arrived.             *)
SendRound ==
    /\ Goto("send", "reply")
    /\ \E n \in 0 .. setup.steers :
         /\ chat' = chat \o [i \in 1 .. n |-> Note]
         /\ setup' = [setup EXCEPT !.steers = @ - n]
    /\ loop' = [loop EXCEPT !.asks = Counted(@)]
    /\ UNCHANGED <<pending, ground, plan, denied, failures, record>>

(* A call cut off mid-argument is answered with a correction, twice.       *)
Malformed ==
    /\ Goto("reply", "counted")
    /\ ground.malformed < 2
    /\ ground' = [ground EXCEPT !.malformed = @ + 1]
    /\ chat' = Append(chat, Note)
    /\ UNCHANGED <<pending, loop, plan, denied, failures, record, setup>>

(* Which wrong replies are corrected, and how often: once each.            *)
MayCorrect(slip) ==
    /\ slip \notin ground.told
    /\ slip = "mimicry" => ~ground.wrote /\ ~ground.called
Corrects(slip) ==
    /\ MayCorrect(slip)
    /\ slip \in {"mode", "tools"} => setup.mode = "Agent"

CorrectReply(slip) ==
    /\ Goto("reply", "counted")
    /\ Corrects(slip)
    /\ ground' = [ground EXCEPT !.told = @ \union {slip}]
    /\ chat' = chat \o <<Text, Note>>
    /\ UNCHANGED <<pending, loop, plan, denied, failures, record, setup>>

(* Calls made, or recovered from markup in the reply.                      *)
MakeCalls(n) ==
    /\ Goto("reply", "acting")
    /\ chat' = Append(chat, Calls(n))
    /\ pending' = n
    /\ UNCHANGED <<ground, loop, plan, denied, failures, record, setup>>

(* A reply without calls that nothing is left to say about.                *)
StopCalling ==
    /\ Goto("reply", "quiet")
    /\ UNCHANGED <<chat, pending, ground, loop, plan, denied, failures, record,
                   setup>>

(* The hold on a write of plant facts by a run that has read nothing.      *)
Held(g) == ~g.sourced /\ ~g.asked

(* What one tool call leaves in the run: the grounding record, the plan,   *)
(* and what audit log and receipt say of it.  A write counts as made when  *)
(* the hold lets it pass, before the operator is asked.                    *)
CallEffects ==
    LET g == [ground EXCEPT !.called = TRUE]
        effect(h, p, how) == [ground |-> h, plan |-> p, how |-> how]
    IN  {effect(g, plan, how) : how \in {"ok", "denied", "failed"}}
        \union {effect([g EXCEPT !.sourced = TRUE], plan, "ok"),
                effect([g EXCEPT !.wrote = TRUE], plan, "ok")}
        \union {effect([g EXCEPT !.planned = TRUE], p, "ok") :
                   p \in {"open", "complete"}}
        \union (IF Held(g)
                THEN {effect([g EXCEPT !.asked = TRUE], plan, "denied")}
                ELSE {effect([g EXCEPT !.wrote = TRUE], plan, how) :
                         how \in {"ok", "denied", "failed"}})

(* Whatever a tool says comes back as the result of its call.              *)
AnswersCallUnlessDenied(how) == how # "denied"
AnswersCall(how) == TRUE

CallReturns(from) ==
    /\ Goto(from, IF pending = 1 THEN "counted" ELSE "acting")
    /\ pending > 0
    /\ \E e \in CallEffects :
         /\ ground' = e.ground
         /\ plan' = e.plan
         /\ denied' = (denied \/ e.how = "denied")
         /\ failures' = IF e.how = "failed" /\ failures < EscalateAt
                        THEN failures + 1 ELSE failures
         /\ chat' = IF AnswersCall(e.how) THEN Append(chat, Result) ELSE chat
    /\ pending' = pending - 1
    /\ UNCHANGED <<loop, record, setup>>

Call == CallReturns("acting")

(* The call needs approval and waits for the operator, without a deadline; *)
(* it returns when the prompt is answered, or rejected by Stop.            *)
AskPermission ==
    /\ Goto("acting", "gated")
    /\ UNCHANGED <<chat, pending, ground, loop, plan, denied, failures, record,
                   setup>>

(* What was allowed once is put to the gate again.                         *)
AnsweredAsksAgain ==
    /\ Goto("gated", "acting")
    /\ UNCHANGED <<chat, pending, ground, loop, plan, denied, failures, record,
                   setup>>

Answered == CallReturns("gated")

(* A round that goes on: the plan is asked for once, when calls have       *)
(* landed without one, and the last round says that it is the last.        *)
AsksForPlan == ~ground.planned /\ ~ground.planAsked /\ ground.called

RoundsSpentOneLate == loop.rounds >= MaxToolRounds
RoundsSpent == loop.rounds + 1 >= MaxToolRounds

CountRound ==
    /\ Goto("counted", IF RoundsSpent THEN "answer" ELSE "boundary")
    /\ loop' = [loop EXCEPT !.rounds = @ + 1]
    /\ ground' = [ground EXCEPT !.planAsked = @ \/ AsksForPlan]
    /\ chat' = chat \o (IF AsksForPlan THEN <<Note>> ELSE <<>>)
                    \o (IF RoundsSpent THEN <<Note>> ELSE <<>>)
    /\ UNCHANGED <<pending, plan, denied, failures, record, setup>>

-----------------------------------------------------------------------------
(* The model has stopped calling: three reasons to go on, then the answer. *)

Again(l) ==
    /\ Goto("quiet", "boundary")
    /\ loop' = l
    /\ chat' = Append(chat, Note)
    /\ UNCHANGED <<pending, ground, plan, denied, failures, record, setup>>

(* Receipts of workflows may show gaps; a denied call waives them.         *)
MayHaveGaps ==
    /\ setup.mode = "Agent" /\ loop.repairs < 2
    /\ setup.workflow # "none" /\ ~denied

Repair ==
    /\ MayHaveGaps
    /\ Again([loop EXCEPT !.repairs = @ + 1,
                          !.fallback = @ \/ setup.workflow = "dashboard"])

NudgeLeftNothing == ground.asked /\ ~ground.wrote

GiveSecondChance ==
    /\ loop.secondChance /\ NudgeLeftNothing
    /\ Again([loop EXCEPT !.secondChance = FALSE])

ShouldFinalizePlan ==
    setup.mode = "Agent" /\ ~loop.finalize /\ plan = "open"

FinalizePlan ==
    /\ ~(loop.secondChance /\ NudgeLeftNothing)
    /\ ShouldFinalizePlan /\ loop.rounds < MaxToolRounds
    /\ Again([loop EXCEPT !.finalize = TRUE])

LeaveLoop ==
    /\ ~(loop.secondChance /\ NudgeLeftNothing)
    /\ ~(ShouldFinalizePlan /\ loop.rounds < MaxToolRounds)
    /\ Goto("quiet", "answer")
    /\ UNCHANGED <<chat, pending, ground, loop, plan, denied, failures, record,
                   setup>>

-----------------------------------------------------------------------------
(* The answer, and the replies of it that are asked for again.             *)

AnswerSlips == <<"markup", "tools", "silent", "mode">>

AnswerBudgetLeft == ground.retries < 2

(* Told that its tools are closed, perhaps routed to a larger model, the   *)
(* model is asked for its answer.                                          *)
BeginAnswer ==
    /\ Goto("answer", "answering")
    /\ chat' = IF ground.called THEN Append(chat, Note) ELSE chat
    /\ loop' = [loop EXCEPT !.answers = @ + 1]
    /\ UNCHANGED <<pending, ground, plan, denied, failures, record, setup>>

Reask(stage) ==
    /\ pc = "answering"
    /\ AnswerBudgetLeft
    /\ ground' = [ground EXCEPT !.retries = @ + 1]
    /\ chat' = Append(chat, Note)
    /\ loop' = [loop EXCEPT !.stage = stage, !.answers = @ + 1]
    /\ UNCHANGED <<pc, pending, plan, denied, failures, record, setup>>

(* The first answer may arrive as a malformed call.                        *)
AnswerMalformed == loop.answers = 1 /\ Reask(1)

(* The checks come in a fixed order and each is made once.                 *)
AnswerSlipped(i) ==
    /\ i >= loop.stage
    /\ AnswerSlips[i] \in {"tools", "mode"} => setup.mode = "Agent"
    /\ AnswerSlips[i] = "silent" => ~ground.called
    /\ Reask(i + 1)

AcceptAnswer ==
    /\ Goto("answering", "done")
    /\ record' = Append(record, "answer")
    /\ chat' = <<>>
    /\ UNCHANGED <<pending, ground, loop, plan, denied, failures, setup>>

-----------------------------------------------------------------------------
(* Errors end the turn from any await or check; its failure is recorded.   *)
RunFails ==
    \E from \in {"record", "route", "boundary", "send", "reply", "acting",
                 "quiet", "answer", "answering"} :
        /\ from = "quiet" => MayHaveGaps
        /\ Fail(from)

Stop == pc \in Ended /\ UNCHANGED vars

Work ==
    \/ Assemble \/ RecordRequest \/ Route
    \/ Escalate \/ CompactIfNeeded \/ SendRound
    \/ Malformed \/ (\E slip \in Slips : CorrectReply(slip))
    \/ (\E n \in 1 .. MaxCalls : MakeCalls(n)) \/ StopCalling
    \/ Call \/ AskPermission \/ CountRound
    \/ Repair \/ GiveSecondChance \/ FinalizePlan \/ LeaveLoop
    \/ BeginAnswer \/ AnswerMalformed
    \/ (\E i \in 1 .. Len(AnswerSlips) : AnswerSlipped(i))
    \/ AcceptAnswer

Next == Work \/ Answered \/ AssembleFails \/ RunFails \/ Stop

Spec == Init /\ [][Next]_vars

(* The task is polled until it ends, and every await in it has a deadline  *)
(* but one: nothing says that a prompt is answered.  No error is owed to   *)
(* it either.                                                              *)
FairSpec == Spec /\ WF_vars(Work)

-----------------------------------------------------------------------------
Grounding ==
    [planned : BOOLEAN, planAsked : BOOLEAN, called : BOOLEAN, asked : BOOLEAN,
     wrote : BOOLEAN, sourced : BOOLEAN, malformed : 0 .. 2,
     told : SUBSET Slips, retries : Nat]
Locals ==
    [rounds : 0 .. MaxToolRounds, secondChance : BOOLEAN, finalize : BOOLEAN,
     repairs : 0 .. 2, fallback : BOOLEAN, asks : Nat, answers : Nat,
     stage : Nat, clipped : BOOLEAN]
Setups ==
    [mode : Modes, tools : BOOLEAN, workflow : Workflows, steers : 0 .. MaxSteers]

TypeOK ==
    /\ pc \in {"assemble", "record", "route", "boundary", "send", "reply",
               "acting", "gated", "counted", "quiet", "answer", "answering"}
               \union Ended
    /\ chat \in Seq(Message)
    /\ pending \in 0 .. MaxCalls
    /\ ground \in Grounding
    /\ loop \in Locals
    /\ plan \in {"none", "open", "complete"}
    /\ denied \in BOOLEAN
    /\ failures \in 0 .. EscalateAt
    /\ record \in Seq({"request", "answer", "failure"})
    /\ setup \in Setups

(* A server refuses a conversation whose calls and results do not pair up: *)
(* each assistant message that makes calls is followed by exactly one      *)
(* result per call.                                                        *)
Paired(c) ==
    \A i \in DOMAIN c :
        /\ \A k \in 1 .. c[i].calls : i + k \in DOMAIN c /\ c[i + k].role = "tool"
        /\ c[i].role = "tool" => \E k \in 1 .. MaxCalls : k < i /\ c[i - k].calls >= k

(* Every request that is sent pairs up, after any number of compactions,   *)
(* corrections and failed tools.                                           *)
PairedRequests == pc \in {"reply", "answering"} => Paired(chat)

(* The chances the loop gives (two repairs, the second chance, the plan)   *)
(* each buy one more request, and the answer is written at most three      *)
(* times, whatever the model replies.                                      *)
RequestsBounded ==
    /\ loop.asks <= MaxToolRounds + 4
    /\ loop.answers <= 3

(* A run whose write was held for want of a source, and which wrote        *)
(* nothing since, has been told so once more before it answers, unless it  *)
(* ran out of rounds.                                                      *)
HeldWriteIsRaised ==
    pc \in {"answer", "answering", "done"} /\ NudgeLeftNothing =>
        ~loop.secondChance \/ loop.rounds = MaxToolRounds

(* A model that is asked anything is asked by a turn on record, so that an *)
(* answer, and the failure of a turn that asked a model, is never stored   *)
(* without its question.  The failure to read a dashboard's workbook is    *)
(* (agent.rs:8345): the request is stored after that.                      *)
AskedOnRecord ==
    loop.asks + loop.answers > 0 => Len(record) > 0 /\ record[1] = "request"

(* As long as no summary has failed, every conversation that is sent has   *)
(* words of this turn after all that is left of earlier turns: the         *)
(* operator's request, until the loop or a parent agent says something;    *)
(* from then on the request may go into a digest, and it is a note that    *)
(* compaction lifts (agent.rs:7405).                                       *)
LastWordIsThisTurns ==
    pc \in {"reply", "answering"} /\ ~loop.clipped =>
        \E i \in DOMAIN chat :
            /\ chat[i].role = "user"
            /\ chat[i].what \in {"request", "note"}
            /\ \A j \in DOMAIN chat : j > i => chat[j].what # "past"

(* agent.rs:10561, "The operator's request is the one message whose exact  *)
(* wording is not negotiable", of every conversation that is sent.         *)
RequestSurvives ==
    pc \in {"reply", "answering"} =>
        \E i \in DOMAIN chat : chat[i] = Msg("user", "request")

(* Every turn ends, whatever the model replies and whoever steers it, if   *)
(* the operator answers what its calls ask for.                            *)
TurnEnds == []<>(pc # "gated") => <>(pc \in Ended)
=============================================================================
