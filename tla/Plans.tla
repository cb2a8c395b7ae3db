------------------------------- MODULE Plans -------------------------------
(***************************************************************************)
(* The plan a run publishes with update_plan, revision after revision; the *)
(* workbench keeps its rows by their ids.                                  *)
(***************************************************************************)
EXTENDS Naturals, Sequences, SequencesExt

CONSTANTS
    Steps,      \* texts of steps
    Statuses,   \* of which a step has one
    MaxSteps,   \* a plan has at most so many (12 in the code)
    MaxPlans    \* bound: revisions published

VARIABLES plan, published
planVars == <<plan, published>>

Init == plan = <<>> /\ published = 0

(* parse_plan: one step at least, and a fresh id for each.                 *)
Parsed(raw) == [i \in DOMAIN raw |->
    [id |-> <<published + 1, i>>, step |-> raw[i].step, status |-> raw[i].status]]

(* set_plan: the first step of the same text hands its id on.              *)
SameStep(item) == {j \in DOMAIN plan : plan[j].step = item.step}
Kept(item, i) ==
    IF SameStep(item) = {} THEN item
    ELSE [item EXCEPT !.id = plan[CHOOSE j \in SameStep(item) :
                                      \A k \in SameStep(item) : j <= k].id]
SetPlan(items) == [i \in DOMAIN items |-> Kept(items[i], i)]

UpdatePlan(raw) ==
    /\ published < MaxPlans /\ published' = published + 1
    /\ plan' = SetPlan(Parsed(raw))

Item == [step : Steps, status : Statuses]
Next == \E n \in 1 .. MaxSteps : \E raw \in [1 .. n -> Item] : UpdatePlan(raw)

Spec == Init /\ [][Next]_planVars

-----------------------------------------------------------------------------
Repeated(p, i) == \E j \in DOMAIN p \ {i} : p[j].step = p[i].step

(* A step that survives a revision keeps its row, wherever it moves and    *)
(* whatever its status becomes, no two steps share one, and a row that is  *)
(* gone is not taken again.  A text the plan repeats is the exception: its *)
(* steps are given one id by the next revision.                            *)
RowsKeepTheirSteps ==
    [][published' # published => \A i \in DOMAIN plan' : ~Repeated(plan', i) =>
         /\ \A j \in DOMAIN plan : ~Repeated(plan, j) =>
                (plan[j].id = plan'[i].id <=> plan[j].step = plan'[i].step)
         /\ \A j \in DOMAIN plan' \ {i} : plan'[i].id # plan'[j].id
         /\ (\E j \in DOMAIN plan : plan[j].id = plan'[i].id)
                \/ plan'[i].id[1] = published']_planVars
=============================================================================
