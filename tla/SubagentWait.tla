---------------------------- MODULE SubagentWait ----------------------------
(***************************************************************************)
(* wait_agent: an agent waits until one of its children is over.           *)
(*                                                                         *)
(* Every change of a child in the registry wakes, under the registry's     *)
(* lock, whoever has subscribed by then; the children are read one by one, *)
(* each under the lock.  A wait for no child in particular reads them all  *)
(* at once.                                                                *)
(***************************************************************************)
EXTENDS FiniteSets

CONSTANT Children

VARIABLES
    child,       \* each child in the registry: active, final or gone
    wait         \* the waiter: its step, whom it waits for, whom it has yet
                 \* to read, and whether it is subscribed and woken
vars == <<child, wait>>

NotWaiting == [at |-> "idle", for |-> {}, unread |-> {}, woken |-> FALSE]
At(step) == wait.at = step
Subscribed == wait.at \in {"read", "sleep"}

Init ==
    /\ child \in [Children -> {"active", "gone"}]
    /\ wait = NotWaiting

-----------------------------------------------------------------------------
(* notify_waiters wakes who is subscribed, and only those.                 *)
Notified == wait' = [wait EXCEPT !.woken = @ \/ Subscribed]

(* complete_run, fail_reserved and request_stop end a child, restart takes *)
(* it up again, reserve makes one and remove_root takes them all away.     *)
Becomes(c, from, to) ==
    /\ child[c] = from
    /\ child' = [child EXCEPT ![c] = to]
    /\ Notified

Change(c) ==
    \/ Becomes(c, "active", "final")
    \/ Becomes(c, "final", "active")
    \/ Becomes(c, "gone", "active")

RemoveRoot ==
    /\ child' = [c \in Children |-> "gone"]
    /\ Notified

(* send_message, attach_run and a request_stop that leaves the child at    *)
(* work wake the waiter, too.                                              *)
Stir == Notified /\ UNCHANGED child

-----------------------------------------------------------------------------
(* Subscribed before anything is read.                                     *)
WaitFor(cs) ==
    /\ At("idle")
    /\ wait' = [at |-> "read", for |-> cs, unread |-> cs, woken |-> FALSE]
    /\ UNCHANGED child

(* One child after the other; one that is gone is an error.                *)
Read(c) ==
    /\ At("read") /\ c \in wait.unread
    /\ wait' = IF child[c] # "active" THEN NotWaiting
               ELSE [wait EXCEPT !.unread = @ \ {c},
                                 !.at = IF wait.unread = {c} THEN "sleep" ELSE @]
    /\ UNCHANGED child

(* list: no child, or one that is over, and the wait returns.              *)
ReadAll ==
    /\ At("read") /\ wait.for = {}
    /\ LET listed == {c \in Children : child[c] # "gone"}
       IN  wait' = IF listed = {} \/ \E c \in listed : child[c] = "final"
                   THEN NotWaiting ELSE [wait EXCEPT !.at = "sleep"]
    /\ UNCHANGED child

(* Woken, it subscribes anew and reads again; or its deadline passes.      *)
WakeUp ==
    /\ At("sleep")
    /\ \/ wait.woken /\ wait' = [wait EXCEPT !.at = "read", !.unread = wait.for, !.woken = FALSE]
       \/ wait' = NotWaiting
    /\ UNCHANGED child

(* The waiting run is cancelled: dispatch drops the wait.                  *)
Cancelled ==
    /\ ~At("idle")
    /\ wait' = NotWaiting /\ UNCHANGED child

Waiter == ReadAll \/ WakeUp \/ Cancelled \/ \E c \in Children : Read(c)

Next ==
    \/ \E c \in Children : Change(c)
    \/ RemoveRoot \/ Stir
    \/ \E cs \in SUBSET Children : WaitFor(cs)
    \/ Waiter

Spec == Init /\ [][Next]_vars

-----------------------------------------------------------------------------
TypeOK ==
    /\ child \in [Children -> {"active", "final", "gone"}]
    /\ wait \in [at : {"idle", "read", "sleep"}, for : SUBSET Children,
                 unread : SUBSET Children, woken : BOOLEAN]

(* Nobody sleeps through the end of a child: a waiter that nothing has     *)
(* woken waits for children that are all at work.                          *)
NoLostWakeup ==
    At("sleep") /\ ~wait.woken =>
        /\ \A c \in wait.for : child[c] = "active"
        /\ wait.for = {} => \A c \in Children : child[c] # "final"
=============================================================================
