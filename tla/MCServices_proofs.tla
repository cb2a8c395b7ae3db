-------------------------- MODULE MCServices_proofs --------------------------
(***************************************************************************)
(* Proofs about what a core has going beside its turns, for every number   *)
(* of callers, saves, jobs and children, of processes, requests and lines. *)
(* Each part has an inductive invariant of its own; the parts share no     *)
(* variable, so the composition keeps them all.                            *)
(***************************************************************************)
EXTENDS MCServices, SequenceTheorems, FiniteSetTheorems, TLAPS

IndexP == INSTANCE KnowledgeIndex_proofs WITH watching <- toggle, Watchers <- Jobs

-----------------------------------------------------------------------------
(* The inductive invariants.                                               *)

(* Process ids are given out in order, and a watcher attends every entry   *)
(* that shows, or still has, a process.                                    *)
DevInv ==
    /\ Dev!TypeOK
    /\ Dev!NoStray
    /\ entry.pid <= spawned
    /\ \A c \in Callers : call[c] # Dev!Idle => call[c].pid <= spawned
    /\ \A c \in Callers : Dev!At(c, "insert") => call[c].pid \in Dev!Pids
    /\ entry # Dev!NoEntry /\ (Dev!Showing(entry) \/ entry.pid \in live) =>
           entry.pid \in watching

(* Where each task of the pool is: a task that has a slot has it under its *)
(* lock, a slot that a call holds is the pool's and not retired, and one   *)
(* that reconcile holds is retired.                                        *)
Placed ==
    /\ \A t \in Mcp!Tasks :
         /\ task[t].at \in {"lock", "connect", "send", "receive", "remove"} =>
                task[t].slot \in Mcp!Slots
         /\ Mcp!At(t, "lock") =>
                task[t].slot = pool \/ slot[task[t].slot].retired
         /\ task[t].at \in {"connect", "send", "receive"} =>
                task[t].slot = pool /\ ~slot[task[t].slot].retired
         /\ Mcp!At(t, "remove") => slot[task[t].slot].retired

(* Only the pool's slot has a connection, unless it is retired; and no     *)
(* answer on it is to a request that is still to be asked.                 *)
Connected ==
    /\ \A s \in Mcp!Slots :
         s # pool \/ slot[s].retired => slot[s].connection = "none" /\ wire[s] = <<>>
    /\ \A s \in Mcp!Slots : \A i \in DOMAIN wire[s] :
         /\ wire[s][i].id <= slot[s].id
         /\ \A c \in Callers :
              Mcp!At(c, "receive") /\ task[c].slot = s /\ wire[s][i].id = slot[s].id =>
                  wire[s][i].request = task[c].request

McpInv == Mcp!TypeOK /\ Placed /\ Connected /\ misled = {}

(* What is known of a command at each step of its task.                    *)
CmdKnown ==
    \* before the row
    /\ Cmd!At("idle") => leader = "none" /\ row = Cmd!NoRow
    /\ exec.at \in {"idle", "spawned"} => ~handle /\ stop.at = "idle"
    /\ exec.at \in {"spawned", "registered"} => row = Cmd!NoRow
    /\ exec.at \in {"drain", "receive", "flush", "look", "wait", "settle", "finish"} =>
           row = "running"
    \* who can end the program
    /\ Cmd!At("spawned") => leader \in {"runs", "exited"}
    /\ kids => leader # "none"
    /\ handle => leader \in {"runs", "exited"}
    /\ exec.at \notin {"idle", "spawned"} /\ ~handle /\ leader = "runs" => stop.at = "kill"
    /\ exec.status # "" /\ Cmd!At("wait") => ~handle
    /\ Cmd!At("settle") => Cmd!Gone \/ ~handle
    /\ exec.at \in {"finish", "down"} \/ stop.at # "idle" => ~handle
    /\ row \in {"killed", "timeout", "exited"} => ~handle /\ exec.at \in {"over", "down"}
    \* the verdict
    /\ exec.at \notin {"look", "wait", "settle", "finish", "over", "down"} => exec.status = ""
    /\ exec.status = "exited" => exec.at \in {"finish", "over", "down"}
    /\ Cmd!At("finish") => exec.status # ""
    /\ exec.at \in {"registered", "drain", "receive", "flush", "look"}
           /\ exec.status = "" /\ ~handle => stop.at # "idle"
    /\ exec.at \in {"wait", "settle"} /\ exec.status = "" =>
           handle \/ stop.during \in {"wait", "settle"}
    /\ Cmd!At("settle") /\ exec.status = "" => Cmd!Gone
    /\ Cmd!At("flush") => Cmd!Gone
    /\ exec.at \in {"look", "wait", "settle"} /\ exec.status = "" =>
           (Cmd!Gone \/ shut) /\ exec.got = said
    /\ exec.status = "exited" =>
           /\ Cmd!Gone /\ exec.got = said
           /\ ~handle
           /\ leader = "killed" => stop.during \in {"wait", "settle"}
    /\ exec.status = "killed" => cancelled \/ exec.wedged \/ stop.at # "idle"
    /\ row = "exited" => exec.status = "exited"
    /\ row = "killed" => exec.status = "killed" \/ Cmd!At("down")

(* Every line that was said and received is kept, or is said to be missing. *)
CmdCounts ==
    /\ exec.kept <= exec.got /\ exec.got <= said
    /\ exec.kept = exec.got \/ exec.truncated

CmdInv == Cmd!TypeOK /\ CmdCounts /\ CmdKnown

IndexInv == IndexP!IndexInv

(* Who has read a child found it at work, or has been woken since.         *)
WaitInv ==
    /\ Wait!TypeOK
    /\ wait.unread \subseteq wait.for
    /\ Wait!At("sleep") => wait.unread = {}
    /\ wait.at \in {"read", "sleep"} /\ ~wait.woken =>
           \A c \in wait.for \ wait.unread : child[c] = "active"
    /\ Wait!At("sleep") /\ ~wait.woken /\ wait.for = {} =>
           \A c \in Children : child[c] # "final"

ServicesInv == DevInv /\ McpInv /\ CmdInv /\ IndexInv /\ WaitInv

-----------------------------------------------------------------------------
(* The development server.                                                 *)

(* Nothing runs at first.                                                  *)
LEMMA DevBegins == Dev!Init => DevInv
<1>1. MaxSpawns \in Nat
  BY ServicesAssumption DEF ServicesAssumption
<1>2. ASSUME Dev!Init
      PROVE  DevInv
  <2>1. /\ entry = Dev!NoEntry /\ entry.pid = 0 /\ live = {} /\ spawned = 0 /\ watching = {}
        /\ call = [c \in Callers |-> Dev!Idle]
    BY <1>2 DEF Dev!Init, Dev!NoEntry
  <2>2. Dev!TypeOK
    BY <1>1, <2>1 DEF Dev!TypeOK
  <2>3. \A c \in Callers : call[c] = Dev!Idle
    BY <2>1
  <2>4. QED
    BY <1>1, <2>1, <2>2, <2>3 DEF DevInv, Dev!NoStray, Dev!At, Dev!Idle
<1>3. QED
  BY <1>2

DevEntries ==
    [pid : Dev!Pids, command : Commands, status : {"starting", "running", "failed"}]
DevCalls ==
    [at : {"wait", "stop", "spawn", "insert", "loop", "probe"},
     command : Commands, pid : Dev!Pids \union {0}, late : BOOLEAN]

DevStates == {Dev!Idle} \union DevCalls

(* Setting fields of a caller's state.                                     *)
LEMMA DevFields ==
    ASSUME Dev!TypeOK, NEW c \in Callers, call[c].at # "idle"
    PROVE  /\ \A at \in {"wait", "stop", "spawn", "insert", "loop", "probe"} :
                \E x \in DevStates :
                    /\ x.at = at /\ x.pid = call[c].pid
                    /\ [call EXCEPT ![c].at = at] = [call EXCEPT ![c] = x]
           /\ \A p \in Dev!Pids : \E x \in DevStates :
                    /\ x.at = "insert" /\ x.pid = p
                    /\ [call EXCEPT ![c].at = "insert", ![c].pid = p] = [call EXCEPT ![c] = x]
           /\ \E x \in DevStates :
                    /\ x.at = call[c].at /\ x.pid = call[c].pid
                    /\ [call EXCEPT ![c].late = TRUE] = [call EXCEPT ![c] = x]
<1>1. call \in [Callers -> {Dev!Idle} \union DevCalls]
  BY DEF Dev!TypeOK, DevCalls
<1>2. call[c] \in DevCalls
  BY <1>1 DEF Dev!Idle
<1>3. ASSUME NEW at \in {"wait", "stop", "spawn", "insert", "loop", "probe"}
      PROVE  \E x \in DevStates :
                 /\ x.at = at /\ x.pid = call[c].pid
                 /\ [call EXCEPT ![c].at = at] = [call EXCEPT ![c] = x]
  <2> DEFINE x == [call[c] EXCEPT !.at = at]
  <2>1. x \in DevStates /\ x.at = at /\ x.pid = call[c].pid
    BY <1>2 DEF DevCalls, DevStates
  <2>2. [call EXCEPT ![c].at = at] = [call EXCEPT ![c] = x]
    BY <1>1
  <2> HIDE DEF x
  <2>3. QED
    BY <2>1, <2>2
<1>4. ASSUME NEW p \in Dev!Pids
      PROVE  \E x \in DevStates :
                 /\ x.at = "insert" /\ x.pid = p
                 /\ [call EXCEPT ![c].at = "insert", ![c].pid = p] = [call EXCEPT ![c] = x]
  <2> DEFINE x == [[call[c] EXCEPT !.at = "insert"] EXCEPT !.pid = p]
  <2>1. x \in DevStates /\ x.at = "insert" /\ x.pid = p
    BY <1>2 DEF DevCalls, DevStates
  <2>2. [call EXCEPT ![c].at = "insert", ![c].pid = p] = [call EXCEPT ![c] = x]
    BY <1>1
  <2> HIDE DEF x
  <2>3. QED
    BY <2>1, <2>2
<1>5. \E x \in DevStates :
          /\ x.at = call[c].at /\ x.pid = call[c].pid
          /\ [call EXCEPT ![c].late = TRUE] = [call EXCEPT ![c] = x]
  <2> DEFINE x == [call[c] EXCEPT !.late = TRUE]
  <2>1. x \in DevStates /\ x.at = call[c].at /\ x.pid = call[c].pid
    BY <1>2 DEF DevCalls, DevStates
  <2>2. [call EXCEPT ![c].late = TRUE] = [call EXCEPT ![c] = x]
    BY <1>1
  <2> HIDE DEF x
  <2>3. QED
    BY <2>1, <2>2
<1>6. QED
  BY <1>3, <1>4, <1>5

(* A caller other than c holds the process.                                *)
HeldBeside(c, p) == \E d \in Callers \ {c} : Dev!HeldBy(d, p)

(* What the table owes its watchers.                                       *)
Attended(e, alive, attending) ==
    e # Dev!NoEntry /\ (Dev!Showing(e) \/ e.pid \in alive) => e.pid \in attending

(* A step of caller c, which goes to state x, that loses track of no       *)
(* process and leaves no process the entry names without a watcher.        *)
DevKeeps(c, x) ==
    /\ call' = [call EXCEPT ![c] = x]
    /\ entry' \in {Dev!NoEntry} \union DevEntries
    /\ live' \subseteq Dev!Pids /\ watching' \subseteq Dev!Pids
    /\ spawned' \in 0 .. MaxSpawns /\ spawned <= spawned' /\ entry'.pid <= spawned'
    /\ x # Dev!Idle => x.pid <= spawned'
    /\ x.at = "insert" => x.pid \in Dev!Pids
    /\ \A p \in live' : \/ entry'.pid = p
                        \/ HeldBeside(c, p)
                        \/ x.at \in {"insert", "loop", "probe"} /\ x.pid = p
    /\ Attended(entry', live', watching')

(* Such a step keeps the invariant.                                        *)
LEMMA DevCallerSteps ==
    ASSUME DevInv, NEW c \in Callers, NEW x \in DevStates, DevKeeps(c, x)
    PROVE  DevInv'
<1> USE DEF DevKeeps
<1>1. MaxSpawns \in Nat
  BY ServicesAssumption DEF ServicesAssumption
<1>2. /\ call \in [Callers -> {Dev!Idle} \union DevCalls] /\ spawned \in 0 .. MaxSpawns
      /\ \A d \in Callers : call[d] # Dev!Idle => call[d].pid <= spawned
      /\ \A d \in Callers : call[d].at = "insert" => call[d].pid \in Dev!Pids
  BY DEF DevInv, Dev!TypeOK, DevCalls, Dev!At
<1>3. /\ call' \in [Callers -> {Dev!Idle} \union DevCalls]
      /\ call'[c] = x /\ \A d \in Callers \ {c} : call'[d] = call[d]
  BY <1>2 DEF DevStates
<1>4. Dev!TypeOK'
  BY <1>3 DEF Dev!TypeOK, DevCalls, DevEntries
<1>5. ASSUME NEW p \in live'
      PROVE  entry'.pid = p \/ Dev!Held(p)'
  BY <1>3 DEF Dev!Held, Dev!HeldBy, HeldBeside
<1>6. ASSUME NEW d \in Callers, call'[d] # Dev!Idle
      PROVE  call'[d].pid <= spawned'
  <2>1. CASE d = c
    BY <1>3, <1>6, <2>1
  <2>2. CASE d # c
    <3>1. call[d] \in DevCalls /\ call'[d] = call[d] /\ call[d].pid <= spawned
      BY <1>2, <1>3, <1>6, <2>2
    <3>2. call[d].pid \in Nat
      BY <1>1, <3>1 DEF DevCalls, Dev!Pids
    <3>3. QED
      BY <1>1, <1>2, <3>1, <3>2
  <2>3. QED
    BY <2>1, <2>2
<1>7. \A d \in Callers : call'[d].at = "insert" => call'[d].pid \in Dev!Pids
  BY <1>2, <1>3
<1>8. QED
  BY <1>4, <1>5, <1>6, <1>7 DEF DevInv, Dev!NoStray, Dev!At, Attended

(* Every step keeps the table and the processes together.                  *)
LEMMA DevGoesOn == DevInv /\ [Dev!Next]_devVars => DevInv'
<1> SUFFICES ASSUME DevInv, [Dev!Next]_devVars
             PROVE  DevInv'
  OBVIOUS
<1>1. MaxSpawns \in Nat
  BY ServicesAssumption DEF ServicesAssumption
<1>2. /\ entry \in {Dev!NoEntry} \union DevEntries
      /\ live \subseteq Dev!Pids /\ watching \subseteq Dev!Pids
      /\ spawned \in 0 .. MaxSpawns
      /\ call \in [Callers -> {Dev!Idle} \union DevCalls]
  BY DEF DevInv, Dev!TypeOK, DevCalls, DevEntries
<1>3. Dev!Pids = 1 .. MaxSpawns
  BY DEF Dev!Pids
<1>4. entry.pid \in 0 .. MaxSpawns /\ (entry # Dev!NoEntry => entry.pid \in Dev!Pids)
  BY <1>1, <1>2, <1>3 DEF Dev!NoEntry, DevEntries
<1>5. /\ \A p \in live : entry.pid = p \/ \E d \in Callers : Dev!HeldBy(d, p)
      /\ entry.pid <= spawned /\ Attended(entry, live, watching)
      /\ \A c \in Callers : call[c] # Dev!Idle => call[c].pid <= spawned
      /\ \A c \in Callers : call[c].at = "insert" => call[c].pid \in Dev!Pids
  BY DEF DevInv, Dev!NoStray, Attended, Dev!Held, Dev!At
<1>6. /\ Dev!NoEntry.pid = 0 /\ 0 \notin Dev!Pids
      /\ \A alive, attending : Attended(Dev!NoEntry, alive, attending)
  BY <1>1, <1>3 DEF Dev!NoEntry, Attended
<1>7. \A c \in Callers : call[c].at # "idle" => call[c] \in DevCalls /\ call[c] # Dev!Idle
  BY <1>2 DEF Dev!Idle
<1>8. \A c \in Callers : \A p \in live :
          entry.pid = p \/ HeldBeside(c, p) \/ Dev!HeldBy(c, p)
  BY <1>5 DEF HeldBeside
<1>9. CASE UNCHANGED devVars
  BY <1>9 DEF devVars, DevInv, Dev!TypeOK, Dev!NoStray, Dev!Held, Dev!HeldBy, Dev!At
<1>10. ASSUME NEW c \in Callers, NEW command \in Commands, Dev!Start(c, command)
       PROVE  DevInv'
  <2>1. UNCHANGED <<entry, live, spawned, watching>> /\ call[c].at = "idle"
    BY <1>10 DEF Dev!Start, Dev!At
  <2>2. PICK step \in {"stop", "wait", "idle"} :
          call' = [call EXCEPT ![c] =
              IF step = "idle" THEN Dev!Idle
              ELSE [at |-> step, command |-> command, pid |-> 0, late |-> FALSE]]
    BY <1>10 DEF Dev!Start
  <2>3. PICK x \in DevStates :
          /\ call' = [call EXCEPT ![c] = x] /\ x.at \notin {"insert", "loop", "probe"}
          /\ x # Dev!Idle => x.pid = 0
    <3>1. CASE step = "idle"
      <4>1. Dev!Idle.at = "idle" /\ Dev!Idle \in DevStates
        BY DEF Dev!Idle, DevStates
      <4>2. QED
        BY <2>2, <3>1, <4>1
    <3>2. CASE step # "idle"
      <4> DEFINE x == [at |-> step, command |-> command, pid |-> 0, late |-> FALSE]
      <4>1. x \in DevStates /\ x.at = step /\ x.pid = 0
        BY <3>2 DEF DevCalls, DevStates
      <4>2. call' = [call EXCEPT ![c] = x]
        BY <2>2, <3>2
      <4> HIDE DEF x
      <4>3. QED
        BY <3>2, <4>1, <4>2
    <3>3. QED
      BY <3>1, <3>2
  <2>4. \A p : ~Dev!HeldBy(c, p)
    BY <2>1 DEF Dev!HeldBy
  <2>5. x # Dev!Idle => x.pid <= spawned
    BY <1>1, <1>2, <2>3
  <2>6. DevKeeps(c, x)
    BY <1>1, <1>2, <1>5, <1>8, <2>1, <2>3, <2>4, <2>5 DEF DevKeeps
  <2>7. QED
    BY <2>6, <2>3, DevCallerSteps
<1>11. ASSUME NEW c \in Callers, Dev!Caller(c) \/ Dev!DeadlinePasses(c)
       PROVE  DevInv'
  <2>1. CASE Dev!Refused(c) \/ Dev!Waited(c)
    <3>1. /\ call' = [call EXCEPT ![c] = Dev!Idle] /\ call[c].at \in {"spawn", "wait"}
          /\ UNCHANGED <<entry, live, spawned, watching>>
      BY <2>1 DEF Dev!Refused, Dev!Waited, Dev!Return, Dev!At
    <3>2. Dev!Idle.at = "idle" /\ Dev!Idle \in DevStates /\ \A p : ~Dev!HeldBy(c, p)
      BY <3>1 DEF Dev!Idle, Dev!HeldBy, DevStates
    <3>3. DevKeeps(c, Dev!Idle)
      BY <1>1, <1>2, <1>5, <1>8, <3>1, <3>2 DEF DevKeeps
    <3>4. QED
      BY <3>3, <3>2, DevCallerSteps
  <2>2. CASE Dev!StopFirst(c)
    <3>1. /\ call[c].at = "stop" /\ call' = [call EXCEPT ![c].at = "spawn"]
          /\ entry' = Dev!NoEntry /\ live' = live \ {entry.pid} /\ UNCHANGED <<spawned, watching>>
      BY <2>2 DEF Dev!StopFirst, Dev!Stopped, Dev!Goto, Dev!At
    <3>2. PICK x \in DevStates : call' = [call EXCEPT ![c] = x] /\ x.at = "spawn" /\ x.pid = call[c].pid
      BY <3>1, DevFields DEF DevInv
    <3>3. \A p : ~Dev!HeldBy(c, p)
      BY <3>1 DEF Dev!HeldBy
    <3>4. x.pid <= spawned /\ call[c] # Dev!Idle
      BY <1>5, <1>7, <3>1, <3>2
    <3>5. /\ entry'.pid = 0 /\ 0 <= spawned /\ spawned <= spawned
          /\ Attended(entry', live', watching')
      BY <1>1, <1>2, <1>6, <3>1
    <3>6. \A p \in live' : HeldBeside(c, p)
      BY <1>8, <3>1, <3>3
    <3>7. DevKeeps(c, x)
      BY <1>2, <3>1, <3>2, <3>4, <3>5, <3>6 DEF DevKeeps
    <3>8. QED
      BY <3>7, <3>2, DevCallerSteps
  <2>3. CASE Dev!Spawn(c)
    <3>1. /\ call[c].at = "spawn" /\ spawned < MaxSpawns /\ spawned' = spawned + 1
          /\ live' = live \union {spawned'}
          /\ call' = [call EXCEPT ![c].at = "insert", ![c].pid = spawned']
          /\ UNCHANGED <<entry, watching>>
      BY <2>3 DEF Dev!Spawn, Dev!At
    <3>2. spawned' \in Dev!Pids /\ spawned' \in 0 .. MaxSpawns /\ spawned <= spawned'
          /\ entry.pid # spawned' /\ entry.pid <= spawned'
      BY <1>1, <1>2, <1>3, <1>4, <1>5, <3>1
    <3>3. PICK x \in DevStates : call' = [call EXCEPT ![c] = x] /\ x.at = "insert" /\ x.pid = spawned'
      <4>1. Dev!TypeOK /\ call[c].at # "idle"
        BY <3>1 DEF DevInv
      <4>2. \A p \in Dev!Pids : \E x \in DevStates :
                /\ x.at = "insert" /\ x.pid = p
                /\ [call EXCEPT ![c].at = "insert", ![c].pid = p] = [call EXCEPT ![c] = x]
        BY <4>1, DevFields
      <4>3. QED
        BY <3>1, <3>2, <4>2
    <3>4. \A p : ~Dev!HeldBy(c, p)
      BY <3>1 DEF Dev!HeldBy
    <3>5. Attended(entry', live', watching')
      BY <1>5, <3>1, <3>2 DEF Attended
    <3>6. spawned' <= spawned'
      BY <1>1, <3>2
    <3>7. DevKeeps(c, x)
      BY <1>1, <1>2, <1>8, <3>1, <3>2, <3>3, <3>4, <3>5, <3>6 DEF DevKeeps
    <3>8. QED
      BY <3>7, <3>3, DevCallerSteps
  <2>4. CASE Dev!Insert(c)
    <3>1. /\ call[c].at = "insert"
          /\ entry' = [pid |-> call[c].pid, command |-> call[c].command, status |-> "starting"]
          /\ live' = IF Dev!Held(entry.pid) THEN live ELSE live \ {entry.pid}
          /\ watching' = watching \union {call[c].pid}
          /\ call' = [call EXCEPT ![c].at = "loop"] /\ UNCHANGED spawned
      BY <2>4 DEF Dev!Insert, Dev!Goto, Dev!At
    <3>2. call[c] \in DevCalls /\ call[c].pid \in Dev!Pids /\ call[c].pid <= spawned
          /\ call[c].command \in Commands
      BY <1>5, <1>7, <3>1 DEF DevCalls
    <3>3. PICK x \in DevStates : call' = [call EXCEPT ![c] = x] /\ x.at = "loop" /\ x.pid = call[c].pid
      BY <3>1, DevFields DEF DevInv
    <3>4. entry' \in DevEntries /\ entry'.pid = call[c].pid /\ entry'.pid \in watching'
      BY <3>1, <3>2 DEF DevEntries
    <3>5. ASSUME NEW p \in live'
          PROVE  entry'.pid = p \/ HeldBeside(c, p)
      BY <1>8, <3>1, <3>4, <3>5 DEF Dev!Held, HeldBeside, Dev!HeldBy
    <3>6. /\ Attended(entry', live', watching') /\ spawned' <= spawned'
          /\ live' \subseteq Dev!Pids /\ watching' \subseteq Dev!Pids
      BY <1>1, <1>2, <3>1, <3>2, <3>4 DEF Attended
    <3>7. DevKeeps(c, x)
      BY <1>2, <3>1, <3>2, <3>3, <3>4, <3>5, <3>6 DEF DevKeeps
    <3>8. QED
      BY <3>7, <3>3, DevCallerSteps
  <2>5. CASE Dev!Probe(c) \/ Dev!NoAnswer(c) \/ Dev!DeadlinePasses(c)
    <3>1. /\ call[c].at \in {"wait", "loop", "probe"} /\ UNCHANGED <<entry, live, spawned, watching>>
          /\ \/ call[c].at \in {"loop", "probe"}
                /\ \E at \in {"loop", "probe"} : call' = [call EXCEPT ![c].at = at]
             \/ call' = [call EXCEPT ![c].late = TRUE]
      BY <2>5 DEF Dev!Probe, Dev!NoAnswer, Dev!DeadlinePasses, Dev!Goto, Dev!At
    <3>2. call[c] \in DevCalls /\ call[c].pid <= spawned
      BY <1>5, <1>7, <3>1
    <3>3. PICK x \in DevStates :
            /\ call' = [call EXCEPT ![c] = x] /\ x.pid = call[c].pid
            /\ x.at \in {"wait", "loop", "probe"}
            /\ call[c].at \in {"loop", "probe"} => x.at \in {"loop", "probe"}
      <4>1. Dev!TypeOK /\ call[c].at # "idle"
        BY <3>1 DEF DevInv
      <4>2. ASSUME NEW at \in {"loop", "probe"}, call' = [call EXCEPT ![c].at = at]
            PROVE  \E x \in DevStates : /\ call' = [call EXCEPT ![c] = x]
                                        /\ x.pid = call[c].pid /\ x.at = at
        <5>1. at \in {"wait", "stop", "spawn", "insert", "loop", "probe"}
          OBVIOUS
        <5>2. \E x \in DevStates :
                  /\ x.at = at /\ x.pid = call[c].pid
                  /\ [call EXCEPT ![c].at = at] = [call EXCEPT ![c] = x]
          BY <4>1, <5>1, DevFields
        <5>3. QED
          BY <4>2, <5>2
      <4>3. ASSUME call' = [call EXCEPT ![c].late = TRUE]
            PROVE  \E x \in DevStates : /\ call' = [call EXCEPT ![c] = x]
                                        /\ x.pid = call[c].pid /\ x.at = call[c].at
        BY <4>1, <4>3, DevFields
      <4>4. QED
        BY <3>1, <4>2, <4>3
    <3>4. \A p : Dev!HeldBy(c, p) => x.at \in {"loop", "probe"} /\ x.pid = p
      BY <3>1, <3>3 DEF Dev!HeldBy
    <3>5. DevKeeps(c, x)
      BY <1>1, <1>2, <1>5, <1>8, <3>1, <3>2, <3>3, <3>4 DEF DevKeeps
    <3>6. QED
      BY <3>5, <3>3, DevCallerSteps
  <2>6. CASE Dev!Answered(c)
    <3>1. /\ entry # Dev!NoEntry /\ entry.pid \in live
          /\ entry' = [entry EXCEPT !.status = "running"]
          /\ live' = IF call[c].pid = entry.pid THEN live ELSE live \ {call[c].pid}
          /\ call' = [call EXCEPT ![c] = Dev!Idle]
          /\ UNCHANGED <<spawned, watching>>
      BY <2>6 DEF Dev!Answered, Dev!EntryLives, Dev!Return
    <3>2. entry' \in DevEntries /\ entry'.pid = entry.pid /\ entry.pid \in watching
      BY <1>2, <1>5, <3>1 DEF DevEntries, Attended
    <3>3. ASSUME NEW p \in live'
          PROVE  entry'.pid = p \/ HeldBeside(c, p)
      BY <1>8, <3>1, <3>2 DEF Dev!HeldBy
    <3>4. Dev!Idle.at = "idle" /\ Dev!Idle \in DevStates
      BY DEF Dev!Idle, DevStates
    <3>5. DevKeeps(c, Dev!Idle)
      BY <1>1, <1>2, <1>5, <3>1, <3>2, <3>3, <3>4 DEF DevKeeps, Attended
    <3>6. QED
      BY <3>5, <3>4, DevCallerSteps
  <2>7. CASE Dev!NotReady(c)
    <3>1. /\ entry' = Dev!NoEntry /\ live' = live \ {entry.pid, call[c].pid}
          /\ call' = [call EXCEPT ![c] = Dev!Idle]
          /\ UNCHANGED <<spawned, watching>>
      BY <2>7 DEF Dev!NotReady, Dev!Return
    <3>2. Dev!Idle.at = "idle" /\ Dev!Idle \in DevStates /\ 0 <= spawned
      BY <1>1, <1>2 DEF Dev!Idle, DevStates
    <3>3. \A p \in live' : HeldBeside(c, p)
      BY <1>8, <3>1 DEF Dev!HeldBy
    <3>4. DevKeeps(c, Dev!Idle)
      BY <1>1, <1>2, <1>6, <3>1, <3>2, <3>3 DEF DevKeeps
    <3>5. QED
      BY <3>4, <3>2, DevCallerSteps
  <2>8. QED
    BY <1>11, <2>1, <2>2, <2>3, <2>4, <2>5, <2>6, <2>7 DEF Dev!Caller
<1>12. ASSUME \/ Dev!OperatorStops \/ Dev!Status
              \/ \E p \in 1 .. MaxSpawns : Dev!Exit(p) \/ Dev!Watch(p)
       PROVE  DevInv'
  <2>1. /\ UNCHANGED <<spawned, call>>
        /\ entry' \in {Dev!NoEntry} \union DevEntries
        /\ live' \subseteq live /\ watching' \subseteq watching
        /\ entry'.pid \in {0, entry.pid}
        /\ \A p \in live' : entry.pid = p => entry'.pid = p
        /\ Attended(entry', live', watching')
    <3>1. CASE Dev!OperatorStops
      BY <1>6, <3>1 DEF Dev!OperatorStops, Dev!Stopped
    <3>2. ASSUME entry # Dev!NoEntry, entry' = [entry EXCEPT !.status = "failed"],
                 UNCHANGED live, watching' \subseteq watching,
                 entry.pid \in live => entry.pid \in watching'
          PROVE  /\ entry' \in DevEntries /\ entry'.pid = entry.pid
                 /\ Attended(entry', live', watching')
      BY <1>2, <3>2 DEF DevEntries, Attended, Dev!Showing
    <3>3. CASE Dev!Status
      BY <1>5, <3>2, <3>3 DEF Dev!Status, Dev!Showing, Attended
    <3>4. ASSUME NEW p \in 1 .. MaxSpawns, Dev!Exit(p)
          PROVE  /\ UNCHANGED <<entry, spawned, watching, call>> /\ live' \subseteq live
                 /\ Attended(entry', live', watching')
      BY <1>5, <3>4 DEF Dev!Exit, Attended
    <3>5. ASSUME NEW p \in 1 .. MaxSpawns, Dev!Watch(p), entry # Dev!NoEntry
          PROVE  /\ entry' \in DevEntries /\ entry'.pid = entry.pid
                 /\ Attended(entry', live', watching')
                 /\ UNCHANGED <<live, spawned, call>> /\ watching' \subseteq watching
      BY <1>5, <3>2, <3>5 DEF Dev!Watch, Attended
    <3>6. ASSUME NEW p \in 1 .. MaxSpawns, Dev!Watch(p), entry = Dev!NoEntry
          PROVE  /\ UNCHANGED <<entry, live, spawned, call>> /\ watching' \subseteq watching
                 /\ Attended(entry', live', watching')
      BY <1>6, <3>6 DEF Dev!Watch
    <3>7. QED
      BY <1>2, <1>12, <3>1, <3>2, <3>3, <3>4, <3>5, <3>6 DEF Dev!Status
  <2>2. Dev!TypeOK'
    BY <1>2, <2>1 DEF Dev!TypeOK, DevCalls, DevEntries
  <2>3. ASSUME NEW p \in live'
        PROVE  entry'.pid = p \/ Dev!Held(p)'
    BY <1>5, <2>1 DEF Dev!Held, Dev!HeldBy
  <2>4. entry'.pid <= spawned'
    BY <1>1, <1>2, <1>5, <2>1
  <2>5. QED
    BY <1>5, <2>1, <2>2, <2>3, <2>4 DEF DevInv, Dev!NoStray, Attended, Dev!At
<1>13. QED
  BY <1>9, <1>10, <1>11, <1>12 DEF Dev!Next

-----------------------------------------------------------------------------
(* The pooled connection.                                                  *)

Holding == {"connect", "send", "receive", "remove"}
SlotRows == [config : Configs \union {"none"}, retired : BOOLEAN,
             connection : {"none", "up", "dead"}, id : Nat \ {0}]
Answers == [id : Nat \ {0}, request : 1 .. MaxRequests]
CallStates == {Mcp!Idle} \union Mcp!Stages
SaveStates == {Mcp!Idle, Mcp!Done} \union Mcp!Reviews

(* The types, with names for the parts, and who holds what.                *)
McpTyped ==
    /\ settings \in Configs \union {"off"}
    /\ pool \in Mcp!Slots \union {0}
    /\ slot \in [Mcp!Slots -> SlotRows]
    /\ holder \in [Mcp!Slots -> Mcp!Tasks \union {"free"}]
    /\ asked \in 0 .. MaxRequests /\ misled \subseteq Callers
    /\ wire \in [Mcp!Slots -> Seq(Answers)]
    /\ task \in [Mcp!Tasks -> CallStates \union SaveStates]
    /\ \A c \in Callers : task[c] \in CallStates
    /\ \A v \in Saves : task[v] \in SaveStates

Held == \A t \in Mcp!Tasks : task[t].at \in Holding => holder[task[t].slot] = t

(* They are the same.                                                      *)
LEMMA McpTypedIsTypeOK == McpTyped /\ Held <=> Mcp!TypeOK
<1>1. CallStates \union SaveStates = {Mcp!Idle, Mcp!Done} \union Mcp!Stages \union Mcp!Reviews
  BY DEF CallStates, SaveStates
<1>2. QED
  BY <1>1 DEF McpTyped, Held, Mcp!TypeOK, SlotRows, Answers, Holding, CallStates, SaveStates

(* What the numbers of slots and requests are.                             *)
LEMMA SlotFacts ==
    /\ IsFiniteSet(Mcp!Tasks) /\ Cardinality(Mcp!Tasks) \in Nat
    /\ Mcp!Slots = 1 .. Cardinality(Mcp!Tasks) + 1
    /\ 0 \notin Mcp!Slots /\ MaxRequests \in Nat
    /\ "free" \notin Mcp!Tasks /\ Callers \intersect Saves = {}
    /\ Mcp!Tasks = Callers \union Saves
<1>1. IsFiniteSet(Mcp!Tasks)
  BY ServicesAssumption, FS_Union DEF ServicesAssumption, Mcp!Tasks
<1>2. Cardinality(Mcp!Tasks) \in Nat
  BY <1>1, FS_CardinalityType
<1>3. Mcp!Slots = 1 .. Cardinality(Mcp!Tasks) + 1
  BY DEF Mcp!Slots, Mcp!Cardinality, Cardinality
<1>4. QED
  BY <1>1, <1>2, <1>3, ServicesAssumption DEF ServicesAssumption, Mcp!Tasks

(* There is no slot in use and no task has one at first.                   *)
LEMMA McpBegins == Mcp!Init => McpInv
<1> SUFFICES ASSUME Mcp!Init
             PROVE  McpInv
  OBVIOUS
<1>1. \E config \in Configs : TRUE
  BY ServicesAssumption DEF ServicesAssumption
<1>2. settings \in Configs
  BY <1>1 DEF Mcp!Init
<1>3. Mcp!Unused \in SlotRows
  BY DEF Mcp!Unused, SlotRows
<1>4. <<>> \in Seq(Answers)
  BY EmptySeq
<1>5. Mcp!Idle \in CallStates /\ Mcp!Idle \in SaveStates /\ Mcp!Idle.at = "idle"
  BY DEF Mcp!Idle, CallStates, SaveStates
<1>6. /\ slot = [s \in Mcp!Slots |-> Mcp!Unused] /\ wire = [s \in Mcp!Slots |-> <<>>]
      /\ task = [t \in Mcp!Tasks |-> Mcp!Idle] /\ holder = [s \in Mcp!Slots |-> "free"]
      /\ pool = 0 /\ asked = 0 /\ misled = {}
  BY DEF Mcp!Init
<1>7. asked \in 0 .. MaxRequests
  BY <1>6, SlotFacts
<1>8. McpTyped
  BY <1>2, <1>3, <1>4, <1>5, <1>6, <1>7, SlotFacts DEF McpTyped
<1>9. \A t \in Mcp!Tasks : task[t].at = "idle"
  BY <1>5, <1>6
<1>10. Held /\ Placed
  BY <1>9 DEF Held, Holding, Placed, Mcp!At
<1>11. Connected
  BY <1>6 DEF Connected, Mcp!Unused
<1>12. QED
  BY <1>6, <1>8, <1>10, <1>11, McpTypedIsTypeOK DEF McpInv

(* A slot that is not in use can be found for the server.                  *)
LEMMA FreshSlot ==
    ASSUME pool = 0
    PROVE  \E n \in Mcp!Slots : n \notin Mcp!InUse
<1> DEFINE f == [t \in Mcp!Tasks |-> IF Mcp!Busy(t) THEN task[t].slot ELSE 0]
           T == {f[t] : t \in Mcp!Tasks}
           N == Cardinality(Mcp!Tasks) + 1
<1>1. IsFiniteSet(T) /\ Cardinality(T) <= Cardinality(Mcp!Tasks)
  <2>1. DOMAIN f = Mcp!Tasks
    OBVIOUS
  <2> HIDE DEF f
  <2>2. IndexP!IsFiniteSet(Mcp!Tasks)
    BY SlotFacts DEF IndexP!IsFiniteSet, IsFiniteSet
  <2>3. IndexP!IsFiniteSet(T) /\ IndexP!Cardinality(T) <= IndexP!Cardinality(Mcp!Tasks)
    BY <2>1, <2>2, IndexP!ImageBound
  <2> HIDE DEF T
  <2>4. QED
    BY <2>3 DEF IndexP!IsFiniteSet, IsFiniteSet, IndexP!Cardinality, Cardinality
<1>2. PICK n \in 1 .. N : n \notin T
  <2> HIDE DEF f, T
  <2>1. Cardinality(T) \in Nat
    BY <1>1, FS_CardinalityType
  <2>2. Cardinality(T) < N /\ N \in Nat
    BY <1>1, <2>1, SlotFacts
  <2>3. IndexP!IsFiniteSet(T) /\ IndexP!Cardinality(T) < N
    BY <1>1, <2>2 DEF IndexP!IsFiniteSet, IsFiniteSet, IndexP!Cardinality, Cardinality
  <2> HIDE DEF N
  <2>4. QED
    BY <2>2, <2>3, IndexP!SomethingSpare
<1>3. n \in Mcp!Slots /\ n # 0
  BY SlotFacts
<1>4. ASSUME NEW t \in Mcp!Tasks, Mcp!Busy(t)
      PROVE  task[t].slot \in T
  <2>1. f[t] = task[t].slot
    BY <1>4
  <2>2. QED
    BY <2>1
<1>5. n \notin Mcp!InUse
  <2> HIDE DEF T, N, f
  <2>1. QED
    BY <1>2, <1>3, <1>4 DEF Mcp!InUse
<1>6. QED
  BY <1>3, <1>5

(* What a task may become by a step that leaves the slots alone.           *)
TaskMay(t, x) ==
    /\ t \in Callers => x \in CallStates
    /\ t \in Saves => x \in SaveStates
    /\ x.at \notin Holding
    /\ x.at = "lock" => x.slot \in Mcp!Slots /\ x.slot = pool

(* A step of one task that leaves the slots alone.                         *)
LEMMA TaskMoves ==
    ASSUME McpInv, NEW t \in Mcp!Tasks, NEW x, TaskMay(t, x),
           task' = [task EXCEPT ![t] = x],
           settings' \in Configs \union {"off"}, asked' \in 0 .. MaxRequests,
           UNCHANGED <<pool, slot, holder, wire, misled>>
    PROVE  McpInv'
<1>1. McpTyped /\ Held /\ Placed /\ Connected /\ misled = {}
  BY McpTypedIsTypeOK DEF McpInv
<1>2. /\ task'[t] = x /\ \A u \in Mcp!Tasks \ {t} : task'[u] = task[u]
      /\ task' \in [Mcp!Tasks -> CallStates \union SaveStates]
  BY <1>1, SlotFacts DEF McpTyped, TaskMay
<1>3. McpTyped'
  BY <1>1, <1>2, SlotFacts DEF McpTyped, TaskMay, Mcp!Slots, Mcp!Tasks
<1>4. Held'
  BY <1>1, <1>2 DEF Held, TaskMay, Holding, Mcp!Tasks
<1>5. Placed'
  BY <1>1, <1>2 DEF Placed, TaskMay, Holding, Mcp!Tasks, Mcp!Slots, Mcp!At
<1>6. Connected'
  <2>1. ASSUME NEW c \in Callers, task'[c].at = "receive"
        PROVE  task'[c] = task[c]
    BY <1>2, <2>1, SlotFacts DEF TaskMay, Holding
  <2>2. QED
    BY <1>1, <2>1 DEF Connected, Mcp!At, Mcp!Slots
<1>7. QED
  <2>1. misled' = {}
    BY <1>1
  <2>2. Mcp!TypeOK'
    BY <1>3, <1>4, McpTypedIsTypeOK, PTL
  <2>3. QED
    BY <1>5, <1>6, <2>1, <2>2 DEF McpInv

(* What a task, a slot, the slot's wire and its holder may become by a step *)
(* under the slot's lock.                                                  *)
SlotMay(t, s, x, y, w, h) ==
    /\ t \in Callers => x \in CallStates
    /\ t \in Saves => x \in SaveStates
    /\ y \in SlotRows /\ w \in Seq(Answers) /\ h \in Mcp!Tasks \union {"free"}
    \* its lock
    /\ holder[s] = t \/ holder[s] = "free" \/ h = holder[s]
    /\ x.at \in Holding => x.slot = s /\ h = t
    \* where it is
    /\ x.at = "lock" => x.slot \in Mcp!Slots /\ x.slot = pool
    /\ x.at \in {"connect", "send", "receive"} => s = pool /\ ~y.retired
    /\ x.at = "remove" => y.retired
    /\ slot[s].retired => y.retired
    \* what is said on its connection
    /\ s # pool \/ y.retired => y.connection = "none" /\ w = <<>>
    /\ \A i \in DOMAIN w :
         /\ w[i].id <= y.id
         /\ x.at = "receive" /\ w[i].id = y.id => w[i].request = x.request
    /\ <<y, w>> # <<slot[s], wire[s]>> => holder[s] \in {t, "free"}

(* A step of a task under the lock of one slot.                            *)
LEMMA SlotMoves ==
    ASSUME McpInv, NEW t \in Mcp!Tasks, NEW s \in Mcp!Slots,
           NEW x, NEW y, NEW w, NEW h, SlotMay(t, s, x, y, w, h),
           task' = [task EXCEPT ![t] = x], slot' = [slot EXCEPT ![s] = y],
           wire' = [wire EXCEPT ![s] = w], holder' = [holder EXCEPT ![s] = h],
           asked' \in 0 .. MaxRequests,
           UNCHANGED <<pool, settings, misled>>
    PROVE  McpInv'
<1>1. McpTyped /\ Held /\ Placed /\ Connected /\ misled = {}
  BY McpTypedIsTypeOK DEF McpInv
<1>2. /\ task'[t] = x /\ \A u \in Mcp!Tasks \ {t} : task'[u] = task[u]
      /\ task' \in [Mcp!Tasks -> CallStates \union SaveStates]
  BY <1>1, SlotFacts DEF McpTyped, SlotMay
<1>3. /\ slot'[s] = y /\ \A r \in Mcp!Slots \ {s} : slot'[r] = slot[r]
      /\ slot' \in [Mcp!Slots -> SlotRows]
  BY <1>1 DEF McpTyped, SlotMay
<1>4. /\ wire'[s] = w /\ \A r \in Mcp!Slots \ {s} : wire'[r] = wire[r]
      /\ wire' \in [Mcp!Slots -> Seq(Answers)]
  BY <1>1 DEF McpTyped, SlotMay
<1>5. /\ holder'[s] = h /\ \A r \in Mcp!Slots \ {s} : holder'[r] = holder[r]
      /\ holder' \in [Mcp!Slots -> Mcp!Tasks \union {"free"}]
  BY <1>1 DEF McpTyped, SlotMay
<1>6. McpTyped'
  <2>1. /\ \A c \in Callers : task'[c] \in CallStates
        /\ \A v \in Saves : task'[v] \in SaveStates
    BY <1>1, <1>2, SlotFacts DEF McpTyped, SlotMay
  <2>2. QED
    BY <1>1, <1>2, <1>3, <1>4, <1>5, <2>1 DEF McpTyped, Mcp!Slots, Mcp!Tasks
<1>7. ASSUME NEW u \in Mcp!Tasks, u # t, task[u].at \in Holding, task[u].slot = s
      PROVE  holder[s] = u /\ h = u /\ y = slot[s] /\ w = wire[s]
  BY <1>1, <1>7, SlotFacts DEF Held, SlotMay
<1>8. ASSUME NEW u \in Mcp!Tasks, task[u].at \in Holding \union {"lock"}
      PROVE  task[u].slot \in Mcp!Slots
  BY <1>1, <1>8 DEF Placed, Holding
<1>9. Held'
  <2>1. ASSUME NEW u \in Mcp!Tasks, task'[u].at \in Holding
        PROVE  holder'[task'[u].slot] = u
    <3>1. CASE u = t
      BY <1>2, <1>5, <2>1, <3>1 DEF SlotMay
    <3>2. CASE u # t /\ task[u].slot = s
      BY <1>2, <1>5, <1>7, <2>1, <3>2
    <3>3. CASE u # t /\ task[u].slot # s
      BY <1>1, <1>2, <1>5, <1>8, <2>1, <3>3 DEF Held
    <3>4. QED
      BY <3>1, <3>2, <3>3
  <2>2. QED
    BY <2>1 DEF Held, Mcp!Tasks
<1>10. Placed'
  <2>1. ASSUME NEW u \in Mcp!Tasks
        PROVE  /\ task'[u].at \in {"lock", "connect", "send", "receive", "remove"} =>
                      task'[u].slot \in Mcp!Slots
               /\ task'[u].at = "lock" =>
                      task'[u].slot = pool \/ slot'[task'[u].slot].retired
               /\ task'[u].at \in {"connect", "send", "receive"} =>
                      task'[u].slot = pool /\ ~slot'[task'[u].slot].retired
               /\ task'[u].at = "remove" => slot'[task'[u].slot].retired
    <3>1. CASE u = t
      BY <1>2, <1>3, <2>1, <3>1 DEF SlotMay, Holding
    <3>2. CASE u # t /\ task[u].slot = s
      <4>1. task'[u] = task[u]
        BY <1>2, <3>2
      <4>2. slot[s].retired => y.retired
        BY DEF SlotMay
      <4>3. task[u].at \in Holding => y = slot[s]
        BY <1>7, <3>2
      <4>4. QED
        BY <1>1, <1>3, <3>2, <4>1, <4>2, <4>3 DEF Placed, Holding, Mcp!At
    <3>3. CASE u # t /\ task[u].slot # s
      BY <1>1, <1>2, <1>3, <3>3 DEF Placed, Mcp!At
    <3>4. QED
      BY <3>1, <3>2, <3>3
  <2>2. QED
    BY <2>1 DEF Placed, Mcp!Tasks, Mcp!Slots, Mcp!At
<1>11. Connected'
  <2>1. ASSUME NEW r \in Mcp!Slots
        PROVE  r # pool \/ slot'[r].retired => slot'[r].connection = "none" /\ wire'[r] = <<>>
    <3>1. CASE r = s
      BY <1>3, <1>4, <3>1 DEF SlotMay
    <3>2. CASE r # s
      BY <1>1, <1>3, <1>4, <3>2 DEF Connected
    <3>3. QED
      BY <3>1, <3>2
  <2>2. ASSUME NEW r \in Mcp!Slots, NEW i \in DOMAIN wire'[r]
        PROVE  wire'[r][i].id <= slot'[r].id
    <3>1. CASE r = s
      BY <1>3, <1>4, <2>2, <3>1 DEF SlotMay
    <3>2. CASE r # s
      BY <1>1, <1>3, <1>4, <2>2, <3>2 DEF Connected
    <3>3. QED
      BY <3>1, <3>2
  <2>3. ASSUME NEW r \in Mcp!Slots, NEW i \in DOMAIN wire'[r], NEW c \in Callers,
               task'[c].at = "receive", task'[c].slot = r, wire'[r][i].id = slot'[r].id
        PROVE  wire'[r][i].request = task'[c].request
    <3>1. c \in Mcp!Tasks
      BY SlotFacts
    <3>2. CASE c = t
      <4>1. r = s
        BY <1>2, <2>3, <3>2 DEF SlotMay, Holding
      <4>2. QED
        BY <1>2, <1>3, <1>4, <2>3, <3>2, <4>1 DEF SlotMay
    <3>3. CASE c # t /\ r = s
      <4>1. task'[c] = task[c]
        BY <1>2, <3>1, <3>3
      <4>2. y = slot[s] /\ w = wire[s]
        BY <1>7, <2>3, <3>1, <3>3, <4>1 DEF Holding
      <4>3. QED
        BY <1>1, <1>3, <1>4, <2>3, <3>3, <4>1, <4>2 DEF Connected, Mcp!At
    <3>4. CASE c # t /\ r # s
      <4>1. task'[c] = task[c] /\ wire'[r] = wire[r] /\ slot'[r] = slot[r]
        BY <1>2, <1>3, <1>4, <3>1, <3>4
      <4>2. QED
        BY <1>1, <2>3, <4>1 DEF Connected, Mcp!At
    <3>5. QED
      BY <3>2, <3>3, <3>4
  <2>4. QED
    BY <2>1, <2>2, <2>3 DEF Connected, Mcp!Slots, Mcp!At
<1>12. QED
  <2>1. misled' = {}
    BY <1>1
  <2>2. Mcp!TypeOK'
    BY <1>6, <1>9, McpTypedIsTypeOK, PTL
  <2>3. QED
    BY <1>10, <1>11, <2>1, <2>2 DEF McpInv

(* A call looks the server up, and a save is made or handed over.          *)
LEMMA McpTaskSteps ==
    ASSUME McpInv,
           \/ \E c \in Callers : Mcp!ReadSettings(c)
           \/ \E c \in Callers : pool # 0 /\ Mcp!FindSlot(c)
           \/ \E v \in Saves, config \in Configs \union {"off"} : Mcp!Save(v, config)
           \/ \E v \in Saves : Mcp!Snapshot(v)
    PROVE  McpInv'
<1>1. McpTyped /\ Held /\ Placed /\ Connected /\ misled = {}
  BY McpTypedIsTypeOK DEF McpInv
<1>2. ASSUME NEW c \in Callers, Mcp!ReadSettings(c)
      PROVE  McpInv'
  <2> DEFINE x == [at |-> "pool", config |-> settings, slot |-> 0, request |-> asked + 1]
  <2>1. settings \in Configs /\ asked + 1 \in 1 .. MaxRequests
    BY <1>1, <1>2, SlotFacts DEF Mcp!ReadSettings, McpTyped
  <2>2. x \in CallStates /\ x.at = "pool"
    BY <2>1 DEF CallStates, Mcp!Stages
  <2>3. task' = [task EXCEPT ![c] = x]
    BY <1>2 DEF Mcp!ReadSettings
  <2>4. asked' \in 0 .. MaxRequests /\ UNCHANGED <<settings, pool, slot, holder, wire, misled>>
    BY <1>2, <2>1, SlotFacts DEF Mcp!ReadSettings
  <2> HIDE DEF x
  <2>5. c \in Mcp!Tasks /\ TaskMay(c, x)
    BY <2>2, SlotFacts DEF TaskMay, Holding
  <2>6. settings' \in Configs \union {"off"}
    BY <2>1, <2>4
  <2>7. QED
    BY <2>3, <2>4, <2>5, <2>6, TaskMoves
<1>3. ASSUME NEW c \in Callers, pool # 0, Mcp!FindSlot(c)
      PROVE  McpInv'
  <2>1. task[c] \in Mcp!Stages /\ pool \in Mcp!Slots
    BY <1>1, <1>3, SlotFacts DEF Mcp!FindSlot, Mcp!At, McpTyped, CallStates, Mcp!Idle
  <2>2. PICK x \in Mcp!Stages : /\ x.at = "lock" /\ x.slot = pool
                                /\ task' = [task EXCEPT ![c] = x]
    <3>1. [task[c] EXCEPT !.at = "lock", !.slot = pool] \in Mcp!Stages
      BY <2>1 DEF Mcp!Stages
    <3>2. /\ [task[c] EXCEPT !.at = "lock", !.slot = pool].at = "lock"
          /\ [task[c] EXCEPT !.at = "lock", !.slot = pool].slot = pool
      BY <2>1 DEF Mcp!Stages
    <3>3. task' = [task EXCEPT ![c] = [task[c] EXCEPT !.at = "lock", !.slot = pool]]
      BY <1>1, <1>3, SlotFacts DEF Mcp!FindSlot, McpTyped
    <3>4. QED
      BY <3>1, <3>2, <3>3
  <2>3. UNCHANGED <<settings, pool, slot, holder, wire, asked, misled>>
    BY <1>3 DEF Mcp!FindSlot
  <2>4. c \in Mcp!Tasks /\ TaskMay(c, x)
    BY <2>1, <2>2, SlotFacts DEF TaskMay, Holding, CallStates
  <2>5. settings' \in Configs \union {"off"} /\ asked' \in 0 .. MaxRequests
    BY <1>1, <2>3 DEF McpTyped
  <2>6. QED
    BY <2>2, <2>3, <2>4, <2>5, TaskMoves
<1>4. ASSUME NEW v \in Saves, NEW config \in Configs \union {"off"}, Mcp!Save(v, config)
      PROVE  McpInv'
  <2> DEFINE x == [at |-> "saved", config |-> config, slot |-> 0]
  <2>1. x \in SaveStates /\ x.at = "saved"
    BY DEF SaveStates, Mcp!Reviews
  <2>2. /\ task' = [task EXCEPT ![v] = x] /\ settings' = config
        /\ UNCHANGED <<pool, slot, holder, wire, asked, misled>>
    BY <1>4 DEF Mcp!Save
  <2> HIDE DEF x
  <2>3. v \in Mcp!Tasks /\ TaskMay(v, x)
    BY <2>1, SlotFacts DEF TaskMay, Holding
  <2>4. settings' \in Configs \union {"off"} /\ asked' \in 0 .. MaxRequests
    BY <1>1, <2>2 DEF McpTyped
  <2>5. QED
    BY <2>2, <2>3, <2>4, TaskMoves
<1>5. ASSUME NEW v \in Saves, Mcp!Snapshot(v)
      PROVE  McpInv'
  <2>1. PICK x \in SaveStates :
          /\ task' = [task EXCEPT ![v] = x]
          /\ x.at \notin Holding
          /\ x.at = "lock" => x.slot \in Mcp!Slots /\ x.slot = pool
    <3>1. CASE pool = 0
      <4>1. Mcp!Done \in SaveStates /\ Mcp!Done.at = "done"
        BY DEF SaveStates, Mcp!Done
      <4>2. task' = [task EXCEPT ![v] = Mcp!Done]
        BY <1>5, <3>1 DEF Mcp!Snapshot
      <4>3. QED
        BY <4>1, <4>2 DEF Holding
    <3>2. CASE pool # 0
      <4>1. pool \in Mcp!Slots /\ settings \in Configs \union {"off"}
        BY <1>1, <3>2 DEF McpTyped
      <4>2. [at |-> "lock", config |-> settings, slot |-> pool] \in SaveStates
        BY <4>1 DEF SaveStates, Mcp!Reviews
      <4>3. task' = [task EXCEPT ![v] = [at |-> "lock", config |-> settings, slot |-> pool]]
        BY <1>5, <3>2 DEF Mcp!Snapshot
      <4>4. QED
        BY <4>1, <4>2, <4>3 DEF Holding
    <3>3. QED
      BY <3>1, <3>2
  <2>2. UNCHANGED <<settings, pool, slot, holder, wire, asked, misled>>
    BY <1>5 DEF Mcp!Snapshot
  <2>3. v \in Mcp!Tasks /\ TaskMay(v, x)
    BY <2>1, SlotFacts DEF TaskMay
  <2>4. settings' \in Configs \union {"off"} /\ asked' \in 0 .. MaxRequests
    BY <1>1, <2>2 DEF McpTyped
  <2>5. QED
    BY <2>1, <2>2, <2>3, <2>4, TaskMoves
<1>6. QED
  BY <1>2, <1>3, <1>4, <1>5

(* The server's id is given a slot that nobody has.                        *)
LEMMA SlotInserted ==
    ASSUME McpInv, NEW c \in Callers, pool = 0, Mcp!FindSlot(c)
    PROVE  McpInv'
<1>1. McpTyped /\ Held /\ Placed /\ Connected /\ misled = {}
  BY McpTypedIsTypeOK DEF McpInv
<1> DEFINE n == CHOOSE m \in Mcp!Slots : m \notin Mcp!InUse
           y == [Mcp!Unused EXCEPT !.config = task[c].config]
<1>2. n \in Mcp!Slots /\ n \notin Mcp!InUse
  BY FreshSlot
<1>3. /\ Mcp!At(c, "pool") /\ pool' = n
      /\ slot' = [slot EXCEPT ![n] = y]
      /\ task' = [task EXCEPT ![c].at = "lock", ![c].slot = n]
      /\ UNCHANGED <<settings, holder, wire, asked, misled>>
  BY DEF Mcp!FindSlot
<1> HIDE DEF n
<1>4. c \in Mcp!Tasks /\ task[c] \in Mcp!Stages
  BY <1>1, <1>3, SlotFacts DEF Mcp!At, McpTyped, CallStates, Mcp!Idle
<1>5. PICK x \in Mcp!Stages : /\ x.at = "lock" /\ x.slot = n
                              /\ task' = [task EXCEPT ![c] = x]
  <2>1. [task[c] EXCEPT !.at = "lock", !.slot = n] \in Mcp!Stages
    BY <1>2, <1>4 DEF Mcp!Stages
  <2>2. /\ [task[c] EXCEPT !.at = "lock", !.slot = n].at = "lock"
        /\ [task[c] EXCEPT !.at = "lock", !.slot = n].slot = n
    BY <1>4 DEF Mcp!Stages
  <2>3. task' = [task EXCEPT ![c] = [task[c] EXCEPT !.at = "lock", !.slot = n]]
    BY <1>1, <1>3, <1>4 DEF McpTyped
  <2>4. QED
    BY <2>1, <2>2, <2>3
<1>6. y \in SlotRows /\ y.connection = "none" /\ ~y.retired
  <2>1. task[c].config \in Configs
    BY <1>4 DEF Mcp!Stages
  <2>2. /\ Mcp!Unused \in SlotRows
        /\ Mcp!Unused.connection = "none" /\ Mcp!Unused.retired = FALSE
    BY DEF Mcp!Unused, SlotRows
  <2>3. QED
    BY <2>1, <2>2 DEF SlotRows
<1> HIDE DEF y
<1>7. /\ slot'[n] = y /\ \A r \in Mcp!Slots \ {n} : slot'[r] = slot[r]
      /\ slot' \in [Mcp!Slots -> SlotRows]
  BY <1>1, <1>2, <1>3, <1>6 DEF McpTyped
<1>8. /\ task'[c] = x /\ \A u \in Mcp!Tasks \ {c} : task'[u] = task[u]
      /\ x \in CallStates
      /\ task' \in [Mcp!Tasks -> CallStates \union SaveStates]
  BY <1>1, <1>4, <1>5 DEF McpTyped, CallStates
<1>9. ASSUME NEW u \in Mcp!Tasks, task[u].at \in Holding \union {"lock"}
      PROVE  /\ task[u].slot # n /\ task[u].slot \in Mcp!Slots
             /\ task[u].at \in {"lock", "remove"} /\ slot[task[u].slot].retired
  <2>1. Mcp!Busy(u)
    BY <1>9 DEF Mcp!Busy, Mcp!Idle, Mcp!Done, Holding
  <2>2. task[u].slot # n
    BY <1>2, <2>1 DEF Mcp!InUse
  <2>3. QED
    BY <1>1, <1>9, <2>2, SlotFacts DEF Placed, Holding, Mcp!At
<1>10. McpTyped'
  <2>1. /\ \A d \in Callers : task'[d] \in CallStates
        /\ \A v \in Saves : task'[v] \in SaveStates
    BY <1>1, <1>8, SlotFacts DEF McpTyped
  <2>2. QED
    BY <1>1, <1>2, <1>3, <1>7, <1>8, <2>1 DEF McpTyped, Mcp!Slots, Mcp!Tasks
<1>11. Held'
  BY <1>1, <1>3, <1>5, <1>8 DEF Held, Holding, Mcp!Tasks
<1>12. Placed'
  <2>1. ASSUME NEW u \in Mcp!Tasks
        PROVE  /\ task'[u].at \in {"lock", "connect", "send", "receive", "remove"} =>
                      task'[u].slot \in Mcp!Slots
               /\ task'[u].at = "lock" =>
                      task'[u].slot = pool' \/ slot'[task'[u].slot].retired
               /\ task'[u].at \notin {"connect", "send", "receive"}
               /\ task'[u].at = "remove" => slot'[task'[u].slot].retired
    <3>1. CASE u = c
      BY <1>2, <1>3, <1>5, <1>8, <3>1
    <3>2. CASE u # c
      BY <1>7, <1>8, <1>9, <3>2 DEF Holding
    <3>3. QED
      BY <3>1, <3>2
  <2>2. QED
    BY <2>1 DEF Placed, Mcp!Tasks, Mcp!Slots, Mcp!At
<1>13. Connected'
  <2>1. ASSUME NEW r \in Mcp!Slots
        PROVE  slot'[r].connection = "none" /\ wire'[r] = <<>>
    BY <1>1, <1>3, <1>6, <1>7, SlotFacts DEF Connected
  <2>2. QED
    BY <2>1 DEF Connected, Mcp!Slots, Mcp!At
<1>14. QED
  <2>1. misled' = {}
    BY <1>1, <1>3
  <2>2. Mcp!TypeOK'
    BY <1>10, <1>11, McpTypedIsTypeOK, PTL
  <2>3. QED
    BY <1>12, <1>13, <2>1, <2>2 DEF McpInv

(* A slot whose connection is closed keeps what else it is.                *)
LEMMA RowClosed ==
    ASSUME NEW s, slot[s] \in SlotRows
    PROVE  /\ Mcp!Closed(s) \in SlotRows
           /\ Mcp!Closed(s).retired = slot[s].retired
           /\ Mcp!Closed(s).config = slot[s].config
           /\ Mcp!Closed(s).connection = "none"
<1> DEFINE y == slot[s]
<1>1. y \in SlotRows
  OBVIOUS
<1>2. Mcp!Closed(s) = [y EXCEPT !.connection = "none", !.id = 1]
  BY DEF Mcp!Closed
<1> HIDE DEF y
<1>3. [y EXCEPT !.connection = "none", !.id = 1] \in SlotRows
  <2>1. [y EXCEPT !.connection = "none"] \in SlotRows
    BY <1>1 DEF SlotRows
  <2>2. \A z \in SlotRows : [z EXCEPT !.id = 1] \in SlotRows
    BY DEF SlotRows
  <2>3. QED
    BY <1>1, <2>1, <2>2 DEF SlotRows
<1>4. /\ [y EXCEPT !.connection = "none", !.id = 1].retired = y.retired
      /\ [y EXCEPT !.connection = "none", !.id = 1].config = y.config
      /\ [y EXCEPT !.connection = "none", !.id = 1].connection = "none"
  BY <1>1 DEF SlotRows
<1>5. QED
  BY <1>2, <1>3, <1>4 DEF y

(* A call takes the slot's lock, or finds the slot retired.                *)
LEMMA CallLocks ==
    ASSUME McpInv, NEW c \in Callers, Mcp!LockSlot(c)
    PROVE  McpInv'
<1>1. McpTyped /\ Held /\ Placed /\ Connected /\ misled = {}
  BY McpTypedIsTypeOK DEF McpInv
<1> DEFINE s == task[c].slot
<1>2. /\ c \in Mcp!Tasks /\ c \notin Saves /\ task[c] \in Mcp!Stages /\ task[c].at = "lock"
      /\ s \in Mcp!Slots /\ (s = pool \/ slot[s].retired) /\ holder[s] = "free"
  <2>1. task[c].at = "lock" /\ holder[s] = "free"
    BY DEF Mcp!LockSlot, Mcp!At, Mcp!Lockable
  <2>2. c \in Mcp!Tasks /\ c \notin Saves /\ task[c] \in Mcp!Stages
    BY <1>1, <2>1, SlotFacts DEF McpTyped, CallStates, Mcp!Idle
  <2>3. QED
    BY <1>1, <2>1, <2>2 DEF Placed, Mcp!At
<1>3. /\ slot[s] \in SlotRows /\ wire[s] \in Seq(Answers) /\ asked \in 0 .. MaxRequests
      /\ task[c].config \in Configs
  BY <1>1, <1>2 DEF McpTyped, Mcp!Stages
<1>4. CASE slot[s].retired
  <2>1. /\ task' = [task EXCEPT ![c] = Mcp!Idle]
        /\ UNCHANGED <<slot, wire, holder, settings, pool, asked, misled>>
    BY <1>2, <1>4 DEF Mcp!LockSlot, Mcp!RefusedIfRetired, Mcp!Return
  <2>2. TaskMay(c, Mcp!Idle)
    BY <1>2 DEF TaskMay, CallStates, Mcp!Idle, Holding
  <2>3. settings' \in Configs \union {"off"} /\ asked' \in 0 .. MaxRequests
    BY <1>1, <2>1 DEF McpTyped
  <2>4. QED
    BY <1>2, <2>1, <2>2, <2>3, TaskMoves
<1>5. CASE ~slot[s].retired
  <2> DEFINE other == slot[s].config # task[c].config
             at == IF other \/ slot[s].connection = "none" THEN "connect" ELSE "send"
             x == [task[c] EXCEPT !.at = at]
             y == IF other THEN [Mcp!Closed(s) EXCEPT !.config = task[c].config] ELSE slot[s]
             w == IF other THEN <<>> ELSE wire[s]
  <2>1. /\ holder' = [holder EXCEPT ![s] = c]
        /\ slot' = [slot EXCEPT ![s] = y]
        /\ wire' = [wire EXCEPT ![s] = w]
        /\ task' = [task EXCEPT ![c] = x]
        /\ UNCHANGED <<settings, pool, asked, misled>>
    <3>1. wire = [wire EXCEPT ![s] = wire[s]]
      BY <1>1, <1>2 DEF McpTyped
    <3>2. /\ holder' = [holder EXCEPT ![s] = c]
          /\ slot' = [slot EXCEPT ![s] = y]
          /\ wire' = IF other THEN [wire EXCEPT ![s] = <<>>] ELSE wire
          /\ task' = [task EXCEPT ![c].at = at]
          /\ UNCHANGED <<settings, pool, asked, misled>>
      BY <1>5 DEF Mcp!LockSlot, Mcp!RefusedIfRetired, Mcp!Goto, Mcp!DroppedWire
    <3>3. QED
      BY <3>1, <3>2
  <2>2. /\ x \in CallStates /\ x.at \in {"connect", "send"} /\ x.slot = s
    BY <1>2 DEF Mcp!Stages, CallStates
  <2>3. /\ y \in SlotRows /\ ~y.retired
    <3> HIDE DEF s
    <3>1. Mcp!Closed(s) \in SlotRows /\ Mcp!Closed(s).retired = slot[s].retired
      BY <1>3, RowClosed
    <3>2. QED
      BY <1>3, <1>5, <3>1 DEF SlotRows
  <2>4. /\ w \in Seq(Answers)
        /\ \A i \in DOMAIN w : w[i].id <= y.id
    <3>1. CASE other
      BY <3>1, EmptySeq
    <3>2. CASE ~other
      BY <1>1, <1>2, <1>3, <3>2 DEF Connected
    <3>3. QED
      BY <3>1, <3>2
  <2> HIDE DEF x, y, w
  <2>5. SlotMay(c, s, x, y, w, c)
    BY <1>2, <1>5, <2>2, <2>3, <2>4 DEF SlotMay, Holding
  <2> HIDE DEF s
  <2>6. QED
    BY <1>2, <1>3, <2>1, <2>5, SlotMoves
<1>6. QED
  BY <1>4, <1>5

(* What is known of a call that holds the slot's lock.                     *)
LEMMA CallHolds ==
    ASSUME McpInv, NEW c \in Callers, task[c].at \in {"connect", "send", "receive"}
    PROVE  /\ c \in Mcp!Tasks /\ c \notin Saves /\ task[c] \in Mcp!Stages
           /\ task[c].slot \in Mcp!Slots /\ holder[task[c].slot] = c
           /\ task[c].slot = pool /\ ~slot[task[c].slot].retired
           /\ slot[task[c].slot] \in SlotRows /\ wire[task[c].slot] \in Seq(Answers)
           /\ \A i \in DOMAIN wire[task[c].slot] :
                wire[task[c].slot][i].id <= slot[task[c].slot].id
           /\ asked \in 0 .. MaxRequests
<1>1. McpTyped /\ Held /\ Placed /\ Connected
  BY McpTypedIsTypeOK DEF McpInv
<1>2. c \in Mcp!Tasks /\ c \notin Saves /\ task[c] \in Mcp!Stages
  BY <1>1, SlotFacts DEF McpTyped, CallStates, Mcp!Idle
<1>3. /\ task[c].slot \in Mcp!Slots /\ holder[task[c].slot] = c
      /\ task[c].slot = pool /\ ~slot[task[c].slot].retired
  BY <1>1, <1>2 DEF Held, Placed, Holding
<1>4. QED
  BY <1>1, <1>2, <1>3 DEF McpTyped, Connected

(* The server is started, and asked.                                       *)
LEMMA CallAsks ==
    ASSUME McpInv, NEW c \in Callers, Mcp!Spawn(c) \/ Mcp!Send(c)
    PROVE  McpInv'
<1> DEFINE s == task[c].slot
<1>1. McpTyped
  BY McpTypedIsTypeOK DEF McpInv
<1>2. task[c].at \in {"connect", "send", "receive"}
  BY DEF Mcp!Spawn, Mcp!Send, Mcp!At
<1>3. /\ c \in Mcp!Tasks /\ c \notin Saves /\ task[c] \in Mcp!Stages
      /\ s \in Mcp!Slots /\ holder[s] = c /\ s = pool /\ ~slot[s].retired
      /\ slot[s] \in SlotRows /\ wire[s] \in Seq(Answers)
      /\ \A i \in DOMAIN wire[s] : wire[s][i].id <= slot[s].id
      /\ asked \in 0 .. MaxRequests
  BY <1>2, CallHolds
<1>4. wire = [wire EXCEPT ![s] = wire[s]] /\ holder = [holder EXCEPT ![s] = c]
  BY <1>1, <1>3 DEF McpTyped
<1>5. CASE Mcp!Spawn(c)
  <2> DEFINE x == [task[c] EXCEPT !.at = "send"]
             y == [slot[s] EXCEPT !.connection = "up"]
             w == wire[s]
  <2>1. /\ task' = [task EXCEPT ![c] = x] /\ slot' = [slot EXCEPT ![s] = y]
        /\ UNCHANGED <<settings, pool, holder, wire, asked, misled>>
    BY <1>5 DEF Mcp!Spawn, Mcp!Goto
  <2>2. x \in CallStates /\ x.at = "send" /\ x.slot = s
    BY <1>3 DEF Mcp!Stages, CallStates
  <2>3. y \in SlotRows /\ ~y.retired /\ y.id = slot[s].id
    BY <1>3 DEF SlotRows
  <2> HIDE DEF x, y, s
  <2>4. SlotMay(c, s, x, y, w, c)
    BY <1>3, <2>2, <2>3 DEF SlotMay, Holding
  <2>5. /\ wire' = [wire EXCEPT ![s] = w] /\ holder' = [holder EXCEPT ![s] = c]
        /\ asked' \in 0 .. MaxRequests
        /\ task' = [task EXCEPT ![c] = x] /\ slot' = [slot EXCEPT ![s] = y]
        /\ UNCHANGED <<pool, settings, misled>>
    BY <1>3, <1>4, <2>1
  <2>6. c \in Mcp!Tasks /\ s \in Mcp!Slots
    BY <1>3
  <2> HIDE DEF w
  <2>7. QED
    BY <2>4, <2>5, <2>6, SlotMoves
<1>6. CASE Mcp!Send(c)
  <2> DEFINE x == [task[c] EXCEPT !.at = "receive"]
             y == [slot[s] EXCEPT !.id = slot[s].id + 1]
             w == wire[s]
  <2>1. /\ task' = [task EXCEPT ![c] = x] /\ slot' = [slot EXCEPT ![s] = y]
        /\ UNCHANGED <<settings, pool, holder, wire, asked, misled>>
    BY <1>6 DEF Mcp!Send, Mcp!Goto, Mcp!NextId
  <2>2. x \in CallStates /\ x.at = "receive" /\ x.slot = s
    BY <1>3 DEF Mcp!Stages, CallStates
  <2>3. y \in SlotRows /\ ~y.retired /\ y.id = slot[s].id + 1
    BY <1>3 DEF SlotRows
  <2>4. \A i \in DOMAIN wire[s] : wire[s][i].id < y.id
    <3>1. slot[s].id \in Nat
      BY <1>3 DEF SlotRows
    <3>2. ASSUME NEW i \in DOMAIN wire[s]
          PROVE  wire[s][i].id \in Nat /\ wire[s][i].id <= slot[s].id
      <4>1. wire[s][i] \in Answers
        BY <1>3, ElementOfSeq, LenProperties
      <4>2. QED
        BY <1>3, <4>1 DEF Answers
    <3> HIDE DEF s
    <3>3. QED
      BY <2>3, <3>1, <3>2
  <2>5. \A i \in DOMAIN wire[s] : wire[s][i].id <= y.id /\ wire[s][i].id # y.id
    <3>1. ASSUME NEW i \in DOMAIN wire[s]
          PROVE  wire[s][i].id \in Nat
      <4>1. wire[s][i] \in Answers
        BY <1>3, ElementOfSeq, LenProperties
      <4>2. QED
        BY <4>1 DEF Answers
    <3>2. y.id \in Nat
      BY <2>3 DEF SlotRows
    <3> HIDE DEF s, y
    <3>3. QED
      BY <2>4, <3>1, <3>2
  <2> HIDE DEF x, y, s
  <2>6. SlotMay(c, s, x, y, w, c)
    BY <1>3, <2>2, <2>3, <2>5 DEF SlotMay, Holding
  <2>7. /\ wire' = [wire EXCEPT ![s] = w] /\ holder' = [holder EXCEPT ![s] = c]
        /\ asked' \in 0 .. MaxRequests
        /\ task' = [task EXCEPT ![c] = x] /\ slot' = [slot EXCEPT ![s] = y]
        /\ UNCHANGED <<pool, settings, misled>>
    BY <1>3, <1>4, <2>1
  <2>8. c \in Mcp!Tasks /\ s \in Mcp!Slots
    BY <1>3
  <2> HIDE DEF w
  <2>9. QED
    BY <2>6, <2>7, <2>8, SlotMoves
<1>7. QED
  BY <1>5, <1>6

(* What is known of the answers nobody has read.                           *)
LEMMA AnswersKnown ==
    ASSUME McpInv, NEW c \in Callers, Mcp!At(c, "receive"),
           NEW i \in DOMAIN wire[task[c].slot]
    PROVE  LET a == wire[task[c].slot][i]
               s == task[c].slot
           IN  a \in Answers /\ a.id <= slot[s].id
               /\ (a.id = slot[s].id => a.request = task[c].request)
<1>1. /\ task[c].slot \in Mcp!Slots /\ wire[task[c].slot] \in Seq(Answers)
  BY CallHolds DEF Mcp!At
<1>2. wire[task[c].slot][i] \in Answers
  BY <1>1, ElementOfSeq, LenProperties
<1>3. QED
  BY <1>1, <1>2 DEF McpInv, Connected

(* A call reads an answer: what it takes is the answer to its own request. *)
LEMMA CallReceives ==
    ASSUME McpInv, NEW c \in Callers, Mcp!Receive(c)
    PROVE  McpInv'
<1> DEFINE s == task[c].slot
           w == Tail(wire[s])
           y == slot[s]
<1>1. McpTyped /\ Connected /\ misled = {}
  BY McpTypedIsTypeOK DEF McpInv
<1>2. Mcp!At(c, "receive") /\ task[c].at \in {"connect", "send", "receive"}
  BY DEF Mcp!Receive, Mcp!At
<1>3. /\ c \in Mcp!Tasks /\ c \notin Saves /\ task[c] \in Mcp!Stages
      /\ s \in Mcp!Slots /\ holder[s] = c /\ s = pool /\ ~slot[s].retired
      /\ slot[s] \in SlotRows /\ wire[s] \in Seq(Answers) /\ asked \in 0 .. MaxRequests
  BY <1>2, CallHolds
<1>4. /\ wire[s] # <<>> /\ wire' = [wire EXCEPT ![s] = w]
      /\ UNCHANGED <<settings, pool, slot>>
  BY DEF Mcp!Receive
<1>5. /\ w \in Seq(Answers) /\ 1 \in DOMAIN wire[s]
      /\ \A i \in DOMAIN w : i + 1 \in DOMAIN wire[s] /\ w[i] = wire[s][i + 1]
      /\ Head(wire[s]) = wire[s][1]
  <2> HIDE DEF s
  <2>1. /\ Tail(wire[s]) \in Seq(Answers)
        /\ Len(Tail(wire[s])) = Len(wire[s]) - 1
        /\ \A i \in 1 .. Len(Tail(wire[s])) : Tail(wire[s])[i] = wire[s][i + 1]
        /\ Head(wire[s]) = wire[s][1]
    BY <1>3, <1>4, HeadTailProperties
  <2>2. /\ Len(wire[s]) \in Nat /\ DOMAIN wire[s] = 1 .. Len(wire[s])
        /\ DOMAIN Tail(wire[s]) = 1 .. Len(Tail(wire[s]))
        /\ Len(wire[s]) # 0
    BY <1>3, <1>4, <2>1, LenProperties, EmptySeq
  <2>3. QED
    BY <2>1, <2>2
<1>6. \A i \in DOMAIN wire[s] :
        /\ wire[s][i].id <= y.id
        /\ wire[s][i].id = y.id => wire[s][i].request = task[c].request
  BY <1>2, AnswersKnown
<1>7. \A i \in DOMAIN w :
        /\ w[i].id <= y.id
        /\ w[i].id = y.id => w[i].request = task[c].request
  BY <1>5, <1>6
<1>8. slot' = [slot EXCEPT ![s] = y]
  BY <1>1, <1>4 DEF McpTyped
<1>9. CASE Head(wire[s]).id # slot[s].id
  <2> DEFINE x == task[c]
  <2>1. UNCHANGED <<task, holder, asked, misled>>
    BY <1>9 DEF Mcp!Receive
  <2>2. /\ task' = [task EXCEPT ![c] = x] /\ holder' = [holder EXCEPT ![s] = c]
        /\ asked' \in 0 .. MaxRequests /\ UNCHANGED <<pool, settings, misled>>
    BY <1>1, <1>3, <1>4, <2>1 DEF McpTyped
  <2>3. x \in CallStates /\ x.at = "receive" /\ x.slot = s
    BY <1>2, <1>3 DEF CallStates, Mcp!At
  <2> HIDE DEF w, y
  <2>4. SlotMay(c, s, x, y, w, c)
    <3>1. y \in SlotRows /\ ~y.retired
      BY <1>3 DEF y
    <3> HIDE DEF x, s
    <3>2. \A i \in DOMAIN w :
            /\ w[i].id <= y.id
            /\ x.at = "receive" /\ w[i].id = y.id => w[i].request = x.request
      BY <1>7 DEF x
    <3>3. QED
      BY <1>3, <1>5, <2>3, <3>1, <3>2 DEF SlotMay, Holding
  <2>5. c \in Mcp!Tasks /\ s \in Mcp!Slots
    BY <1>3
  <2> HIDE DEF x, s
  <2>6. QED
    BY <1>4, <1>8, <2>2, <2>4, <2>5, SlotMoves
<1>10. CASE Head(wire[s]).id = slot[s].id
  <2>1. Head(wire[s]).request = task[c].request
    BY <1>5, <1>6, <1>10
  <2>2. /\ misled' = misled /\ holder' = [holder EXCEPT ![s] = "free"]
        /\ \/ Mcp!Return(c) /\ UNCHANGED asked
           \/ /\ asked < MaxRequests
              /\ asked' = asked + 1
              /\ task' = [task EXCEPT ![c] = [@ EXCEPT !.at = "pool", !.slot = 0,
                                                       !.request = asked']]
    BY <1>10, <2>1 DEF Mcp!Receive, Mcp!Unlock
  <2>3. PICK x \in CallStates : /\ x.at \in {"idle", "pool"}
                                /\ task' = [task EXCEPT ![c] = x]
    <3>1. CASE Mcp!Return(c)
      <4>1. Mcp!Idle \in CallStates /\ Mcp!Idle.at = "idle"
        BY DEF CallStates, Mcp!Idle
      <4>2. task' = [task EXCEPT ![c] = Mcp!Idle]
        BY <1>3, <3>1 DEF Mcp!Return
      <4>3. QED
        BY <4>1, <4>2
    <3>2. CASE ~Mcp!Return(c)
      <4> DEFINE x == [task[c] EXCEPT !.at = "pool", !.slot = 0, !.request = asked + 1]
      <4>1. task' = [task EXCEPT ![c] = x] /\ asked + 1 \in 1 .. MaxRequests
        <5>1. /\ asked < MaxRequests /\ asked' = asked + 1
              /\ task' = [task EXCEPT ![c] = [task[c] EXCEPT !.at = "pool", !.slot = 0,
                                                            !.request = asked']]
          BY <1>1, <1>3, <2>2, <3>2 DEF McpTyped
        <5>2. asked + 1 \in 1 .. MaxRequests
          BY <1>3, <5>1, SlotFacts
        <5>3. QED
          BY <5>1, <5>2
      <4>2. x \in Mcp!Stages /\ x.at = "pool"
        BY <1>3, <4>1 DEF Mcp!Stages
      <4> HIDE DEF x
      <4>3. QED
        BY <4>1, <4>2 DEF CallStates
    <3>3. QED
      BY <3>1, <3>2
  <2>4. asked' \in 0 .. MaxRequests /\ UNCHANGED <<pool, settings, misled>>
    BY <1>3, <1>4, <2>2, SlotFacts
  <2> HIDE DEF w
  <2>5. SlotMay(c, s, x, y, w, "free")
    BY <1>3, <1>5, <1>7, <2>3 DEF SlotMay, Holding
  <2>6. c \in Mcp!Tasks /\ s \in Mcp!Slots
    BY <1>3
  <2> HIDE DEF s, y
  <2>7. QED
    BY <1>4, <1>8, <2>2, <2>3, <2>4, <2>5, <2>6, SlotMoves
<1>11. QED
  BY <1>9, <1>10

(* A call gives up: its connection goes.                                   *)
LEMMA CallFails ==
    ASSUME McpInv, NEW c \in Callers, Mcp!Failed(c)
    PROVE  McpInv'
<1> DEFINE s == task[c].slot
           y == Mcp!Closed(s)
<1>1. task[c].at \in {"connect", "send", "receive"}
  BY DEF Mcp!Failed
<1>2. /\ c \in Mcp!Tasks /\ c \notin Saves /\ s \in Mcp!Slots /\ holder[s] = c /\ s = pool
      /\ ~slot[s].retired /\ slot[s] \in SlotRows /\ asked \in 0 .. MaxRequests
  BY <1>1, CallHolds
<1>3. /\ task' = [task EXCEPT ![c] = Mcp!Idle] /\ slot' = [slot EXCEPT ![s] = y]
      /\ wire' = [wire EXCEPT ![s] = <<>>] /\ holder' = [holder EXCEPT ![s] = "free"]
      /\ UNCHANGED <<pool, settings, misled>> /\ asked' = asked
  BY <1>2 DEF Mcp!Failed, Mcp!AfterError, Mcp!DroppedWire, Mcp!Unlock, Mcp!Return
<1>4. Mcp!Idle \in CallStates /\ Mcp!Idle.at = "idle" /\ <<>> \in Seq(Answers)
  BY EmptySeq DEF CallStates, Mcp!Idle
<1>5. y \in SlotRows /\ ~y.retired
  <2> HIDE DEF s
  <2>1. QED
    BY <1>2, RowClosed
<1> HIDE DEF y
<1>6. SlotMay(c, s, Mcp!Idle, y, <<>>, "free")
  <2> HIDE DEF s
  <2>1. DOMAIN <<>> = {}
    OBVIOUS
  <2>2. QED
    BY <1>2, <1>4, <1>5, <2>1 DEF SlotMay, Holding
<1>7. asked' \in 0 .. MaxRequests
  BY <1>2, <1>3
<1> HIDE DEF s
<1>8. QED
  BY <1>2, <1>3, <1>6, <1>7, SlotMoves

(* The server answers the request it has been asked.                       *)
LEMMA ServerAnswers ==
    ASSUME McpInv, NEW c \in Callers, Mcp!Answer(c)
    PROVE  McpInv'
<1> DEFINE s == task[c].slot
           a == [id |-> slot[s].id, request |-> task[c].request]
           w == Append(wire[s], a)
           x == task[c]
           y == slot[s]
<1>1. McpTyped
  BY McpTypedIsTypeOK DEF McpInv
<1>2. Mcp!At(c, "receive") /\ task[c].at \in {"connect", "send", "receive"}
  BY DEF Mcp!Answer, Mcp!At
<1>3. /\ c \in Mcp!Tasks /\ c \notin Saves /\ task[c] \in Mcp!Stages
      /\ s \in Mcp!Slots /\ holder[s] = c /\ s = pool /\ ~slot[s].retired
      /\ slot[s] \in SlotRows /\ wire[s] \in Seq(Answers) /\ asked \in 0 .. MaxRequests
  BY <1>2, CallHolds
<1>4. /\ wire' = [wire EXCEPT ![s] = w]
      /\ UNCHANGED <<settings, pool, slot, holder, task, asked, misled>>
  BY DEF Mcp!Answer
<1>5. a \in Answers /\ a.id = y.id /\ a.request = x.request /\ y.id \in Nat
  BY <1>3 DEF Answers, SlotRows, Mcp!Stages
<1>6. \A i \in DOMAIN wire[s] :
        /\ wire[s][i].id <= y.id
        /\ wire[s][i].id = y.id => wire[s][i].request = x.request
  BY <1>2, AnswersKnown
<1> HIDE DEF a, s, x, y
<1>7. w \in Seq(Answers) /\ \A i \in DOMAIN w : (i \in DOMAIN wire[s] /\ w[i] = wire[s][i]) \/ w[i] = a
  <2>1. /\ w \in Seq(Answers) /\ Len(w) = Len(wire[s]) + 1
        /\ \A i \in 1 .. Len(wire[s]) : w[i] = wire[s][i]
        /\ w[Len(wire[s]) + 1] = a
    BY <1>3, <1>5, AppendProperties
  <2>2. /\ Len(wire[s]) \in Nat /\ DOMAIN wire[s] = 1 .. Len(wire[s])
        /\ DOMAIN w = 1 .. Len(w)
    BY <1>3, <2>1, LenProperties
  <2> HIDE DEF w
  <2>3. QED
    BY <2>1, <2>2
<1> HIDE DEF w
<1>8. \A i \in DOMAIN w :
        /\ w[i].id <= y.id
        /\ w[i].id = y.id => w[i].request = x.request
  BY <1>5, <1>6, <1>7
<1>9. x \in CallStates /\ x.at = "receive" /\ x.slot = s /\ y \in SlotRows /\ ~y.retired
  BY <1>2, <1>3 DEF x, y, s, CallStates, Mcp!At
<1>10. SlotMay(c, s, x, y, w, c)
  BY <1>3, <1>7, <1>8, <1>9 DEF SlotMay, Holding
<1>11. /\ task' = [task EXCEPT ![c] = x] /\ slot' = [slot EXCEPT ![s] = y]
       /\ holder' = [holder EXCEPT ![s] = c] /\ asked' \in 0 .. MaxRequests
       /\ wire' = [wire EXCEPT ![s] = w] /\ UNCHANGED <<pool, settings, misled>>
  BY <1>1, <1>3, <1>4 DEF x, y, McpTyped
<1>12. c \in Mcp!Tasks /\ s \in Mcp!Slots
  BY <1>3
<1>13. QED
  BY <1>10, <1>11, <1>12, SlotMoves

(* The server exits by itself.                                             *)
LEMMA ServerDies ==
    ASSUME McpInv, NEW s \in Mcp!Slots, Mcp!Die(s)
    PROVE  McpInv'
<1>1. McpTyped /\ Held /\ Placed /\ Connected /\ misled = {}
  BY McpTypedIsTypeOK DEF McpInv
<1>2. /\ slot[s].connection = "up" /\ slot' = [slot EXCEPT ![s].connection = "dead"]
      /\ UNCHANGED <<settings, pool, holder, wire, task, asked, misled>>
  BY DEF Mcp!Die, Mcp!Live
<1>3. s = pool /\ ~slot[s].retired
  BY <1>1, <1>2 DEF Connected
<1>4. PICK y \in SlotRows : /\ slot' = [slot EXCEPT ![s] = y]
                            /\ ~y.retired /\ y.id = slot[s].id
  <2> DEFINE z == slot[s]
  <2>1. z \in SlotRows /\ slot' = [slot EXCEPT ![s] = [z EXCEPT !.connection = "dead"]]
    BY <1>1, <1>2 DEF McpTyped
  <2>2. ~z.retired
    BY <1>3
  <2> HIDE DEF z
  <2>3. /\ [z EXCEPT !.connection = "dead"] \in SlotRows
        /\ [z EXCEPT !.connection = "dead"].id = z.id
        /\ [z EXCEPT !.connection = "dead"].retired = z.retired
    BY <2>1 DEF SlotRows
  <2>4. QED
    BY <2>1, <2>2, <2>3 DEF z
<1>5. /\ slot'[s] = y /\ \A r \in Mcp!Slots \ {s} : slot'[r] = slot[r]
      /\ slot' \in [Mcp!Slots -> SlotRows]
  BY <1>1, <1>4 DEF McpTyped
<1>6. McpTyped'
  BY <1>1, <1>2, <1>5 DEF McpTyped, Mcp!Slots, Mcp!Tasks
<1>7. Held'
  BY <1>1, <1>2 DEF Held, Mcp!Tasks
<1>8. ASSUME NEW r \in Mcp!Slots
      PROVE  /\ slot'[r].id = slot[r].id
             /\ slot'[r].retired <=> slot[r].retired
             /\ r # s => slot'[r].connection = slot[r].connection
  BY <1>3, <1>4, <1>5
<1>9. Placed'
  <2>1. \A u \in Mcp!Tasks : task[u].at \in {"lock", "connect", "send", "receive", "remove"} =>
            task[u].slot \in Mcp!Slots /\ (slot'[task[u].slot].retired <=> slot[task[u].slot].retired)
    BY <1>1, <1>8 DEF Placed
  <2>2. QED
    BY <1>1, <1>2, <2>1 DEF Placed, Mcp!Tasks, Mcp!Slots, Mcp!At
<1>10. Connected'
  BY <1>1, <1>2, <1>3, <1>8 DEF Connected, Mcp!Slots, Mcp!At
<1>11. QED
  <2>1. misled' = {}
    BY <1>1, <1>2
  <2>2. Mcp!TypeOK'
    BY <1>6, <1>7, McpTypedIsTypeOK, PTL
  <2>3. QED
    BY <1>9, <1>10, <2>1, <2>2 DEF McpInv

(* Reconcile retires the slot of a configuration that was given up.        *)
LEMMA SlotRetires ==
    ASSUME McpInv, NEW v \in Saves, Mcp!Retire(v)
    PROVE  McpInv'
<1> DEFINE s == task[v].slot
<1>1. McpTyped /\ Held /\ Placed /\ Connected /\ misled = {}
  BY McpTypedIsTypeOK DEF McpInv
<1>2. /\ v \in Mcp!Tasks /\ v \notin Callers /\ task[v] \in Mcp!Reviews /\ task[v].at = "lock"
      /\ s \in Mcp!Slots /\ holder[s] = "free"
  <2>1. task[v].at = "lock" /\ holder[s] = "free"
    BY DEF Mcp!Retire, Mcp!At, Mcp!Lockable
  <2>2. v \in Mcp!Tasks /\ v \notin Callers /\ task[v] \in Mcp!Reviews
    BY <1>1, <2>1, SlotFacts DEF McpTyped, SaveStates, Mcp!Idle, Mcp!Done
  <2>3. QED
    BY <1>1, <2>1, <2>2 DEF Placed, Mcp!At
<1>3. slot[s] \in SlotRows /\ asked \in 0 .. MaxRequests
  BY <1>1, <1>2 DEF McpTyped
<1>4. CASE slot[s].config = task[v].config
  <2>1. /\ task' = [task EXCEPT ![v] = Mcp!Done]
        /\ UNCHANGED <<slot, wire, holder, settings, pool, asked, misled>>
    BY <1>2, <1>4 DEF Mcp!Retire, Mcp!Return
  <2>2. TaskMay(v, Mcp!Done)
    BY <1>2 DEF TaskMay, SaveStates, Mcp!Done, Holding
  <2>3. settings' \in Configs \union {"off"} /\ asked' \in 0 .. MaxRequests
    BY <1>1, <2>1 DEF McpTyped
  <2>4. QED
    BY <1>2, <2>1, <2>2, <2>3, TaskMoves
<1>5. CASE slot[s].config # task[v].config
  <2> DEFINE x == [task[v] EXCEPT !.at = "remove"]
             y == [Mcp!Closed(s) EXCEPT !.retired = TRUE]
  <2>1. /\ task' = [task EXCEPT ![v] = x] /\ slot' = [slot EXCEPT ![s] = y]
        /\ wire' = [wire EXCEPT ![s] = <<>>] /\ holder' = [holder EXCEPT ![s] = v]
        /\ UNCHANGED <<pool, settings, misled>> /\ asked' = asked
    BY <1>5 DEF Mcp!Retire, Mcp!DroppedWire, Mcp!Goto
  <2>2. x \in SaveStates /\ x.at = "remove" /\ x.slot = s
    BY <1>2 DEF SaveStates, Mcp!Reviews
  <2>3. y \in SlotRows /\ y.retired /\ y.connection = "none"
    <3> DEFINE z == Mcp!Closed(s)
    <3>1. z \in SlotRows /\ z.connection = "none"
      <4> HIDE DEF s
      <4>1. QED
        BY <1>3, RowClosed
    <3> HIDE DEF z
    <3>2. /\ [z EXCEPT !.retired = TRUE] \in SlotRows
          /\ [z EXCEPT !.retired = TRUE].retired
          /\ [z EXCEPT !.retired = TRUE].connection = "none"
      BY <3>1 DEF SlotRows
    <3>3. QED
      BY <3>2 DEF z
  <2> HIDE DEF x, y
  <2>4. SlotMay(v, s, x, y, <<>>, v)
    <3> HIDE DEF s
    <3>1. DOMAIN <<>> = {} /\ <<>> \in Seq(Answers)
      BY EmptySeq
    <3>2. QED
      BY <1>2, <2>2, <2>3, <3>1 DEF SlotMay, Holding
  <2>5. asked' \in 0 .. MaxRequests
    BY <1>3, <2>1
  <2> HIDE DEF s
  <2>6. QED
    BY <1>2, <2>1, <2>4, <2>5, SlotMoves
<1>6. QED
  BY <1>4, <1>5

(* Then the server's id leads to it no more.                               *)
LEMMA SlotRemoved ==
    ASSUME McpInv, NEW v \in Saves, Mcp!Remove(v)
    PROVE  McpInv'
<1> DEFINE s == task[v].slot
<1>1. McpTyped /\ Held /\ Placed /\ Connected /\ misled = {}
  BY McpTypedIsTypeOK DEF McpInv
<1>2. /\ v \in Mcp!Tasks /\ v \notin Callers /\ task[v].at = "remove"
      /\ s \in Mcp!Slots /\ holder[s] = v /\ slot[s].retired
  <2>1. task[v].at = "remove" /\ v \in Mcp!Tasks /\ v \notin Callers
    BY SlotFacts DEF Mcp!Remove, Mcp!At
  <2>2. QED
    BY <1>1, <2>1 DEF Held, Placed, Holding, Mcp!At
<1>3. /\ pool' = (IF pool = s THEN 0 ELSE pool)
      /\ task' = [task EXCEPT ![v] = Mcp!Done] /\ holder' = [holder EXCEPT ![s] = "free"]
      /\ UNCHANGED <<settings, slot, wire, asked, misled>>
  BY DEF Mcp!Remove, Mcp!Unlock, Mcp!Return
<1> HIDE DEF s
<1>4. Mcp!Done \in SaveStates /\ Mcp!Done.at = "done"
  BY DEF SaveStates, Mcp!Done
<1>5. /\ task'[v] = Mcp!Done /\ \A u \in Mcp!Tasks \ {v} : task'[u] = task[u]
      /\ task' \in [Mcp!Tasks -> CallStates \union SaveStates]
  BY <1>1, <1>2, <1>3, <1>4 DEF McpTyped
<1>6. /\ \A r \in Mcp!Slots \ {s} : holder'[r] = holder[r]
      /\ holder' \in [Mcp!Slots -> Mcp!Tasks \union {"free"}]
  BY <1>1, <1>2, <1>3 DEF McpTyped
<1>7. McpTyped'
  <2>1. /\ \A c \in Callers : task'[c] \in CallStates
        /\ \A u \in Saves : task'[u] \in SaveStates
    BY <1>1, <1>2, <1>4, <1>5, SlotFacts DEF McpTyped
  <2>2. QED
    BY <1>1, <1>2, <1>3, <1>5, <1>6, <2>1 DEF McpTyped, Mcp!Slots, Mcp!Tasks
<1>8. Held'
  <2>1. ASSUME NEW u \in Mcp!Tasks, task'[u].at \in Holding
        PROVE  holder'[task'[u].slot] = u
    <3>1. u # v /\ task'[u] = task[u]
      BY <1>4, <1>5, <2>1 DEF Holding
    <3>2. holder[task[u].slot] = u /\ task[u].slot \in Mcp!Slots
      BY <1>1, <2>1, <3>1 DEF Held, Placed, Holding
    <3>3. QED
      BY <1>2, <1>6, <3>1, <3>2
  <2>2. QED
    BY <2>1 DEF Held, Mcp!Tasks
<1>9. Placed'
  <2>1. ASSUME NEW u \in Mcp!Tasks
        PROVE  /\ task'[u].at \in {"lock", "connect", "send", "receive", "remove"} =>
                      task'[u].slot \in Mcp!Slots
               /\ task'[u].at = "lock" =>
                      task'[u].slot = pool' \/ slot'[task'[u].slot].retired
               /\ task'[u].at \in {"connect", "send", "receive"} =>
                      task'[u].slot = pool' /\ ~slot'[task'[u].slot].retired
               /\ task'[u].at = "remove" => slot'[task'[u].slot].retired
    <3>1. CASE u = v
      BY <1>4, <1>5, <3>1
    <3>2. CASE u # v
      BY <1>1, <1>2, <1>3, <1>5, <3>2 DEF Placed, Mcp!At
    <3>3. QED
      BY <3>1, <3>2
  <2>2. QED
    BY <2>1 DEF Placed, Mcp!Tasks, Mcp!Slots, Mcp!At
<1>10. Connected'
  <2>1. \A c \in Callers : task'[c] = task[c]
    BY <1>2, <1>5, SlotFacts
  <2>2. \A r \in Mcp!Slots : r # pool' => r # pool \/ slot[r].retired
    BY <1>2, <1>3
  <2>3. QED
    BY <1>1, <1>3, <2>1, <2>2 DEF Connected, Mcp!Slots, Mcp!At
<1>11. QED
  <2>1. misled' = {}
    BY <1>1, <1>3
  <2>2. Mcp!TypeOK'
    BY <1>7, <1>8, McpTypedIsTypeOK, PTL
  <2>3. QED
    BY <1>9, <1>10, <2>1, <2>2 DEF McpInv

(* No step of a call, a save or the server leads out of the invariant.     *)
LEMMA McpGoesOn == McpInv /\ [Mcp!Next]_mcpVars => McpInv'
<1> SUFFICES ASSUME McpInv, [Mcp!Next]_mcpVars
             PROVE  McpInv'
  OBVIOUS
<1>1. CASE UNCHANGED mcpVars
  <2>1. McpTyped /\ Held /\ Placed /\ Connected /\ misled = {}
    BY McpTypedIsTypeOK DEF McpInv
  <2>2. McpTyped' /\ Held'
    BY <1>1, <2>1 DEF mcpVars, McpTyped, Held, Mcp!Slots, Mcp!Tasks
  <2>3. Placed' /\ Connected' /\ misled' = {}
    BY <1>1, <2>1 DEF mcpVars, Placed, Connected, Mcp!Slots, Mcp!Tasks, Mcp!At
  <2>4. Mcp!TypeOK'
    BY <2>2, McpTypedIsTypeOK, PTL
  <2>5. QED
    BY <2>3, <2>4 DEF McpInv
<1>2. ASSUME NEW c \in Callers, Mcp!FindSlot(c)
      PROVE  McpInv'
  BY <1>2, McpTaskSteps, SlotInserted
<1>3. ASSUME NEW c \in Callers, Mcp!ReadSettings(c) \/ Mcp!Call(c) \/ Mcp!Answer(c)
      PROVE  McpInv'
  BY <1>2, <1>3, McpTaskSteps, CallLocks, CallAsks, CallReceives, CallFails, ServerAnswers
     DEF Mcp!Call
<1>4. ASSUME NEW v \in Saves,
             Mcp!Reconcile(v) \/ \E config \in Configs \union {"off"} : Mcp!Save(v, config)
      PROVE  McpInv'
  BY <1>4, McpTaskSteps, SlotRetires, SlotRemoved DEF Mcp!Reconcile
<1>5. CASE Mcp!Next
  BY <1>3, <1>4, <1>5, ServerDies DEF Mcp!Next
<1>6. QED
  BY <1>1, <1>5

-----------------------------------------------------------------------------
(* The command in the sandbox.                                             *)

ExecSteps ==
    {"idle", "spawned", "registered", "drain", "receive", "flush",
     "look", "wait", "settle", "finish", "over", "down"}
Verdicts == {"", "killed", "timeout", "exited"}
Execs ==
    [at : ExecSteps, status : Verdicts, got : 0 .. MaxSaid, kept : 0 .. MaxSaid,
     truncated : BOOLEAN, wedged : BOOLEAN]
Stops ==
    [at : {"idle", "kill", "poll", "told"},
     during : {"idle", "registered", "drain", "receive", "flush", "look",
               "wait", "settle", "over"}]
Leaders == {"none", "runs", "doomed", "exited", "killed"}
Statuses == {"none", "denied", "running", "killed", "timeout", "exited", "interrupted"}

(* The types, with names for the parts.                                    *)
CmdTyped ==
    /\ exec \in Execs /\ stop \in Stops
    /\ leader \in Leaders /\ row \in Statuses /\ said \in 0 .. MaxSaid
    /\ shut \in BOOLEAN /\ kids \in BOOLEAN /\ handle \in BOOLEAN
    /\ cancelled \in BOOLEAN /\ late \in BOOLEAN

(* They are the same.                                                      *)
LEMMA CmdTypedIsTypeOK == CmdTyped <=> Cmd!TypeOK
BY DEF CmdTyped, Cmd!TypeOK, Cmd!NoRow, Execs, ExecSteps, Verdicts, Stops, Leaders, Statuses

(* No command at first.                                                    *)
LEMMA CmdBegins == Cmd!Init => CmdInv
<1> SUFFICES ASSUME Cmd!Init
             PROVE  CmdInv
  OBVIOUS
<1>1. MaxSaid \in Nat
  BY ServicesAssumption DEF ServicesAssumption
<1>2. exec = [at |-> "idle", status |-> "", got |-> 0, kept |-> 0,
              truncated |-> FALSE, wedged |-> FALSE]
  BY DEF Cmd!Init
<1>3. /\ exec.at = "idle" /\ exec.status = "" /\ exec.got = 0 /\ exec.kept = 0
      /\ exec \in Execs
  <2>1. 0 \in 0 .. MaxSaid
    BY <1>1
  <2>2. QED
    BY <1>2, <2>1 DEF Execs, ExecSteps, Verdicts
<1>4. /\ leader = "none" /\ said = 0 /\ shut = FALSE /\ kids = FALSE /\ handle = FALSE
      /\ stop.at = "idle" /\ stop \in Stops /\ cancelled = FALSE /\ late = FALSE
      /\ row = "none"
  BY DEF Cmd!Init, Cmd!NoRow, Stops
<1>5. said \in 0 .. MaxSaid /\ leader \in Leaders /\ row \in Statuses
  BY <1>1, <1>4 DEF Leaders, Statuses
<1>6. CmdTyped
  BY <1>3, <1>4, <1>5 DEF CmdTyped
<1>7. CmdCounts
  <2>1. said = 0
    BY <1>4
  <2>2. exec.kept <= exec.got /\ exec.got <= said /\ exec.kept = exec.got
    <3>1. 0 <= 0
      OBVIOUS
    <3>2. QED
      BY <1>3, <2>1, <3>1
  <2>3. QED
    BY <2>2 DEF CmdCounts
<1>8. CmdKnown
  BY <1>3, <1>4 DEF CmdKnown, Cmd!At, Cmd!NoRow, Cmd!Gone
<1>9. QED
  BY <1>6, <1>7, <1>8, CmdTypedIsTypeOK DEF CmdInv

(* What is known does not depend on the clock.                             *)
LEMMA KnownStays ==
    ASSUME CmdKnown,
           UNCHANGED <<exec, leader, said, shut, kids, handle, stop, cancelled, row>>
    PROVE  CmdKnown'
BY ZenonT(60) DEF CmdKnown, Cmd!At, Cmd!Gone, Cmd!NoRow

(* Setting fields of exec's state, with a verdict or without.              *)
LEMMA ExecGoesTo ==
    ASSUME exec \in Execs, NEW step \in ExecSteps, NEW status \in Verdicts,
           \/ Cmd!Goto(step) /\ status = exec.status
           \/ Cmd!Verdict(step, status)
    PROVE  /\ exec' \in Execs /\ exec'.at = step /\ exec'.status = status
           /\ exec'.got = exec.got /\ exec'.kept = exec.kept
           /\ exec'.truncated = exec.truncated /\ exec'.wedged = exec.wedged
BY DEF Cmd!Goto, Cmd!Verdict, Execs

(* Every step keeps what is known of the command.                          *)
LEMMA CmdGoesOn == CmdInv /\ [Cmd!Next]_cmdVars => CmdInv'
<1> SUFFICES ASSUME CmdInv, [Cmd!Next]_cmdVars
             PROVE  CmdInv'
  OBVIOUS
<1>1. MaxSaid \in Nat
  BY ServicesAssumption DEF ServicesAssumption
<1>2. CmdTyped /\ CmdCounts /\ CmdKnown
  BY CmdTypedIsTypeOK DEF CmdInv
<1>3. ASSUME CmdTyped', CmdCounts', CmdKnown'
      PROVE  CmdInv'
  <2>1. Cmd!TypeOK'
    BY <1>3 DEF CmdTyped, Cmd!TypeOK, Cmd!NoRow, Execs, ExecSteps, Verdicts, Stops, Leaders, Statuses
  <2>2. QED
    BY <1>3, <2>1 DEF CmdInv
<1>4. /\ exec \in Execs /\ exec.at \in ExecSteps /\ exec.status \in Verdicts
      /\ stop \in Stops /\ stop.at \in {"idle", "kill", "poll", "told"}
      /\ leader \in Leaders /\ row \in Statuses
      /\ exec.truncated \in BOOLEAN /\ exec.wedged \in BOOLEAN
      /\ handle \in BOOLEAN /\ shut \in BOOLEAN /\ kids \in BOOLEAN
      /\ cancelled \in BOOLEAN /\ late \in BOOLEAN
  BY <1>2 DEF CmdTyped, Execs, Stops
<1>c. exec.got \in 0 .. MaxSaid /\ said \in 0 .. MaxSaid
  BY <1>2 DEF CmdTyped, Execs
<1>5. CASE UNCHANGED cmdVars
  <2>1. CmdTyped'
    BY <1>2, <1>5 DEF cmdVars, CmdTyped
  <2>2. CmdCounts'
    BY <1>2, <1>5 DEF cmdVars, CmdCounts
  <2>3. CmdKnown'
    BY <1>2, <1>5, KnownStays DEF cmdVars
  <2>4. QED
    BY <1>3, <2>1, <2>2, <2>3
<1>6. CASE Cmd!Refuse
  <2>1. /\ exec.at = "idle"
        /\ Cmd!Goto("over")
        /\ row' \in {"none", "denied"}
        /\ UNCHANGED <<leader, said, shut, kids, handle, stop, cancelled, late>>
    BY <1>4, <1>6 DEF Cmd!Refuse, Cmd!At, Cmd!NoRow
  <2>2. PICK status \in Verdicts : status = exec.status
    BY <1>4
  <2>3. /\ exec' \in Execs /\ exec'.at = "over" /\ exec'.status = exec.status
        /\ exec'.got = exec.got /\ exec'.kept = exec.kept
        /\ exec'.truncated = exec.truncated /\ exec'.wedged = exec.wedged
    BY <1>4, <2>1, <2>2, ExecGoesTo DEF ExecSteps, Verdicts
  <2>4. CmdTyped'
    BY <1>2, <2>1, <2>3 DEF CmdTyped, Leaders, Statuses, Verdicts
  <2>5. CmdCounts'
    BY <1>2, <2>1, <2>3 DEF CmdCounts
  <2>6. CmdKnown'
    BY <1>2, <1>4, <2>1, <2>3 DEF CmdKnown, Cmd!At, Cmd!Gone, Cmd!NoRow
  <2>7. QED
    BY <1>3, <2>4, <2>5, <2>6
<1>7. CASE Cmd!Spawn
  <2>1. /\ exec.at = "idle"
        /\ Cmd!Goto("spawned")
        /\ leader' = "runs"
        /\ UNCHANGED <<said, shut, kids, handle, stop, cancelled, late, row>>
    BY <1>4, <1>7 DEF Cmd!Spawn, Cmd!At
  <2>2. PICK status \in Verdicts : status = exec.status
    BY <1>4
  <2>3. /\ exec' \in Execs /\ exec'.at = "spawned" /\ exec'.status = exec.status
        /\ exec'.got = exec.got /\ exec'.kept = exec.kept
        /\ exec'.truncated = exec.truncated /\ exec'.wedged = exec.wedged
    BY <1>4, <2>1, <2>2, ExecGoesTo DEF ExecSteps, Verdicts
  <2>4. CmdTyped'
    BY <1>2, <2>1, <2>3 DEF CmdTyped, Leaders, Statuses, Verdicts
  <2>5. CmdCounts'
    BY <1>2, <2>1, <2>3 DEF CmdCounts
  <2>6. CmdKnown'
    BY <1>2, <1>4, <2>1, <2>3 DEF CmdKnown, Cmd!At, Cmd!Gone, Cmd!NoRow
  <2>7. QED
    BY <1>3, <2>4, <2>5, <2>6
<1>8. CASE Cmd!Register
  <2>1. /\ exec.at = "spawned"
        /\ Cmd!Goto("registered")
        /\ handle' = TRUE
        /\ UNCHANGED <<leader, said, shut, kids, stop, cancelled, late, row>>
    BY <1>4, <1>8 DEF Cmd!Register, Cmd!At
  <2>2. PICK status \in Verdicts : status = exec.status
    BY <1>4
  <2>3. /\ exec' \in Execs /\ exec'.at = "registered" /\ exec'.status = exec.status
        /\ exec'.got = exec.got /\ exec'.kept = exec.kept
        /\ exec'.truncated = exec.truncated /\ exec'.wedged = exec.wedged
    BY <1>4, <2>1, <2>2, ExecGoesTo DEF ExecSteps, Verdicts
  <2>4. CmdTyped'
    BY <1>2, <2>1, <2>3 DEF CmdTyped, Leaders, Statuses, Verdicts
  <2>5. CmdCounts'
    BY <1>2, <2>1, <2>3 DEF CmdCounts
  <2>6. CmdKnown'
    BY <1>2, <1>4, <2>1, <2>3 DEF CmdKnown, Cmd!At, Cmd!Gone, Cmd!NoRow
  <2>7. QED
    BY <1>3, <2>4, <2>5, <2>6
<1>9. CASE Cmd!InsertRow
  <2>1. /\ exec.at = "registered"
        /\ Cmd!Goto("drain")
        /\ row' = "running"
        /\ UNCHANGED <<leader, said, shut, kids, handle, stop, cancelled, late>>
    BY <1>4, <1>9 DEF Cmd!InsertRow, Cmd!At
  <2>2. PICK status \in Verdicts : status = exec.status
    BY <1>4
  <2>3. /\ exec' \in Execs /\ exec'.at = "drain" /\ exec'.status = exec.status
        /\ exec'.got = exec.got /\ exec'.kept = exec.kept
        /\ exec'.truncated = exec.truncated /\ exec'.wedged = exec.wedged
    BY <1>4, <2>1, <2>2, ExecGoesTo DEF ExecSteps, Verdicts
  <2>4. CmdTyped'
    BY <1>2, <2>1, <2>3 DEF CmdTyped, Leaders, Statuses, Verdicts
  <2>5. CmdCounts'
    BY <1>2, <2>1, <2>3 DEF CmdCounts
  <2>6. CmdKnown'
    BY <1>2, <1>4, <2>1, <2>3 DEF CmdKnown, Cmd!At, Cmd!Gone, Cmd!NoRow
  <2>7. QED
    BY <1>3, <2>4, <2>5, <2>6
<1>10. CASE Cmd!InsertFails
  <2>1. /\ exec.at = "registered"
        /\ Cmd!Goto("over")
        /\ UNCHANGED <<leader, said, shut, kids, handle, stop, cancelled, late, row>>
    BY <1>4, <1>10 DEF Cmd!InsertFails, Cmd!At
  <2>2. PICK status \in Verdicts : status = exec.status
    BY <1>4
  <2>3. /\ exec' \in Execs /\ exec'.at = "over" /\ exec'.status = exec.status
        /\ exec'.got = exec.got /\ exec'.kept = exec.kept
        /\ exec'.truncated = exec.truncated /\ exec'.wedged = exec.wedged
    BY <1>4, <2>1, <2>2, ExecGoesTo DEF ExecSteps, Verdicts
  <2>4. CmdTyped'
    BY <1>2, <2>1, <2>3 DEF CmdTyped, Leaders, Statuses, Verdicts
  <2>5. CmdCounts'
    BY <1>2, <2>1, <2>3 DEF CmdCounts
  <2>6. CmdKnown'
    BY <1>2, <1>4, <2>1, <2>3 DEF CmdKnown, Cmd!At, Cmd!Gone, Cmd!NoRow
  <2>7. QED
    BY <1>3, <2>4, <2>5, <2>6
<1>11. CASE Cmd!Drain /\ cancelled
  <2>1. /\ exec.at = "drain"
        /\ cancelled
        /\ Cmd!Verdict("look", "killed")
        /\ handle' = FALSE
        /\ leader' = IF handle /\ leader = "runs" THEN "doomed" ELSE leader
        /\ UNCHANGED <<said, shut, kids, stop, cancelled, late, row>>
    BY <1>4, <1>11 DEF Cmd!Drain, Cmd!At, Cmd!TakeAndKill, Cmd!Terminated
  <2>3. /\ exec' \in Execs /\ exec'.at = "look" /\ exec'.status = "killed"
        /\ exec'.got = exec.got /\ exec'.kept = exec.kept
        /\ exec'.truncated = exec.truncated /\ exec'.wedged = exec.wedged
    BY <1>4, <2>1, ExecGoesTo DEF ExecSteps, Verdicts
  <2>4. CmdTyped'
    BY <1>2, <2>1, <2>3 DEF CmdTyped, Leaders, Statuses, Verdicts
  <2>5. CmdCounts'
    BY <1>2, <2>1, <2>3 DEF CmdCounts
  <2>6. CmdKnown'
    BY <1>2, <1>4, <2>1, <2>3 DEF CmdKnown, Cmd!At, Cmd!Gone, Cmd!NoRow
  <2>7. QED
    BY <1>3, <2>4, <2>5, <2>6
<1>12. CASE Cmd!Drain /\ ~cancelled /\ ~handle
  <2>1. /\ exec.at = "drain"
        /\ ~cancelled /\ ~handle
        /\ Cmd!Verdict("look", "killed")
        /\ UNCHANGED <<leader, said, shut, kids, handle, stop, cancelled, late, row>>
    BY <1>4, <1>12 DEF Cmd!Drain, Cmd!At
  <2>3. /\ exec' \in Execs /\ exec'.at = "look" /\ exec'.status = "killed"
        /\ exec'.got = exec.got /\ exec'.kept = exec.kept
        /\ exec'.truncated = exec.truncated /\ exec'.wedged = exec.wedged
    BY <1>4, <2>1, ExecGoesTo DEF ExecSteps, Verdicts
  <2>4. CmdTyped'
    BY <1>2, <2>1, <2>3 DEF CmdTyped, Leaders, Statuses, Verdicts
  <2>5. CmdCounts'
    BY <1>2, <2>1, <2>3 DEF CmdCounts
  <2>6. CmdKnown'
    BY <1>2, <1>4, <2>1, <2>3 DEF CmdKnown, Cmd!At, Cmd!Gone, Cmd!NoRow
  <2>7. QED
    BY <1>3, <2>4, <2>5, <2>6
<1>13. CASE Cmd!Drain /\ ~cancelled /\ handle /\ late
  <2>1. /\ exec.at = "drain"
        /\ handle
        /\ Cmd!Verdict("look", "timeout")
        /\ handle' = FALSE
        /\ leader' = IF handle /\ leader = "runs" THEN "doomed" ELSE leader
        /\ UNCHANGED <<said, shut, kids, stop, cancelled, late, row>>
    BY <1>4, <1>13 DEF Cmd!Drain, Cmd!At, Cmd!TakeAndKill, Cmd!Terminated
  <2>3. /\ exec' \in Execs /\ exec'.at = "look" /\ exec'.status = "timeout"
        /\ exec'.got = exec.got /\ exec'.kept = exec.kept
        /\ exec'.truncated = exec.truncated /\ exec'.wedged = exec.wedged
    BY <1>4, <2>1, ExecGoesTo DEF ExecSteps, Verdicts
  <2>4. CmdTyped'
    BY <1>2, <2>1, <2>3 DEF CmdTyped, Leaders, Statuses, Verdicts
  <2>5. CmdCounts'
    BY <1>2, <2>1, <2>3 DEF CmdCounts
  <2>6. CmdKnown'
    BY <1>2, <1>4, <2>1, <2>3 DEF CmdKnown, Cmd!At, Cmd!Gone, Cmd!NoRow
  <2>7. QED
    BY <1>3, <2>4, <2>5, <2>6
<1>14. CASE Cmd!Drain /\ ~cancelled /\ handle /\ ~late
  <2>1. /\ exec.at = "drain"
        /\ handle
        /\ Cmd!Goto("receive")
        /\ UNCHANGED <<leader, said, shut, kids, handle, stop, cancelled, late, row>>
    BY <1>4, <1>14 DEF Cmd!Drain, Cmd!At
  <2>2. PICK status \in Verdicts : status = exec.status
    BY <1>4
  <2>3. /\ exec' \in Execs /\ exec'.at = "receive" /\ exec'.status = exec.status
        /\ exec'.got = exec.got /\ exec'.kept = exec.kept
        /\ exec'.truncated = exec.truncated /\ exec'.wedged = exec.wedged
    BY <1>4, <2>1, <2>2, ExecGoesTo DEF ExecSteps, Verdicts
  <2>4. CmdTyped'
    BY <1>2, <2>1, <2>3 DEF CmdTyped, Leaders, Statuses, Verdicts
  <2>5. CmdCounts'
    BY <1>2, <2>1, <2>3 DEF CmdCounts
  <2>6. CmdKnown'
    BY <1>2, <1>4, <2>1, <2>3 DEF CmdKnown, Cmd!At, Cmd!Gone, Cmd!NoRow
  <2>7. QED
    BY <1>3, <2>4, <2>5, <2>6
<1>15. CASE /\ Cmd!Receive /\ Cmd!Queued = 0 /\ Cmd!Goto("look")
            /\ Cmd!At("flush") \/ Cmd!PipesClosed
  <2>1. /\ exec.at \in {"receive", "flush"}
        /\ exec.got = said
        /\ Cmd!Goto("look")
        /\ UNCHANGED <<leader, said, shut, kids, handle, stop, cancelled, late, row>>
        /\ (Cmd!Gone \/ shut) \/ exec.at = "flush"
    <3>1. exec.at \in {"receive", "flush"}
      BY <1>15 DEF Cmd!Receive, Cmd!At
    <3>2. UNCHANGED <<leader, said, shut, kids, handle, stop, cancelled, late, row>>
      BY <1>15 DEF Cmd!Receive
    <3>3. exec.got = said
      BY <1>1, <1>c, <1>15 DEF Cmd!Queued
    <3>4. (Cmd!Gone \/ shut) \/ exec.at = "flush"
      BY <1>15 DEF Cmd!PipesClosed, Cmd!At
    <3>5. QED
      BY <1>15, <3>1, <3>2, <3>3, <3>4
  <2>2. PICK status \in Verdicts : status = exec.status
    BY <1>4
  <2>3. /\ exec' \in Execs /\ exec'.at = "look" /\ exec'.status = exec.status
        /\ exec'.got = exec.got /\ exec'.kept = exec.kept
        /\ exec'.truncated = exec.truncated /\ exec'.wedged = exec.wedged
    BY <1>4, <2>1, <2>2, ExecGoesTo DEF ExecSteps, Verdicts
  <2>4. CmdTyped'
    BY <1>2, <2>1, <2>3 DEF CmdTyped, Leaders, Statuses, Verdicts
  <2>5. CmdCounts'
    BY <1>2, <2>1, <2>3 DEF CmdCounts
  <2>6. CmdKnown'
    BY <1>2, <1>4, <2>1, <2>3 DEF CmdKnown, Cmd!At, Cmd!Gone, Cmd!NoRow
  <2>7. QED
    BY <1>3, <2>4, <2>5, <2>6
<1>16. CASE Cmd!Receive /\ Cmd!Queued = 0 /\ Cmd!Goto("flush") /\ Cmd!Gone
  <2>1. /\ exec.at \in {"receive", "flush"}
        /\ Cmd!Gone
        /\ Cmd!Goto("flush")
        /\ UNCHANGED <<leader, said, shut, kids, handle, stop, cancelled, late, row>>
    BY <1>4, <1>16 DEF Cmd!Receive, Cmd!At
  <2>2. PICK status \in Verdicts : status = exec.status
    BY <1>4
  <2>3. /\ exec' \in Execs /\ exec'.at = "flush" /\ exec'.status = exec.status
        /\ exec'.got = exec.got /\ exec'.kept = exec.kept
        /\ exec'.truncated = exec.truncated /\ exec'.wedged = exec.wedged
    BY <1>4, <2>1, <2>2, ExecGoesTo DEF ExecSteps, Verdicts
  <2>4. CmdTyped'
    BY <1>2, <2>1, <2>3 DEF CmdTyped, Leaders, Statuses, Verdicts
  <2>5. CmdCounts'
    BY <1>2, <2>1, <2>3 DEF CmdCounts
  <2>6. CmdKnown'
    BY <1>2, <1>4, <2>1, <2>3 DEF CmdKnown, Cmd!At, Cmd!Gone, Cmd!NoRow
  <2>7. QED
    BY <1>3, <2>4, <2>5, <2>6
<1>17. CASE Cmd!Receive /\ Cmd!Queued = 0 /\ Cmd!At("receive") /\ Cmd!Goto("drain")
  <2>1. /\ exec.at = "receive"
        /\ Cmd!Goto("drain")
        /\ UNCHANGED <<leader, said, shut, kids, handle, stop, cancelled, late, row>>
    BY <1>4, <1>17 DEF Cmd!Receive, Cmd!At
  <2>2. PICK status \in Verdicts : status = exec.status
    BY <1>4
  <2>3. /\ exec' \in Execs /\ exec'.at = "drain" /\ exec'.status = exec.status
        /\ exec'.got = exec.got /\ exec'.kept = exec.kept
        /\ exec'.truncated = exec.truncated /\ exec'.wedged = exec.wedged
    BY <1>4, <2>1, <2>2, ExecGoesTo DEF ExecSteps, Verdicts
  <2>4. CmdTyped'
    BY <1>2, <2>1, <2>3 DEF CmdTyped, Leaders, Statuses, Verdicts
  <2>5. CmdCounts'
    BY <1>2, <2>1, <2>3 DEF CmdCounts
  <2>6. CmdKnown'
    BY <1>2, <1>4, <2>1, <2>3 DEF CmdKnown, Cmd!At, Cmd!Gone, Cmd!NoRow
  <2>7. QED
    BY <1>3, <2>4, <2>5, <2>6
<1>18. CASE Cmd!Receive /\ Cmd!Queued > 0 /\ Cmd!TakeLine
  <2>1. /\ exec.at \in {"receive", "flush"} /\ said - exec.got > 0
        /\ UNCHANGED <<leader, said, shut, kids, handle, stop, cancelled, late, row>>
    BY <1>18 DEF Cmd!Receive, Cmd!At, Cmd!Queued
  <2>2. /\ exec.got \in 0 .. MaxSaid /\ exec.kept \in 0 .. MaxSaid /\ said \in 0 .. MaxSaid
        /\ exec.kept <= exec.got /\ exec.got <= said
    BY <1>2, <1>4 DEF CmdCounts, CmdTyped, Execs
  <2>3. PICK full \in BOOLEAN : full = (Cmd!At("receive") /\ exec.kept >= MaxLines)
    OBVIOUS
  <2>4. PICK got \in 0 .. MaxSaid : got = exec.got + 1
    BY <1>1, <2>1, <2>2
  <2>5. PICK kept \in 0 .. MaxSaid : kept = IF full THEN exec.kept ELSE exec.kept + 1
    BY <1>1, <2>1, <2>2
  <2>6. PICK missing \in BOOLEAN : missing = (exec.truncated \/ full)
    OBVIOUS
  <2>7. exec' = [exec EXCEPT !.at = "drain", !.got = got, !.kept = kept, !.truncated = missing]
    BY <1>18, <2>3, <2>4, <2>5, <2>6 DEF Cmd!TakeLine
  <2>8. /\ exec' \in Execs /\ exec'.at = "drain" /\ exec'.status = exec.status
        /\ exec'.got = got /\ exec'.kept = kept
    BY <1>4, <2>7 DEF Execs, ExecSteps
  <2>9. exec'.truncated = missing /\ exec'.wedged = exec.wedged
    BY <1>4, <2>7 DEF Execs
  <2>10. CmdTyped'
    BY <1>2, <2>1, <2>8 DEF CmdTyped
  <2>11. kept <= got /\ got <= said
    BY <1>1, <2>1, <2>2, <2>4, <2>5
  <2>12. kept = got \/ missing
    <3>1. CASE full
      BY <2>6, <3>1
    <3>2. CASE ~full /\ exec.truncated
      BY <2>6, <3>2
    <3>3. CASE ~full /\ ~exec.truncated
      BY <1>2, <2>4, <2>5, <3>3 DEF CmdCounts
    <3>4. QED
      BY <3>1, <3>2, <3>3
  <2>13. CmdCounts'
    BY <2>1, <2>8, <2>9, <2>11, <2>12 DEF CmdCounts
  <2>14. CmdKnown'
    BY <1>2, <1>4, <2>1, <2>8, <2>9 DEF CmdKnown, Cmd!At, Cmd!Gone, Cmd!NoRow
  <2>15. QED
    BY <1>3, <2>10, <2>13, <2>14
<1>19. CASE Cmd!Look /\ exec.status = "" /\ handle
  <2>1. /\ exec.at = "look"
        /\ exec.status = ""
        /\ handle
        /\ Cmd!Verdict("wait", exec.status)
        /\ UNCHANGED <<leader, said, shut, kids, handle, stop, cancelled, late, row>>
    BY <1>4, <1>19 DEF Cmd!Look, Cmd!At
  <2>2. PICK status \in Verdicts : status = exec.status
    BY <1>4
  <2>3. /\ exec' \in Execs /\ exec'.at = "wait" /\ exec'.status = exec.status
        /\ exec'.got = exec.got /\ exec'.kept = exec.kept
        /\ exec'.truncated = exec.truncated /\ exec'.wedged = exec.wedged
    BY <1>4, <2>1, <2>2, ExecGoesTo DEF ExecSteps, Verdicts
  <2>4. CmdTyped'
    BY <1>2, <2>1, <2>3 DEF CmdTyped, Leaders, Statuses, Verdicts
  <2>5. CmdCounts'
    BY <1>2, <2>1, <2>3 DEF CmdCounts
  <2>6. CmdKnown'
    BY <1>2, <1>4, <2>1, <2>3 DEF CmdKnown, Cmd!At, Cmd!Gone, Cmd!NoRow
  <2>7. QED
    BY <1>3, <2>4, <2>5, <2>6
<1>20. CASE Cmd!Look /\ exec.status = "" /\ ~handle
  <2>1. /\ exec.at = "look"
        /\ exec.status = ""
        /\ ~handle
        /\ Cmd!Verdict("wait", "killed")
        /\ handle' = FALSE
        /\ leader' = IF handle /\ leader = "runs" THEN "doomed" ELSE leader
        /\ UNCHANGED <<said, shut, kids, stop, cancelled, late, row>>
    BY <1>4, <1>20 DEF Cmd!Look, Cmd!At, Cmd!TakeAndKill, Cmd!Terminated
  <2>3. /\ exec' \in Execs /\ exec'.at = "wait" /\ exec'.status = "killed"
        /\ exec'.got = exec.got /\ exec'.kept = exec.kept
        /\ exec'.truncated = exec.truncated /\ exec'.wedged = exec.wedged
    BY <1>4, <2>1, ExecGoesTo DEF ExecSteps, Verdicts
  <2>4. CmdTyped'
    BY <1>2, <2>1, <2>3 DEF CmdTyped, Leaders, Statuses, Verdicts
  <2>5. CmdCounts'
    BY <1>2, <2>1, <2>3 DEF CmdCounts
  <2>6. CmdKnown'
    BY <1>2, <1>4, <2>1, <2>3 DEF CmdKnown, Cmd!At, Cmd!Gone, Cmd!NoRow
  <2>7. QED
    BY <1>3, <2>4, <2>5, <2>6
<1>21. CASE Cmd!Look /\ exec.status # ""
  <2>1. /\ exec.at = "look"
        /\ exec.status # ""
        /\ Cmd!Verdict("wait", exec.status)
        /\ handle' = FALSE
        /\ leader' = IF handle /\ leader = "runs" THEN "doomed" ELSE leader
        /\ UNCHANGED <<said, shut, kids, stop, cancelled, late, row>>
    BY <1>4, <1>21 DEF Cmd!Look, Cmd!At, Cmd!TakeAndKill, Cmd!Terminated
  <2>2. PICK status \in Verdicts : status = exec.status
    BY <1>4
  <2>3. /\ exec' \in Execs /\ exec'.at = "wait" /\ exec'.status = exec.status
        /\ exec'.got = exec.got /\ exec'.kept = exec.kept
        /\ exec'.truncated = exec.truncated /\ exec'.wedged = exec.wedged
    BY <1>4, <2>1, <2>2, ExecGoesTo DEF ExecSteps, Verdicts
  <2>4. CmdTyped'
    BY <1>2, <2>1, <2>3 DEF CmdTyped, Leaders, Statuses, Verdicts
  <2>5. CmdCounts'
    BY <1>2, <2>1, <2>3 DEF CmdCounts
  <2>6. CmdKnown'
    BY <1>2, <1>4, <2>1, <2>3 DEF CmdKnown, Cmd!At, Cmd!Gone, Cmd!NoRow
  <2>7. QED
    BY <1>3, <2>4, <2>5, <2>6
<1>22. CASE Cmd!WaitForExit /\ (Cmd!Gone \/ exec.status # "")
  <2>1. /\ exec.at = "wait"
        /\ Cmd!Gone \/ exec.status # ""
        /\ Cmd!Goto("settle")
        /\ UNCHANGED <<leader, said, shut, kids, handle, stop, cancelled, late, row>>
    BY <1>4, <1>22 DEF Cmd!WaitForExit, Cmd!At
  <2>2. PICK status \in Verdicts : status = exec.status
    BY <1>4
  <2>3. /\ exec' \in Execs /\ exec'.at = "settle" /\ exec'.status = exec.status
        /\ exec'.got = exec.got /\ exec'.kept = exec.kept
        /\ exec'.truncated = exec.truncated /\ exec'.wedged = exec.wedged
    BY <1>4, <2>1, <2>2, ExecGoesTo DEF ExecSteps, Verdicts
  <2>4. CmdTyped'
    BY <1>2, <2>1, <2>3 DEF CmdTyped, Leaders, Statuses, Verdicts
  <2>5. CmdCounts'
    BY <1>2, <2>1, <2>3 DEF CmdCounts
  <2>6. CmdKnown'
    BY <1>2, <1>4, <2>1, <2>3 DEF CmdKnown, Cmd!At, Cmd!Gone, Cmd!NoRow
  <2>7. QED
    BY <1>3, <2>4, <2>5, <2>6
<1>23. CASE Cmd!WaitForExit /\ ~Cmd!Gone /\ exec.status = ""
  <2>1. /\ exec.at = "wait" /\ ~Cmd!Gone /\ exec.status = ""
        /\ exec' = [exec EXCEPT !.at = "settle", !.status = "killed", !.wedged = TRUE]
        /\ handle' = FALSE
        /\ leader' = IF handle /\ leader = "runs" THEN "doomed" ELSE leader
        /\ UNCHANGED <<said, shut, kids, stop, cancelled, late, row>>
    BY <1>23 DEF Cmd!WaitForExit, Cmd!At, Cmd!TakeAndKill, Cmd!Terminated
  <2>2. /\ exec' \in Execs /\ exec'.at = "settle" /\ exec'.status = "killed"
        /\ exec'.got = exec.got /\ exec'.kept = exec.kept
        /\ exec'.truncated = exec.truncated
    BY <1>4, <2>1 DEF Execs, ExecSteps, Verdicts
  <2>3. exec'.wedged = TRUE
    BY <1>4, <2>1 DEF Execs
  <2>4. CmdTyped'
    BY <1>2, <2>1, <2>2 DEF CmdTyped, Leaders
  <2>5. CmdCounts'
    BY <1>2, <2>1, <2>2 DEF CmdCounts
  <2>6. CmdKnown'
    BY <1>2, <1>4, <2>1, <2>2, <2>3 DEF CmdKnown, Cmd!At, Cmd!Gone, Cmd!NoRow
  <2>7. QED
    BY <1>3, <2>4, <2>5, <2>6
<1>24. CASE Cmd!Settle /\ exec.status = ""
  <2>1. /\ exec.at = "settle"
        /\ exec.status = ""
        /\ Cmd!Verdict("finish", "exited")
        /\ handle' = FALSE
        /\ UNCHANGED <<leader, said, shut, kids, stop, cancelled, late, row>>
    BY <1>4, <1>24 DEF Cmd!Settle, Cmd!At
  <2>3. /\ exec' \in Execs /\ exec'.at = "finish" /\ exec'.status = "exited"
        /\ exec'.got = exec.got /\ exec'.kept = exec.kept
        /\ exec'.truncated = exec.truncated /\ exec'.wedged = exec.wedged
    BY <1>4, <2>1, ExecGoesTo DEF ExecSteps, Verdicts
  <2>4. CmdTyped'
    BY <1>2, <2>1, <2>3 DEF CmdTyped, Leaders, Statuses, Verdicts
  <2>5. CmdCounts'
    BY <1>2, <2>1, <2>3 DEF CmdCounts
  <2>6. CmdKnown'
    BY <1>2, <1>4, <2>1, <2>3 DEF CmdKnown, Cmd!At, Cmd!Gone, Cmd!NoRow
  <2>7. QED
    BY <1>3, <2>4, <2>5, <2>6
<1>25. CASE Cmd!Settle /\ exec.status # ""
  <2>1. /\ exec.at = "settle"
        /\ exec.status # ""
        /\ Cmd!Verdict("finish", exec.status)
        /\ handle' = FALSE
        /\ UNCHANGED <<leader, said, shut, kids, stop, cancelled, late, row>>
    BY <1>4, <1>25 DEF Cmd!Settle, Cmd!At
  <2>2. PICK status \in Verdicts : status = exec.status
    BY <1>4
  <2>3. /\ exec' \in Execs /\ exec'.at = "finish" /\ exec'.status = exec.status
        /\ exec'.got = exec.got /\ exec'.kept = exec.kept
        /\ exec'.truncated = exec.truncated /\ exec'.wedged = exec.wedged
    BY <1>4, <2>1, <2>2, ExecGoesTo DEF ExecSteps, Verdicts
  <2>4. CmdTyped'
    BY <1>2, <2>1, <2>3 DEF CmdTyped, Leaders, Statuses, Verdicts
  <2>5. CmdCounts'
    BY <1>2, <2>1, <2>3 DEF CmdCounts
  <2>6. CmdKnown'
    BY <1>2, <1>4, <2>1, <2>3 DEF CmdKnown, Cmd!At, Cmd!Gone, Cmd!NoRow
  <2>7. QED
    BY <1>3, <2>4, <2>5, <2>6
<1>26. CASE Cmd!Finish
  <2>1. /\ exec.at = "finish"
        /\ Cmd!Goto("over")
        /\ row' \in {row, exec.status} /\ exec.status \in Statuses
        /\ UNCHANGED <<leader, said, shut, kids, handle, stop, cancelled, late>>
    BY <1>4, <1>26, <1>2 DEF Cmd!Finish, Cmd!At, CmdKnown, Verdicts, Statuses
  <2>2. PICK status \in Verdicts : status = exec.status
    BY <1>4
  <2>3. /\ exec' \in Execs /\ exec'.at = "over" /\ exec'.status = exec.status
        /\ exec'.got = exec.got /\ exec'.kept = exec.kept
        /\ exec'.truncated = exec.truncated /\ exec'.wedged = exec.wedged
    BY <1>4, <2>1, <2>2, ExecGoesTo DEF ExecSteps, Verdicts
  <2>4. CmdTyped'
    BY <1>2, <2>1, <2>3 DEF CmdTyped, Leaders, Statuses, Verdicts
  <2>5. CmdCounts'
    BY <1>2, <2>1, <2>3 DEF CmdCounts
  <2>6. CmdKnown'
    BY <1>2, <1>4, <2>1, <2>3 DEF CmdKnown, Cmd!At, Cmd!Gone, Cmd!NoRow
  <2>7. QED
    BY <1>3, <2>4, <2>5, <2>6
<1>27. CASE Cmd!StopTakes
  <2>1. /\ stop.at = "idle" /\ handle
        /\ handle' = FALSE
        /\ stop' = [at |-> "kill", during |-> exec.at]
        /\ UNCHANGED <<exec, leader, said, shut, kids, cancelled, late, row>>
    BY <1>27 DEF Cmd!StopTakes
  <2>2. stop' \in Stops /\ stop'.at = "kill" /\ stop'.during = exec.at
    BY <1>2, <1>4, <2>1 DEF Stops, CmdKnown, ExecSteps, Cmd!At
  <2>3. CmdTyped'
    BY <1>2, <2>1, <2>2 DEF CmdTyped, Leaders
  <2>4. CmdCounts'
    BY <1>2, <2>1 DEF CmdCounts
  <2>5. CmdKnown'
    BY <1>2, <1>4, <2>1, <2>2 DEF CmdKnown, Cmd!At, Cmd!Gone, Cmd!NoRow
  <2>6. QED
    BY <1>3, <2>3, <2>4, <2>5
<1>28. CASE Cmd!StopKills
  <2>1. /\ stop.at = "kill"
        /\ leader' = IF leader = "runs" THEN "doomed" ELSE leader
        /\ stop' = [stop EXCEPT !.at = "poll"]
        /\ UNCHANGED <<exec, said, shut, kids, handle, cancelled, late, row>>
    BY <1>28 DEF Cmd!StopKills, Cmd!Terminated
  <2>2. stop' \in Stops /\ stop'.at = "poll" /\ stop'.during = stop.during
    BY <1>2, <1>4, <2>1 DEF Stops, CmdKnown, ExecSteps, Cmd!At
  <2>3. CmdTyped'
    BY <1>2, <2>1, <2>2 DEF CmdTyped, Leaders
  <2>4. CmdCounts'
    BY <1>2, <2>1 DEF CmdCounts
  <2>5. CmdKnown'
    BY <1>2, <1>4, <2>1, <2>2 DEF CmdKnown, Cmd!At, Cmd!Gone, Cmd!NoRow
  <2>6. QED
    BY <1>3, <2>3, <2>4, <2>5
<1>29. CASE Cmd!StopReports
  <2>1. /\ stop.at = "poll"
        /\ stop' = [stop EXCEPT !.at = "told"]
        /\ UNCHANGED <<exec, leader, said, shut, kids, handle, cancelled, late, row>>
    BY <1>29 DEF Cmd!StopReports
  <2>2. stop' \in Stops /\ stop'.at = "told" /\ stop'.during = stop.during
    BY <1>2, <1>4, <2>1 DEF Stops, CmdKnown, ExecSteps, Cmd!At
  <2>3. CmdTyped'
    BY <1>2, <2>1, <2>2 DEF CmdTyped, Leaders
  <2>4. CmdCounts'
    BY <1>2, <2>1 DEF CmdCounts
  <2>5. CmdKnown'
    BY <1>2, <1>4, <2>1, <2>2 DEF CmdKnown, Cmd!At, Cmd!Gone, Cmd!NoRow
  <2>6. QED
    BY <1>3, <2>3, <2>4, <2>5
<1>30. CASE Cmd!CancelRun
  <2>1. /\ cancelled' = TRUE
        /\ UNCHANGED <<exec, leader, said, shut, kids, handle, stop, late, row>>
    BY <1>4, <1>30 DEF Cmd!CancelRun
  <2>4. CmdTyped'
    BY <1>2, <2>1 DEF CmdTyped, Leaders, Statuses, Verdicts
  <2>5. CmdCounts'
    BY <1>2, <2>1 DEF CmdCounts
  <2>6. CmdKnown'
    BY <1>2, <1>4, <2>1, ZenonT(60) DEF CmdKnown, Cmd!At, Cmd!Gone, Cmd!NoRow
  <2>7. QED
    BY <1>3, <2>4, <2>5, <2>6
<1>31. CASE Cmd!DeadlinePasses
  <2>1. /\ late' = TRUE
        /\ UNCHANGED <<exec, leader, said, shut, kids, handle, stop, cancelled, row>>
    BY <1>4, <1>31 DEF Cmd!DeadlinePasses
  <2>4. CmdTyped'
    BY <1>2, <2>1 DEF CmdTyped, Leaders, Statuses, Verdicts
  <2>5. CmdCounts'
    BY <1>2, <2>1 DEF CmdCounts
  <2>6. CmdKnown'
    BY <1>2, <2>1, KnownStays
  <2>7. QED
    BY <1>3, <2>4, <2>5, <2>6
<1>32. CASE Cmd!Restart
  <2>1. /\ exec.at \notin {"idle", "down"} /\ Cmd!Goto("down")
        /\ leader' = IF Cmd!Gone \/ leader = "none" THEN leader ELSE "killed"
        /\ row' \in {row, "killed", "interrupted"}
        /\ row # "running" => row' = row
        /\ kids' = FALSE /\ handle' = FALSE /\ stop' = [stop EXCEPT !.at = "told"]
        /\ UNCHANGED <<said, shut, cancelled, late>>
    BY <1>32 DEF Cmd!Restart
  <2>2. PICK status \in Verdicts : status = exec.status
    BY <1>4
  <2>3. /\ exec' \in Execs /\ exec'.at = "down" /\ exec'.status = exec.status
        /\ exec'.got = exec.got /\ exec'.kept = exec.kept
        /\ exec'.truncated = exec.truncated /\ exec'.wedged = exec.wedged
    BY <1>4, <2>1, <2>2, ExecGoesTo DEF ExecSteps, Verdicts
  <2>4. stop' \in Stops /\ stop'.at = "told" /\ stop'.during = stop.during
    BY <1>4, <2>1 DEF Stops
  <2>5. CmdTyped'
    BY <1>2, <2>1, <2>3, <2>4 DEF CmdTyped, Leaders, Statuses
  <2>6. CmdCounts'
    BY <1>2, <2>1, <2>3 DEF CmdCounts
  <2>7. CmdKnown'
    BY <1>2, <1>4, <2>1, <2>3, <2>4 DEF CmdKnown, Cmd!At, Cmd!Gone, Cmd!NoRow
  <2>8. QED
    BY <1>3, <2>5, <2>6, <2>7
<1>33. CASE Cmd!Write
  <2>1. /\ leader \in {"runs", "doomed"} /\ ~shut /\ said < MaxSaid /\ said' = said + 1
        /\ UNCHANGED <<exec, leader, shut, kids, handle, stop, cancelled, late, row>>
    BY <1>33 DEF Cmd!Write
  <2>2. said \in 0 .. MaxSaid /\ exec.got \in 0 .. MaxSaid /\ exec.got <= said
    BY <1>2, <1>4 DEF CmdTyped, CmdCounts, Execs
  <2>3. said' \in 0 .. MaxSaid /\ exec.got <= said'
    BY <1>1, <2>1, <2>2
  <2>4. CmdTyped'
    BY <1>2, <2>1, <2>3 DEF CmdTyped
  <2>5. CmdCounts'
    BY <1>2, <2>1, <2>3 DEF CmdCounts
  <2>6. CmdKnown'
    BY <1>2, <1>4, <2>1 DEF CmdKnown, Cmd!At, Cmd!Gone, Cmd!NoRow
  <2>7. QED
    BY <1>3, <2>4, <2>5, <2>6
<1>34. CASE Cmd!CloseOutput
  <2>1. /\ leader = "runs"
        /\ shut' = TRUE
        /\ UNCHANGED <<exec, leader, said, kids, handle, stop, cancelled, late, row>>
    BY <1>4, <1>34 DEF Cmd!CloseOutput
  <2>4. CmdTyped'
    BY <1>2, <2>1 DEF CmdTyped, Leaders, Statuses, Verdicts
  <2>5. CmdCounts'
    BY <1>2, <2>1 DEF CmdCounts
  <2>6. CmdKnown'
    BY <1>2, <1>4, <2>1 DEF CmdKnown, Cmd!At, Cmd!Gone, Cmd!NoRow
  <2>7. QED
    BY <1>3, <2>4, <2>5, <2>6
<1>35. CASE Cmd!Fork
  <2>1. /\ leader = "runs"
        /\ kids' = TRUE
        /\ UNCHANGED <<exec, leader, said, shut, handle, stop, cancelled, late, row>>
    BY <1>4, <1>35 DEF Cmd!Fork
  <2>4. CmdTyped'
    BY <1>2, <2>1 DEF CmdTyped, Leaders, Statuses, Verdicts
  <2>5. CmdCounts'
    BY <1>2, <2>1 DEF CmdCounts
  <2>6. CmdKnown'
    BY <1>2, <1>4, <2>1 DEF CmdKnown, Cmd!At, Cmd!Gone, Cmd!NoRow
  <2>7. QED
    BY <1>3, <2>4, <2>5, <2>6
<1>36. CASE Cmd!KidEnds
  <2>1. /\ kids' = FALSE
        /\ UNCHANGED <<exec, leader, said, shut, handle, stop, cancelled, late, row>>
    BY <1>4, <1>36 DEF Cmd!KidEnds
  <2>4. CmdTyped'
    BY <1>2, <2>1 DEF CmdTyped, Leaders, Statuses, Verdicts
  <2>5. CmdCounts'
    BY <1>2, <2>1 DEF CmdCounts
  <2>6. CmdKnown'
    BY <1>2, <1>4, <2>1, ZenonT(60) DEF CmdKnown, Cmd!At, Cmd!Gone, Cmd!NoRow
  <2>7. QED
    BY <1>3, <2>4, <2>5, <2>6
<1>37. CASE Cmd!Exit
  <2>1. /\ leader = "runs"
        /\ leader' = "exited"
        /\ UNCHANGED <<exec, said, shut, kids, handle, stop, cancelled, late, row>>
    BY <1>4, <1>37 DEF Cmd!Exit
  <2>4. CmdTyped'
    BY <1>2, <2>1 DEF CmdTyped, Leaders, Statuses, Verdicts
  <2>5. CmdCounts'
    BY <1>2, <2>1 DEF CmdCounts
  <2>6. CmdKnown'
    BY <1>2, <1>4, <2>1 DEF CmdKnown, Cmd!At, Cmd!Gone, Cmd!NoRow
  <2>7. QED
    BY <1>3, <2>4, <2>5, <2>6
<1>38. CASE Cmd!KillLands
  <2>1. /\ leader = "doomed"
        /\ leader' = "killed"
        /\ UNCHANGED <<exec, said, shut, kids, handle, stop, cancelled, late, row>>
    BY <1>4, <1>38 DEF Cmd!KillLands
  <2>4. CmdTyped'
    BY <1>2, <2>1 DEF CmdTyped, Leaders, Statuses, Verdicts
  <2>5. CmdCounts'
    BY <1>2, <2>1 DEF CmdCounts
  <2>6. CmdKnown'
    BY <1>2, <1>4, <2>1 DEF CmdKnown, Cmd!At, Cmd!Gone, Cmd!NoRow
  <2>7. QED
    BY <1>3, <2>4, <2>5, <2>6
<1>39. CASE Cmd!JobCloses
  <2>1. /\ exec.at \in {"idle", "finish", "over", "down"}
        /\ ~handle
        /\ stop.at \notin {"kill", "poll"}
        /\ kids' = FALSE
        /\ leader' = IF Cmd!Gone THEN leader ELSE "killed"
        /\ kids \/ leader \in {"runs", "doomed"}
        /\ leader # "runs"
        /\ UNCHANGED <<exec, said, shut, handle, stop, cancelled, late, row>>
    <3>1. /\ exec.at \in {"idle", "finish", "over", "down"}
          /\ ~handle /\ stop.at \notin {"kill", "poll"}
      BY <1>4, <1>39 DEF Cmd!JobCloses, Cmd!Held, Cmd!Working, ExecSteps
    <3>2. leader # "runs"
      BY <1>2, <3>1 DEF CmdKnown, Cmd!At
    <3>3. QED
      BY <1>39, <3>1, <3>2 DEF Cmd!JobCloses
  <2>4. CmdTyped'
    BY <1>2, <2>1 DEF CmdTyped, Leaders, Statuses, Verdicts
  <2>5. CmdCounts'
    BY <1>2, <2>1 DEF CmdCounts
  <2>6. CmdKnown'
    BY <1>2, <1>4, <2>1 DEF CmdKnown, Cmd!At, Cmd!Gone, Cmd!NoRow
  <2>7. QED
    BY <1>3, <2>4, <2>5, <2>6
<1>40. QED
  BY <1>5, <1>6, <1>7, <1>8, <1>9, <1>10, <1>11, <1>12, <1>13, <1>14, <1>15, <1>16, <1>17, <1>18, <1>19, <1>20, <1>21, <1>22, <1>23, <1>24, <1>25, <1>26, <1>27, <1>28, <1>29, <1>30, <1>31, <1>32, <1>33, <1>34, <1>35, <1>36, <1>37, <1>38, <1>39, <1>4
     DEF Cmd!Next, Cmd!Exec, Cmd!Drain, Cmd!Receive, Cmd!Look, Cmd!WaitForExit, Cmd!Settle, Cmd!At

-----------------------------------------------------------------------------
(* The wait for a child.                                                   *)

(* Nobody waits at first.                                                  *)
LEMMA WaitBegins == Wait!Init => WaitInv
BY DEF Wait!Init, WaitInv, Wait!TypeOK, Wait!NotWaiting, Wait!At

Waits == [at : {"idle", "read", "sleep"}, for : SUBSET Children,
          unread : SUBSET Children, woken : BOOLEAN]

(* A waiter that is told is woken, and nothing else of it changes.         *)
LEMMA WaitNotified ==
    ASSUME WaitInv, Wait!Notified, child' \in [Children -> {"active", "final", "gone"}]
    PROVE  WaitInv'
<1>1. wait \in Waits
  BY DEF WaitInv, Wait!TypeOK, Waits
<1>2. PICK b \in BOOLEAN : b = (wait.woken \/ Wait!Subscribed)
  OBVIOUS
<1>3. wait' = [wait EXCEPT !.woken = b]
  BY <1>2 DEF Wait!Notified
<1>4. /\ wait' \in Waits
      /\ wait'.at = wait.at /\ wait'.for = wait.for /\ wait'.unread = wait.unread
  BY <1>1, <1>3 DEF Waits
<1>5. wait'.woken = b
  BY <1>1, <1>3 DEF Waits
<1>6. wait.at \in {"read", "sleep"} => wait'.woken
  BY <1>2, <1>5 DEF Wait!Subscribed
<1>7. QED
  BY <1>4, <1>6 DEF WaitInv, Wait!TypeOK, Waits, Wait!At

(* Who has read a child at work is woken before the child is over.         *)
LEMMA WaitGoesOn == WaitInv /\ [Wait!Next]_waitVars => WaitInv'
<1> SUFFICES ASSUME WaitInv, [Wait!Next]_waitVars
             PROVE  WaitInv'
  OBVIOUS
<1>1. /\ child \in [Children -> {"active", "final", "gone"}]
      /\ wait \in Waits
      /\ wait.unread \subseteq wait.for
      /\ wait.at \in {"read", "sleep"} /\ ~wait.woken =>
             \A c \in wait.for \ wait.unread : child[c] = "active"
  BY DEF WaitInv, Wait!TypeOK, Waits
<1>2. CASE UNCHANGED waitVars
  BY <1>2 DEF waitVars, WaitInv, Wait!TypeOK, Wait!At
<1>3. ASSUME UNCHANGED child, wait' = Wait!NotWaiting
      PROVE  WaitInv'
  BY <1>1, <1>3 DEF WaitInv, Wait!TypeOK, Wait!NotWaiting, Wait!At
<1>4. ASSUME NEW c \in Children, Wait!Change(c)
      PROVE  WaitInv'
  BY <1>1, <1>4, WaitNotified DEF Wait!Change, Wait!Becomes
<1>5. CASE Wait!RemoveRoot \/ Wait!Stir
  BY <1>1, <1>5, WaitNotified DEF Wait!RemoveRoot, Wait!Stir
<1>6. ASSUME NEW cs \in SUBSET Children, Wait!WaitFor(cs)
      PROVE  WaitInv'
  BY <1>1, <1>6 DEF Wait!WaitFor, WaitInv, Wait!TypeOK, Wait!At
<1>7. CASE Wait!ReadAll
  <2>1. CASE wait' = Wait!NotWaiting
    BY <1>3, <1>7, <2>1 DEF Wait!ReadAll
  <2>2. CASE wait' # Wait!NotWaiting
    <3>1. /\ wait.at = "read" /\ wait.for = {} /\ UNCHANGED child
          /\ wait' = [wait EXCEPT !.at = "sleep"]
          /\ \A c \in Children : child[c] # "final"
      BY <1>7, <2>2 DEF Wait!ReadAll, Wait!At
    <3>2. /\ wait' \in Waits /\ wait'.at = "sleep" /\ wait'.for = {} /\ wait'.unread = {}
      BY <1>1, <3>1 DEF Waits
    <3>3. QED
      BY <1>1, <3>1, <3>2 DEF WaitInv, Wait!TypeOK, Waits, Wait!At
  <2>3. QED
    BY <2>1, <2>2
<1>8. ASSUME NEW c \in Children, Wait!Read(c)
      PROVE  WaitInv'
  <2>1. CASE child[c] # "active"
    BY <1>3, <1>8, <2>1 DEF Wait!Read
  <2>2. CASE child[c] = "active"
    <3>1. /\ wait.at = "read" /\ c \in wait.unread /\ UNCHANGED child
      BY <1>8 DEF Wait!Read, Wait!At
    <3>2. PICK step \in {"read", "sleep"} :
            /\ step = IF wait.unread = {c} THEN "sleep" ELSE wait.at
            /\ wait' = [wait EXCEPT !.unread = wait.unread \ {c}, !.at = step]
      BY <1>8, <2>2, <3>1 DEF Wait!Read
    <3>3. /\ wait' \in Waits /\ wait'.at = step /\ wait'.for = wait.for
          /\ wait'.unread = wait.unread \ {c}
      BY <1>1, <3>2 DEF Waits
    <3>4. wait'.woken = wait.woken
      BY <1>1, <3>2 DEF Waits
    <3>5. /\ step = "sleep" => wait'.unread = {}
          /\ wait'.for # {}
      BY <1>1, <3>1, <3>2, <3>3
    <3>6. wait'.at \in {"read", "sleep"} /\ ~wait'.woken =>
              \A d \in wait'.for \ wait'.unread : child'[d] = "active"
      BY <1>1, <2>2, <3>1, <3>2, <3>3, <3>4
    <3>7. QED
      BY <1>1, <3>1, <3>3, <3>5, <3>6 DEF WaitInv, Wait!TypeOK, Waits, Wait!At
  <2>3. QED
    BY <2>1, <2>2
<1>9. CASE Wait!WakeUp
  <2>1. CASE wait' = Wait!NotWaiting
    BY <1>3, <1>9, <2>1 DEF Wait!WakeUp
  <2>2. CASE wait' # Wait!NotWaiting
    <3>1. /\ wait' = [wait EXCEPT !.at = "read", !.unread = wait.for, !.woken = FALSE]
          /\ UNCHANGED child
      BY <1>9, <2>2 DEF Wait!WakeUp
    <3>2. /\ wait' \in Waits /\ wait'.at = "read" /\ wait'.for = wait.for
          /\ wait'.unread = wait'.for
      BY <1>1, <3>1 DEF Waits
    <3>3. QED
      BY <1>1, <3>1, <3>2 DEF WaitInv, Wait!TypeOK, Waits, Wait!At
  <2>3. QED
    BY <2>1, <2>2
<1>10. CASE Wait!Cancelled
  BY <1>3, <1>10 DEF Wait!Cancelled
<1>11. QED
  BY <1>2, <1>4, <1>5, <1>6, <1>7, <1>8, <1>9, <1>10 DEF Wait!Next, Wait!Waiter, waitVars

-----------------------------------------------------------------------------
(* The index, whose own proofs are in KnowledgeIndex_proofs.               *)

(* The bounds are what those proofs ask for.                               *)
LEMMA IndexBounded == IndexP!Bounded
BY ServicesAssumption DEF ServicesAssumption, IndexP!Bounded, IndexP!IsFiniteSet, IsFiniteSet

(* They are about the same initial states.                                 *)
LEMMA IndexBegins == Index!Init => IndexInv
<1>1. Index!Init => IndexP!Init
  BY DEF Index!Init, IndexP!Init, Index!None, IndexP!None, Index!Idle, IndexP!Idle
<1>2. QED
  BY <1>1, IndexBounded, IndexP!IndexBegins DEF IndexInv

(* They are about the same steps.                                          *)
LEMMA IndexGoesOn == IndexInv /\ [Index!Next]_indexVars => IndexInv'
<1>1. [Index!Next]_indexVars => [IndexP!Next]_IndexP!vars
  BY DEF indexVars, IndexP!vars, Index!Next, IndexP!Next,
         Index!Work, IndexP!Work, Index!Watch, IndexP!Watch,
         Index!Request, IndexP!Request, Index!Reindex, IndexP!Reindex,
         Index!ReindexMissing, IndexP!ReindexMissing, Index!Queue, IndexP!Queue,
         Index!Begin, IndexP!Begin, Index!Announce, IndexP!Announce,
         Index!Extract, IndexP!Extract, Index!Count, IndexP!Count,
         Index!Replace, IndexP!Replace, Index!Settle, IndexP!Settle,
         Index!Remove, IndexP!Remove, Index!Save, IndexP!Save,
         Index!SetWatching, IndexP!SetWatching, Index!Crash, IndexP!Crash,
         Index!WatcherStops, IndexP!WatcherStops,
         Index!WatcherHandles, IndexP!WatcherHandles,
         Index!SeemsUnchanged, IndexP!SeemsUnchanged, Index!Publish, IndexP!Publish,
         Index!Upserted, IndexP!Upserted, Index!Row, IndexP!Row,
         Index!FreshId, IndexP!FreshId, Index!Ids, IndexP!Ids,
         Index!Cardinality, IndexP!Cardinality, Index!Stored, IndexP!Stored,
         Index!At, IndexP!At, Index!Goto, IndexP!Goto,
         Index!None, IndexP!None, Index!Idle, IndexP!Idle
<1>2. QED
  BY <1>1, IndexBounded, IndexP!IndexGoesOn DEF IndexInv

(* What the invariant says of the index.                                   *)
LEMMA IndexSays == IndexInv => Index!TypeOK
<1>1. IndexInv => IndexP!TypeOK
  BY IndexP!IndexHolds DEF IndexInv
<1>2. IndexP!TypeOK => Index!TypeOK
  BY DEF Index!TypeOK, IndexP!TypeOK, Index!Ids, IndexP!Ids, Index!Statuses, IndexP!Statuses,
         Index!None, IndexP!None, Index!Cardinality, IndexP!Cardinality
<1>3. QED
  BY <1>1, <1>2

-----------------------------------------------------------------------------
(* All of them.                                                            *)

(* Every part starts as its own invariant says.                            *)
LEMMA ServicesBegin == Init => ServicesInv
BY DevBegins, McpBegins, CmdBegins, IndexBegins, WaitBegins DEF Init, ServicesInv

(* A part that stands still keeps its invariant.                           *)
LEMMA OthersStay ==
    /\ DevInv /\ UNCHANGED devVars => DevInv'
    /\ McpInv /\ UNCHANGED mcpVars => McpInv'
    /\ CmdInv /\ UNCHANGED cmdVars => CmdInv'
    /\ IndexInv /\ UNCHANGED indexVars => IndexInv'
    /\ WaitInv /\ UNCHANGED waitVars => WaitInv'
BY DevGoesOn, McpGoesOn, CmdGoesOn, IndexGoesOn, WaitGoesOn

(* One part moves, as its own proof says; the others stay.                 *)
LEMMA ServicesGoOn == ServicesInv /\ [Next]_vars => ServicesInv'
<1> SUFFICES ASSUME ServicesInv, [Next]_vars
             PROVE  ServicesInv'
  OBVIOUS
<1>1. DevInv /\ McpInv /\ CmdInv /\ IndexInv /\ WaitInv
  BY DEF ServicesInv
<1>2. DevInv'
  <2>1. [Dev!Next]_devVars
    BY DEF Next, InDev, InMcp, InCmd, InIndex, InWait, vars
  <2>2. QED
    BY <1>1, <2>1, DevGoesOn
<1>3. McpInv'
  <2>1. [Mcp!Next]_mcpVars
    BY DEF Next, InDev, InMcp, InCmd, InIndex, InWait, vars
  <2>2. QED
    BY <1>1, <2>1, McpGoesOn
<1>4. CmdInv'
  <2>1. [Cmd!Next]_cmdVars
    BY DEF Next, InDev, InMcp, InCmd, InIndex, InWait, vars
  <2>2. QED
    BY <1>1, <2>1, CmdGoesOn
<1>5. IndexInv'
  <2>1. [Index!Next]_indexVars
    BY DEF Next, InDev, InMcp, InCmd, InIndex, InWait, vars
  <2>2. QED
    BY <1>1, <2>1, IndexGoesOn
<1>6. WaitInv'
  <2>1. [Wait!Next]_waitVars
    BY DEF Next, InDev, InMcp, InCmd, InIndex, InWait, vars
  <2>2. QED
    BY <1>1, <2>1, WaitGoesOn
<1>7. QED
  BY <1>2, <1>3, <1>4, <1>5, <1>6 DEF ServicesInv

(* It holds throughout.                                                    *)
THEOREM ServicesSound == Spec => []ServicesInv
BY ServicesBegin, ServicesGoOn, PTL DEF Spec

(* Every variable of every part has its type, in every state: also the     *)
(* slots of the pool, of which there is always one to spare for a server   *)
(* that has none, and the ids of the index.                                *)
THEOREM ServicesTyped == Spec => []TypeOK
<1>1. ServicesInv => TypeOK
  BY IndexSays DEF ServicesInv, DevInv, McpInv, CmdInv, WaitInv, TypeOK
<1>2. QED
  BY <1>1, ServicesSound, PTL

(* No process outlives what would end it, however many callers, saves and  *)
(* starts overlap: a stop of the workspace, the next save of the settings  *)
(* or the end of a command's task finds every one.                         *)
THEOREM ProcessesOwnedAlways == Spec => []ProcessesOwned
<1>1. ServicesInv => Dev!NoStray
  BY DEF ServicesInv, DevInv
<1>2. ServicesInv => Mcp!OneProcess
  <2>1. ASSUME ServicesInv, NEW s \in Mcp!Slots, Mcp!Live(s)
        PROVE  s = pool
    BY <2>1 DEF ServicesInv, McpInv, Connected, Mcp!Live
  <2>2. QED
    BY <2>1 DEF Mcp!OneProcess
<1>3. ServicesInv => Cmd!NobodyForgotten
  BY DEF ServicesInv, CmdInv, CmdKnown, Cmd!NobodyForgotten, Cmd!TypeOK, Cmd!Working, Cmd!Gone, Cmd!At
<1>4. ServicesInv => ProcessesOwned
  BY <1>1, <1>2, <1>3 DEF ProcessesOwned
<1>5. QED
  BY <1>4, ServicesSound, PTL

(* What is shown or returned is of the process asked for: a server that    *)
(* has died is being noticed, no call takes the answer to another request, *)
(* a command's row says how it ended, and no wait sleeps through the end   *)
(* of a child.                                                             *)
THEOREM NothingStaleAlways == Spec => []NothingStale
<1>1. ServicesInv => Dev!DeadIsNoticed
  BY DEF ServicesInv, DevInv, Dev!DeadIsNoticed, Dev!Showing, Dev!NoEntry
<1>2. ServicesInv => Mcp!OwnAnswer
  BY DEF ServicesInv, McpInv, Mcp!OwnAnswer
<1>3. ServicesInv => Cmd!RowTellsTheEnd
  BY DEF ServicesInv, CmdInv, CmdKnown, CmdCounts, Cmd!RowTellsTheEnd, Cmd!TypeOK, Cmd!Gone, Cmd!At
<1>4. ServicesInv => Wait!NoLostWakeup
  BY DEF ServicesInv, WaitInv, Wait!NoLostWakeup, Wait!TypeOK, Wait!At
<1>5. ServicesInv => NothingStale
  BY <1>1, <1>2, <1>3, <1>4 DEF NothingStale
<1>6. QED
  BY <1>5, ServicesSound, PTL
=============================================================================
