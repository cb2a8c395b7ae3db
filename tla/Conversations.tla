---------------------------- MODULE Conversations ----------------------------
(***************************************************************************)
(* The conversations and what is remembered of them.                       *)
(*                                                                         *)
(* A turn stores the operator's message, captures what the message asks to *)
(* remember, stores its answer, and has a model pick what else to keep.    *)
(* Each lookup and each write takes the store's lock of its own, so the    *)
(* operator, who edits messages, memories and chats at any time, and the   *)
(* turn of another chat fall in between.  The generated mirrors are        *)
(* Vault's.                                                                *)
(***************************************************************************)
EXTENDS Naturals, Sequences, FiniteSets

CONSTANTS
    Talks,      \* chats
    Spaces,     \* projects
    Subjects,   \* titles of captured memories
    Facts,      \* contents
    Slots,      \* ids of memories (bounds how many there are at once)
    MaxTalks,   \* bound: turns begun
    MaxStrokes  \* bound: what the operator does beside them

VARIABLES
    session,    \* sessions: the binding and contribute_memories, or Absent
    transcript, \* session_messages, by chat, in the order of their ordinals
    memory,     \* memories, by id
    talk,       \* the turn of each chat: orchestrate, as far as it stores
    begun,      \* turns begun so far
    strokes,    \* operations of the operator so far
    cut,        \* history: turns whose chat was edited or deleted under them
    mixed       \* history: something changed between the first lookup and the
                \* write, or an explicit capture outlived its chat
vars == <<session, transcript, memory, talk, begun, strokes, cut, mixed>>

None == "none"
Absent == [text |-> None]
Unbound == [ws |-> None, keeps |-> FALSE, stored |-> FALSE]
Idle == [at |-> "idle"]
Bindings == Spaces \union {None}
Held(id) == memory[id] # Absent
At(c, step) == talk[c].at = step
Same(id, ws) == Held(id) /\ memory[id].ws = ws
Runs == 1 .. MaxTalks

(* What a message asks to remember: explicitly, in the scope it names; a   *)
(* profile fact or a pick of the curator, in the scope of the chat.        *)
Draft == [how : {"explicit", "automatic"}, ws : Bindings, title : Subjects, text : Facts]

Init ==
    /\ session = [c \in Talks |-> Unbound]
    /\ transcript = [c \in Talks |-> <<>>]
    /\ memory = [id \in Slots |-> Absent]
    /\ talk = [c \in Talks |-> Idle]
    /\ begun = 0 /\ strokes = 0 /\ cut = {} /\ mixed = FALSE

(* A change under a turn that has begun to look and not yet written.       *)
Disturbs(c) == [d \in Talks |->
    IF d # c /\ talk[d].at = "keep" THEN [talk[d] EXCEPT !.raced = TRUE] ELSE talk[d]]
Goto(c, next) == talk' = [talk EXCEPT ![c] = next]
Plain(c, step) == [at |-> step, run |-> talk[c].run, ws |-> talk[c].ws, keeps |-> talk[c].keeps]
Step(c, step) == Goto(c, Plain(c, step))

-----------------------------------------------------------------------------
(* The binding is what the client's window shows of the chat; another      *)
(* window may have changed it.                                             *)
Begin(c, ws, keeps) ==
    /\ At(c, "idle") /\ begun < MaxTalks /\ begun' = begun + 1
    /\ Goto(c, [at |-> "store", run |-> begun + 1, ws |-> ws, keeps |-> keeps])
    /\ UNCHANGED <<session, transcript, memory, strokes, cut, mixed>>

(* touch_session binds and never unbinds.  A child is archived as well.    *)
StoreMessage(c) ==
    /\ At(c, "store")
    /\ session' = [session EXCEPT ![c] =
           [ws |-> IF talk[c].ws = None THEN session[c].ws ELSE talk[c].ws,
            keeps |-> talk[c].keeps, stored |-> TRUE]]
    /\ transcript' = [transcript EXCEPT ![c] =
           Append(@, [who |-> "user", run |-> talk[c].run, drawn |-> 0])]
    /\ Step(c, IF talk[c].keeps THEN "capture" ELSE "answer")
    /\ UNCHANGED <<memory, begun, strokes, cut, mixed>>

(* After the capture the answer is worked out, after the curation the turn *)
(* is over.                                                                *)
After(c) ==
    IF At(c, "curate") \/ (At(c, "keep") /\ talk[c].curated) THEN Idle ELSE Plain(c, "answer")

(* capture_explicit looks for the content; store_automatic for the chat,   *)
(* the content and the title, each under the store's lock of its own.      *)
(* What the operator switched off stays off.                               *)
OfContent(d) == {id \in Slots : Same(id, d.ws) /\ memory[id].text = d.text}
OfTitle(d) == {id \in Slots : Same(id, d.ws) /\ memory[id].title = d.title}
ChatAgrees(c, d) == session[c].stored /\ session[c].ws = d.ws

FirstLook(c, d) ==
    IF (IF d.how = "explicit" THEN OfContent(d) = {} ELSE ChatAgrees(c, d))
    THEN Goto(c, [at |-> "keep", run |-> talk[c].run, ws |-> talk[c].ws,
                  keeps |-> talk[c].keeps, curated |-> At(c, "curate"), draft |-> d,
                  to |-> IF d.how = "explicit" THEN "write" ELSE "content",
                  into |-> None, raced |-> FALSE])
    ELSE Goto(c, After(c))

To(c, step) == At(c, "keep") /\ talk[c].to = step

LookForContent(c) ==
    /\ To(c, "content")
    /\ IF OfContent(talk[c].draft) = {}
       THEN Goto(c, [talk[c] EXCEPT !.to = "title"])
       ELSE Goto(c, After(c))
    /\ UNCHANGED <<session, transcript, memory, begun, strokes, cut, mixed>>

LookForTitle(c) ==
    /\ To(c, "title")
    /\ \/ /\ OfTitle(talk[c].draft) = {}
          /\ Goto(c, [talk[c] EXCEPT !.to = "write"])
       \/ \E id \in OfTitle(talk[c].draft) :
             Goto(c, IF memory[id].on
                     THEN [talk[c] EXCEPT !.to = "write", !.into = id] ELSE After(c))
    /\ UNCHANGED <<session, transcript, memory, begun, strokes, cut, mixed>>

(* The explicit marker is tried first, then the profile; or neither fits.  *)
Scoped(c, d) ==
    \/ d.how = "automatic" /\ d.ws = talk[c].ws
    \/ d.how = "explicit" /\ d.ws \in {None, talk[c].ws}
Capture(c) ==
    /\ At(c, "capture")
    /\ \/ \E d \in Draft : Scoped(c, d) /\ FirstLook(c, d)
       \/ Goto(c, After(c))
    /\ UNCHANGED <<session, transcript, memory, begun, strokes, cut, mixed>>

(* synthesize_memories: nothing is kept unless the chat is still there and *)
(* bound as the turn was; each pick goes through store_automatic.          *)
Curate(c) ==
    /\ At(c, "curate")
    /\ \/ /\ session[c].stored /\ session[c].ws = talk[c].ws
          /\ \E d \in Draft : d.how = "automatic" /\ Scoped(c, d) /\ FirstLook(c, d)
       \/ Goto(c, Idle)
    /\ UNCHANGED <<session, transcript, memory, begun, strokes, cut, mixed>>

(* update_memory: what the patch leaves out is read again from the row.    *)
PatchedOn(m, d, c) == [m EXCEPT !.text = d.text, !.src = c, !.on = TRUE]

Patched(m, d, c) == [m EXCEPT !.text = d.text, !.src = c]

(* An explicit capture does not look whether its chat is still there.      *)
Orphan(c) == talk[c].draft.how = "explicit" /\ ~session[c].stored

Write(c) ==
    /\ To(c, "write")
    /\ LET d == talk[c].draft
           into == talk[c].into
       IN  IF into = None
           THEN \E id \in Slots : /\ ~Held(id)
                    /\ memory' = [memory EXCEPT ![id] =
                         [ws |-> d.ws, title |-> d.title, text |-> d.text, on |-> TRUE,
                          src |-> c]]
           ELSE IF Held(into)
                THEN memory' = [memory EXCEPT ![into] = Patched(@, d, c)]
                ELSE UNCHANGED memory
    /\ mixed' = (mixed \/ talk[c].raced \/ Orphan(c))
    /\ talk' = [Disturbs(c) EXCEPT ![c] = After(c)]
    /\ UNCHANGED <<session, transcript, begun, strokes, cut>>

(* The row of a deleted chat is refused.                                   *)
Answer(c) ==
    /\ At(c, "answer")
    /\ transcript' = [transcript EXCEPT ![c] =
           IF session[c].stored
           THEN Append(@, [who |-> "agent", run |-> talk[c].run, drawn |-> 0]) ELSE @]
    /\ IF talk[c].keeps THEN Step(c, "curate") ELSE Goto(c, Idle)
    /\ UNCHANGED <<session, memory, begun, strokes, cut, mixed>>

(* A turn that fails or is stopped stores no answer.                       *)
Fail(c) ==
    /\ At(c, "answer")
    /\ Goto(c, Idle)
    /\ UNCHANGED <<session, transcript, memory, begun, strokes, cut, mixed>>

-----------------------------------------------------------------------------
(* The client hands a finished turn's timeline back.                       *)
Finished(c, r) == ~(talk[c].at # "idle" /\ talk[c].run = r)
StoreActivity(c, r) ==
    /\ r <= begun /\ Finished(c, r)
    /\ transcript' = [transcript EXCEPT ![c] =
           [i \in DOMAIN @ |-> IF @[i].who = "agent" /\ @[i].run = r
                               THEN [@[i] EXCEPT !.drawn = r] ELSE @[i]]]
    /\ UNCHANGED <<session, memory, talk, begun, strokes, cut, mixed>>

(* session_truncate: a message of the operator and all that follows it.    *)
RetainedWithAnswer(rows, i) ==
    SelectSeq(rows, LAMBDA row : row.run < rows[i].run \/ row.who = "agent")

Retained(rows, i) == SubSeq(rows, 1, i - 1)
Under(c) == IF At(c, "idle") THEN {} ELSE {talk[c].run}

Stroke == strokes < MaxStrokes /\ strokes' = strokes + 1

Edit(c) ==
    /\ \E i \in DOMAIN transcript[c] :
         /\ transcript[c][i].who = "user"
         /\ transcript' = [transcript EXCEPT ![c] = Retained(@, i)]
    /\ cut' = cut \union Under(c) /\ Stroke
    /\ UNCHANGED <<session, memory, talk, begun, mixed>>

(* session_delete: the rows, and the memories last written from the chat.  *)
Kept(c) == [id \in Slots |-> IF Held(id) /\ memory[id].src = c THEN Absent ELSE memory[id]]

DeleteChat(c) ==
    /\ session[c].stored
    /\ session' = [session EXCEPT ![c] = Unbound]
    /\ transcript' = [transcript EXCEPT ![c] = <<>>]
    /\ memory' = Kept(c)
    /\ cut' = cut \union Under(c)
    /\ talk' = Disturbs(None) /\ Stroke
    /\ UNCHANGED <<begun, mixed>>

Rebind(c, ws) ==
    /\ session[c].stored
    /\ session' = [session EXCEPT ![c].ws = ws]
    /\ talk' = Disturbs(None) /\ Stroke
    /\ UNCHANGED <<transcript, memory, begun, cut, mixed>>

(* The operator's own hand: a memory is added, changed, switched, removed. *)
ByHand(id, next) ==
    /\ memory' = [memory EXCEPT ![id] = next]
    /\ talk' = Disturbs(None) /\ Stroke
    /\ UNCHANGED <<session, transcript, begun, cut, mixed>>

AddByHand(id, ws, title, text) ==
    ~Held(id) /\ ByHand(id, [ws |-> ws, title |-> title, text |-> text, on |-> TRUE, src |-> None])
Switch(id) == Held(id) /\ ByHand(id, [memory[id] EXCEPT !.on = ~@])
Reword(id, text) == Held(id) /\ ByHand(id, [memory[id] EXCEPT !.text = text])
Remove(id) == Held(id) /\ ByHand(id, Absent)

Turn(c) ==
    \/ \E ws \in Bindings, keeps \in BOOLEAN : Begin(c, ws, keeps)
    \/ StoreMessage(c) \/ Capture(c)
    \/ LookForContent(c) \/ LookForTitle(c) \/ Write(c)
    \/ Answer(c) \/ Fail(c) \/ Curate(c)

Operator ==
    \/ \E c \in Talks : \/ Edit(c) \/ DeleteChat(c)
                        \/ \E ws \in Bindings : Rebind(c, ws)
    \/ \E c \in Talks, r \in Runs : StoreActivity(c, r)
    \/ \E id \in Slots :
         \/ Switch(id) \/ Remove(id) \/ \E text \in Facts : Reword(id, text)
         \/ \E ws \in Bindings, title \in Subjects, text \in Facts : AddByHand(id, ws, title, text)

Next == (\E c \in Talks : Turn(c)) \/ Operator

Spec == Init /\ [][Next]_vars

-----------------------------------------------------------------------------
TypeOK ==
    /\ session \in [Talks -> [ws : Bindings, keeps : BOOLEAN, stored : BOOLEAN]]
    /\ \A id \in Slots : Held(id) =>
         memory[id] \in [ws : Bindings, title : Subjects, text : Facts, on : BOOLEAN,
                         src : Talks \union {None}]
    /\ \A c \in Talks : \A i \in DOMAIN transcript[c] :
         transcript[c][i] \in [who : {"user", "agent"}, run : Runs, drawn : {0} \union Runs]

Writes(c) == To(c, "write") /\ talk'[c].at # "keep"

(* What the operator switched off, no turn switches on again, and none     *)
(* keeps a second copy beside it: a memory is added where the scope has    *)
(* neither its content nor, from the curator, its title.  (What changed    *)
(* between the first lookup and the write is not seen.)                    *)
SwitchedOffStays ==
    [][\A id \in Slots, c \in Talks : Writes(c) =>
         /\ Held(id) /\ ~memory[id].on => memory'[id] = Absent \/ ~memory'[id].on
         /\ ~Held(id) /\ memory'[id] # Absent /\ ~mixed' =>
              OfContent(talk[c].draft) = {} /\
              (talk[c].draft.how = "automatic" => OfTitle(talk[c].draft) = {})]_vars

(* What was learned from a chat is forgotten with it, and what the curator *)
(* keeps is kept in the scope the chat has.                                *)
ForgottenWithItsChat ==
    mixed \/ \A id \in Slots, c \in Talks :
                 Held(id) /\ memory[id].src = c => session[c].stored
KeptInScope ==
    [][\A id \in Slots, c \in Talks :
         /\ Writes(c) /\ talk[c].draft.how = "automatic" /\ ~mixed'
         /\ memory'[id] # memory[id]
         => memory'[id].ws = session[c].ws]_vars

(* A chat reads as it was said: an answer follows its own question, and a  *)
(* timeline is drawn on the answer it belongs to, unless the question was  *)
(* edited away while it was being answered.                                *)
ReadsAsSaid ==
    \A c \in Talks : LET rows == transcript[c] IN
        \A i \in DOMAIN rows :
            /\ rows[i].who = "agent" /\ rows[i].run \notin cut =>
                 i > 1 /\ rows[i - 1].who = "user" /\ rows[i - 1].run = rows[i].run
            /\ rows[i].drawn # 0 => rows[i].who = "agent" /\ rows[i].drawn = rows[i].run
=============================================================================
