----------------------------- MODULE Completion -----------------------------
(***************************************************************************)
(* One request to a model, from its reply on: the stream of an answer, cut *)
(* by the network wherever it likes and shown as it comes; or one body,    *)
(* with calls, the text of a page, or calls that were written as text and  *)
(* are read back out of it.                                                *)
(***************************************************************************)
EXTENDS Naturals, Sequences, FiniteSets, SequencesExt

CONSTANTS
    MaxFrames,  \* bound: frames of a streamed reply
    MaxBlocks   \* bound: calls in a reply, and blocks of markup in a text

VARIABLES
    ask,        \* how it was asked: a stream, a body, or a page to transcribe
    reply,      \* what the server sends
    got,        \* how many pieces of a stream have arrived
    cut,        \* frames whose character a border of chunks fell into
    out,        \* the result so far
    sunk,       \* what the operator was shown, in order
    status,     \* of the request
    chunk,      \* up to where the chunk reaches that was taken and is to be read, or 0
    stopped,    \* the run was cancelled
    heard       \* history: up to where the answer had come when it was
completionVars == <<ask, reply, got, cut, out, sunk, status, chunk, stopped, heard>>

(* A frame is a line: text of one character, narrow or wide, for the       *)
(* answer or the reasoning; a finish; or something that does not parse.    *)
(* It arrives in three pieces: up to inside a wide character, the rest,    *)
(* and the end of the line.                                                *)
Frames == {"narrow", "wide", "thought", "junk", "length"}
Pieces == 3
Ended(n, i) == n >= Pieces * i

(* A call written as text: its form, whether its tool is offered, and the  *)
(* keys it gives values to.  The tool requires these, in this order.       *)
Required == <<"path", "content">>
Keys == UNION {[1 .. n -> {"path", "content", "file"}] : n \in 1 .. 2}
Blocks == [form : {"function", "json", "compact"}, known : {TRUE}, keys : Keys]
              \union [form : {"function", "json", "compact"}, known : {FALSE}, keys : {<<"path">>}]

Streams == UNION {[1 .. n -> Frames] : n \in 0 .. MaxFrames}
Calls == UNION {[1 .. n -> {"whole", "nameless", "garbled"}] : n \in 0 .. MaxBlocks}
Texts == UNION {[1 .. n -> Blocks] : n \in 0 .. MaxBlocks}
Bodies == [calls : Calls, text : {<<>>}] \union [calls : {<<>>}, text : Texts]

Nothing == [text |-> <<>>, thoughts |-> <<>>, finish |-> "", calls |-> <<>>]

Init ==
    /\ ask \in {"stream", "body", "page"}
    /\ reply \in IF ask = "stream" THEN Streams ELSE Bodies
    /\ got = 0 /\ cut = {} /\ out = Nothing /\ sunk = <<>>
    /\ status = "open" /\ chunk = 0 /\ stopped = FALSE /\ heard = 0

Open == status = "open" /\ chunk = 0
Ends(how) == status' = how /\ UNCHANGED <<ask, reply, got, cut, sunk, chunk, stopped, heard>>

-----------------------------------------------------------------------------
(* A stop of the run, and where it is noticed: before the answer came, at  *)
(* the next chunk, or in the tenth of a second without one.                *)
Stop ==
    /\ ~stopped /\ stopped' = TRUE
    /\ heard' = IF chunk = 0 THEN got ELSE chunk
    /\ UNCHANGED <<ask, reply, got, cut, out, sunk, status, chunk>>

NoticeStop == Open /\ stopped /\ Ends("denied") /\ UNCHANGED out

(* The server refuses, the connection breaks, or a body does not parse.    *)
Fail == Open /\ Ends("failed") /\ UNCHANGED out

(* read_stream: a chunk is taken unless the run is cancelled by then, and  *)
(* read to its end though it be cancelled meanwhile: every line that is    *)
(* complete now goes to the result and to the sink.  Each chunk is decoded *)
(* for itself, so a character that it ends in is lost.                     *)
TakeChunk(n) ==
    /\ ask = "stream" /\ Open /\ ~stopped
    /\ n > got /\ n <= Pieces * Len(reply)
    /\ chunk' = n
    /\ UNCHANGED <<ask, reply, got, cut, out, sunk, status, stopped, heard>>

Lines(n) == {i \in 1 .. Len(reply) : Ended(n, i) /\ ~Ended(got, i)}
Said(i, cuts) == [frame |-> i, torn |-> i \in cuts]
Of(kinds, n, cuts) ==
    LET all == [i \in 1 .. Len(reply) |-> Said(i, cuts)] IN
    SelectSeq(all, LAMBDA s : s.frame \in Lines(n) /\ reply[s.frame] \in kinds)

ReadChunk ==
    LET n == chunk
        cuts == cut \union {i \in 1 .. Len(reply) : reply[i] = "wide" /\ n = Pieces * i - 2}
        text == Of({"narrow", "wide"}, n, cuts)
        thoughts == Of({"thought"}, n, cuts)
    IN
    /\ chunk # 0 /\ chunk' = 0
    /\ got' = n /\ cut' = cuts
    /\ out' = [out EXCEPT !.text = @ \o text, !.thoughts = @ \o thoughts,
                          !.finish = IF \E i \in Lines(n) : reply[i] = "length" THEN "length" ELSE @]
    /\ sunk' = sunk \o Of({"narrow", "wide", "thought"}, n, cuts)
    /\ UNCHANGED <<ask, reply, status, stopped, heard>>

EndOfStream ==
    /\ ask = "stream" /\ Open /\ got = Pieces * Len(reply)
    /\ out' = [out EXCEPT !.finish = IF @ = "" THEN "stop" ELSE @]
    /\ Ends("done")

-----------------------------------------------------------------------------
(* parse_completion: one call without a name, or with arguments that do    *)
(* not parse, and nothing of the reply is acted on.                        *)
Wrong == \E i \in 1 .. Len(reply.calls) : reply.calls[i] # "whole"
Native == [i \in 1 .. Len(reply.calls) |-> [from |-> i, args |-> [k \in {} |-> 0]]]

(* A call has an argument for each key, taken from a pair of its block.    *)
Given(keys, k) == {i \in 1 .. Len(keys) : keys[i] = k}
LastGiven(keys, k) == CHOOSE i \in Given(keys, k) : \A j \in Given(keys, k) : j <= i
Declared(keys) == ToSet(Required) \intersect ToSet(keys)
Missing(keys) == SelectSeq(Required, LAMBDA k : k \notin Declared(keys))
Spare(keys) == SelectSeq([i \in 1 .. Len(keys) |-> i], LAMBDA i : keys[i] = "file")
PositionIn(s, k) == CHOOSE i \in 1 .. Len(s) : s[i] = k

(* assemble_call: keys the tool declares as they are; what is still        *)
(* required from the values under other names, in order; or no call.       *)
Assembled(keys) ==
    {args \in {[k \in ToSet(Required) |->
                  IF k \in Declared(keys) THEN LastGiven(keys, k)
                  ELSE IF PositionIn(Missing(keys), k) <= Len(Spare(keys))
                  THEN Spare(keys)[PositionIn(Missing(keys), k)] ELSE 0]} :
        \A k \in ToSet(Required) : args[k] # 0}

(* compact_tool_call: what the tool does not declare is dropped.           *)
Compacted(keys) ==
    {args \in {[k \in Declared(keys) |-> LastGiven(keys, k)]} :
        \A k \in ToSet(Required) : k \in DOMAIN args}

(* The JSON form is taken as it is.                                        *)
Taken(keys) == {[k \in ToSet(keys) |-> LastGiven(keys, k)]}

ArgsOf(block) ==
    IF ~block.known THEN {}
    ELSE CASE block.form = "function" -> Assembled(block.keys)
           [] block.form = "json" -> Taken(block.keys)
           [] block.form = "compact" -> Compacted(block.keys)

(* harvest_tool_markup: the function form, then the JSON form, then the    *)
(* first of the compact form; a form is tried if those before gave none.   *)
CallsIn(text, places) ==
    LET good == SelectSeq(SetToSortSeq(places, <), LAMBDA i : ArgsOf(text[i]) # {}) IN
    [n \in 1 .. Len(good) |->
        [from |-> good[n], args |-> CHOOSE a \in ArgsOf(text[good[n]]) : TRUE]]
Places(text, form) == {i \in 1 .. Len(text) : text[i].form = form}
FirstOf(places) == {i \in places : \A j \in places : i <= j}

Harvest(text) ==
    LET function == CallsIn(text, Places(text, "function"))
        json == CallsIn(text, Places(text, "json"))
    IN
    IF function # <<>> THEN function
    ELSE IF json # <<>> THEN json
    ELSE CallsIn(text, FirstOf(Places(text, "compact")))

(* chat returns, and a text without calls is searched for some; a page     *)
(* without text is no page.                                                *)
NoText == ask = "page" /\ reply.text = <<>>

Body ==
    /\ ask # "stream" /\ Open
    /\ IF Wrong \/ NoText
       THEN Ends("failed") /\ UNCHANGED out
       ELSE /\ out' = [out EXCEPT !.text = reply.text,
                                  !.finish = "stop",
                                  !.calls = IF ask = "page" THEN <<>>
                                            ELSE IF reply.calls # <<>> THEN Native
                                            ELSE Harvest(reply.text)]
            /\ Ends("done")

Next ==
    \/ \E n \in 1 .. Pieces * MaxFrames : TakeChunk(n)
    \/ ReadChunk \/ EndOfStream \/ Body \/ Stop \/ NoticeStop \/ Fail

Spec == Init /\ [][Next]_completionVars

-----------------------------------------------------------------------------
(* The streamed answer is what the model wrote, wherever the network cut   *)
(* it, and what was shown is that answer and nothing more: reasoning apart *)
(* from it, in order, no character lost but one that a cut went through.   *)
AnswerIsWhole ==
    ask = "stream" =>
        LET written(kinds) ==
                SelectSeq([i \in 1 .. Len(reply) |-> Said(i, cut)],
                          LAMBDA s : reply[s.frame] \in kinds /\ Ended(got, s.frame))
        IN
        /\ out.text = written({"narrow", "wide"})
        /\ out.thoughts = written({"thought"})
        /\ sunk = written({"narrow", "wide", "thought"})
        /\ status = "done" =>
             out.finish = IF \E i \in 1 .. Len(reply) : reply[i] = "length" THEN "length" ELSE "stop"

(* Of what comes after the run was stopped nothing is shown, but for the   *)
(* rest of the one chunk that had been taken by then; and nothing is shown *)
(* of an answer, and no call handed on, once its request is over.          *)
SilentAfterStop ==
    [][/\ stopped' => \A i \in 1 .. Len(sunk') : Ended(heard', sunk'[i].frame)
       /\ status # "open" => sunk' = sunk /\ out' = out]_completionVars

(* The calls of a reply are handed on all or none.  Of calls written as    *)
(* text none is made twice, in another order, or without a value it        *)
(* requires (the JSON form is not asked for them), and no value is used    *)
(* for two arguments.                                                      *)
CallsAreWhole ==
    status = "done" /\ ask = "body" =>
        /\ reply.calls # <<>> =>
             Len(out.calls) = Len(reply.calls) /\ ToSet(reply.calls) = {"whole"}
        /\ reply.calls = <<>> =>
             /\ \A m, n \in 1 .. Len(out.calls) : m < n =>
                  /\ out.calls[m].from < out.calls[n].from
                  /\ reply.text[out.calls[m].from].form = reply.text[out.calls[n].from].form
             /\ \A n \in 1 .. Len(out.calls) :
                  LET call == out.calls[n] IN
                  /\ reply.text[call.from].known
                  /\ reply.text[call.from].form # "json" => DOMAIN call.args = ToSet(Required)
                  /\ IsInjective(call.args)
=============================================================================
