------------------------------ MODULE Passages ------------------------------
(***************************************************************************)
(* How an extracted document becomes passages, and passages get vectors:   *)
(* the text of a block is cut at spaces into overlapping pieces, a tag is  *)
(* kept as it is, a table is cut between rows under its header, and the    *)
(* passages are embedded a batch at a time by a server that may fail.      *)
(*                                                                         *)
(* A text is the sequence of its bytes: those of words, spaces, and the    *)
(* two of a wide character.                                                *)
(***************************************************************************)
EXTENDS Naturals, Sequences, FiniteSets, SequencesExt

CONSTANTS
    Documents,   \* what extraction returns: blocks, and the rows of a table
    Chunk,       \* CHUNK_CHARS
    Overlap,     \* CHUNK_OVERLAP
    MinChunk,    \* MIN_CHUNK_CHARS
    Batch        \* EMBED_BATCH

VARIABLES
    document,
    block,       \* the block being cut
    rest,        \* how much of its text is behind
    out,         \* the passages so far
    dropped,     \* the pieces that were too short
    row,         \* how many rows of the table are behind
    rows,        \* the rows of the passage being filled
    vectors,     \* of each passage so far: the passage whose vector it got, or 0
    noted,       \* embedding failed, and the source row says so
    work         \* what is done
passageVars == <<document, block, rest, out, dropped, row, rows, vectors, noted, work>>

Word(byte) == byte # " "
Trimmed(text, from, to) ==
    LET words == {i \in from + 1 .. to : Word(text[i])} IN
    IF words = {} THEN <<from, from>>
    ELSE <<(CHOOSE i \in words : \A j \in words : i <= j) - 1,
           CHOOSE i \in words : \A j \in words : j <= i>>
Text(b) ==
    LET raw == document.blocks[b].text
        span == Trimmed(raw, 0, Len(raw))
    IN SubSeq(raw, span[1] + 1, span[2])
CharsIn(text, span) == Cardinality({i \in span[1] + 1 .. span[2] : text[i] # "trail"})
Border(text, i) == i >= Len(text) \/ text[i + 1] # "trail"
Piece(b, span) == [block |-> b, span |-> span]
RowsOf(some) == [block |-> 0, span |-> some]

Start ==
    /\ block = 1 /\ rest = 0 /\ out = <<>> /\ dropped = {} /\ row = 0 /\ rows = <<>>
    /\ vectors = <<>> /\ noted = FALSE /\ work = "blocks"
Init == document \in Documents /\ Start

-----------------------------------------------------------------------------
(* split_point: in the last third of the chunk, after the space of the     *)
(* kind that is preferred (which is left open), else where the chunk ends. *)
(* The comment there (knowledge.rs:103-104) has a cut moved forward to the *)
(* next border of characters, and the loop under it would; but the window  *)
(* is sliced before (line 93), at the chunk's last byte, and inside a      *)
(* character that slice is a panic: the document's task ends with nothing  *)
(* stored.                                                                 *)
Floor == Chunk - Chunk \div 3
Splits ==
    LET text == Text(block)
        breaks == {i \in rest + Floor .. rest + Chunk : ~Word(text[i])}
    IN
    IF Len(text) - rest <= Chunk THEN {Len(text)}
    ELSE IF breaks # {} THEN breaks ELSE {rest + Chunk}
Panics == Len(Text(block)) - rest > Chunk /\ ~Border(Text(block), rest + Chunk)

(* The next piece begins the overlap back, at a border of characters.      *)
Back(cut) ==
    LET start == CHOOSE i \in {cut - Overlap, cut - Overlap + 1} :
                     /\ Border(Text(block), i)
                     /\ i = cut - Overlap \/ ~Border(Text(block), cut - Overlap)
    IN
    IF cut <= rest + Overlap \/ start >= cut THEN cut ELSE start

(* chunk_text: a short piece is dropped, unless nothing came before it.    *)
Kept(span) ==
    LET chars == CharsIn(Text(block), span) IN
    chars >= MinChunk \/ (out = <<>> /\ chars > 0)

NextBlock == block' = block + 1 /\ rest' = 0
Prose == block <= Len(document.blocks) /\ document.blocks[block].kind = "prose"

Cut(cut) ==
    LET text == Text(block)
        span == Trimmed(text, rest, cut)
        next == Back(cut)
    IN
    /\ work = "blocks" /\ Prose /\ ~Panics
    /\ cut \in Splits
    /\ IF Kept(span)
       THEN out' = Append(out, Piece(block, span)) /\ UNCHANGED dropped
       ELSE dropped' = dropped \union {Piece(block, span)} /\ UNCHANGED out
    /\ IF cut = Len(text) \/ Trimmed(text, next, Len(text)) = <<next, next>>
       THEN NextBlock
       ELSE rest' = next /\ UNCHANGED block
    /\ UNCHANGED <<document, row, rows, vectors, noted, work>>

Panic ==
    /\ work = "blocks" /\ Prose /\ Panics
    /\ work' = "panicked"
    /\ UNCHANGED <<document, block, rest, out, dropped, row, rows, vectors, noted>>

Skip ==
    /\ work = "blocks" /\ Prose /\ Text(block) = <<>>
    /\ NextBlock
    /\ UNCHANGED <<document, out, dropped, row, rows, vectors, noted, work>>

(* passages_for: a tag is a passage, however short.                        *)
Tag ==
    /\ work = "blocks" /\ block <= Len(document.blocks)
    /\ document.blocks[block].kind = "tag"
    /\ out' = Append(out, Piece(block, <<0, Len(Text(block))>>))
    /\ NextBlock
    /\ UNCHANGED <<document, dropped, row, rows, vectors, noted, work>>

BlocksDone ==
    /\ work = "blocks" /\ block > Len(document.blocks)
    /\ work' = "table"
    /\ UNCHANGED <<document, block, rest, out, dropped, row, rows, vectors, noted>>

(* chunk_table: rows are taken until the next does not fit, the header is  *)
(* repeated in every passage.                                              *)
Size(some) == FoldLeft(LAMBDA sum, r : sum + document.rows[r], 0, some)
Fits == rows = <<>> \/ Size(rows) + document.rows[row + 1] + document.header <= Chunk
Flushed == IF rows = <<>> THEN out ELSE Append(out, RowsOf(rows))

Row ==
    /\ work = "table" /\ row < Len(document.rows)
    /\ row' = row + 1
    /\ rows' = IF Fits THEN Append(rows, row + 1) ELSE <<row + 1>>
    /\ out' = IF Fits THEN out ELSE Flushed
    /\ UNCHANGED <<document, block, rest, dropped, vectors, noted, work>>

TableDone ==
    /\ work = "table" /\ row = Len(document.rows)
    /\ out' = Flushed /\ rows' = <<>>
    /\ work' = "embed"
    /\ UNCHANGED <<document, block, rest, dropped, row, vectors, noted>>

-----------------------------------------------------------------------------
(* embed_passages and embed: the vectors of a batch come numbered and in   *)
(* any order, or in order and not numbered; what is refused, too few or    *)
(* empty leaves the batch and all later ones without.                      *)
Orders(n) == {p \in [1 .. n -> 1 .. n] : IsInjective(p)}
Unnumbered(n) == [i \in 1 .. n |-> [index |-> 0, of |-> i]]
Answers(n) == {Unnumbered(n)} \union {[i \in 1 .. n |-> [index |-> p[i], of |-> p[i]]] : p \in Orders(n)}

AsTheyCame(answer) == [i \in 1 .. Len(answer) |-> answer[i].of]
ByIndex(answer) ==
    LET order == SetToSortSeq(1 .. Len(answer),
            LAMBDA i, j : answer[i].index < answer[j].index
                              \/ (answer[i].index = answer[j].index /\ i < j))
    IN [i \in 1 .. Len(answer) |-> answer[order[i]].of]

Without(n) == [i \in 1 .. n |-> 0]
Embed ==
    LET behind == Len(vectors)
        n == IF Len(out) - behind < Batch THEN Len(out) - behind ELSE Batch
    IN
    /\ work = "embed" /\ behind < Len(out)
    /\ \/ /\ ~noted
          /\ \E answer \in Answers(n) :
               vectors' = vectors \o [i \in 1 .. n |-> behind + ByIndex(answer)[i]]
          /\ UNCHANGED noted
       \/ vectors' = vectors \o Without(n) /\ noted' = TRUE
    /\ UNCHANGED <<document, block, rest, out, dropped, row, rows, work>>

Next ==
    \/ \E b \in 1 .. Len(document.blocks) :
           b = block /\ \E cut \in 1 .. Len(Text(b)) : Cut(cut)
    \/ Panic \/ Skip \/ Tag \/ BlocksDone \/ Row \/ TableDone \/ Embed

Spec == Init /\ [][Next]_passageVars

-----------------------------------------------------------------------------
Behind == IF work \in {"blocks", "panicked"} THEN block - 1 ELSE Len(document.blocks)
Words(text) ==
    {w \in (0 .. Len(text)) \X (0 .. Len(text)) :
        /\ w[1] < w[2] /\ \A i \in w[1] + 1 .. w[2] : Word(text[i])
        /\ w[1] = 0 \/ ~Word(text[w[1]])
        /\ w[2] = Len(text) \/ ~Word(text[w[2] + 1])}
Holds(passage, b, w) ==
    passage.block = b /\ passage.span[1] <= w[1] /\ w[2] <= passage.span[2]
Told(b) == CharsIn(Text(b), <<0, Len(Text(b))>>)

(* Of a document whose cutting does not panic (Panics above, against the   *)
(* comment at knowledge.rs:103-104; the blocks cut by then count as well): *)
(* every word of a block that is long enough to be indexed stands whole in *)
(* a piece, wherever the pieces were cut, if it is no longer than what a   *)
(* cut may give up of a chunk; the only pieces without a passage are those *)
(* that say too little; a tag is one passage; no passage exceeds a chunk.  *)
WordsAreWhole ==
    \A b \in 1 .. Behind :
        IF document.blocks[b].kind = "tag"
        THEN \E i \in 1 .. Len(out) : out[i] = Piece(b, <<0, Len(Text(b))>>)
        ELSE Told(b) >= MinChunk =>
            /\ \A w \in Words(Text(b)) : w[2] - w[1] <= Chunk \div 3 =>
                   \/ \E i \in 1 .. Len(out) : Holds(out[i], b, w)
                   \/ \E piece \in dropped : Holds(piece, b, w)
            /\ \A piece \in dropped : piece.block = b =>
                   out # <<>> /\ CharsIn(Text(b), piece.span) < MinChunk
            /\ \A i \in 1 .. Len(out) : out[i].block = b =>
                   out[i].span[2] - out[i].span[1] <= Chunk

(* Every row of the table is in one passage, in order, and only a row too  *)
(* long for a chunk exceeds it.                                            *)
RowsAreWhole ==
    LET tables == SelectSeq(out, LAMBDA p : p.block = 0) IN
    work = "embed" =>
        /\ FlattenSeq([i \in 1 .. Len(tables) |-> tables[i].span])
             = [i \in 1 .. Len(document.rows) |-> i]
        /\ \A i \in 1 .. Len(tables) :
               Len(tables[i].span) = 1 \/ Size(tables[i].span) + document.header <= Chunk

(* A passage has its own vector or none, and none is missing unnoted.      *)
VectorsFit ==
    /\ \A i \in 1 .. Len(vectors) : vectors[i] \in {0, i}
    /\ ~noted => \A i \in 1 .. Len(vectors) : vectors[i] = i

(* Cutting goes on: no step leaves the text where it was.                  *)
CuttingAdvances ==
    [][work = "blocks" /\ work' = "blocks" /\ block' = block => rest' > rest]_passageVars
=============================================================================
