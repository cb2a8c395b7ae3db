----------------------------- MODULE Retrieval -----------------------------
(***************************************************************************)
(* A search of the knowledge base: the question becomes phrases for the    *)
(* full-text half, the stored vectors are compared with that of the        *)
(* question, and both rankings become one.  Each half and the texts of the *)
(* winners are read from the store at a time of their own, the question is *)
(* embedded between them, and sources come and go meanwhile.               *)
(***************************************************************************)
EXTENDS Integers, Sequences, FiniteSets, SequencesExt

CONSTANTS
    Questions,  \* questions, as sequences of what they are written with
    Passages,   \* what can be in the index
    TextOf,     \* the text of each, written the same way
    Limit       \* how many are wanted

VARIABLES
    indexed,    \* passages in the index
    vector,     \* of each: its vector is as wide as the question's, of another width, or not there
    hybrid,     \* settings.hybrid_retrieval
    search      \* the search and what it has read; steady is history: what was
                \* in the index all the time
retrievalVars == <<indexed, vector, hybrid, search>>

(* What is written: words, digits, a letter, a noise word, a joiner of     *)
(* identifiers, and space for everything else.                             *)
Joiner == "-"
Blank == " "
Digits == {"7"}
Noise == {"the"}
Width(item) == IF item \in {"7", "a", "-"} THEN 1 ELSE 2

Parts(s, separators) ==
    {<<i, j>> \in (1 .. Len(s)) \X (1 .. Len(s)) :
        /\ i <= j /\ \A k \in i .. j : s[k] \notin separators
        /\ i = 1 \/ s[i - 1] \in separators
        /\ j = Len(s) \/ s[j + 1] \in separators}
Slices(s, parts) ==
    LET sorted == SetToSortSeq(parts, LAMBDA p, q : p[1] < q[1])
    IN [n \in 1 .. Len(sorted) |-> SubSeq(s, sorted[n][1], sorted[n][2])]

(* The tokens of a text, as the index and a phrase of a query have them.   *)
Tokens(s) == Slices(s, Parts(s, {Joiner, Blank}))

(* fts_query: what is written together is one phrase; single letters and   *)
(* noise words are dropped.  Joiners that stand alone become a term of     *)
(* blanks, which the query language does not parse.                        *)
Together(s) == ToSet(Slices(s, Parts(s, {Blank})))
Long(s) == FoldLeft(LAMBDA sum, item : sum + Width(item), 0, s) >= 2
Worth(s) == Long(s) \/ \E i \in 1 .. Len(s) : s[i] \in Digits
Bare(s) == \A i \in 1 .. Len(s) : s[i] = Joiner
Terms(question) ==
    {Tokens(s) : s \in {p \in Together(question) : Worth(p) /\ p \notin {<<w>> : w \in Noise}}}
Garbled(question) == \E s \in Together(question) : Worth(s) /\ Bare(s)

(* fts_search: a query that does not parse finds nothing.                  *)
Phrase(t, s) ==
    LET text == Tokens(s) IN
    \E k \in 0 .. Len(text) - Len(t) : t = SubSeq(text, k + 1, k + Len(t))
Lexically(question, some) ==
    IF Garbled(question) THEN {}
    ELSE {c \in some : \E t \in Terms(question) : Phrase(t, TextOf[c])}

Idle == [at |-> "idle"]
Rankings(some) == {s \in [1 .. Cardinality(some) -> some] : ToSet(s) = some}

Init ==
    /\ indexed \in SUBSET Passages
    /\ vector \in [Passages -> {"same", "other", "none"}]
    /\ hybrid \in BOOLEAN
    /\ search = Idle

-----------------------------------------------------------------------------
(* The full-text half.  An order that bm25 gives is some order.            *)
Ask(question) ==
    /\ search = Idle
    /\ \E words \in Rankings(Lexically(question, indexed)) :
         search' = [at |-> IF hybrid THEN "vectors" ELSE "fuse", question |-> question,
                    words |-> words, there |-> {}, sense |-> <<>>, best |-> <<>>,
                    failed |-> FALSE, steady |-> indexed]
    /\ UNCHANGED <<indexed, vector, hybrid>>

(* The vectors as they are now; none, and the question is not embedded.    *)
Vectors ==
    /\ search.at = "vectors"
    /\ search' = [search EXCEPT
           !.at = IF \A c \in indexed : vector[c] = "none" THEN "fuse" ELSE "embed",
           !.there = indexed]
    /\ UNCHANGED <<indexed, vector, hybrid>>

(* What the question is compared with is what was read; or this half fails.*)
EmbedQuestion ==
    /\ search.at = "embed"
    /\ \/ \E sense \in Rankings({c \in search.there : vector[c] = "same"}) :
              search' = [search EXCEPT !.at = "fuse", !.sense = sense]
       \/ search' = [search EXCEPT !.at = "fuse", !.failed = TRUE]
    /\ UNCHANGED <<indexed, vector, hybrid>>

(* rrf, over the two ranks: exact fractions over a common denominator.     *)
K == 60
Rank(s, c) == CHOOSE i \in 1 .. Len(s) : s[i] = c
Over(s, c, other) == IF c \in ToSet(s) THEN other ELSE 0
Down(s, c) == IF c \in ToSet(s) THEN K + Rank(s, c) ELSE 1
Lead(words, sense, c, d) ==
    LET top(e) == Over(words, e, Down(sense, e)) + Over(sense, e, Down(words, e))
        bottom(e) == Down(words, e) * Down(sense, e)
    IN top(c) * bottom(d) - top(d) * bottom(c)
Fused(words, sense) == ToSet(words) \union ToSet(sense)

(* Ties are broken by bm25, and then by the id.                            *)
Lower(words, c, d) ==
    /\ c \in ToSet(words)
    /\ d \in ToSet(words) => Rank(words, c) < Rank(words, d)
Before(words, sense, ids, c, d) ==
    \/ Lead(words, sense, c, d) > 0
    \/ Lead(words, sense, c, d) = 0 /\ Lower(words, c, d)
    \/ /\ Lead(words, sense, c, d) = 0
       /\ ~Lower(words, c, d) /\ ~Lower(words, d, c) /\ Rank(ids, c) < Rank(ids, d)

Ids == CHOOSE ids \in Rankings(Passages) : TRUE
Best(words, sense) ==
    LET all == SetToSortSeq(Fused(words, sense),
                  LAMBDA c, d : Before(words, sense, Ids, c, d))
    IN SubSeq(all, 1, IF Len(all) < Limit THEN Len(all) ELSE Limit)

(* The fused ranking; nothing at all is an error if the other half could   *)
(* not run.                                                                *)
Fuse ==
    /\ search.at = "fuse"
    /\ LET best == Best(search.words, search.sense) IN
       search' = [search EXCEPT
           !.at = IF best # <<>> THEN "texts" ELSE IF search.failed THEN "error" ELSE "none",
           !.best = best]
    /\ UNCHANGED <<indexed, vector, hybrid>>

(* The texts that the full-text half did not read: a passage that is gone  *)
(* by now is left out.                                                     *)
Texts ==
    /\ search.at = "texts"
    /\ search' = [search EXCEPT
           !.at = "found",
           !.best = SelectSeq(@, LAMBDA c : c \in ToSet(search.words) \union indexed)]
    /\ UNCHANGED <<indexed, vector, hybrid>>

(* A source is removed or indexed, under ids of its own.                   *)
Index(c) ==
    /\ indexed' = IF c \in indexed THEN indexed \ {c} ELSE indexed \union {c}
    /\ search' = IF search = Idle THEN Idle ELSE [search EXCEPT !.steady = @ \ {c}]
    /\ UNCHANGED <<vector, hybrid>>

Next ==
    \/ \E question \in Questions : Ask(question)
    \/ Vectors \/ EmbedQuestion \/ Fuse \/ Texts
    \/ \E c \in Passages : Index(c)

Spec == Init /\ [][Next]_retrievalVars

-----------------------------------------------------------------------------
Names(s, text) ==
    \E k \in 0 .. Len(Tokens(text)) : \E n \in 1 .. Len(Tokens(text)) - k :
        SubSeq(Tokens(text), k + 1, k + n) = Tokens(s)
Tells(question, c) ==
    \E s \in Together(question) : Worth(s) /\ s # <<"the">> /\ Names(s, TextOf[c])

(* A search that comes back with nothing has asked both halves: no passage *)
(* that was there all the time has a name of the question in it, and none  *)
(* had a vector the question could be compared with; unless the question   *)
(* has joiners that stand alone, and the full-text half finds nothing.     *)
NothingMeansNothing ==
    search.at = "none" =>
        \A c \in search.steady :
            /\ Garbled(search.question) \/ ~Tells(search.question, c)
            /\ hybrid => vector[c] # "same"

(* Passages found by words have a name of the question in them as it was   *)
(* written; of two found the one that both halves prefer comes first; and  *)
(* none that both prefer was cut off.                                      *)
Prefers(s, c, d) == c \in ToSet(s) /\ (d \in ToSet(s) => Rank(s, c) < Rank(s, d))
BestFirst ==
    search.at \in {"texts", "found"} =>
        /\ \A c \in ToSet(search.words) : Tells(search.question, c)
        /\ Len(search.best) <= Limit /\ IsInjective(search.best)
        /\ \A i \in 1 .. Len(search.best) :
             \A d \in Fused(search.words, search.sense) \ {search.best[j] : j \in 1 .. i - 1} :
                 ~(/\ search.at = "texts" /\ d # search.best[i]
                   /\ Prefers(search.words, d, search.best[i])
                   /\ Prefers(search.sense, d, search.best[i]))
=============================================================================
