---------------------------- MODULE MCWorkbench ----------------------------
(***************************************************************************)
(* What a run works with and shows: the answers of a model, the passages   *)
(* of the documents and the searches among them, the paths its tools       *)
(* reach, the files it generates, the folders it serves, and the plan it   *)
(* publishes.  As in MCRecords, the parts share nothing that is stated     *)
(* here, and in a behaviour one of them moves.                             *)
(***************************************************************************)
EXTENDS Naturals, FiniteSets, Sequences, SequencesExt

CONSTANTS
    Targets, MaxArtifacts, MaxMishaps,                              \* Artifacts
    Steps, Statuses, MaxSteps, MaxPlans,                            \* Plans
    Folders, Spaces, Servers, Boot, MaxBinds, MaxTroubles,          \* Previews
    MaxFrames, MaxBlocks,                                           \* Completion
    Longest, Chunk, Overlap, MinChunk, Batch,                       \* Passages
    Limit                                                           \* Retrieval

VARIABLES
    part,                                                           \* which one moves
    onDisk, beside, damaged, artifacts, writer, checker, made,      \* Artifacts
    mishaps, touched, gap, unlisted,                                \* Artifacts
    tree, seat, rules, outputs, call, landed,                       \* ToolCalls
    plan, published,                                                \* Plans
    listener, up, bound, rows, shown, present, task, restoring,     \* Previews
    core, promised, exited, tangled, troubles,                      \* Previews
    ask, reply, got, cut, answer, sunk, status, chunk, stopped,     \* Completion
    heard,                                                          \* Completion
    document, block, rest, pieces, dropped, row, filling,           \* Passages
    vectors, noted, work,                                           \* Passages
    indexed, vector, hybrid, search                                 \* Retrieval

Made == INSTANCE Artifacts WITH Outputs <- Targets, rows <- artifacts

(* A folder w with one child of its own name and one that may be a link    *)
(* or a file, and a folder x outside.                                      *)
Tools == INSTANCE ToolCalls
    WITH Spots <- {<<"w", "w">>, <<"w", "a">>, <<"w", "w", "a">>, <<"w", "a", "a">>, <<"x", "a">>},
         Rels <- {<<"a">>, <<"w">>, <<"w", "a">>, <<"a", "a">>, <<"..", "a">>},
         Attached <- {<<"x", "a">>}, Approves <- TRUE,
         Patterns <- {<<"w", "w">>}, Outputs <- {<<"x">>, <<"w", "w">>}

Planned == INSTANCE Plans

Served == INSTANCE Previews

Answered == INSTANCE Completion WITH out <- answer

(* Every text of words and spaces up to a length, shorter ones with wide   *)
(* characters among them; and two blocks, with a tag or not, before a      *)
(* table.                                                                  *)
Writing(most, Chars) == UNION {[1 .. n -> Chars] : n \in 0 .. most}
Documents ==
    [blocks : [{1} -> [kind : {"prose"},
                       text : Writing(Longest, {"x", " "})
                          \union {FlattenSeq(s) : s \in
                                     Writing(Longest - 4, {<<"x">>, <<" ">>, <<"lead", "trail">>})}]],
     rows : {<<>>}, header : {0}]
    \union
    [blocks : [{1, 2} -> [kind : {"prose", "tag"}, text : {<<"x">>, <<"x", "x">>, <<"x", " ", "x">>}]],
     rows : Writing(3, 2 .. 4), header : {0, 2}]

Cutting == INSTANCE Passages WITH out <- pieces, rows <- filling

(* An identifier written whole, its parts the other way round, and words.  *)
Searching == INSTANCE Retrieval
    WITH Passages <- {"a", "b", "c"},
         Questions <- {<<"psv", "-", "7">>, <<"the", " ", "psv">>, <<"psv", " ", "-", "-">>},
         TextOf <- [c \in {"a", "b", "c"} |->
             CASE c = "a" -> <<"psv", "-", "7">>
               [] c = "b" -> <<"7", " ", "psv", "-", "psv">>
               [] c = "c" -> <<"psv", " ", "the">>]

madeVars == <<onDisk, beside, damaged, artifacts, writer, checker, made, mishaps, touched,
              gap, unlisted>>
toolVars == <<tree, seat, rules, outputs, call, landed>>
planVars == <<plan, published>>
servedVars == <<listener, up, bound, rows, shown, present, task, restoring, core,
                promised, exited, tangled, troubles>>
answerVars == <<ask, reply, got, cut, answer, sunk, status, chunk, stopped, heard>>
cutVars == <<document, block, rest, pieces, dropped, row, filling, vectors, noted, work>>
searchVars == <<indexed, vector, hybrid, search>>
vars == <<part, madeVars, toolVars, planVars, servedVars, answerVars, cutVars, searchVars>>

Parts == {"made", "called", "planned", "served", "answered", "cut", "searched"}

Init ==
    /\ part \in Parts
    /\ part # "answered" => ask = "stream" /\ reply = <<>>
    /\ part # "cut" => document = [blocks |-> <<>>, rows |-> <<>>, header |-> 0]
    /\ part # "searched" => indexed = {} /\ hybrid = FALSE
    /\ part # "called" => seat = [mode |-> "Plan", reads |-> TRUE] /\ outputs = <<"x">>
    /\ Made!Init /\ Tools!Init /\ Planned!Init /\ Served!Init /\ Answered!Init
    /\ part = "cut" => document \in Documents
    /\ Cutting!Start /\ Searching!Init
    /\ ~hybrid => \A c \in {"a", "b", "c"} : vector[c] = "none"

(* A folder whose serving crossed another serving of it, or a stop, is not *)
(* followed further, nor a search that is over.                            *)
Next ==
    /\ UNCHANGED part
    /\ \/ part = "made" /\ Made!Next
       \/ part # "made" /\ UNCHANGED madeVars
    /\ \/ part = "called" /\ Tools!Next
       \/ part # "called" /\ UNCHANGED toolVars
    /\ \/ part = "planned" /\ Planned!Next
       \/ part # "planned" /\ UNCHANGED planVars
    /\ \/ part = "served" /\ tangled = {} /\ Served!Next
       \/ part # "served" /\ UNCHANGED servedVars
    /\ \/ part = "answered" /\ Answered!Next
       \/ part # "answered" /\ UNCHANGED answerVars
    /\ \/ part = "cut" /\ Cutting!Next
       \/ part # "cut" /\ UNCHANGED cutVars
    /\ \/ part = "searched" /\ search.at \notin {"found", "none", "error"} /\ Searching!Next
       \/ part # "searched" /\ UNCHANGED searchVars

Spec == Init /\ [][Next]_vars

(* Folders, workspaces and the runs' servers are interchangeable in        *)
(* Previews, which alone uses them; all that is checked is safety.         *)
Exchange ==
    Permutations(Folders) \union Permutations(Spaces) \union Permutations(Servers \ {Boot})

-----------------------------------------------------------------------------
(* The type invariants of all.                                             *)
TypeOK ==
    /\ part = "made" => Made!TypeOK
    /\ part = "called" => Tools!TypeOK
    /\ part = "served" => Served!TypeOK

(* What is shown is there: a generated file that is listed is whole, and   *)
(* parses if it says so, and what is not is lost in the one window of the  *)
(* swap that the code leaves open; a name that is asked for stays in the   *)
(* folder and means one file; a folder that was served is shown, answers,  *)
(* and comes back under its link after a crash, until somebody stops it or *)
(* the core is closed; an answer and its calls are what the model wrote; a *)
(* document's words and rows stand whole in its passages, each with its    *)
(* own vector; and a search finds the best of what its halves know.  What  *)
(* a name means depends on the tree alone, so one state of each tree is    *)
(* enough.                                                                 *)
ShownIsThere ==
    /\ Made!ListedFilesAreWhole
    /\ part = "called" /\ call = Tools!Idle /\ rules = {} /\ landed = Tools!None =>
           Tools!StaysInTheFolder /\ Tools!NamesOneFile
    /\ part = "served" => Served!ShownAnswers /\ Served!AnsweringIsShown /\ Served!ComesBack
    /\ part = "answered" => Answered!AnswerIsWhole /\ Answered!CallsAreWhole
    /\ part = "cut" => Cutting!WordsAreWhole /\ Cutting!RowsAreWhole /\ Cutting!VectorsFit
    /\ part = "searched" => Searching!NothingMeansNothing /\ Searching!BestFirst

(* A tool acts only where the rules, the mode and the folder let it; a     *)
(* revised plan keeps the rows of its steps; of a request nothing that     *)
(* came after its stop is shown; and the cutting of a text goes on.        *)
ActsAsAsked ==
    /\ Tools!WritesWhereItMay /\ Planned!RowsKeepTheirSteps
    /\ Answered!SilentAfterStop /\ Cutting!CuttingAdvances
=============================================================================
