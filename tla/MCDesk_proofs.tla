---------------------------- MODULE MCDesk_proofs ----------------------------
(***************************************************************************)
(* Proofs about the operator's desk: models that are listed and routed,    *)
(* conversations with what is remembered of them, and the lock on a store. *)
(* One part moves in a behaviour, and the parts share no variable: each    *)
(* has an inductive invariant of its own, and what is shown of its steps   *)
(* holds of the whole.                                                     *)
(***************************************************************************)
EXTENDS MCDesk, Sequences, FiniteSetTheorems, TLAPS
-----------------------------------------------------------------------------
(* Models that are listed, and the windows they are loaded in.             *)

(* The models that are listed.                                             *)
Two == {chat, embed}

(* Who changes the catalogue or starts the router.                         *)
Clients == Editors \union Starters

(* A catalogue whose entries lie under these directories.                  *)
Catalogues(dirs) ==
    [entries : [Two -> [shape : Shapes, limit : 0 .. MaxWindow, under : dirs]],
     routes : [{"reason"} -> [model : Two, fallback : Two \union {"none"}]]]

(* A window for each model; 0 is none.                                     *)
Windows == [Two -> 0 .. MaxWindow]

(* Steps of a client, each with what it carries.                           *)
StepTyped(step) ==
    \/ step.at \in {"idle", "preset", "spawn"}
    \/ step.at = "edit" /\ step.dir \in Directories
    \/ /\ step.at \in {"save", "collect"}
       /\ step = [at |-> step.at, dir |-> step.dir, read |-> step.read]
       /\ step.dir \in Directories /\ step.read \in Catalogues(Directories)
    \/ /\ step.at = "swap" /\ step.windows \in Windows
       /\ step.dir \in Directories /\ step.read \in Catalogues(Directories)

(* What the router was started with.                                       *)
Processes == [up : BOOLEAN, preset : {launched.preset}, runs : Windows]

(* Typed, for every number of editors and starters.                        *)
ListedTyped ==
    /\ catalogue \in Catalogues(Directories)
    /\ stored \in Catalogues(Directories \union {"token"})
    /\ root \in Directories /\ window \in Windows
    /\ launched \in Processes
    /\ shown \subseteq Two /\ looking \in Two \union {"none"}
    /\ crossed \in BOOLEAN
    /\ client = [c \in Clients |-> client[c]]
    /\ \A c \in Clients : StepTyped(client[c])

(* A client that moves the root of the models.                             *)
Moves(c) == client[c].at \in {"save", "collect", "swap"}

(* One moves at a time, and what it read of the file is what the file says *)
(* until it is done.                                                       *)
OneMoves ==
    /\ \A c, d \in Clients : Moves(c) /\ Moves(d) => c = d
    /\ \A c \in Clients : Moves(c) => client[c].read = Listed!Expanded(stored, client[c].dir)
    /\ \A c \in Clients : client[c].at \in {"collect", "swap"} => root = client[c].dir

(* The file read back is the catalogue, or a move is about to set that     *)
(* right.                                                                  *)
FileTells ==
    \/ catalogue = Listed!Expanded(stored, root)
    \/ \E c \in Clients : client[c].at \in {"collect", "swap"}

(* The window that is shown of a model is the one it runs in; a process    *)
(* that is down runs nothing.                                              *)
WindowsTell ==
    /\ \A m \in shown : launched.runs[m] # 0 /\ window[m] = launched.runs[m]
    /\ looking # "none" => /\ launched.runs[looking] # 0
                           /\ window[looking] = launched.runs[looking]
                           /\ looking \notin shown
    /\ ~launched.up => \A m \in Two : launched.runs[m] = 0

(* What holds of the catalogue in every state that no crossing edit        *)
(* reached.                                                                *)
ListedInv == ListedTyped /\ (~crossed => OneMoves /\ FileTells /\ WindowsTell)

(* What the lemmas need of the constants.                                  *)
LEMMA Paths ==
    /\ "A" \in Directories /\ "token" \notin Directories
    /\ MaxWindow \in Nat /\ MaxWindow >= 1 /\ chat # embed /\ chat # "none" /\ embed # "none"
BY DeskAssumption DEF DeskAssumption

(* The models of the instance are equally large.                           *)
LEMMA ShapesHold == \A shape \in Shapes : shape.size = 1
BY DEF Shapes

(* A file that is read becomes a catalogue of directories that are there.  *)
LEMMA ExpandedTyped ==
    ASSUME NEW c \in Catalogues(Directories \union {"token"}), NEW dir \in Directories
    PROVE  Listed!Expanded(c, dir) \in Catalogues(Directories)
<1> DEFINE row(m) == IF c.entries[m].under = "token"
                     THEN [c.entries[m] EXCEPT !.under = dir] ELSE c.entries[m]
<1>1. \A m \in Two : row(m) \in [shape : Shapes, limit : 0 .. MaxWindow, under : Directories]
  <2>1. \A m \in Two : c.entries[m] \in [shape : Shapes, limit : 0 .. MaxWindow, under : Directories \union {"token"}]
    BY DEF Catalogues
  <2>2. QED
    BY <2>1
<1>2. Listed!Expanded(c, dir) = [c EXCEPT !.entries = [m \in Two |-> row(m)]]
  BY DEF Listed!Expanded, Two
<1> HIDE DEF row
<1>3. [m \in Two |-> row(m)] \in [Two -> [shape : Shapes, limit : 0 .. MaxWindow, under : Directories]]
  BY <1>1
<1>4. QED
  BY <1>2, <1>3 DEF Catalogues

(* What is written has the token in place of the root.                     *)
LEMMA PortableTyped ==
    ASSUME NEW c \in Catalogues(Directories), NEW dir \in Directories
    PROVE  Listed!Portable(c, dir) \in Catalogues(Directories \union {"token"})
<1> DEFINE row(m) == IF c.entries[m].under = dir
                     THEN [c.entries[m] EXCEPT !.under = "token"] ELSE c.entries[m]
<1>1. \A m \in Two : row(m) \in [shape : Shapes, limit : 0 .. MaxWindow, under : Directories \union {"token"}]
  <2>1. \A m \in Two : c.entries[m] \in [shape : Shapes, limit : 0 .. MaxWindow, under : Directories]
    BY DEF Catalogues
  <2>2. QED
    BY <2>1
<1>2. Listed!Portable(c, dir) = [c EXCEPT !.entries = [m \in Two |-> row(m)]]
  BY DEF Listed!Portable, Two
<1> HIDE DEF row
<1>3. [m \in Two |-> row(m)] \in [Two -> [shape : Shapes, limit : 0 .. MaxWindow, under : Directories \union {"token"}]]
  BY <1>1
<1>4. QED
  BY <1>2, <1>3 DEF Catalogues

(* What is stored for a directory and read back for it is what it was.     *)
LEMMA ReadsBack ==
    ASSUME NEW c \in Catalogues(Directories), NEW dir \in Directories
    PROVE  c = Listed!Expanded(Listed!Portable(c, dir), dir)
<1> DEFINE there(m) == IF c.entries[m].under = dir
                       THEN [c.entries[m] EXCEPT !.under = "token"] ELSE c.entries[m]
           p == Listed!Portable(c, dir)
           back(m) == IF p.entries[m].under = "token"
                      THEN [p.entries[m] EXCEPT !.under = dir] ELSE p.entries[m]
<1>1. p = [c EXCEPT !.entries = [m \in Two |-> there(m)]]
  BY DEF Listed!Portable, Two
<1>2. p = [entries |-> [m \in Two |-> there(m)], routes |-> c.routes]
  <2> HIDE DEF there, p
  <2>1. QED
    BY <1>1 DEF Catalogues
<1>3. Listed!Expanded(p, dir) = [p EXCEPT !.entries = [m \in Two |-> back(m)]]
  BY DEF Listed!Expanded, Two
<1>4. Listed!Expanded(p, dir) = [entries |-> [m \in Two |-> back(m)], routes |-> c.routes]
  <2> HIDE DEF there, p, back
  <2>1. QED
    BY <1>2, <1>3
<1>5. \A m \in Two : back(m) = c.entries[m]
  <2> SUFFICES ASSUME NEW m \in Two PROVE back(m) = c.entries[m]
    OBVIOUS
  <2>1. p.entries[m] = there(m)
    <3> HIDE DEF there, p
    <3>1. QED
      BY <1>2
  <2>2. c.entries[m] \in [shape : Shapes, limit : 0 .. MaxWindow, under : Directories]
    BY DEF Catalogues
  <2>3. back(m) = IF there(m).under = "token" THEN [there(m) EXCEPT !.under = dir] ELSE there(m)
    BY <2>1
  <2> HIDE DEF back, p
  <2>4. CASE c.entries[m].under = dir
    <3>1. there(m) = [c.entries[m] EXCEPT !.under = "token"]
      BY <2>4
    <3>2. back(m) = [[c.entries[m] EXCEPT !.under = "token"] EXCEPT !.under = dir]
      BY <2>2, <2>3, <3>1
    <3>3. QED
      BY <2>2, <2>4, <3>2
  <2>5. CASE c.entries[m].under # dir
    BY <2>2, <2>3, <2>5, Paths
  <2>6. QED
    BY <2>4, <2>5
<1>6. c = [entries |-> c.entries, routes |-> c.routes] /\ c.entries = [m \in Two |-> c.entries[m]]
  BY DEF Catalogues
<1>7. QED
  <2> HIDE DEF back, p
  <2>1. [m \in Two |-> back(m)] = c.entries
    BY <1>5, <1>6
  <2>2. QED
    BY <1>4, <1>6, <2>1 DEF p

(* At first the file says what is listed.                                  *)
LEMMA ListedBegins == Listed!Init => ListedInv
<1> SUFFICES ASSUME Listed!Init PROVE ListedInv
  OBVIOUS
<1>1. root \in Directories
  BY Paths DEF Listed!Init
<1>2. catalogue \in Catalogues(Directories)
  <2>1. (CHOOSE shape \in Shapes : shape.on) \in Shapes
    BY DEF Shapes
  <2>2. (CHOOSE m \in Two : TRUE) \in Two
    BY DEF Two
  <2>3. QED
    BY <1>1, <2>1, <2>2, Paths DEF Listed!Init, Catalogues, Listed!None, Two
<1>3. stored = Listed!Portable(catalogue, root)
  BY DEF Listed!Init
<1>4. catalogue = Listed!Expanded(stored, root) /\ stored \in Catalogues(Directories \union {"token"})
  BY <1>1, <1>2, <1>3, ReadsBack, PortableTyped
<1>5. launched = Listed!Down /\ window = Listed!NoWindows /\ shown = {} /\ looking = "none"
      /\ crossed = FALSE /\ client = [c \in Clients |-> [at |-> "idle"]]
  BY DEF Listed!Init, Listed!None, Listed!Clients, Clients, Listed!Idle
<1>6. ListedTyped
  <2>1. Listed!NoWindows \in Windows
    BY Paths DEF Listed!NoWindows, Windows, Two
  <2>2. launched \in Processes
    BY <1>5, <2>1 DEF Listed!Down, Processes
  <2>3. client = [c \in Clients |-> client[c]] /\ \A c \in Clients : client[c].at = "idle"
    BY <1>5
  <2>4. \A c \in Clients : StepTyped(client[c])
    BY <2>3 DEF StepTyped
  <2>5. QED
    BY <1>1, <1>2, <1>4, <1>5, <2>1, <2>2, <2>3, <2>4 DEF ListedTyped
<1>7. OneMoves /\ FileTells /\ WindowsTell
  BY <1>4, <1>5 DEF OneMoves, FileTells, WindowsTell, Moves, Listed!Down, Listed!NoWindows, Two
<1>8. QED
  BY <1>6, <1>7 DEF ListedInv

(* A client's step is its own.                                             *)
LEMMA StepTaken ==
    ASSUME ListedTyped, NEW c \in Clients, NEW step, Listed!Goto(c, step), StepTyped(step)
    PROVE  /\ client' = [d \in Clients |-> client'[d]]
           /\ \A d \in Clients : StepTyped(client'[d])
           /\ client'[c] = step /\ \A d \in Clients \ {c} : client'[d] = client[d]
<1>1. client' = [client EXCEPT ![c] = step] /\ DOMAIN client = Clients
      /\ \A d \in Clients : StepTyped(client[d])
  BY DEF ListedTyped, Listed!Goto
<1>2. client' = [d \in Clients |-> IF d = c THEN step ELSE client[d]]
  BY <1>1
<1>3. QED
  BY <1>1, <1>2

(* A client may rest.                                                      *)
LEMMA IdleTyped == StepTyped([at |-> "idle"]) /\ Listed!Idle = [at |-> "idle"]
BY DEF StepTyped, Listed!Idle

(* An edit looks at the root it will write under.                          *)
LEMMA BeginEditKeeps ==
    ASSUME ListedInv, ~crossed, NEW c \in Clients, Listed!BeginEdit(c)
    PROVE  ListedInv'
<1> DEFINE step == [at |-> "edit", dir |-> root]
<1>1. Listed!Goto(c, step) /\ client[c].at = "idle"
      /\ UNCHANGED <<catalogue, stored, root, window, present, launched, shown, looking, crossed>>
  BY DEF Listed!BeginEdit, Listed!At
<1>2. StepTyped(step)
  BY DEF ListedInv, ListedTyped, StepTyped
<1>3. /\ client' = [d \in Clients |-> client'[d]]
      /\ \A d \in Clients : StepTyped(client'[d])
      /\ client'[c] = step /\ \A d \in Clients \ {c} : client'[d] = client[d]
  BY <1>1, <1>2, StepTaken DEF ListedInv
<1>4. QED
  BY <1>1, <1>3 DEF ListedInv, ListedTyped, OneMoves, FileTells, WindowsTell, Moves, Processes

(* An edit is stored and read back: under the root of both it is what was  *)
(* meant, else it crossed a move.                                          *)
LEMMA EditKeeps ==
    ASSUME ListedInv, ~crossed, NEW c \in Clients, NEW next \in Catalogues(Directories),
           Listed!Edit(c, next)
    PROVE  ListedInv'
<1> DEFINE step == [at |-> "idle"]
           dir == client[c].dir
<1>1. /\ Listed!Goto(c, step) /\ client[c].at = "edit"
      /\ \/ catalogue' = next /\ stored' = Listed!Portable(next, dir)
         \/ UNCHANGED <<catalogue, stored>>
      /\ crossed' = (crossed \/ Listed!Moving # {} \/ dir # root)
      /\ UNCHANGED <<root, window, present, launched, shown, looking>>
  BY IdleTyped DEF Listed!Edit, Listed!Kept, Listed!At, Listed!Return
<1>2. /\ client' = [d \in Clients |-> client'[d]]
      /\ \A d \in Clients : StepTyped(client'[d])
      /\ client'[c] = step /\ \A d \in Clients \ {c} : client'[d] = client[d]
  BY <1>1, IdleTyped, StepTaken DEF ListedInv
<1>3. dir \in Directories
  BY <1>1 DEF ListedInv, ListedTyped, StepTyped
<1>4. catalogue' \in Catalogues(Directories) /\ stored' \in Catalogues(Directories \union {"token"})
  BY <1>1, <1>3, PortableTyped DEF ListedInv, ListedTyped
<1>5. ListedTyped'
  BY <1>1, <1>2, <1>4 DEF ListedInv, ListedTyped, Processes
<1>6. ASSUME ~crossed'
      PROVE  OneMoves' /\ FileTells' /\ WindowsTell'
  <2>1. dir = root /\ \A d \in Clients : ~Moves(d)
    BY <1>1, <1>6 DEF Listed!Moving, Listed!Clients, Clients, Moves
  <2>2. \A d \in Clients : ~Moves(d)'
    BY <1>2, <2>1 DEF Moves
  <2>3. OneMoves'
    BY <2>2 DEF OneMoves, Moves
  <2>4. WindowsTell'
    BY <1>1 DEF ListedInv, WindowsTell
  <2>5. FileTells'
    <3>1. CASE catalogue' = next /\ stored' = Listed!Portable(next, dir)
      BY <1>1, <1>3, <2>1, <3>1, ReadsBack DEF FileTells
    <3>2. CASE UNCHANGED <<catalogue, stored>>
      BY <1>1, <2>1, <3>2 DEF ListedInv, FileTells, Moves
    <3>3. QED
      BY <1>1, <3>1, <3>2
  <2>6. QED
    BY <2>3, <2>4, <2>5
<1>7. QED
  BY <1>5, <1>6 DEF ListedInv

(* What each command changes leaves a catalogue.                           *)
LEMMA EditsAreTyped ==
    ASSUME ListedInv
    PROVE  /\ \A m \in Two, entry \in Listed!Entry :
                  [catalogue EXCEPT !.entries[m] = entry] \in Catalogues(Directories)
           /\ \A m \in Two, limit \in 0 .. MaxWindow :
                  [catalogue.entries[m] EXCEPT !.limit = limit] \in Listed!Entry
           /\ \A k \in {"reason"}, m \in Two, f \in Two \union {"none"} :
                  [catalogue EXCEPT !.routes[k] = [model |-> m, fallback |-> f]] \in Catalogues(Directories)
<1>1. catalogue \in Catalogues(Directories)
  BY DEF ListedInv, ListedTyped
<1>2. \A m \in Two : catalogue.entries[m] \in Listed!Entry
  BY <1>1 DEF Catalogues, Listed!Entry
<1>3. QED
  BY <1>1, <1>2 DEF Catalogues, Listed!Entry

(* The commands that change an entry, a window or a route.                 *)
LEMMA CommandsKeep ==
    ASSUME ListedInv, ~crossed, NEW c \in Clients
    PROVE  /\ \A m \in Two, entry \in Listed!Entry : Listed!Upsert(c, m, entry) => ListedInv'
           /\ \A m \in Two, limit \in 0 .. MaxWindow : Listed!SetContext(c, m, limit) => ListedInv'
           /\ \A k \in {"reason"}, m \in Two, f \in Two \union {"none"} :
                  Listed!SetRoute(c, k, m, f) => ListedInv'
<1>1. ASSUME NEW m \in Two, NEW entry \in Listed!Entry, Listed!Upsert(c, m, entry)
      PROVE  ListedInv'
  BY <1>1, EditKeeps, EditsAreTyped DEF Listed!Upsert
<1>2. ASSUME NEW m \in Two, NEW limit \in 0 .. MaxWindow, Listed!SetContext(c, m, limit)
      PROVE  ListedInv'
  BY <1>1, <1>2, EditsAreTyped DEF Listed!SetContext
<1>3. ASSUME NEW k \in {"reason"}, NEW m \in Two, NEW f \in Two \union {"none"}, Listed!SetRoute(c, k, m, f)
      PROVE  ListedInv'
  BY <1>3, EditKeeps, EditsAreTyped DEF Listed!SetRoute
<1>4. QED
  BY <1>1, <1>2, <1>3

(* A move of the root reads the file.                                      *)
LEMMA BeginMoveKeeps ==
    ASSUME ListedInv, ~crossed, NEW c \in Clients, NEW dir \in Directories, Listed!BeginMove(c, dir)
    PROVE  ListedInv'
<1> DEFINE read == Listed!Expanded(stored, dir)
           step == [at |-> "save", dir |-> dir, read |-> read]
<1>1. /\ Listed!Goto(c, step) /\ client[c].at = "idle" /\ crossed' = (crossed \/ Listed!Moving # {})
      /\ UNCHANGED <<catalogue, stored, root, window, present, launched, shown, looking>>
  BY DEF Listed!BeginMove, Listed!At
<1>2. read \in Catalogues(Directories)
  BY ExpandedTyped DEF ListedInv, ListedTyped
<1> HIDE DEF read
<1>3. StepTyped(step)
  BY <1>2 DEF StepTyped
<1>4. /\ client' = [d \in Clients |-> client'[d]]
      /\ \A d \in Clients : StepTyped(client'[d])
      /\ client'[c] = step /\ \A d \in Clients \ {c} : client'[d] = client[d]
  BY <1>1, <1>3, StepTaken DEF ListedInv
<1>5. ListedTyped'
  BY <1>1, <1>4 DEF ListedInv, ListedTyped, Processes
<1>6. ASSUME ~crossed'
      PROVE  OneMoves' /\ FileTells' /\ WindowsTell'
  <2>1. \A d \in Clients : ~Moves(d)
    BY <1>1, <1>6 DEF Listed!Moving, Listed!Clients, Clients, Moves
  <2>2. \A d \in Clients \ {c} : ~Moves(d)'
    BY <1>4, <2>1 DEF Moves
  <2>3. client'[c].at = "save" /\ client'[c].read = Listed!Expanded(stored', client'[c].dir)
    BY <1>1, <1>4 DEF read
  <2>4. OneMoves'
    BY <2>2, <2>3 DEF OneMoves, Moves
  <2>5. WindowsTell' /\ FileTells'
    BY <1>1, <2>1 DEF ListedInv, WindowsTell, FileTells, Moves
  <2>6. QED
    BY <2>4, <2>5
<1>7. QED
  BY <1>5, <1>6 DEF ListedInv

(* The root is saved before the file is read again.                        *)
LEMMA SaveSettingsKeeps ==
    ASSUME ListedInv, ~crossed, NEW c \in Clients, Listed!SaveSettings(c)
    PROVE  ListedInv'
<1>0. /\ client[c].at = "save"
      /\ UNCHANGED <<catalogue, stored, window, present, launched, shown, looking, crossed>>
      /\ client[c] = [at |-> "save", dir |-> client[c].dir, read |-> client[c].read]
      /\ client[c].dir \in Directories /\ client[c].read \in Catalogues(Directories)
  BY DEF Listed!SaveSettings, Listed!At, ListedInv, ListedTyped, StepTyped
<1>1. CASE root' = client[c].dir /\ Listed!Goto(c, [client[c] EXCEPT !.at = "collect"])
  <2> DEFINE step == [at |-> "collect", dir |-> client[c].dir, read |-> client[c].read]
  <2>1. Listed!Goto(c, step)
    BY <1>0, <1>1
  <2>2. StepTyped(step)
    BY <1>0 DEF StepTyped
  <2>3. /\ client' = [d \in Clients |-> client'[d]]
        /\ \A d \in Clients : StepTyped(client'[d])
        /\ client'[c] = step /\ \A d \in Clients \ {c} : client'[d] = client[d]
    BY <2>1, <2>2, StepTaken DEF ListedInv
  <2>4. ListedTyped'
    BY <1>0, <1>1, <2>3 DEF ListedInv, ListedTyped, Processes
  <2>5. \A d \in Clients \ {c} : ~Moves(d)'
    BY <1>0, <2>3 DEF ListedInv, OneMoves, Moves
  <2>6. /\ client'[c].at = "collect" /\ client'[c].dir = root'
        /\ client'[c].read = Listed!Expanded(stored', client'[c].dir)
    BY <1>0, <1>1, <2>3 DEF ListedInv, OneMoves, Moves
  <2>7. OneMoves' /\ FileTells'
    BY <2>5, <2>6 DEF OneMoves, FileTells, Moves
  <2>8. WindowsTell'
    BY <1>0 DEF ListedInv, WindowsTell
  <2>9. QED
    BY <2>4, <2>7, <2>8 DEF ListedInv
<1>2. CASE Listed!Return(c) /\ UNCHANGED root
  <2>1. Listed!Goto(c, [at |-> "idle"])
    BY <1>2, IdleTyped DEF Listed!Return
  <2>2. /\ client' = [d \in Clients |-> client'[d]]
        /\ \A d \in Clients : StepTyped(client'[d])
        /\ client'[c].at = "idle" /\ \A d \in Clients \ {c} : client'[d] = client[d]
    BY <2>1, IdleTyped, StepTaken DEF ListedInv
  <2>3. QED
    BY <1>0, <1>2, <2>2 DEF ListedInv, ListedTyped, OneMoves, FileTells, WindowsTell, Moves, Processes
<1>3. QED
  BY <1>1, <1>2 DEF Listed!SaveSettings

(* A model that is shown as loaded has its window collected.               *)
LEMMA LoadedWindowsAre ==
    ASSUME ListedInv
    PROVE  /\ Listed!LoadedWindows \in Windows
           /\ \A m \in shown : window[m] # 0 => Listed!LoadedWindows[m] = window[m]
<1>1. \A m \in Two : Listed!Window(m) \in 0 .. MaxWindow
  <2> SUFFICES ASSUME NEW m \in Two PROVE Listed!Window(m) \in 0 .. MaxWindow
    OBVIOUS
  <2>1. window[m] \in 0 .. MaxWindow
    BY DEF ListedInv, ListedTyped, Windows
  <2>2. catalogue.entries[m] \in [shape : Shapes, limit : 0 .. MaxWindow, under : Directories]
    BY DEF ListedInv, ListedTyped, Catalogues
  <2>3. Listed!Configured(catalogue.entries[m]) \in 0 .. MaxWindow
    BY <2>2, ShapesHold, Paths DEF Listed!Configured
  <2>4. QED
    BY <2>1, <2>3, Paths DEF Listed!Window
<1>2. Listed!LoadedWindows = [m \in Two |-> IF m \in shown THEN Listed!Window(m) ELSE 0]
  BY DEF Listed!LoadedWindows, Two
<1>3. \A m \in Two : window[m] # 0 => Listed!Window(m) = window[m]
  BY DEF Listed!Window
<1>4. shown \subseteq Two /\ 0 \in 0 .. MaxWindow
  BY Paths DEF ListedInv, ListedTyped
<1>5. QED
  BY <1>1, <1>2, <1>3, <1>4 DEF Windows

(* The windows of what is loaded are collected.                            *)
LEMMA CollectKeeps ==
    ASSUME ListedInv, ~crossed, NEW c \in Clients, Listed!Collect(c)
    PROVE  ListedInv'
<1> DEFINE step == [at |-> "swap", dir |-> client[c].dir, read |-> client[c].read,
                    windows |-> Listed!LoadedWindows]
<1>1. /\ Listed!Goto(c, step) /\ client[c].at = "collect"
      /\ UNCHANGED <<catalogue, stored, root, window, present, launched, shown, looking, crossed>>
  BY DEF Listed!Collect, Listed!At
<1>2. StepTyped(step)
  <2>1. client[c].dir \in Directories /\ client[c].read \in Catalogues(Directories)
    BY <1>1 DEF ListedInv, ListedTyped, StepTyped
  <2>2. QED
    BY <2>1, LoadedWindowsAre DEF StepTyped
<1>3. /\ client' = [d \in Clients |-> client'[d]]
      /\ \A d \in Clients : StepTyped(client'[d])
      /\ client'[c] = step /\ \A d \in Clients \ {c} : client'[d] = client[d]
  BY <1>1, <1>2, StepTaken DEF ListedInv
<1>4. client'[c].at = "swap" /\ client'[c].dir = client[c].dir /\ client'[c].read = client[c].read
  BY <1>3
<1>5. ListedTyped'
  BY <1>1, <1>3 DEF ListedInv, ListedTyped, Processes
<1>6. OneMoves' /\ FileTells' /\ WindowsTell'
  BY <1>1, <1>3, <1>4 DEF ListedInv, OneMoves, FileTells, WindowsTell, Moves
<1>7. QED
  BY <1>5, <1>6 DEF ListedInv

(* The catalogue is replaced by what the file says under the new root.     *)
LEMMA SwapKeeps ==
    ASSUME ListedInv, ~crossed, NEW c \in Clients, Listed!Swap(c)
    PROVE  ListedInv'
<1>1. /\ Listed!Goto(c, [at |-> "idle"]) /\ client[c].at = "swap"
      /\ catalogue' = client[c].read /\ window' = client[c].windows
      /\ crossed' = (crossed \/ looking # "none" \/ client[c].windows # Listed!LoadedWindows)
      /\ UNCHANGED <<stored, root, present, launched, shown, looking>>
  BY IdleTyped DEF Listed!Swap, Listed!At, Listed!Return, Listed!None
<1>2. /\ client' = [d \in Clients |-> client'[d]]
      /\ \A d \in Clients : StepTyped(client'[d])
      /\ client'[c].at = "idle" /\ \A d \in Clients \ {c} : client'[d] = client[d]
  BY <1>1, IdleTyped, StepTaken DEF ListedInv
<1>3. client[c].windows \in Windows /\ client[c].read \in Catalogues(Directories)
  BY <1>1 DEF ListedInv, ListedTyped, StepTyped
<1>4. ListedTyped'
  BY <1>1, <1>2, <1>3 DEF ListedInv, ListedTyped, Processes
<1>5. OneMoves'
  BY <1>1, <1>2 DEF ListedInv, OneMoves, Moves
<1>6. FileTells'
  BY <1>1 DEF ListedInv, OneMoves, FileTells, Moves
<1>7. ~crossed' => WindowsTell'
  BY <1>1, LoadedWindowsAre DEF ListedInv, WindowsTell
<1>8. QED
  BY <1>4, <1>5, <1>6, <1>7 DEF ListedInv

(* A start of the router reads the entries.                                *)
LEMMA ReadEntriesKeeps ==
    ASSUME ListedInv, ~crossed, NEW c \in Clients, Listed!ReadEntries(c)
    PROVE  ListedInv'
<1> DEFINE step == [at |-> "preset", entries |-> catalogue.entries]
<1>1. /\ Listed!Goto(c, step) /\ client[c].at = "idle"
      /\ UNCHANGED <<catalogue, stored, root, window, present, launched, shown, looking, crossed>>
  BY DEF Listed!ReadEntries, Listed!At
<1>2. StepTyped(step)
  BY DEF StepTyped
<1>3. /\ client' = [d \in Clients |-> client'[d]]
      /\ \A d \in Clients : StepTyped(client'[d])
      /\ client'[c].at = "preset" /\ \A d \in Clients \ {c} : client'[d] = client[d]
  BY <1>1, <1>2, StepTaken DEF ListedInv
<1>4. QED
  BY <1>1, <1>3 DEF ListedInv, ListedTyped, OneMoves, FileTells, WindowsTell, Moves, Processes

(* It writes the preset.                                                   *)
LEMMA WritePresetKeeps ==
    ASSUME ListedInv, ~crossed, NEW c \in Clients, Listed!WritePreset(c)
    PROVE  ListedInv'
<1> DEFINE step == [at |-> "spawn", preset |-> [m \in Two |->
           IF Listed!Launchable(m, client[c].entries[m]) THEN client[c].entries[m] ELSE Listed!Absent]]
<1>1. /\ Listed!Goto(c, step) /\ client[c].at = "preset"
      /\ launched.up => UNCHANGED window
      /\ ~launched.up => window' \in Windows
      /\ UNCHANGED <<catalogue, stored, root, present, launched, shown, looking, crossed>>
  BY DEF Listed!WritePreset, Listed!At, Listed!Estimates, Windows, Two
<1>2. StepTyped(step)
  BY DEF StepTyped
<1>3. /\ client' = [d \in Clients |-> client'[d]]
      /\ \A d \in Clients : StepTyped(client'[d])
      /\ client'[c].at = "spawn" /\ \A d \in Clients \ {c} : client'[d] = client[d]
  BY <1>1, <1>2, StepTaken DEF ListedInv
<1>4. ListedTyped'
  BY <1>1, <1>3 DEF ListedInv, ListedTyped, Processes
<1>5. OneMoves' /\ FileTells'
  BY <1>1, <1>3 DEF ListedInv, OneMoves, FileTells, Moves
<1>6. WindowsTell'
  BY <1>1 DEF ListedInv, ListedTyped, WindowsTell
<1>7. QED
  BY <1>4, <1>5, <1>6 DEF ListedInv

(* A process that starts runs nothing.                                     *)
LEMMA NoWindowsAre == Listed!NoWindows \in Windows /\ \A m \in Two : Listed!NoWindows[m] = 0
BY Paths DEF Listed!NoWindows, Windows, Two

(* The process is started, with the preset as it is then.                  *)
LEMMA SpawnKeeps ==
    ASSUME ListedInv, ~crossed, NEW c \in Clients, Listed!Spawn(c)
    PROVE  ListedInv'
<1> DEFINE started == [up |-> TRUE, preset |-> client[c].preset, runs |-> Listed!NoWindows]
<1>1. /\ Listed!Goto(c, [at |-> "idle"]) /\ client[c].at = "spawn"
      /\ \/ launched' = started /\ crossed' = (crossed \/ launched.up)
         \/ UNCHANGED <<launched, crossed>>
      /\ UNCHANGED <<catalogue, stored, root, window, present, shown, looking>>
  BY IdleTyped DEF Listed!Spawn, Listed!At, Listed!Return
<1>2. /\ client' = [d \in Clients |-> client'[d]]
      /\ \A d \in Clients : StepTyped(client'[d])
      /\ client'[c].at = "idle" /\ \A d \in Clients \ {c} : client'[d] = client[d]
  BY <1>1, IdleTyped, StepTaken DEF ListedInv
<1>3. launched' = started \/ launched' = launched
  BY <1>1
<1>4. launched' \in Processes'
  <2>1. CASE launched' = started
    <3>1. started \in [up : BOOLEAN, preset : {client[c].preset}, runs : Windows]
      BY NoWindowsAre
    <3>2. launched'.preset = client[c].preset
      BY <2>1
    <3>3. QED
      BY <2>1, <3>1, <3>2 DEF Processes
  <2>2. CASE launched' = launched
    BY <2>2 DEF ListedInv, ListedTyped, Processes
  <2>3. QED
    BY <1>3, <2>1, <2>2
<1>5. crossed' \in BOOLEAN
  BY <1>1, <1>4 DEF ListedInv, ListedTyped, Processes
<1>6. ListedTyped'
  BY <1>1, <1>2, <1>4, <1>5 DEF ListedInv, ListedTyped
<1>7. OneMoves' /\ FileTells'
  BY <1>1, <1>2 DEF ListedInv, OneMoves, FileTells, Moves
<1>8. ASSUME ~crossed' PROVE WindowsTell'
  <2>1. CASE launched' = started /\ ~launched.up
    <3>1. shown = {} /\ looking = "none"
      BY <2>1 DEF ListedInv, ListedTyped, WindowsTell
    <3>2. QED
      BY <1>1, <2>1, <3>1, NoWindowsAre DEF WindowsTell
  <2>2. CASE launched' = launched
    BY <1>1, <2>2 DEF ListedInv, WindowsTell
  <2>3. QED
    BY <1>1, <1>8, <2>1, <2>2
<1>9. QED
  BY <1>6, <1>7, <1>8 DEF ListedInv

(* It stops, and with it all that ran.                                     *)
LEMMA StopKeeps == ASSUME ListedInv, ~crossed, Listed!Stop PROVE ListedInv'
<1>1. /\ launched' = Listed!Down /\ shown' = {} /\ crossed' = (crossed \/ looking # "none")
      /\ UNCHANGED <<catalogue, stored, root, window, present, looking, client>>
  BY DEF Listed!Stop, Listed!None
<1>2. launched' \in Processes' /\ launched'.runs = Listed!NoWindows
  BY <1>1, NoWindowsAre DEF Processes, Listed!Down
<1>3. ListedTyped'
  BY <1>1, <1>2 DEF ListedInv, ListedTyped
<1>4. OneMoves' /\ FileTells'
  BY <1>1 DEF ListedInv, OneMoves, FileTells, Moves
<1>5. ~crossed' => WindowsTell'
  BY <1>1, <1>2, NoWindowsAre DEF WindowsTell
<1>6. QED
  BY <1>3, <1>4, <1>5 DEF ListedInv

(* A model is loaded, in its manual window or one that fits.               *)
LEMMA LoadKeeps == ASSUME ListedInv, ~crossed, NEW m \in Two, Listed!Load(m) PROVE ListedInv'
<1>1. PICK w \in 1 .. MaxWindow : launched' = [launched EXCEPT !.runs[m] = w]
  BY DEF Listed!Load, Listed!Windows
<1>2. /\ launched.up /\ launched.runs[m] = 0
      /\ UNCHANGED <<catalogue, stored, root, window, present, shown, looking, client, crossed>>
  BY DEF Listed!Load
<1>3. /\ launched \in Processes /\ w \in 0 .. MaxWindow
  BY Paths DEF ListedInv, ListedTyped
<1>4. launched' \in Processes' /\ launched'.up = launched.up
      /\ \A n \in Two \ {m} : launched'.runs[n] = launched.runs[n]
  BY <1>1, <1>3 DEF Processes, Windows
<1>5. ListedTyped'
  BY <1>2, <1>4 DEF ListedInv, ListedTyped
<1>6. OneMoves' /\ FileTells'
  BY <1>2 DEF ListedInv, OneMoves, FileTells, Moves
<1>7. WindowsTell'
  BY <1>2, <1>4 DEF ListedInv, ListedTyped, WindowsTell
<1>8. QED
  BY <1>5, <1>6, <1>7 DEF ListedInv

(* The window a model is loaded in is recorded.                            *)
LEMMA RecordKeeps == ASSUME ListedInv, ~crossed, NEW m \in Two, Listed!Record(m) PROVE ListedInv'
<1>1. /\ looking = "none" /\ launched.runs[m] # 0 /\ m \notin shown
      /\ window' = [window EXCEPT ![m] = launched.runs[m]] /\ looking' = m
      /\ UNCHANGED <<catalogue, stored, root, present, launched, shown, client, crossed>>
  BY DEF Listed!Record, Listed!None
<1>2. window \in Windows /\ launched.runs \in Windows
  BY DEF ListedInv, ListedTyped, Processes
<1>3. window' \in Windows /\ window'[m] = launched.runs[m]
      /\ \A n \in Two \ {m} : window'[n] = window[n]
  BY <1>1, <1>2 DEF Windows
<1>4. ListedTyped'
  BY <1>1, <1>3 DEF ListedInv, ListedTyped, Processes
<1>5. OneMoves' /\ FileTells'
  BY <1>1 DEF ListedInv, OneMoves, FileTells, Moves
<1>6. WindowsTell'
  BY <1>1, <1>3 DEF ListedInv, ListedTyped, WindowsTell
<1>7. QED
  BY <1>4, <1>5, <1>6 DEF ListedInv

(* And shown.                                                              *)
LEMMA ShowKeeps == ASSUME ListedInv, ~crossed, Listed!Show PROVE ListedInv'
BY DEF Listed!Show, Listed!None, ListedInv, ListedTyped, OneMoves, FileTells, WindowsTell, Moves, Processes

(* A model that is shown is unloaded: it is not the one that is looked at. *)
LEMMA UnloadKeeps == ASSUME ListedInv, ~crossed, NEW m \in Two, Listed!Unload(m) PROVE ListedInv'
<1>1. /\ m \in shown /\ shown' = shown \ {m} /\ launched' = [launched EXCEPT !.runs[m] = 0]
      /\ UNCHANGED <<catalogue, stored, root, window, present, looking, client, crossed>>
  BY DEF Listed!Unload
<1>2. /\ launched \in Processes /\ 0 \in 0 .. MaxWindow
  BY Paths DEF ListedInv, ListedTyped
<1>3. launched' \in Processes' /\ launched'.up = launched.up /\ launched'.runs[m] = 0
      /\ \A n \in Two \ {m} : launched'.runs[n] = launched.runs[n]
  BY <1>1, <1>2 DEF Processes, Windows
<1>4. ListedTyped'
  BY <1>1, <1>3 DEF ListedInv, ListedTyped
<1>5. OneMoves' /\ FileTells'
  BY <1>1 DEF ListedInv, OneMoves, FileTells, Moves
<1>6. WindowsTell'
  BY <1>1, <1>3 DEF ListedInv, ListedTyped, WindowsTell
<1>7. QED
  BY <1>4, <1>5, <1>6 DEF ListedInv

(* A restart of the core reads the file.                                   *)
LEMMA RestartKeeps == ASSUME ListedInv, ~crossed, Listed!Restart PROVE ListedInv'
<1>1. /\ catalogue' = Listed!Expanded(stored, root) /\ window' = Listed!NoWindows
      /\ launched' = Listed!Down /\ shown' = {} /\ looking' = "none"
      /\ client' = [c \in Clients |-> [at |-> "idle"]]
      /\ UNCHANGED <<stored, root, present, crossed>>
  BY IdleTyped DEF Listed!Restart, Listed!None, Listed!Clients, Clients
<1>2. launched' \in Processes' /\ launched'.runs = Listed!NoWindows
  BY <1>1, NoWindowsAre DEF Processes, Listed!Down
<1>3. catalogue' \in Catalogues(Directories)
  BY <1>1, ExpandedTyped DEF ListedInv, ListedTyped
<1>4. \A c \in Clients : client'[c].at = "idle" /\ StepTyped(client'[c])
  BY <1>1, IdleTyped
<1>5. ListedTyped'
  BY <1>1, <1>2, <1>3, <1>4, NoWindowsAre DEF ListedInv, ListedTyped
<1>6. OneMoves' /\ FileTells'
  BY <1>1, <1>4 DEF OneMoves, FileTells, Moves
<1>7. WindowsTell'
  BY <1>1, <1>2, NoWindowsAre DEF WindowsTell
<1>8. QED
  BY <1>5, <1>6, <1>7 DEF ListedInv

(* Every step of the clients and the router keeps the invariant.           *)
LEMMA ListedStep == ASSUME ListedInv, ~crossed, Listed!Next PROVE ListedInv'
<1>1. ASSUME NEW c \in Editors, Listed!Edits(c)
      PROVE  ListedInv'
  <2>1. c \in Clients
    BY DEF Clients
  <2>2. QED
    BY <1>1, <2>1, BeginEditKeeps, SaveSettingsKeeps, CollectKeeps, SwapKeeps, BeginMoveKeeps, CommandsKeep
       DEF Listed!Edits, Two, Listed!None
<1>2. ASSUME NEW c \in Starters, Listed!Starts(c)
      PROVE  ListedInv'
  <2>1. c \in Clients
    BY DEF Clients
  <2>2. QED
    BY <1>2, <2>1, ReadEntriesKeeps, WritePresetKeeps, SpawnKeeps DEF Listed!Starts
<1>3. QED
  BY <1>1, <1>2, LoadKeeps, RecordKeeps, UnloadKeeps, ShowKeeps, StopKeeps, RestartKeeps
     DEF Listed!Next, Two

(* So does every step of another part.                                     *)
LEMMA ListedUnmoved == ASSUME ListedInv, UNCHANGED listedVars PROVE ListedInv'
BY DEF listedVars, ListedInv, ListedTyped, OneMoves, FileTells, WindowsTell, Moves, Processes

(* The invariant types what the run types.                                 *)
LEMMA ListedTypes == ListedInv => Listed!TypeOK
BY DEF ListedInv, ListedTyped, Listed!TypeOK, Catalogues, Windows, Processes, Two, Listed!Entry, Listed!None

(* A restart would load what is listed.                                    *)
LEMMA ListedRestarts == ListedInv => Listed!RestartLoadsTheSame
BY DEF ListedInv, FileTells, Listed!RestartLoadsTheSame, Listed!Clients, Clients

(* A turn is routed to a model with tools, in a window that is its own.    *)
LEMMA ListedFits == ListedInv => Listed!TurnsFit
<1> SUFFICES ASSUME ListedInv, NEW kind \in {"reason"}, NEW tokens \in 1 .. MaxWindow
             PROVE  /\ \A m \in Listed!RoutedAgent(kind, tokens) :
                         /\ Listed!Able(m, "tools") /\ m \in present
                         /\ ~crossed /\ m \in shown => tokens <= launched.runs[m]
                    /\ Listed!RoutedAgent(kind, tokens) = {} =>
                         ~\E m \in present : Listed!Able(m, "tools") /\ Listed!Able(m, kind) /\ Listed!Fits(m, tokens)
  BY DEF Listed!TurnsFit, Listed!Windows
<1> DEFINE able == Listed!Coordinators(kind, tokens)
<1>1. Listed!RoutedAgent(kind, tokens) \subseteq able
  BY DEF Listed!RoutedAgent
<1>2. \A m \in able : m \in present /\ Listed!Able(m, "tools") /\ Listed!Fits(m, tokens)
  BY DEF Listed!Coordinators
<1>3. ASSUME NEW m \in able, ~crossed, m \in shown
      PROVE  tokens <= launched.runs[m]
  <2>1. window[m] # 0 /\ window[m] = launched.runs[m]
    BY <1>3 DEF ListedInv, WindowsTell
  <2>2. tokens <= Listed!Window(m)
    BY <1>2 DEF Listed!Fits
  <2>3. QED
    BY <2>1, <2>2 DEF Listed!Window
<1>4. Listed!Routed(kind, tokens) # {}
  BY DEF Listed!Routed
<1>5. Listed!RoutedAgent(kind, tokens) = {} => able = {}
  BY <1>4 DEF Listed!RoutedAgent
<1>6. QED
  BY <1>1, <1>2, <1>3, <1>5 DEF Listed!Coordinators

-----------------------------------------------------------------------------
(* Conversations, and what is remembered of them.                          *)

(* A chat is bound to a workspace or to none.                              *)
Bindings == Spaces \union {"none"}

(* A message, its run, and the run whose activity is drawn under it.       *)
Rows == [who : {"user", "agent"}, run : 1 .. MaxTalks, drawn : {0} \union 1 .. MaxTalks]

(* A memory.                                                               *)
Entries ==
    [ws : Bindings, title : Subjects, text : Facts, on : BOOLEAN, src : Talks \union {"none"}]

(* What a turn has learned.                                                *)
Drafts == [how : {"explicit", "automatic"}, ws : Bindings, title : Subjects, text : Facts]

(* Steps of a turn that writes nothing yet.                                *)
Plains ==
    [at : {"store", "capture", "answer", "curate"}, run : 1 .. MaxTalks, ws : Bindings,
     keeps : BOOLEAN]

(* A turn that has begun to look at what is kept, or is about to write.    *)
Writings ==
    [at : {"keep"}, run : 1 .. MaxTalks, ws : Bindings, keeps : BOOLEAN, curated : BOOLEAN,
     draft : Drafts, to : {"content", "title", "write"}, into : Slots \union {"none"},
     raced : BOOLEAN]

(* Where a turn can be.                                                    *)
Steps == {[at |-> "idle"]} \union Plains \union Writings

(* Typed, for every number of chats and memories.                          *)
ToldTyped ==
    /\ session \in [Talks -> [ws : Bindings, keeps : BOOLEAN, stored : BOOLEAN]]
    /\ memory \in [Slots -> Entries \union {Told!Absent}]
    /\ transcript \in [Talks -> Seq(Rows)]
    /\ talk \in [Talks -> Steps]
    /\ begun \in Nat /\ mixed \in BOOLEAN

(* Nothing that is kept has the content of a draft, or its title.          *)
NoSuchContent(d) == \A id \in Slots : memory[id] # Told!Absent /\ memory[id].ws = d.ws => memory[id].text # d.text
NoSuchTitle(d) == \A id \in Slots : memory[id] # Told!Absent /\ memory[id].ws = d.ws => memory[id].title # d.title

(* What a turn found so far is still so, unless another wrote meanwhile:   *)
(* the chat of an automatic draft is bound as it is, nothing like the      *)
(* draft is kept, or what it will reword is there.                         *)
FoundStill(c) ==
    LET d == talk[c].draft
        into == talk[c].into
        to == talk[c].to
    IN  talk[c].at = "keep" /\ ~talk[c].raced =>
        /\ d.how = "automatic" => session[c].stored /\ session[c].ws = d.ws
        /\ into = "none" /\ to # "content" => NoSuchContent(d)
        /\ into = "none" /\ to = "write" /\ d.how = "automatic" => NoSuchTitle(d)
        /\ into # "none" => memory[into] # Told!Absent /\ memory[into].ws = d.ws

(* A turn whose question has been stored, and whose answer has not.        *)
Asked(c) ==
    talk[c].at \in {"capture", "answer"} \/ (talk[c].at = "keep" /\ ~talk[c].curated)

(* The question of a run is what was said last.                            *)
EndsWith(rows, run) ==
    Len(rows) > 0 /\ rows[Len(rows)].who = "user" /\ rows[Len(rows)].run = run

(* An answer that is to come follows its question, unless the operator cut *)
(* it off.                                                                 *)
QuestionIsLast == \A c \in Talks : Asked(c) /\ talk[c].run \notin cut => EndsWith(transcript[c], talk[c].run)

(* What holds of conversations and memories in every state.                *)
ToldInv ==
    /\ ToldTyped
    /\ ~mixed => \A c \in Talks : FoundStill(c)
    /\ QuestionIsLast
    /\ Told!ForgottenWithItsChat /\ Told!ReadsAsSaid

(* ReadsAsSaid, of one conversation: an answer follows its question, and   *)
(* activity is drawn under an answer.                                      *)
Saying(rows, done) ==
    \A i \in 1 .. Len(rows) :
        /\ rows[i].who = "agent" /\ rows[i].run \notin done =>
             i > 1 /\ rows[i - 1].who = "user" /\ rows[i - 1].run = rows[i].run
        /\ rows[i].drawn # 0 => rows[i].who = "agent" /\ rows[i].drawn = rows[i].run

(* No chat and no memory is none.                                          *)
LEMMA Unshared ==
    /\ "none" \notin Talks /\ "none" \notin Slots /\ MaxTalks \in Nat
BY DeskAssumption DEF DeskAssumption

(* ReadsAsSaid is about each conversation by itself.                       *)
LEMMA ReadsIsSaying ==
    ASSUME transcript \in [Talks -> Seq(Rows)]
    PROVE  Told!ReadsAsSaid <=> \A c \in Talks : Saying(transcript[c], cut)
<1>1. \A c \in Talks : DOMAIN transcript[c] = 1 .. Len(transcript[c])
  OBVIOUS
<1>2. QED
  BY <1>1 DEF Told!ReadsAsSaid, Saying

(* And so it is after a step.                                              *)
LEMMA SayingReads ==
    ASSUME transcript' \in [Talks -> Seq(Rows)], \A c \in Talks : Saying(transcript'[c], cut')
    PROVE  Told!ReadsAsSaid'
<1>1. \A c \in Talks : DOMAIN transcript'[c] = 1 .. Len(transcript'[c])
  OBVIOUS
<1>2. QED
  BY <1>1 DEF Told!ReadsAsSaid, Saying

(* A row added to what is said.                                            *)
LEMMA SaidMore ==
    ASSUME NEW rows \in Seq(Rows), NEW row \in Rows, NEW done, Saying(rows, done), row.drawn = 0,
           row.who = "agent" /\ row.run \notin done => EndsWith(rows, row.run)
    PROVE  /\ Append(rows, row) \in Seq(Rows) /\ Saying(Append(rows, row), done)
           /\ row.who = "user" => EndsWith(Append(rows, row), row.run)
<1> DEFINE more == Append(rows, row)
<1>1. /\ more \in Seq(Rows) /\ Len(more) = Len(rows) + 1 /\ Len(rows) \in Nat
      /\ more[Len(rows) + 1] = row /\ \A i \in 1 .. Len(rows) : more[i] = rows[i]
  OBVIOUS
<1> HIDE DEF more
<1>2. ASSUME NEW i \in 1 .. Len(rows)
      PROVE  /\ more[i].who = "agent" /\ more[i].run \notin done =>
                  i > 1 /\ more[i - 1].who = "user" /\ more[i - 1].run = more[i].run
             /\ more[i].drawn # 0 => more[i].who = "agent" /\ more[i].drawn = more[i].run
  <2>1. more[i] = rows[i] /\ (i > 1 => more[i - 1] = rows[i - 1])
    BY <1>1
  <2>2. QED
    BY <2>1 DEF Saying
<1>3. ASSUME NEW i, i = Len(rows) + 1
      PROVE  /\ more[i].who = "agent" /\ more[i].run \notin done =>
                  i > 1 /\ more[i - 1].who = "user" /\ more[i - 1].run = more[i].run
             /\ more[i].drawn # 0 => more[i].who = "agent" /\ more[i].drawn = more[i].run
  BY <1>1, <1>3 DEF EndsWith
<1>4. Saying(more, done)
  <2>1. \A i \in 1 .. Len(more) : i \in 1 .. Len(rows) \/ i = Len(rows) + 1
    BY <1>1
  <2>2. QED
    BY <1>2, <1>3, <2>1 DEF Saying
<1>5. row.who = "user" => EndsWith(more, row.run)
  BY <1>1 DEF EndsWith
<1>6. QED
  BY <1>1, <1>4, <1>5 DEF more

(* What is said up to a row.                                               *)
LEMMA SaidBefore ==
    ASSUME NEW rows \in Seq(Rows), NEW i \in 1 .. Len(rows), NEW done, Saying(rows, done)
    PROVE  SubSeq(rows, 1, i - 1) \in Seq(Rows) /\ Saying(SubSeq(rows, 1, i - 1), done)
<1> DEFINE less == SubSeq(rows, 1, i - 1)
<1>1. less \in Seq(Rows) /\ Len(less) = i - 1 /\ \A j \in 1 .. i - 1 : less[j] = rows[j]
  OBVIOUS
<1> HIDE DEF less
<1>2. ASSUME NEW j \in 1 .. i - 1
      PROVE  less[j] = rows[j] /\ j \in 1 .. Len(rows) /\ (j > 1 => less[j - 1] = rows[j - 1])
  BY <1>1
<1>3. Saying(less, done)
  BY <1>1, <1>2 DEF Saying
<1>4. QED
  BY <1>1, <1>3 DEF less

(* A timeline drawn on the answers of a run.                               *)
LEMMA SaidDrawn ==
    ASSUME NEW rows \in Seq(Rows), NEW r \in 1 .. MaxTalks, NEW done, Saying(rows, done)
    PROVE  LET drawn == [i \in DOMAIN rows |->
                            IF rows[i].who = "agent" /\ rows[i].run = r
                            THEN [rows[i] EXCEPT !.drawn = r] ELSE rows[i]]
           IN  /\ drawn \in Seq(Rows) /\ Saying(drawn, done)
               /\ \A run : EndsWith(rows, run) => EndsWith(drawn, run)
<1> DEFINE row(i) == IF rows[i].who = "agent" /\ rows[i].run = r
                     THEN [rows[i] EXCEPT !.drawn = r] ELSE rows[i]
           drawn == [i \in DOMAIN rows |-> row(i)]
<1>1. DOMAIN rows = 1 .. Len(rows) /\ Len(rows) \in Nat /\ \A i \in 1 .. Len(rows) : rows[i] \in Rows
  OBVIOUS
<1>2. ASSUME NEW i \in 1 .. Len(rows)
      PROVE  /\ row(i) \in Rows /\ row(i).who = rows[i].who /\ row(i).run = rows[i].run
             /\ row(i).drawn # 0 /\ row(i).drawn # rows[i].drawn =>
                  row(i).who = "agent" /\ row(i).drawn = row(i).run
  <2>1. rows[i] \in Rows
    BY <1>1
  <2>2. QED
    BY <2>1 DEF Rows
<1> HIDE DEF row
<1>3. drawn \in Seq(Rows) /\ Len(drawn) = Len(rows) /\ \A i \in 1 .. Len(rows) : drawn[i] = row(i)
  <2>1. drawn \in [1 .. Len(rows) -> Rows]
    BY <1>1, <1>2
  <2>2. drawn \in Seq(Rows)
    BY <1>1, <2>1
  <2>3. DOMAIN drawn = 1 .. Len(rows)
    BY <1>1
  <2>4. Len(drawn) = Len(rows)
    <3> HIDE DEF drawn
    <3>1. QED
      BY <1>1, <2>2, <2>3
  <2>5. QED
    BY <1>1, <2>2, <2>4
<1> HIDE DEF drawn
<1>4. Saying(drawn, done)
  <2> SUFFICES ASSUME NEW i \in 1 .. Len(rows)
               PROVE  /\ drawn[i].who = "agent" /\ drawn[i].run \notin done =>
                           i > 1 /\ drawn[i - 1].who = "user" /\ drawn[i - 1].run = drawn[i].run
                      /\ drawn[i].drawn # 0 => drawn[i].who = "agent" /\ drawn[i].drawn = drawn[i].run
    BY <1>3 DEF Saying
  <2>1. drawn[i] = row(i) /\ row(i).who = rows[i].who /\ row(i).run = rows[i].run
    BY <1>2, <1>3
  <2>2. i > 1 => drawn[i - 1].who = rows[i - 1].who /\ drawn[i - 1].run = rows[i - 1].run
    <3>1. i > 1 => i - 1 \in 1 .. Len(rows)
      BY <1>1
    <3>2. QED
      BY <1>2, <1>3, <3>1
  <2>3. QED
    BY <1>2, <2>1, <2>2 DEF Saying
<1>5. \A run : EndsWith(rows, run) => EndsWith(drawn, run)
  <2>1. Len(rows) > 0 => Len(rows) \in 1 .. Len(rows)
    BY <1>1
  <2>2. QED
    BY <1>2, <1>3, <2>1 DEF EndsWith
<1>6. QED
  BY <1>3, <1>4, <1>5 DEF drawn, row

(* At first nothing is said.                                               *)
LEMMA ToldBegins == Told!Init => ToldInv
<1> SUFFICES ASSUME Told!Init PROVE ToldInv
  OBVIOUS
<1>1. /\ session = [c \in Talks |-> [ws |-> "none", keeps |-> FALSE, stored |-> FALSE]]
      /\ transcript = [c \in Talks |-> <<>>] /\ memory = [id \in Slots |-> Told!Absent]
      /\ talk = [c \in Talks |-> [at |-> "idle"]] /\ begun = 0 /\ mixed = FALSE
  BY DEF Told!Init, Told!Unbound, Told!Idle, Told!None
<1>2. transcript \in [Talks -> Seq(Rows)] /\ \A c \in Talks : Len(transcript[c]) = 0
  BY <1>1
<1>3. talk \in [Talks -> Steps]
  BY <1>1 DEF Steps
<1>4. ToldTyped
  BY <1>1, <1>2, <1>3 DEF ToldTyped, Bindings
<1>5. \A c \in Talks : FoundStill(c) /\ ~Asked(c)
  BY <1>1 DEF FoundStill, Asked
<1>6. Told!ForgottenWithItsChat
  BY <1>1 DEF Told!ForgottenWithItsChat, Told!Held
<1>7. Told!ReadsAsSaid
  BY <1>2, ReadsIsSaying DEF Saying
<1>8. QED
  BY <1>4, <1>5, <1>6, <1>7 DEF ToldInv, QuestionIsLast

(* A turn's step is its own.                                               *)
LEMMA TurnStep ==
    ASSUME ToldTyped, NEW c \in Talks, NEW step \in Steps, Told!Goto(c, step)
    PROVE  /\ talk' \in [Talks -> Steps] /\ talk'[c] = step
           /\ \A d \in Talks \ {c} : talk'[d] = talk[d]
BY DEF ToldTyped, Told!Goto

(* What a turn carries in each step.                                       *)
LEMMA StepsAre ==
    ASSUME ToldTyped, NEW c \in Talks
    PROVE  /\ talk[c].at \in {"store", "capture", "answer", "curate"} => talk[c] \in Plains
           /\ talk[c].at = "keep" => talk[c] \in Writings
           /\ talk[c].at \in {"idle", "store", "capture", "answer", "curate", "keep"}
BY DEF ToldTyped, Steps, Plains, Writings

(* A finding stays where its chat and the memories do.                     *)
LEMMA FoundKept ==
    ASSUME NEW c \in Talks, FoundStill(c), talk'[c] = talk[c], session'[c] = session[c], memory' = memory
    PROVE  FoundStill(c)'
BY DEF FoundStill, NoSuchContent, NoSuchTitle, Told!Absent

(* Where no chat is deleted, what is kept still has its chat.              *)
LEMMA ForgetsKept ==
    ASSUME Told!ForgottenWithItsChat, UNCHANGED <<memory, mixed>>,
           \A c \in Talks : session[c].stored => session'[c].stored
    PROVE  Told!ForgottenWithItsChat'
BY DEF Told!ForgottenWithItsChat, Told!Held

(* A step of a turn that changes neither what is said nor what is kept.    *)
LEMMA TurnKeeps ==
    ASSUME ToldInv, ~mixed, NEW c \in Talks, NEW step \in Steps, Told!Goto(c, step),
           UNCHANGED <<session, transcript, memory, cut, mixed>>, begun' \in Nat,
           FoundStill(c)',
           Asked(c)' /\ step.run \notin cut => EndsWith(transcript[c], step.run)
    PROVE  ToldInv'
<1>1. /\ talk' \in [Talks -> Steps] /\ talk'[c] = step
      /\ \A d \in Talks \ {c} : talk'[d] = talk[d]
  BY TurnStep DEF ToldInv
<1>2. ToldTyped'
  BY <1>1 DEF ToldInv, ToldTyped
<1>3. \A d \in Talks : FoundStill(d)'
  BY <1>1, FoundKept DEF ToldInv
<1>4. QuestionIsLast'
  BY <1>1 DEF ToldInv, QuestionIsLast, Asked
<1>5. Told!ForgottenWithItsChat'
  BY ForgetsKept DEF ToldInv
<1>6. Told!ReadsAsSaid'
  BY DEF ToldInv, Told!ReadsAsSaid
<1>7. QED
  BY <1>2, <1>3, <1>4, <1>5, <1>6 DEF ToldInv

(* A turn begins.                                                          *)
LEMMA BeginKeeps ==
    ASSUME ToldInv, ~mixed, NEW c \in Talks, NEW ws \in Told!Bindings, NEW keeps \in BOOLEAN,
           Told!Begin(c, ws, keeps)
    PROVE  ToldInv'
<1> DEFINE step == [at |-> "store", run |-> begun + 1, ws |-> ws, keeps |-> keeps]
<1>1. /\ begun < MaxTalks /\ begun' = begun + 1 /\ Told!Goto(c, step)
      /\ UNCHANGED <<session, transcript, memory, strokes, cut, mixed>>
  BY DEF Told!Begin
<1>2. begun \in Nat
  BY DEF ToldInv, ToldTyped
<1>3. begun + 1 \in 1 .. MaxTalks /\ ws \in Bindings
  BY <1>1, <1>2, Unshared DEF Told!Bindings, Told!None, Bindings
<1>4. step \in Steps
  BY <1>3 DEF Steps, Plains
<1>5. talk'[c] = step
  BY <1>1, <1>4, TurnStep DEF ToldInv
<1>6. FoundStill(c)' /\ ~Asked(c)'
  BY <1>5 DEF FoundStill, Asked
<1>7. begun' \in Nat
  BY <1>1, <1>2
<1>8. QED
  BY <1>1, <1>4, <1>6, <1>7, TurnKeeps

(* What a turn goes on with where it has nothing to write.                 *)
LEMMA AfterIs ==
    ASSUME ToldInv, NEW c \in Talks, talk[c].at \in {"capture", "curate", "keep"}
    PROVE  /\ Told!After(c) \in Steps /\ Told!After(c).at \in {"idle", "answer"}
           /\ Told!After(c).at = "answer" => Asked(c) /\ Told!After(c).run = talk[c].run
<1>1. CASE talk[c].at = "curate" \/ (talk[c].at = "keep" /\ talk[c].curated)
  <2>1. Told!After(c) = [at |-> "idle"]
    BY <1>1 DEF Told!After, Told!At, Told!Idle
  <2>2. QED
    BY <2>1 DEF Steps
<1>2. CASE ~(talk[c].at = "curate" \/ (talk[c].at = "keep" /\ talk[c].curated))
  <2>1. Told!After(c) = [at |-> "answer", run |-> talk[c].run, ws |-> talk[c].ws, keeps |-> talk[c].keeps]
    BY <1>2 DEF Told!After, Told!At, Told!Plain
  <2>2. talk[c].run \in 1 .. MaxTalks /\ talk[c].ws \in Bindings /\ talk[c].keeps \in BOOLEAN
    BY StepsAre DEF ToldInv, Plains, Writings
  <2>3. Told!After(c) \in Plains
    BY <2>1, <2>2 DEF Plains
  <2>4. Asked(c)
    BY <1>2 DEF Asked
  <2>5. QED
    BY <2>1, <2>3, <2>4 DEF Steps
<1>3. QED
  BY <1>1, <1>2

(* A turn is over, or goes on to its answer.                               *)
LEMMA OverKeeps ==
    ASSUME ToldInv, ~mixed, NEW c \in Talks, NEW step \in Steps, Told!Goto(c, step), step.at \in {"idle", "answer"},
           step.at = "answer" => Asked(c) /\ step.run = talk[c].run,
           UNCHANGED <<session, transcript, memory, begun, cut, mixed>>
    PROVE  ToldInv'
<1>1. talk'[c] = step
  BY TurnStep DEF ToldInv
<1>2. FoundStill(c)'
  BY <1>1 DEF FoundStill
<1>3. Asked(c)' => step.at = "answer"
  BY <1>1 DEF Asked
<1>4. step.at = "answer" /\ step.run \notin cut => EndsWith(transcript[c], step.run)
  BY DEF ToldInv, QuestionIsLast
<1>5. begun' \in Nat
  BY DEF ToldInv, ToldTyped
<1>6. QED
  BY <1>2, <1>3, <1>4, <1>5, TurnKeeps

(* A turn goes on with what it found, as a step of the kind.               *)
LEMMA KeepingKeeps ==
    ASSUME ToldInv, ~mixed, NEW c \in Talks, NEW step \in Writings, Told!Goto(c, step),
           step.curated => talk[c].at = "curate" \/ (talk[c].at = "keep" /\ talk[c].curated),
           ~step.curated => talk[c].at = "capture" \/ (talk[c].at = "keep" /\ ~talk[c].curated),
           step.run = talk[c].run,
           ~step.raced =>
               /\ step.draft.how = "automatic" => session[c].stored /\ session[c].ws = step.draft.ws
               /\ step.into = "none" /\ step.to # "content" => NoSuchContent(step.draft)
               /\ step.into = "none" /\ step.to = "write" /\ step.draft.how = "automatic" =>
                      NoSuchTitle(step.draft)
               /\ step.into # "none" =>
                      memory[step.into] # Told!Absent /\ memory[step.into].ws = step.draft.ws,
           UNCHANGED <<session, transcript, memory, begun, cut, mixed>>
    PROVE  ToldInv'
<1>1. step \in Steps /\ step.at = "keep"
  BY DEF Steps, Writings
<1>2. talk'[c] = step
  BY <1>1, TurnStep DEF ToldInv
<1>3. FoundStill(c)'
  BY <1>2 DEF FoundStill, NoSuchContent, NoSuchTitle, Told!Absent
<1>4. Asked(c)' => Asked(c)
  BY <1>2 DEF Asked, Writings
<1>5. Asked(c)' /\ step.run \notin cut => EndsWith(transcript[c], step.run)
  BY <1>4 DEF ToldInv, QuestionIsLast
<1>6. begun' \in Nat
  BY DEF ToldInv, ToldTyped
<1>7. QED
  BY <1>1, <1>3, <1>5, <1>6, TurnKeeps

(* What is not found, by its content or its title, is not kept.            *)
LEMMA NotFound ==
    ASSUME NEW d
    PROVE  /\ Told!OfContent(d) = {} => NoSuchContent(d)
           /\ Told!OfTitle(d) = {} => NoSuchTitle(d)
BY DEF Told!OfContent, Told!OfTitle, Told!Same, Told!Held, NoSuchContent, NoSuchTitle

(* A turn looks for the content, or whether the chat is still its own.     *)
LEMMA FirstLookKeeps ==
    ASSUME ToldInv, ~mixed, NEW c \in Talks, NEW d \in Drafts, Told!FirstLook(c, d),
           talk[c].at \in {"capture", "curate"},
           UNCHANGED <<session, transcript, memory, begun, cut, mixed>>
    PROVE  ToldInv'
<1> DEFINE to == IF d.how = "explicit" THEN "write" ELSE "content"
           step == [at |-> "keep", run |-> talk[c].run, ws |-> talk[c].ws,
                    keeps |-> talk[c].keeps, curated |-> (talk[c].at = "curate"), draft |-> d,
                    to |-> to, into |-> "none", raced |-> FALSE]
<1>1. CASE Told!Goto(c, Told!After(c))
  BY <1>1, AfterIs, OverKeeps
<1>2. CASE /\ Told!Goto(c, step)
           /\ IF d.how = "explicit" THEN Told!OfContent(d) = {} ELSE Told!ChatAgrees(c, d)
  <2>1. talk[c].run \in 1 .. MaxTalks /\ talk[c].ws \in Bindings /\ talk[c].keeps \in BOOLEAN
    BY StepsAre DEF ToldInv, Plains
  <2>2. step \in Writings
    BY <2>1 DEF Writings
  <2>3. d.how = "automatic" => session[c].stored /\ session[c].ws = d.ws
    BY <1>2 DEF Told!ChatAgrees
  <2>4. d.how = "explicit" => NoSuchContent(d)
    BY <1>2, NotFound
  <2>5. d.how \in {"explicit", "automatic"}
    BY DEF Drafts
  <2>6. /\ step.run = talk[c].run /\ step.curated = (talk[c].at = "curate") /\ step.draft = d
        /\ step.into = "none" /\ step.to = to
    OBVIOUS
  <2> HIDE DEF step
  <2>7. QED
    BY <1>2, <2>2, <2>3, <2>4, <2>5, <2>6, KeepingKeeps
<1>3. QED
  BY <1>1, <1>2 DEF Told!FirstLook, Told!At, Told!None

(* A turn looks for the content, then for the title, of what it picked.    *)
LEMMA LaterLooksKeep ==
    ASSUME ToldInv, ~mixed, NEW c \in Talks, Told!LookForContent(c) \/ Told!LookForTitle(c)
    PROVE  ToldInv'
<1> DEFINE now == talk[c]
           d == talk[c].draft
<1>1. now \in Writings /\ now.at = "keep" /\ now.to \in {"content", "title"}
  BY StepsAre DEF ToldInv, Told!LookForContent, Told!LookForTitle, Told!To, Told!At
<1>2. UNCHANGED <<session, transcript, memory, begun, cut, mixed>>
  BY DEF Told!LookForContent, Told!LookForTitle
<1>3. FoundStill(c)
  BY DEF ToldInv
<1>4. CASE Told!Goto(c, Told!After(c))
  BY <1>1, <1>2, <1>4, AfterIs, OverKeeps
<1>5. CASE /\ now.to = "content" /\ Told!OfContent(d) = {}
           /\ Told!Goto(c, [talk[c] EXCEPT !.to = "title"])
  <2> DEFINE step == [talk[c] EXCEPT !.to = "title"]
  <2>1. /\ step \in Writings /\ step.run = now.run /\ step.curated = now.curated /\ step.draft = d
        /\ step.into = now.into /\ step.raced = now.raced /\ step.to = "title"
    BY <1>1 DEF Writings
  <2>2. NoSuchContent(d)
    BY <1>5, NotFound
  <2>3. now.curated \in BOOLEAN
    BY <1>1 DEF Writings
  <2> HIDE DEF step
  <2>4. Told!Goto(c, step)
    BY <1>5 DEF step
  <2>5. QED
    BY <1>1, <1>2, <1>3, <2>1, <2>2, <2>3, <2>4, KeepingKeeps DEF FoundStill
<1>6. CASE /\ now.to = "title" /\ Told!OfTitle(d) = {}
           /\ Told!Goto(c, [talk[c] EXCEPT !.to = "write"])
  <2> DEFINE step == [talk[c] EXCEPT !.to = "write"]
  <2>1. /\ step \in Writings /\ step.run = now.run /\ step.curated = now.curated /\ step.draft = d
        /\ step.into = now.into /\ step.raced = now.raced /\ step.to = "write"
    BY <1>1 DEF Writings
  <2>2. NoSuchTitle(d)
    BY <1>6, NotFound
  <2>3. now.curated \in BOOLEAN
    BY <1>1 DEF Writings
  <2> HIDE DEF step
  <2>4. Told!Goto(c, step)
    BY <1>6 DEF step
  <2>5. QED
    BY <1>1, <1>2, <1>3, <1>6, <2>1, <2>2, <2>3, <2>4, KeepingKeeps DEF FoundStill
<1>7. ASSUME now.to = "title", NEW id \in Told!OfTitle(d),
             Told!Goto(c, [talk[c] EXCEPT !.to = "write", !.into = id])
      PROVE  ToldInv'
  <2> DEFINE step == [talk[c] EXCEPT !.to = "write", !.into = id]
  <2>1. /\ id \in Slots /\ memory[id] # Told!Absent /\ memory[id].ws = d.ws
    BY DEF Told!OfTitle, Told!Same, Told!Held
  <2>2. /\ step \in Writings /\ step.run = now.run /\ step.curated = now.curated /\ step.draft = d
        /\ step.into = id /\ step.raced = now.raced /\ step.to = "write"
    BY <1>1, <2>1 DEF Writings
  <2>3. id # "none" /\ now.curated \in BOOLEAN
    BY <1>1, <2>1, Unshared DEF Writings
  <2> HIDE DEF step
  <2>4. Told!Goto(c, step)
    BY <1>7 DEF step
  <2>5. QED
    BY <1>1, <1>2, <1>3, <2>1, <2>2, <2>3, <2>4, KeepingKeeps DEF FoundStill
<1>8. QED
  BY <1>1, <1>4, <1>5, <1>6, <1>7 DEF Told!LookForContent, Told!LookForTitle, Told!To

(* What the operator asked to be kept is captured.                         *)
LEMMA CaptureKeeps ==
    ASSUME ToldInv, ~mixed, NEW c \in Talks, Told!Capture(c) \/ Told!Curate(c) \/ Told!Fail(c)
    PROVE  ToldInv'
<1>1. Told!Draft = Drafts
  BY DEF Told!Draft, Drafts, Told!Bindings, Told!None, Bindings
<1>2. UNCHANGED <<session, transcript, memory, begun, cut, mixed>>
  BY DEF Told!Capture, Told!Curate, Told!Fail
<1>3. CASE Told!Capture(c)
  BY <1>1, <1>2, <1>3, FirstLookKeeps, AfterIs, OverKeeps DEF Told!Capture, Told!At
<1>4. CASE Told!Curate(c) \/ Told!Fail(c)
  <2>1. [at |-> "idle"] \in Steps /\ Told!Idle = [at |-> "idle"]
    BY DEF Steps, Told!Idle
  <2>2. CASE Told!Goto(c, Told!Idle)
    BY <1>2, <2>1, <2>2, OverKeeps
  <2>3. QED
    BY <1>1, <1>2, <1>4, <2>2, FirstLookKeeps DEF Told!Curate, Told!Fail, Told!At
<1>5. QED
  BY <1>3, <1>4

(* The question is stored, at the end of what is said.                     *)
LEMMA StoreMessageKeeps ==
    ASSUME ToldInv, ~mixed, NEW c \in Talks, Told!StoreMessage(c)
    PROVE  ToldInv'
<1> DEFINE row == [who |-> "user", run |-> talk[c].run, drawn |-> 0]
           at == IF talk[c].keeps THEN "capture" ELSE "answer"
           step == [at |-> at, run |-> talk[c].run, ws |-> talk[c].ws, keeps |-> talk[c].keeps]
           bound == [ws |-> IF talk[c].ws = "none" THEN session[c].ws ELSE talk[c].ws,
                     keeps |-> talk[c].keeps, stored |-> TRUE]
<1>1. /\ talk[c].at = "store" /\ session' = [session EXCEPT ![c] = bound]
      /\ transcript' = [transcript EXCEPT ![c] = Append(transcript[c], row)]
      /\ Told!Goto(c, step)
      /\ UNCHANGED <<memory, begun, cut, mixed>>
  BY DEF Told!StoreMessage, Told!At, Told!None, Told!Step, Told!Plain
<1>2. talk[c].run \in 1 .. MaxTalks /\ talk[c].ws \in Bindings /\ talk[c].keeps \in BOOLEAN
  BY <1>1, StepsAre DEF ToldInv, Plains
<1>3. step \in Steps
  BY <1>2 DEF Steps, Plains
<1>4. /\ talk' \in [Talks -> Steps] /\ talk'[c] = step
      /\ \A d \in Talks \ {c} : talk'[d] = talk[d]
  BY <1>1, <1>3, TurnStep DEF ToldInv
<1>5. row \in Rows
  BY <1>2 DEF Rows
<1>6. transcript[c] \in Seq(Rows) /\ Saying(transcript[c], cut)
  BY ReadsIsSaying DEF ToldInv, ToldTyped
<1>7. /\ Append(transcript[c], row) \in Seq(Rows) /\ Saying(Append(transcript[c], row), cut)
      /\ EndsWith(Append(transcript[c], row), talk[c].run)
  <2> DEFINE r == row
  <2>1. r \in Rows /\ r.drawn = 0 /\ r.who = "user" /\ r.run = talk[c].run
    BY <1>5
  <2> HIDE DEF r
  <2>2. QED
    <3>1. /\ Append(transcript[c], r) \in Seq(Rows) /\ Saying(Append(transcript[c], r), cut)
          /\ EndsWith(Append(transcript[c], r), talk[c].run)
      BY <1>6, <2>1, SaidMore
    <3>2. QED
      BY <3>1 DEF r
<1> DEFINE more == Append(transcript[c], row)
<1> HIDE DEF more
<1>8. /\ transcript' \in [Talks -> Seq(Rows)] /\ transcript'[c] = more
      /\ \A d \in Talks \ {c} : transcript'[d] = transcript[d]
  BY <1>1, <1>7 DEF ToldInv, ToldTyped, more
<1>9. /\ session' \in [Talks -> [ws : Bindings, keeps : BOOLEAN, stored : BOOLEAN]]
      /\ session'[c].stored /\ \A d \in Talks \ {c} : session'[d] = session[d]
  <2>1. session \in [Talks -> [ws : Bindings, keeps : BOOLEAN, stored : BOOLEAN]]
    BY DEF ToldInv, ToldTyped
  <2>2. bound \in [ws : Bindings, keeps : BOOLEAN, stored : BOOLEAN] /\ bound.stored
    BY <1>2, <2>1
  <2> HIDE DEF bound
  <2>3. QED
    BY <1>1, <2>1, <2>2
<1> HIDE DEF row, bound
<1>10. ToldTyped'
  BY <1>1, <1>4, <1>8, <1>9 DEF ToldInv, ToldTyped
<1>11. \A d \in Talks : FoundStill(d)'
  <2>1. \A d \in Talks \ {c} : FoundStill(d)'
    BY <1>1, <1>4, <1>9, FoundKept DEF ToldInv
  <2>2. FoundStill(c)'
    BY <1>4 DEF FoundStill
  <2>3. QED
    BY <2>1, <2>2
<1>12. QuestionIsLast'
  BY <1>1, <1>4, <1>7, <1>8 DEF ToldInv, QuestionIsLast, Asked, more
<1>13. Told!ForgottenWithItsChat'
  BY <1>1, <1>9, ForgetsKept DEF ToldInv
<1>14. Told!ReadsAsSaid'
  <2>1. \A d \in Talks : Saying(transcript[d], cut)
    BY ReadsIsSaying DEF ToldInv, ToldTyped
  <2>2. \A d \in Talks : Saying(transcript'[d], cut')
    BY <1>1, <1>7, <1>8, <2>1 DEF more
  <2>3. QED
    BY <1>8, <2>2, SayingReads
<1>15. QED
  BY <1>10, <1>11, <1>12, <1>13, <1>14 DEF ToldInv

(* The answer is stored, and follows its question, or the question was cut *)
(* off.                                                                    *)
LEMMA AnswerKeeps ==
    ASSUME ToldInv, ~mixed, NEW c \in Talks, Told!Answer(c)
    PROVE  ToldInv'
<1> DEFINE row == [who |-> "agent", run |-> talk[c].run, drawn |-> 0]
           step == IF talk[c].keeps
                   THEN [at |-> "curate", run |-> talk[c].run, ws |-> talk[c].ws, keeps |-> talk[c].keeps]
                   ELSE [at |-> "idle"]
           more == IF session[c].stored THEN Append(transcript[c], row) ELSE transcript[c]
<1>1. /\ talk[c].at = "answer" /\ Told!Goto(c, step)
      /\ transcript' = [transcript EXCEPT ![c] = more]
      /\ UNCHANGED <<session, memory, begun, cut, mixed>>
  BY DEF Told!Answer, Told!At, Told!Step, Told!Plain, Told!Idle
<1>2. talk[c].run \in 1 .. MaxTalks /\ talk[c].ws \in Bindings /\ talk[c].keeps \in BOOLEAN
  BY <1>1, StepsAre DEF ToldInv, Plains
<1>3. step \in Steps /\ step.at \in {"curate", "idle"}
  BY <1>2 DEF Steps, Plains
<1>4. /\ talk' \in [Talks -> Steps] /\ talk'[c] = step
      /\ \A d \in Talks \ {c} : talk'[d] = talk[d]
  <2> HIDE DEF step
  <2>1. QED
    BY <1>1, <1>3, TurnStep DEF ToldInv
<1>5. transcript[c] \in Seq(Rows) /\ Saying(transcript[c], cut)
  BY ReadsIsSaying DEF ToldInv, ToldTyped
<1>6. talk[c].run \notin cut => EndsWith(transcript[c], talk[c].run)
  BY <1>1 DEF ToldInv, QuestionIsLast, Asked
<1>7. Append(transcript[c], row) \in Seq(Rows) /\ Saying(Append(transcript[c], row), cut)
  <2> DEFINE r == row
  <2>1. r \in Rows /\ r.drawn = 0 /\ r.who = "agent" /\ r.run = talk[c].run
    BY <1>2 DEF Rows
  <2>2. Append(transcript[c], r) \in Seq(Rows) /\ Saying(Append(transcript[c], r), cut)
    <3> HIDE DEF r
    <3>1. QED
      BY <1>5, <1>6, <2>1, SaidMore
  <2>3. QED
    BY <2>2
<1>8. more \in Seq(Rows) /\ Saying(more, cut)
  BY <1>5, <1>7
<1> HIDE DEF more, step
<1>9. /\ transcript' \in [Talks -> Seq(Rows)] /\ transcript'[c] = more
      /\ \A d \in Talks \ {c} : transcript'[d] = transcript[d]
  BY <1>1, <1>8 DEF ToldInv, ToldTyped
<1>10. ToldTyped'
  BY <1>1, <1>4, <1>9 DEF ToldInv, ToldTyped
<1>11. \A d \in Talks : FoundStill(d)'
  <2>1. \A d \in Talks \ {c} : FoundStill(d)'
    BY <1>1, <1>4, FoundKept DEF ToldInv
  <2>2. FoundStill(c)'
    BY <1>3, <1>4 DEF FoundStill
  <2>3. QED
    BY <2>1, <2>2
<1>12. QuestionIsLast'
  BY <1>1, <1>3, <1>4, <1>9 DEF ToldInv, QuestionIsLast, Asked
<1>13. Told!ForgottenWithItsChat'
  BY <1>1, ForgetsKept DEF ToldInv
<1>14. Told!ReadsAsSaid'
  <2>1. \A d \in Talks : Saying(transcript[d], cut)
    BY ReadsIsSaying DEF ToldInv, ToldTyped
  <2>2. \A d \in Talks : Saying(transcript'[d], cut')
    BY <1>1, <1>8, <1>9, <2>1
  <2>3. QED
    BY <1>9, <2>2, SayingReads
<1>15. QED
  BY <1>10, <1>11, <1>12, <1>13, <1>14 DEF ToldInv

(* The activity of a run that is over is drawn under its answers.          *)
LEMMA StoreActivityKeeps ==
    ASSUME ToldInv, NEW c \in Talks, NEW r \in 1 .. MaxTalks, Told!StoreActivity(c, r)
    PROVE  ToldInv'
<1> DEFINE rows == transcript[c]
           drawn == [i \in DOMAIN rows |->
                        IF rows[i].who = "agent" /\ rows[i].run = r
                        THEN [rows[i] EXCEPT !.drawn = r] ELSE rows[i]]
<1>1. /\ transcript' = [transcript EXCEPT ![c] = drawn]
      /\ UNCHANGED <<session, memory, talk, begun, cut, mixed>>
  BY DEF Told!StoreActivity
<1>2. rows \in Seq(Rows) /\ Saying(rows, cut)
  BY ReadsIsSaying DEF ToldInv, ToldTyped
<1> HIDE DEF rows
<1>3. /\ drawn \in Seq(Rows) /\ Saying(drawn, cut)
      /\ \A run : EndsWith(rows, run) => EndsWith(drawn, run)
  BY <1>2, SaidDrawn
<1> HIDE DEF drawn
<1>4. /\ transcript' \in [Talks -> Seq(Rows)] /\ transcript'[c] = drawn
      /\ \A d \in Talks \ {c} : transcript'[d] = transcript[d]
  BY <1>1, <1>3 DEF ToldInv, ToldTyped
<1>5. ToldTyped'
  BY <1>1, <1>4 DEF ToldInv, ToldTyped
<1>6. \A d \in Talks : FoundStill(d) => FoundStill(d)'
  BY <1>1, FoundKept
<1>7. QuestionIsLast'
  BY <1>1, <1>3, <1>4 DEF ToldInv, QuestionIsLast, Asked, rows
<1>8. Told!ForgottenWithItsChat'
  BY <1>1, ForgetsKept DEF ToldInv
<1>9. Told!ReadsAsSaid'
  <2>1. \A d \in Talks : Saying(transcript[d], cut)
    BY ReadsIsSaying DEF ToldInv, ToldTyped
  <2>2. \A d \in Talks : Saying(transcript'[d], cut')
    BY <1>1, <1>3, <1>4, <2>1
  <2>3. QED
    BY <1>4, <2>2, SayingReads
<1>10. QED
  BY <1>1, <1>5, <1>6, <1>7, <1>8, <1>9 DEF ToldInv

(* An edit cuts off what was said after it.                                *)
LEMMA EditMessageKeeps ==
    ASSUME ToldInv, NEW c \in Talks, Told!Edit(c)
    PROVE  ToldInv'
<1>1. transcript \in [Talks -> Seq(Rows)] /\ \A d \in Talks : Saying(transcript[d], cut)
  BY ReadsIsSaying DEF ToldInv, ToldTyped
<1>2. PICK i \in 1 .. Len(transcript[c]) :
          transcript' = [transcript EXCEPT ![c] = SubSeq(transcript[c], 1, i - 1)]
  <2>1. DOMAIN transcript[c] = 1 .. Len(transcript[c])
    BY <1>1
  <2>2. QED
    BY <2>1 DEF Told!Edit, Told!Retained
<1>3. /\ cut' = cut \union Told!Under(c) /\ UNCHANGED <<session, memory, talk, begun, mixed>>
  BY DEF Told!Edit
<1> DEFINE less == SubSeq(transcript[c], 1, i - 1)
<1>4. less \in Seq(Rows) /\ Saying(less, cut)
  BY <1>1, SaidBefore
<1> HIDE DEF less
<1>5. /\ transcript' \in [Talks -> Seq(Rows)] /\ transcript'[c] = less
      /\ \A d \in Talks \ {c} : transcript'[d] = transcript[d]
  BY <1>1, <1>2, <1>4 DEF less
<1>6. ToldTyped'
  BY <1>3, <1>5 DEF ToldInv, ToldTyped
<1>7. \A d \in Talks : FoundStill(d) => FoundStill(d)'
  BY <1>3, FoundKept
<1>8. QuestionIsLast'
  <2>1. Asked(c) => talk[c].run \in cut'
    BY <1>3 DEF Told!Under, Told!At, Asked
  <2>2. QED
    BY <1>3, <1>5, <2>1 DEF ToldInv, QuestionIsLast, Asked
<1>9. Told!ForgottenWithItsChat'
  BY <1>3, ForgetsKept DEF ToldInv
<1>10. Told!ReadsAsSaid'
  <2>1. \A d \in Talks : Saying(transcript'[d], cut)
    BY <1>1, <1>4, <1>5
  <2>2. \A d \in Talks : Saying(transcript'[d], cut')
    BY <1>3, <2>1 DEF Saying
  <2>3. QED
    BY <1>5, <2>2, SayingReads
<1>11. QED
  BY <1>3, <1>6, <1>7, <1>8, <1>9, <1>10 DEF ToldInv

(* A change to what is kept marks the turns that are about to write, and   *)
(* changes nothing else of them.                                           *)
LEMMA DisturbsAre ==
    ASSUME ToldTyped, NEW x
    PROVE  /\ Told!Disturbs(x) \in [Talks -> Steps]
           /\ \A d \in Talks : /\ Told!Disturbs(x)[d].at = talk[d].at
                               /\ Told!Disturbs(x)[d].run = talk[d].run
                               /\ Told!Disturbs(x)[d].curated = talk[d].curated
                               /\ d # x /\ talk[d].at = "keep" => Told!Disturbs(x)[d].raced
<1> SUFFICES ASSUME NEW d \in Talks
             PROVE  /\ Told!Disturbs(x)[d] \in Steps
                    /\ Told!Disturbs(x)[d].at = talk[d].at
                    /\ Told!Disturbs(x)[d].run = talk[d].run
                    /\ Told!Disturbs(x)[d].curated = talk[d].curated
                    /\ d # x /\ talk[d].at = "keep" => Told!Disturbs(x)[d].raced
  BY DEF Told!Disturbs
<1>1. Told!Disturbs(x)[d] = IF d # x /\ talk[d].at = "keep" THEN [talk[d] EXCEPT !.raced = TRUE] ELSE talk[d]
  BY DEF Told!Disturbs, Told!At
<1>2. talk[d] \in Steps
  BY DEF ToldTyped
<1>3. CASE d # x /\ talk[d].at = "keep"
  <2>1. talk[d] \in Writings
    BY <1>3, StepsAre
  <2>2. /\ [talk[d] EXCEPT !.raced = TRUE] \in Writings
        /\ [talk[d] EXCEPT !.raced = TRUE].at = talk[d].at
        /\ [talk[d] EXCEPT !.raced = TRUE].run = talk[d].run
        /\ [talk[d] EXCEPT !.raced = TRUE].curated = talk[d].curated
        /\ [talk[d] EXCEPT !.raced = TRUE].raced
    BY <2>1 DEF Writings
  <2>3. QED
    BY <1>1, <1>3, <2>2 DEF Steps
<1>4. CASE ~(d # x /\ talk[d].at = "keep")
  BY <1>1, <1>2, <1>4
<1>5. QED
  BY <1>3, <1>4

(* What the operator's hand does beside the turns is noted by those that   *)
(* have looked.                                                            *)
LEMMA HandKeeps ==
    ASSUME ToldInv, talk' = Told!Disturbs("none"),
           session' \in [Talks -> [ws : Bindings, keeps : BOOLEAN, stored : BOOLEAN]],
           memory' \in [Slots -> Entries \union {Told!Absent}],
           UNCHANGED <<begun, mixed>>,
           transcript' \in [Talks -> Seq(Rows)],
           \A c \in Talks : Saying(transcript'[c], cut'),
           \A c \in Talks : \/ transcript'[c] = transcript[c] /\ (talk[c].run \notin cut' => talk[c].run \notin cut)
                            \/ Asked(c) => talk[c].run \in cut',
           Told!ForgottenWithItsChat'
    PROVE  ToldInv'
<1>1. /\ talk' \in [Talks -> Steps]
      /\ \A d \in Talks : /\ talk'[d].at = talk[d].at /\ talk'[d].run = talk[d].run
                          /\ talk'[d].curated = talk[d].curated
                          /\ talk[d].at = "keep" => talk'[d].raced
  BY DisturbsAre, Unshared DEF ToldInv
<1>2. ToldTyped'
  BY <1>1 DEF ToldInv, ToldTyped, Told!Absent
<1>3. \A d \in Talks : FoundStill(d)'
  BY <1>1 DEF FoundStill
<1>4. QuestionIsLast'
  BY <1>1 DEF ToldInv, QuestionIsLast, Asked
<1>5. QED
  BY <1>2, <1>3, <1>4, SayingReads DEF ToldInv

(* A chat is deleted, with what was learned from it.                       *)
LEMMA DeleteChatKeeps ==
    ASSUME ToldInv, NEW c \in Talks, Told!DeleteChat(c)
    PROVE  ToldInv'
<1>1. /\ session' = [session EXCEPT ![c] = [ws |-> "none", keeps |-> FALSE, stored |-> FALSE]]
      /\ transcript' = [transcript EXCEPT ![c] = <<>>]
      /\ memory' = Told!Kept(c) /\ cut' = cut \union Told!Under(c)
      /\ talk' = Told!Disturbs("none") /\ UNCHANGED <<begun, mixed>>
  BY DEF Told!DeleteChat, Told!Unbound, Told!None
<1>2. /\ session' \in [Talks -> [ws : Bindings, keeps : BOOLEAN, stored : BOOLEAN]]
      /\ \A d \in Talks \ {c} : session'[d] = session[d]
  BY <1>1 DEF ToldInv, ToldTyped, Bindings
<1>3. /\ memory' \in [Slots -> Entries \union {Told!Absent}]
      /\ \A id \in Slots : memory'[id] = Told!Absent \/ (memory'[id] = memory[id] /\ memory[id].src # c)
  BY <1>1 DEF ToldInv, ToldTyped, Told!Kept, Told!Held
<1>4. transcript \in [Talks -> Seq(Rows)] /\ \A d \in Talks : Saying(transcript[d], cut)
  BY ReadsIsSaying DEF ToldInv, ToldTyped
<1>5. /\ transcript' \in [Talks -> Seq(Rows)] /\ Len(transcript'[c]) = 0
      /\ \A d \in Talks \ {c} : transcript'[d] = transcript[d]
  BY <1>1, <1>4
<1>6. \A d \in Talks : Saying(transcript'[d], cut')
  <2>1. Saying(transcript'[c], cut')
    BY <1>5 DEF Saying
  <2>2. \A d \in Talks \ {c} : Saying(transcript'[d], cut')
    BY <1>1, <1>4, <1>5 DEF Saying
  <2>3. QED
    BY <2>1, <2>2
<1>7. Asked(c) => talk[c].run \in cut'
  BY <1>1 DEF Told!Under, Told!At, Asked
<1>8. Told!ForgottenWithItsChat'
  <2>1. \A id \in Slots, d \in Talks : memory[id] # Told!Absent /\ memory[id].src = d /\ ~mixed => session[d].stored
    BY DEF ToldInv, Told!ForgottenWithItsChat, Told!Held
  <2>2. Told!Absent' = Told!Absent
    BY DEF Told!Absent
  <2>3. \A id \in Slots, d \in Talks : memory'[id] # Told!Absent /\ memory'[id].src = d /\ ~mixed => session'[d].stored
    BY <1>2, <1>3, <2>1
  <2>4. QED
    BY <1>1, <2>2, <2>3 DEF Told!ForgottenWithItsChat, Told!Held
<1>9. \A d \in Talks : \/ transcript'[d] = transcript[d] /\ (talk[d].run \notin cut' => talk[d].run \notin cut)
                       \/ Asked(d) => talk[d].run \in cut'
  BY <1>1, <1>5, <1>7
<1>10. QED
  BY <1>1, <1>2, <1>3, <1>5, <1>6, <1>8, <1>9, HandKeeps

(* A chat is bound to another workspace.                                   *)
LEMMA RebindKeeps ==
    ASSUME ToldInv, NEW c \in Talks, NEW ws \in Told!Bindings, Told!Rebind(c, ws)
    PROVE  ToldInv'
<1>1. /\ session' = [session EXCEPT ![c].ws = ws] /\ talk' = Told!Disturbs("none")
      /\ UNCHANGED <<transcript, memory, begun, cut, mixed>> /\ ws \in Bindings
  BY DEF Told!Rebind, Told!None, Told!Bindings, Bindings
<1>2. /\ session' \in [Talks -> [ws : Bindings, keeps : BOOLEAN, stored : BOOLEAN]]
      /\ \A d \in Talks : session'[d].stored = session[d].stored
  BY <1>1 DEF ToldInv, ToldTyped
<1>3. transcript \in [Talks -> Seq(Rows)] /\ \A d \in Talks : Saying(transcript[d], cut)
  BY ReadsIsSaying DEF ToldInv, ToldTyped
<1>4. Told!ForgottenWithItsChat'
  BY <1>1, <1>2, ForgetsKept DEF ToldInv
<1>5. memory' \in [Slots -> Entries \union {Told!Absent}]
  BY <1>1 DEF ToldInv, ToldTyped
<1>6. QED
  BY <1>1, <1>2, <1>3, <1>4, <1>5, HandKeeps

(* A memory is changed by hand.                                            *)
LEMMA ByHandKeeps ==
    ASSUME ToldInv, NEW id \in Slots, NEW next \in Entries \union {Told!Absent}, Told!ByHand(id, next),
           next = Told!Absent \/ next.src = "none" \/ (memory[id] # Told!Absent /\ next.src = memory[id].src)
    PROVE  ToldInv'
<1>1. /\ memory' = [memory EXCEPT ![id] = next] /\ talk' = Told!Disturbs("none")
      /\ UNCHANGED <<session, transcript, begun, cut, mixed>>
  BY DEF Told!ByHand, Told!None
<1>2. /\ memory' \in [Slots -> Entries \union {Told!Absent}] /\ memory'[id] = next
      /\ \A x \in Slots \ {id} : memory'[x] = memory[x]
  BY <1>1 DEF ToldInv, ToldTyped
<1>3. transcript \in [Talks -> Seq(Rows)] /\ \A d \in Talks : Saying(transcript[d], cut)
  BY ReadsIsSaying DEF ToldInv, ToldTyped
<1>4. Told!ForgottenWithItsChat'
  <2>1. \A x \in Slots, d \in Talks : memory[x] # Told!Absent /\ memory[x].src = d /\ ~mixed => session[d].stored
    BY DEF ToldInv, Told!ForgottenWithItsChat, Told!Held
  <2>2. Told!Absent' = Told!Absent
    BY DEF Told!Absent
  <2>3. \A x \in Slots, d \in Talks : memory'[x] # Told!Absent /\ memory'[x].src = d /\ ~mixed => session[d].stored
    BY <1>2, <2>1, Unshared
  <2>4. QED
    BY <1>1, <2>2, <2>3 DEF Told!ForgottenWithItsChat, Told!Held
<1>5. session' \in [Talks -> [ws : Bindings, keeps : BOOLEAN, stored : BOOLEAN]]
  BY <1>1 DEF ToldInv, ToldTyped
<1>6. QED
  BY <1>1, <1>2, <1>3, <1>4, <1>5, HandKeeps

(* Switched, removed, reworded or added.                                   *)
LEMMA HandsKeep ==
    ASSUME ToldInv, NEW id \in Slots
    PROVE  /\ Told!Switch(id) \/ Told!Remove(id) => ToldInv'
           /\ \A text \in Facts : Told!Reword(id, text) => ToldInv'
           /\ \A ws \in Told!Bindings, title \in Subjects, text \in Facts :
                  Told!AddByHand(id, ws, title, text) => ToldInv'
<1>0. memory[id] # Told!Absent => memory[id] \in Entries
  BY DEF ToldInv, ToldTyped
<1>1. ASSUME Told!Switch(id)
      PROVE  ToldInv'
  <2>1. /\ memory[id] # Told!Absent
        /\ Told!ByHand(id, [memory[id] EXCEPT !.on = ~memory[id].on])
    BY <1>1 DEF Told!Switch, Told!Held
  <2>2. /\ [memory[id] EXCEPT !.on = ~memory[id].on] \in Entries
        /\ [memory[id] EXCEPT !.on = ~memory[id].on].src = memory[id].src
    BY <1>0, <2>1 DEF Entries
  <2>3. QED
    BY <2>1, <2>2, ByHandKeeps
<1>2. ASSUME Told!Remove(id)
      PROVE  ToldInv'
  BY <1>2, ByHandKeeps DEF Told!Remove
<1>3. ASSUME NEW text \in Facts, Told!Reword(id, text)
      PROVE  ToldInv'
  <2>1. memory[id] # Told!Absent /\ Told!ByHand(id, [memory[id] EXCEPT !.text = text])
    BY <1>3 DEF Told!Reword, Told!Held
  <2>2. /\ [memory[id] EXCEPT !.text = text] \in Entries
        /\ [memory[id] EXCEPT !.text = text].src = memory[id].src
    BY <1>0, <2>1 DEF Entries
  <2>3. QED
    BY <2>1, <2>2, ByHandKeeps
<1>4. ASSUME NEW ws \in Told!Bindings, NEW title \in Subjects, NEW text \in Facts,
             Told!AddByHand(id, ws, title, text)
      PROVE  ToldInv'
  <2> DEFINE next == [ws |-> ws, title |-> title, text |-> text, on |-> TRUE, src |-> "none"]
  <2>1. Told!ByHand(id, next)
    BY <1>4 DEF Told!AddByHand, Told!None
  <2>2. next \in Entries /\ next.src = "none"
    BY DEF Entries, Told!Bindings, Told!None, Bindings
  <2> HIDE DEF next
  <2>3. QED
    BY <2>1, <2>2, ByHandKeeps
<1>5. QED
  BY <1>1, <1>2, <1>3, <1>4

(* What the write of a turn changes, and what it had found.                *)
LEMMA WriteEffect ==
    ASSUME ToldInv, ~mixed, NEW c \in Talks, Told!Write(c)
    PROVE  /\ talk[c] \in Writings /\ talk[c].to = "write"
           /\ UNCHANGED <<session, transcript, begun, cut>>
           /\ mixed' = (mixed \/ talk[c].raced \/ Told!Orphan(c))
           /\ talk' = [Told!Disturbs(c) EXCEPT ![c] = Told!After(c)]
           /\ \/ UNCHANGED memory /\ talk[c].into # "none" /\ memory[talk[c].into] = Told!Absent
              \/ /\ talk[c].into # "none" /\ memory[talk[c].into] # Told!Absent
                 /\ memory' = [memory EXCEPT ![talk[c].into] =
                        [memory[talk[c].into] EXCEPT !.text = talk[c].draft.text, !.src = c]]
              \/ /\ talk[c].into = "none"
                 /\ \E id \in Slots : /\ memory[id] = Told!Absent
                        /\ memory' = [memory EXCEPT ![id] =
                             [ws |-> talk[c].draft.ws, title |-> talk[c].draft.title,
                              text |-> talk[c].draft.text, on |-> TRUE, src |-> c]]
BY StepsAre DEF ToldInv, Told!Write, Told!To, Told!At, Told!None, Told!Held, Told!Patched

(* A turn writes what it learned, where it found it should.                *)
LEMMA WriteKeeps ==
    ASSUME ToldInv, ~mixed, NEW c \in Talks, Told!Write(c)
    PROVE  ToldInv'
<1> DEFINE d == talk[c].draft
           into == talk[c].into
<1>1. /\ talk[c] \in Writings /\ UNCHANGED <<session, transcript, begun, cut>>
      /\ mixed' = (mixed \/ talk[c].raced \/ Told!Orphan(c))
      /\ talk' = [Told!Disturbs(c) EXCEPT ![c] = Told!After(c)]
  BY WriteEffect
<1>2. d \in Drafts /\ into \in Slots \union {"none"} /\ talk[c].at = "keep"
  BY <1>1 DEF Writings
<1>3. \E id \in Slots : /\ memory' \in [Slots -> Entries \union {Told!Absent}]
                        /\ \A x \in Slots \ {id} : memory'[x] = memory[x]
                        /\ memory'[id] = memory[id] \/ memory'[id].src = c
  <2>1. CASE UNCHANGED memory /\ into # "none"
    BY <1>2, <2>1 DEF ToldInv, ToldTyped
  <2>2. CASE /\ into # "none" /\ memory[into] # Told!Absent
             /\ memory' = [memory EXCEPT ![into] = [memory[into] EXCEPT !.text = d.text, !.src = c]]
    <3>1. into \in Slots /\ memory[into] \in Entries
      BY <1>2, <2>2 DEF ToldInv, ToldTyped
    <3>2. /\ [memory[into] EXCEPT !.text = d.text, !.src = c] \in Entries
          /\ [memory[into] EXCEPT !.text = d.text, !.src = c].src = c
      BY <1>2, <3>1 DEF Entries, Drafts
    <3>3. /\ memory' \in [Slots -> Entries \union {Told!Absent}] /\ memory'[into].src = c
          /\ \A x \in Slots \ {into} : memory'[x] = memory[x]
      <4> HIDE DEF d, into
      <4>1. QED
        BY <2>2, <3>1, <3>2 DEF ToldInv, ToldTyped
    <3>4. QED
      BY <3>1, <3>3
  <2>3. ASSUME NEW id \in Slots,
               memory' = [memory EXCEPT ![id] =
                   [ws |-> d.ws, title |-> d.title, text |-> d.text, on |-> TRUE, src |-> c]]
        PROVE  /\ memory' \in [Slots -> Entries \union {Told!Absent}] /\ memory'[id].src = c
               /\ \A x \in Slots \ {id} : memory'[x] = memory[x]
    <3> DEFINE new == [ws |-> d.ws, title |-> d.title, text |-> d.text, on |-> TRUE, src |-> c]
    <3>1. new \in Entries /\ new.src = c
      BY <1>2 DEF Entries, Drafts
    <3> HIDE DEF new
    <3>2. memory' = [memory EXCEPT ![id] = new]
      BY <2>3 DEF new
    <3>3. QED
      BY <3>1, <3>2 DEF ToldInv, ToldTyped
  <2>4. QED
    BY <2>1, <2>2, <2>3, WriteEffect
<1>4. /\ Told!After(c) \in Steps /\ Told!After(c).at \in {"idle", "answer"}
      /\ Told!After(c).at = "answer" => Asked(c) /\ Told!After(c).run = talk[c].run
  BY <1>2, AfterIs
<1>5. /\ talk' \in [Talks -> Steps] /\ talk'[c] = Told!After(c)
      /\ \A x \in Talks \ {c} : talk'[x] = Told!Disturbs(c)[x]
  BY <1>1, <1>4, DisturbsAre DEF ToldInv
<1>6. \A x \in Talks \ {c} : /\ talk'[x].at = talk[x].at /\ talk'[x].run = talk[x].run
                             /\ talk'[x].curated = talk[x].curated
                             /\ talk[x].at = "keep" => talk'[x].raced
  BY <1>5, DisturbsAre DEF ToldInv
<1>7. mixed' \in BOOLEAN
  BY <1>1 DEF ToldInv, ToldTyped, Told!Orphan, Writings
<1>8. ToldTyped'
  BY <1>1, <1>3, <1>5, <1>7 DEF ToldInv, ToldTyped, Told!Absent
<1>9. \A x \in Talks : FoundStill(x)'
  BY <1>4, <1>5, <1>6 DEF FoundStill
<1>10. QuestionIsLast'
  <2>1. \A x \in Talks : Asked(x)' => Asked(x) /\ talk'[x].run = talk[x].run
    BY <1>4, <1>5, <1>6 DEF Asked
  <2>2. QED
    BY <1>1, <2>1 DEF ToldInv, QuestionIsLast
<1>11. Told!ForgottenWithItsChat'
  <2>1. ASSUME ~mixed' PROVE session[c].stored
    <3>1. ~talk[c].raced /\ ~Told!Orphan(c)
      BY <1>1, <2>1
    <3>2. d.how = "automatic" => session[c].stored
      BY <1>2, <3>1 DEF ToldInv, FoundStill
    <3>3. d.how = "explicit" => session[c].stored
      BY <3>1 DEF Told!Orphan
    <3>4. QED
      BY <1>2, <3>2, <3>3 DEF Drafts
  <2>2. \A x \in Slots, e \in Talks : memory[x] # Told!Absent /\ memory[x].src = e => session[e].stored
    BY DEF ToldInv, Told!ForgottenWithItsChat, Told!Held
  <2>3. Told!Absent' = Told!Absent
    BY DEF Told!Absent
  <2>4. ~mixed' => \A x \in Slots, e \in Talks :
            memory'[x] # Told!Absent /\ memory'[x].src = e => session[e].stored
    BY <1>3, <2>1, <2>2
  <2>5. QED
    BY <1>1, <2>3, <2>4 DEF Told!ForgottenWithItsChat, Told!Held
<1>12. Told!ReadsAsSaid'
  BY <1>1 DEF ToldInv, Told!ReadsAsSaid
<1>13. QED
  BY <1>8, <1>9, <1>10, <1>11, <1>12 DEF ToldInv

(* Every step of the turns and the operator keeps the invariant.           *)
LEMMA ToldStep == ASSUME ToldInv, ~mixed, Told!Next PROVE ToldInv'
<1>1. ASSUME NEW c \in Talks, Told!Turn(c)
      PROVE  ToldInv'
  BY <1>1, BeginKeeps, StoreMessageKeeps, CaptureKeeps, LaterLooksKeep, WriteKeeps, AnswerKeeps DEF Told!Turn
<1>2. ASSUME Told!Operator
      PROVE  ToldInv'
  <2>1. \A c \in Talks, r \in Told!Runs : Told!StoreActivity(c, r) => ToldInv'
    BY StoreActivityKeeps DEF Told!Runs
  <2>2. \A c \in Talks : /\ Told!Edit(c) \/ Told!DeleteChat(c) => ToldInv'
                         /\ \A ws \in Told!Bindings : Told!Rebind(c, ws) => ToldInv'
    BY EditMessageKeeps, DeleteChatKeeps, RebindKeeps
  <2>3. QED
    BY <1>2, <2>1, <2>2, HandsKeep DEF Told!Operator
<1>3. QED
  BY <1>1, <1>2 DEF Told!Next

(* So does every step of another part.                                     *)
LEMMA ToldUnmoved == ASSUME ToldInv, UNCHANGED toldVars PROVE ToldInv'
BY DEF toldVars, ToldInv, ToldTyped, FoundStill, NoSuchContent, NoSuchTitle, QuestionIsLast, Asked, Told!Absent, Told!ForgottenWithItsChat,
   Told!Held, Told!ReadsAsSaid

(* The invariant types what the run types.                                 *)
LEMMA ToldTypes == ToldInv => Told!TypeOK
<1> SUFFICES ASSUME ToldInv PROVE Told!TypeOK
  OBVIOUS
<1>1. ToldTyped
  BY DEF ToldInv
<1>2. \A id \in Slots : memory[id] # Told!Absent => memory[id] \in Entries
  BY <1>1 DEF ToldTyped
<1>3. \A c \in Talks : \A i \in DOMAIN transcript[c] : transcript[c][i] \in Rows
  BY <1>1 DEF ToldTyped
<1>4. QED
  BY <1>1, <1>2, <1>3 DEF ToldTyped, Told!TypeOK, Told!Bindings, Told!None, Bindings, Told!Held,
     Entries, Rows, Told!Runs

(* Only the write of a turn ends its writing.                              *)
LEMMA OnlyWriteWrites ==
    ASSUME ToldInv, Told!Next, NEW c \in Talks, Told!Writes(c)
    PROVE  Told!Write(c)
<1>1. Told!To(c, "write") /\ talk[c].at = "keep" /\ talk'[c].at # "keep"
  BY DEF Told!Writes, Told!To, Told!At
<1>2. talk \in [Talks -> Steps] /\ ToldTyped
  BY DEF ToldInv, ToldTyped
<1>3. ASSUME NEW d \in Talks, NEW step, Told!Goto(d, step), ~Told!To(d, "write")
      PROVE  FALSE
  BY <1>1, <1>2, <1>3 DEF Told!Goto
<1>4. ASSUME NEW x, talk' = Told!Disturbs(x)
      PROVE  FALSE
  BY <1>1, <1>2, <1>4, DisturbsAre
<1>5. ASSUME UNCHANGED talk PROVE FALSE
  BY <1>1, <1>5
<1>6. ASSUME NEW d \in Talks, Told!Turn(d)
      PROVE  Told!Write(c)
  <2>1. CASE Told!Write(d)
    <3>1. d = c
      <4>1. talk' = [Told!Disturbs(d) EXCEPT ![d] = Told!After(d)]
        BY <2>1 DEF Told!Write
      <4>2. d # c => talk'[c] = Told!Disturbs(d)[c]
        BY <1>2, <4>1, DisturbsAre
      <4>3. QED
        BY <1>1, <1>2, <4>2, DisturbsAre
    <3>2. QED
      BY <2>1, <3>1
  <2>2. CASE \E ws \in Told!Bindings, keeps \in BOOLEAN : Told!Begin(d, ws, keeps)
    BY <1>3, <2>2 DEF Told!Begin, Told!To, Told!At
  <2>3. CASE Told!StoreMessage(d)
    BY <1>3, <2>3 DEF Told!StoreMessage, Told!To, Told!At, Told!Step
  <2>4. CASE Told!Capture(d) \/ Told!Curate(d)
    BY <1>3, <2>4 DEF Told!Capture, Told!Curate, Told!FirstLook, Told!To, Told!At
  <2>5. CASE Told!Answer(d) \/ Told!Fail(d)
    BY <1>3, <2>5 DEF Told!Answer, Told!Fail, Told!To, Told!At, Told!Step
  <2>6. CASE Told!LookForContent(d) \/ Told!LookForTitle(d)
    BY <1>3, <2>6 DEF Told!LookForContent, Told!LookForTitle, Told!To
  <2>7. QED
    BY <1>6, <2>1, <2>2, <2>3, <2>4, <2>5, <2>6 DEF Told!Turn
<1>7. ~Told!Operator
  BY <1>4, <1>5 DEF Told!Operator, Told!Edit, Told!DeleteChat, Told!Rebind, Told!StoreActivity,
     Told!Switch, Told!Remove, Told!Reword, Told!AddByHand, Told!ByHand
<1>8. QED
  BY <1>6, <1>7 DEF Told!Next

(* A write leaves a memory that is off as off, and adds none with the words*)
(* of one that is kept.                                                    *)
LEMMA SwitchedOffStep ==
    ASSUME ToldInv, ~mixed, Told!Next, NEW id \in Slots, NEW c \in Talks, Told!Writes(c)
    PROVE  /\ Told!Held(id) /\ ~memory[id].on => memory'[id] = Told!Absent \/ ~memory'[id].on
           /\ ~Told!Held(id) /\ memory'[id] # Told!Absent /\ ~mixed' =>
                Told!OfContent(talk[c].draft) = {} /\
                (talk[c].draft.how = "automatic" => Told!OfTitle(talk[c].draft) = {})
<1> DEFINE d == talk[c].draft
           into == talk[c].into
<1>1. Told!Write(c)
  BY OnlyWriteWrites
<1>2. /\ talk[c] \in Writings /\ talk[c].to = "write"
      /\ mixed' = (mixed \/ talk[c].raced \/ Told!Orphan(c))
      /\ \/ UNCHANGED memory
         \/ /\ into # "none" /\ memory[into] # Told!Absent
            /\ memory' = [memory EXCEPT ![into] = [memory[into] EXCEPT !.text = d.text, !.src = c]]
         \/ /\ into = "none"
            /\ \E x \in Slots : /\ memory[x] = Told!Absent
                   /\ memory' = [memory EXCEPT ![x] =
                        [ws |-> d.ws, title |-> d.title, text |-> d.text, on |-> TRUE, src |-> c]]
  BY <1>1, WriteEffect
<1>3. memory \in [Slots -> Entries \union {Told!Absent}] /\ talk[c].at = "keep"
  BY <1>2 DEF ToldInv, ToldTyped, Writings
<1>4. ASSUME Told!Held(id), ~memory[id].on
      PROVE  memory'[id] = Told!Absent \/ ~memory'[id].on
  <2>1. memory[id] \in Entries /\ memory[id] # Told!Absent
    BY <1>3, <1>4 DEF Told!Held
  <2>2. CASE UNCHANGED memory
    BY <1>4, <2>2
  <2>3. CASE memory' = [memory EXCEPT ![into] = [memory[into] EXCEPT !.text = d.text, !.src = c]]
    <3>1. id # into => memory'[id] = memory[id]
      BY <1>3, <2>3
    <3>2. id = into => memory'[id] = [memory[id] EXCEPT !.text = d.text, !.src = c]
      BY <1>3, <2>3
    <3>3. [memory[id] EXCEPT !.text = d.text, !.src = c].on = memory[id].on
      BY <2>1 DEF Entries
    <3>4. QED
      BY <1>4, <3>1, <3>2, <3>3
  <2>4. CASE \E x \in Slots : /\ memory[x] = Told!Absent
                   /\ memory' = [memory EXCEPT ![x] =
                        [ws |-> d.ws, title |-> d.title, text |-> d.text, on |-> TRUE, src |-> c]]
    <3>1. memory'[id] = memory[id]
      BY <1>3, <2>1, <2>4
    <3>2. QED
      BY <1>4, <3>1
  <2>5. QED
    BY <1>2, <2>2, <2>3, <2>4
<1>5. ASSUME ~Told!Held(id), memory'[id] # Told!Absent, ~mixed'
      PROVE  Told!OfContent(d) = {} /\ (d.how = "automatic" => Told!OfTitle(d) = {})
  <2>1. memory[id] = Told!Absent /\ memory' # memory
    BY <1>5 DEF Told!Held
  <2>2. into = "none"
    <3>1. CASE into # "none"
      <4>1. memory[into] # Told!Absent /\ into # id
        BY <1>2, <2>1, <3>1
      <4>2. memory'[id] = memory[id]
        BY <1>2, <1>3, <2>1, <3>1, <4>1
      <4>3. QED
        BY <1>5, <2>1, <4>2
    <3>2. QED
      BY <3>1
  <2>3. \A x \in Slots : memory[x] # Told!Absent /\ memory[x].ws = d.ws =>
            /\ memory[x].text # d.text
            /\ d.how = "automatic" => memory[x].title # d.title
    BY <1>2, <1>3, <1>5, <2>2 DEF ToldInv, FoundStill, NoSuchContent, NoSuchTitle,
       Told!Orphan
  <2>4. QED
    BY <2>3 DEF Told!OfContent, Told!OfTitle, Told!Same, Told!Held
<1>6. QED
  BY <1>4, <1>5

(* What a turn learns by itself is written in the scope its chat has.      *)
LEMMA KeptInScopeStep ==
    ASSUME ToldInv, ~mixed, Told!Next, NEW id \in Slots, NEW c \in Talks,
           Told!Writes(c), talk[c].draft.how = "automatic", ~mixed', memory'[id] # memory[id]
    PROVE  memory'[id].ws = session[c].ws
<1> DEFINE d == talk[c].draft
           into == talk[c].into
<1>1. Told!Write(c)
  BY OnlyWriteWrites
<1>2. /\ talk[c] \in Writings /\ talk[c].to = "write"
      /\ mixed' = (mixed \/ talk[c].raced \/ Told!Orphan(c))
      /\ \/ UNCHANGED memory
         \/ /\ into # "none" /\ memory[into] # Told!Absent
            /\ memory' = [memory EXCEPT ![into] = [memory[into] EXCEPT !.text = d.text, !.src = c]]
         \/ /\ into = "none"
            /\ \E x \in Slots : /\ memory[x] = Told!Absent
                   /\ memory' = [memory EXCEPT ![x] =
                        [ws |-> d.ws, title |-> d.title, text |-> d.text, on |-> TRUE, src |-> c]]
  BY <1>1, WriteEffect
<1>3. memory \in [Slots -> Entries \union {Told!Absent}] /\ talk[c].at = "keep"
  BY <1>2 DEF ToldInv, ToldTyped, Writings
<1>4. /\ session[c].ws = d.ws
      /\ into # "none" => memory[into].ws = d.ws
  BY <1>2, <1>3 DEF ToldInv, FoundStill
<1>5. CASE into # "none"
  <2>1. memory' = [memory EXCEPT ![into] = [memory[into] EXCEPT !.text = d.text, !.src = c]]
        /\ memory[into] # Told!Absent
    BY <1>2, <1>5
  <2>2. id = into
    BY <1>3, <2>1
  <2>3. memory[id] \in Entries
    BY <1>3, <2>1, <2>2
  <2>4. memory'[id] = [memory[id] EXCEPT !.text = d.text, !.src = c]
    BY <1>3, <2>1, <2>2
  <2>5. [memory[id] EXCEPT !.text = d.text, !.src = c].ws = memory[id].ws
    BY <2>3 DEF Entries
  <2>6. QED
    BY <1>4, <1>5, <2>2, <2>4, <2>5
<1>6. CASE into = "none"
  <2> DEFINE new == [ws |-> d.ws, title |-> d.title, text |-> d.text, on |-> TRUE, src |-> c]
  <2>1. PICK x \in Slots : memory' = [memory EXCEPT ![x] = new]
    BY <1>2, <1>6
  <2>2. new.ws = d.ws
    OBVIOUS
  <2> HIDE DEF new
  <2>3. memory'[id] = new
    BY <1>3, <2>1
  <2>4. QED
    BY <1>4, <2>2, <2>3
<1>7. QED
  BY <1>5, <1>6

-----------------------------------------------------------------------------
(* The lock on a store that something replicates.                          *)

(* The paths of the instance.                                              *)
Paths3 == {"n1", "n2", "n3"}

(* What the settings and the projects point at.                            *)
Targets == {"models", "p"}

(* The checks: that of a turn, and the background's.                       *)
GateChecks == {"turn", "refresh"}

(* What shows that a folder is replicated.                                 *)
Signs == {"rooted", "marked"}

(* Where each path leads.                                                  *)
Leads == [n \in Paths3 |-> IF n = "n2" THEN "B" ELSE "A"]

(* What a row of a report is found by: a place, or a path that leads       *)
(* nowhere.                                                                *)
GateKeys == ({"place"} \X Directories) \union ({"text"} \X Paths3)

(* A row of a report.                                                      *)
GateRows == [key : GateKeys, owned : BOOLEAN]

(* For each path, what was seen of it.                                     *)
Looked == [Paths3 -> SUBSET Signs]

(* For each target, a path.                                                *)
Pointed == [Targets -> Paths3]

(* A check that has read the settings and the projects.                    *)
Started == [at : {"merge"}, folder : Pointed, old : BOOLEAN, steady : Looked, ever : Looked]

(* With the rows it is to measure.                                         *)
Gathering ==
    [at : {"gather"}, folder : Pointed, old : BOOLEAN, steady : Looked, ever : Looked,
     left : SUBSET GateRows]

(* With the sync roots, and what it found so far.                          *)
Measuring ==
    [at : {"measure", "judge"}, folder : Pointed, old : BOOLEAN, steady : Looked, ever : Looked,
     left : SUBSET GateRows, found : BOOLEAN, roots : SUBSET Directories]

(* Judged, and on record or not.                                           *)
Over ==
    [at : {"allowed", "overridden", "refused"}, folder : Pointed, old : BOOLEAN, steady : Looked,
     ever : Looked, row : {"written", "lost"}]

(* Where a check can be.                                                   *)
Checking == {[at |-> "idle"]} \union Started \union Gathering \union Measuring \union Over

(* Typed, for every number of places and changes.                          *)
GatedTyped ==
    /\ folder \in Pointed /\ reported \in Pointed
    /\ disk \in [Directories -> [at : {"open", "closed", "absent"}, rooted : BOOLEAN, marked : BOOLEAN]]
    /\ late \in BOOLEAN /\ override \in BOOLEAN
    /\ check \in [GateChecks -> Checking]

(* Where the check's path to the application's own folder leads.           *)
Own(c) == Leads[check[c].folder["models"]]

(* What was there to be seen of that folder all the time.                  *)
OwnSteady(c) == check[c].steady[check[c].folder["models"]]

(* What was there to be seen of it at any time.                            *)
OwnEver(c) == check[c].ever[check[c].folder["models"]]

(* The row that would lock.                                                *)
OwnRow(c) == [key |-> <<"place", Own(c)>>, owned |-> TRUE]

(* What each check knows of the folder the application owns.               *)
EvidenceTells(c) ==
    \A m \in Paths3 : /\ check[c].steady[m] \subseteq Gated!Evidence(m)
                      /\ Gated!Shows(m) \subseteq check[c].ever[m]

(* An owned row is about that folder; and a folder that was open all the   *)
(* time has its row.                                                       *)
RowsTell(c) ==
    /\ check[c].at \in {"gather", "measure"} =>
         \A row \in check[c].left : row.owned => Gated!PlaceOfKey(row.key) = Own(c)
    /\ check[c].at = "gather" /\ OwnSteady(c) # {} => OwnRow(c) \in check[c].left

(* What was found was there; and what was there all the time has been      *)
(* found, or will be.                                                      *)
FoundTells(c) ==
    /\ check[c].at \in {"measure", "judge"} /\ check[c].found => OwnEver(c) # {}
    /\ check[c].at = "measure" =>
         /\ Own(c) \in check[c].roots => "rooted" \in OwnEver(c)
         /\ "rooted" \in OwnSteady(c) => Own(c) \in check[c].roots
         /\ OwnSteady(c) # {} => check[c].found \/ OwnRow(c) \in check[c].left
    /\ check[c].at = "judge" /\ OwnSteady(c) # {} => check[c].found

(* A verdict rests on what was found, and is on record.                    *)
VerdictTells(c) ==
    /\ check[c].at = "allowed" => OwnSteady(c) = {}
    /\ check[c].at \in {"overridden", "refused"} =>
         /\ OwnEver(c) # {}
         /\ check[c].row = "written" => <<c, check[c].at>> \in gateLog

(* What a check knows that is not idle.                                    *)
CheckTells(c) == check[c].at # "idle" => EvidenceTells(c) /\ RowsTell(c) /\ FoundTells(c) /\ VerdictTells(c)

(* A check that will publish its report.                                   *)
Before == {"merge", "gather", "measure"}

(* A check that will publish the folders as they are set.                  *)
PreShows(c) == check[c].at \in Before /\ check[c].folder = folder

(* The panel shows the folders as they are set, or some check is about to; *)
(* and one that would show others is old, or not the last. That an old     *)
(* report can be last is what late tells.                                  *)
ShownSoon ==
    \/ late
    \/ /\ reported = folder \/ \E c \in GateChecks : PreShows(c)
       /\ \A c \in GateChecks : check[c].at \in Before =>
            \/ check[c].folder = folder \/ check[c].old
            \/ \E d \in GateChecks : PreShows(d)

(* What holds of the lock and the panel in every state.                    *)
GatedInv == GatedTyped /\ (\A c \in GateChecks : CheckTells(c)) /\ ShownSoon

(* Every path leads to a place that is there.                              *)
LEMMA Led ==
    /\ \A n \in Paths3 : Leads[n] \in Directories
    /\ "models" \in Targets
    /\ \A n \in Paths3 : Gated!Fact(n) = disk[Leads[n]]
BY DeskAssumption DEF DeskAssumption, Leads, Targets, Gated!Fact, Paths3

(* What a check carries in each step.                                      *)
LEMMA ChecksAre ==
    ASSUME GatedTyped, NEW c \in GateChecks
    PROVE  /\ check[c].at = "idle" => check[c] = [at |-> "idle"]
           /\ check[c].at = "merge" => check[c] \in Started
           /\ check[c].at = "gather" => check[c] \in Gathering
           /\ check[c].at \in {"measure", "judge"} => check[c] \in Measuring
           /\ check[c].at \in {"allowed", "overridden", "refused"} => check[c] \in Over
           /\ check[c].at \in {"idle", "merge", "gather", "measure", "judge", "allowed", "overridden", "refused"}
BY DEF GatedTyped, Checking, Started, Gathering, Measuring, Over

(* What every check carries that is not idle.                              *)
LEMMA CheckFields ==
    ASSUME GatedTyped, NEW c \in GateChecks, check[c].at # "idle"
    PROVE  /\ check[c].folder \in Pointed /\ check[c].old \in BOOLEAN
           /\ check[c].steady \in Looked /\ check[c].ever \in Looked
           /\ check[c].folder["models"] \in Paths3 /\ Own(c) \in Directories
           /\ OwnSteady(c) \subseteq Signs /\ OwnEver(c) \subseteq Signs
<1>1. /\ check[c].folder \in Pointed /\ check[c].old \in BOOLEAN
      /\ check[c].steady \in Looked /\ check[c].ever \in Looked
  BY ChecksAre DEF Started, Gathering, Measuring, Over
<1>2. check[c].folder["models"] \in Paths3
  BY <1>1 DEF Pointed, Targets
<1>3. QED
  BY <1>1, <1>2, Led DEF Own, OwnSteady, OwnEver, Looked

(* At first nothing is checked, and the panel shows the folders.           *)
LEMMA GatedBegins == Gated!Init => GatedInv
<1> SUFFICES ASSUME Gated!Init PROVE GatedInv
  OBVIOUS
<1>1. folder \in Pointed
  <2>1. (CHOOSE name \in Paths3 : TRUE) \in Paths3
    BY DEF Paths3
  <2>2. folder = [t \in Targets |-> CHOOSE name \in Paths3 : TRUE]
    BY DEF Gated!Init, Gated!Targets, Targets, Paths3
  <2>3. QED
    BY <2>1, <2>2 DEF Pointed
<1>2. disk \in [Directories -> [at : {"open", "closed", "absent"}, rooted : BOOLEAN, marked : BOOLEAN]]
  BY DEF Gated!Init, Gated!States
<1>3. check = [c \in GateChecks |-> [at |-> "idle"]]
  BY DEF Gated!Init, Gated!Checks, GateChecks, Gated!Idle
<1>4. check \in [GateChecks -> Checking]
  BY <1>3 DEF Checking
<1>5. reported = folder /\ late = FALSE /\ override \in BOOLEAN
  BY DEF Gated!Init
<1>6. GatedTyped
  BY <1>1, <1>2, <1>4, <1>5 DEF GatedTyped
<1>7. \A c \in GateChecks : check[c].at = "idle"
  BY <1>3
<1>8. QED
  BY <1>5, <1>6, <1>7 DEF GatedInv, CheckTells, ShownSoon, Before

(* What one check does leaves what the others know.                        *)
LEMMA OthersKnow ==
    ASSUME NEW c \in GateChecks, CheckTells(c), check'[c] = check[c], UNCHANGED disk,
           gateLog \subseteq gateLog'
    PROVE  CheckTells(c)'
<1>2. EvidenceTells(c) => EvidenceTells(c)'
  BY DEF EvidenceTells, Gated!Evidence, Gated!Shows, Gated!Fact
<1>3. RowsTell(c) => RowsTell(c)'
  BY DEF RowsTell, OwnSteady, OwnRow, Own, Gated!PlaceOfKey
<1>4. FoundTells(c) => FoundTells(c)'
  BY DEF FoundTells, OwnSteady, OwnEver, OwnRow, Own
<1>5. VerdictTells(c) => VerdictTells(c)'
  BY DEF VerdictTells, OwnSteady, OwnEver
<1>6. QED
  BY <1>2, <1>3, <1>4, <1>5 DEF CheckTells

(* A check's step is its own.                                              *)
LEMMA CheckMoves ==
    ASSUME GatedTyped, NEW c \in GateChecks, NEW step \in Checking, check' = [check EXCEPT ![c] = step]
    PROVE  /\ check' \in [GateChecks -> Checking] /\ check'[c] = step
           /\ \A d \in GateChecks \ {c} : check'[d] = check[d]
BY DEF GatedTyped

(* A check that goes on, where nothing else moves.                         *)
LEMMA GoesOn ==
    ASSUME GatedInv, NEW c \in GateChecks, NEW step \in Checking,
           check' = [check EXCEPT ![c] = step],
           UNCHANGED <<folder, override, disk, reported, late>>, gateLog \subseteq gateLog',
           CheckTells(c)', check[c].at \in Before => step.at \in Before,
           step.at \in Before => check[c].at \in Before /\ step.folder = check[c].folder /\ step.old = check[c].old
    PROVE  GatedInv'
<1>1. /\ check' \in [GateChecks -> Checking] /\ check'[c] = step
      /\ \A d \in GateChecks \ {c} : check'[d] = check[d]
  BY CheckMoves DEF GatedInv
<1>2. GatedTyped'
  BY <1>1 DEF GatedInv, GatedTyped
<1>3. \A d \in GateChecks : CheckTells(d)'
  BY <1>1, OthersKnow DEF GatedInv
<1>4. ShownSoon'
  <2>1. \A d \in GateChecks : /\ check'[d].at \in Before <=> check[d].at \in Before
                              /\ check'[d].at \in Before => check'[d].folder = check[d].folder /\ check'[d].old = check[d].old
    BY <1>1
  <2>2. \A d \in GateChecks : PreShows(d)' <=> PreShows(d)
    BY <2>1 DEF PreShows
  <2>3. QED
    BY <2>1, <2>2 DEF GatedInv, ShownSoon
<1>5. QED
  BY <1>2, <1>3, <1>4 DEF GatedInv

(* A check that begins knows what there is.                                *)
LEMMA BeginKnows ==
    ASSUME GatedTyped, NEW c \in GateChecks, NEW pointed \in Pointed, NEW step,
           step = Gated!Begin(c, pointed), check'[c] = step, UNCHANGED disk
    PROVE  /\ step \in Started /\ step.folder = pointed /\ CheckTells(c)'
<1>1. \A n \in Paths3 : Gated!Evidence(n) \in SUBSET Signs /\ Gated!Shows(n) \in SUBSET Signs
  BY DEF Gated!Evidence, Gated!Shows, Signs
<1>2. step = [at |-> "merge", folder |-> pointed, old |-> FALSE,
              steady |-> [n \in Paths3 |-> Gated!Evidence(n)], ever |-> [n \in Paths3 |-> Gated!Shows(n)]]
  BY DEF Gated!Begin, Paths3
<1>3. step \in Started
  BY <1>1, <1>2 DEF Started, Looked
<1>4. \A n \in Paths3 : step.steady[n] = Gated!Evidence(n) /\ step.ever[n] = Gated!Shows(n)
  BY <1>2
<1>5. EvidenceTells(c)'
  <2>1. \A n \in Paths3 : check'[c].steady[n] = Gated!Evidence(n)' /\ check'[c].ever[n] = Gated!Shows(n)'
    BY <1>4 DEF Gated!Evidence, Gated!Shows, Gated!Fact
  <2>2. QED
    BY <2>1 DEF EvidenceTells
<1>6. check'[c].at = "merge"
  BY <1>2
<1>7. QED
  BY <1>2, <1>3, <1>5, <1>6 DEF CheckTells, RowsTell, FoundTells, VerdictTells

(* A turn starts its check.                                                *)
LEMMA StartTurnKeeps ==
    ASSUME GatedInv, NEW c \in GateChecks, Gated!StartTurn(c)
    PROVE  GatedInv'
<1> DEFINE step == Gated!Begin(c, folder)
<1>1. /\ check[c].at = "idle" /\ check' = [check EXCEPT ![c] = step]
      /\ UNCHANGED <<folder, override, disk, gateLog, reported, late>>
  BY DEF Gated!StartTurn, Gated!At
<1>2. check'[c] = step /\ \A d \in GateChecks \ {c} : check'[d] = check[d]
  BY <1>1 DEF GatedInv, GatedTyped
<1>3. step \in Started /\ step.folder = folder /\ CheckTells(c)'
  BY <1>1, <1>2, BeginKnows DEF GatedInv, GatedTyped
<1> HIDE DEF step
<1>4. GatedTyped'
  BY <1>1, <1>3, CheckMoves DEF GatedInv, GatedTyped, Checking
<1>5. \A d \in GateChecks : CheckTells(d)'
  BY <1>1, <1>2, <1>3, OthersKnow DEF GatedInv
<1>6. PreShows(c)'
  BY <1>1, <1>2, <1>3 DEF PreShows, Before, Started
<1>7. QED
  BY <1>4, <1>5, <1>6 DEF GatedInv, ShownSoon

(* A folder is set, and a check of it started: it will show the new one.   *)
LEMMA SetFolderKeeps ==
    ASSUME GatedInv, NEW t \in Targets, NEW name \in Paths3, Gated!SetFolder(t, name)
    PROVE  GatedInv'
<1>1. PICK c \in GateChecks : /\ check[c].at = "idle"
                              /\ check' = [check EXCEPT ![c] = Gated!Begin(c, folder')]
  BY DEF Gated!SetFolder, Gated!At, GateChecks
<1> DEFINE step == Gated!Begin(c, folder')
<1>2. folder' = [folder EXCEPT ![t] = name] /\ UNCHANGED <<override, disk, gateLog, reported, late>>
  BY DEF Gated!SetFolder
<1>3. folder' \in Pointed
  BY <1>2 DEF GatedInv, GatedTyped, Pointed
<1>4. check'[c] = step /\ \A d \in GateChecks \ {c} : check'[d] = check[d]
  BY <1>1 DEF GatedInv, GatedTyped
<1>5. step \in Started /\ step.folder = folder' /\ CheckTells(c)'
  <2> DEFINE pointed == folder'
  <2> HIDE DEF pointed
  <2>1. ASSUME pointed = folder' PROVE step = Gated!Begin(c, pointed)
    BY <2>1
  <2>2. QED
    BY <1>2, <1>3, <1>4, BeginKnows DEF GatedInv
<1> HIDE DEF step
<1>6. GatedTyped'
  <2>1. check' \in [GateChecks -> Checking]
    BY <1>1, <1>5, CheckMoves DEF GatedInv, step, Checking
  <2>2. QED
    BY <1>2, <1>3, <2>1 DEF GatedInv, GatedTyped
<1>7. \A d \in GateChecks : CheckTells(d)'
  BY <1>2, <1>4, <1>5, OthersKnow DEF GatedInv
<1>8. PreShows(c)'
  BY <1>4, <1>5 DEF PreShows, Before, Started
<1>9. QED
  BY <1>6, <1>7, <1>8 DEF GatedInv, ShownSoon

(* The override is set.                                                    *)
LEMMA SetOverrideKeeps == ASSUME GatedInv, Gated!SetOverride PROVE GatedInv'
<1>1. UNCHANGED <<folder, disk, check, gateLog, reported, late>> /\ override' \in BOOLEAN
  BY DEF Gated!SetOverride, GatedInv, GatedTyped
<1>2. \A d \in GateChecks : CheckTells(d)'
  BY <1>1, OthersKnow DEF GatedInv
<1>3. QED
  BY <1>1, <1>2 DEF GatedInv, GatedTyped, ShownSoon, PreShows

(* Paths that lead to one place are one row.                               *)
LEMMA KeysLead ==
    ASSUME GatedTyped, NEW n \in Paths3
    PROVE  /\ Gated!Key(n) \in GateKeys /\ Gated!PlaceOfKey(Gated!Key(n)) = Leads[n]
           /\ Gated!Evidence(n) # {} => Gated!Key(n) = <<"place", Leads[n]>>
<1>1. Gated!Key(n) = IF disk[Leads[n]].at = "open" THEN <<"place", Leads[n]>> ELSE <<"text", n>>
  BY Led DEF Gated!Key, Leads, Paths3
<1>2. Gated!PlaceOfKey(<<"place", Leads[n]>>) = Leads[n] /\ Gated!PlaceOfKey(<<"text", n>>) = Leads[n]
  BY DEF Gated!PlaceOfKey, Leads, Paths3
<1>3. Gated!Evidence(n) # {} => disk[Leads[n]].at = "open"
  BY Led DEF Gated!Evidence
<1>4. QED
  BY <1>1, <1>2, <1>3, Led DEF GateKeys

(* The rows are made: the application's own folder is among them.          *)
LEMMA MergeKeeps ==
    ASSUME GatedInv, NEW c \in GateChecks, Gated!Merge(c)
    PROVE  GatedInv'
<1> DEFINE keys == Gated!Keys(c)
           r == check[c]
           step == [at |-> "gather", folder |-> r.folder, old |-> r.old, steady |-> r.steady,
                    ever |-> r.ever, left |-> keys]
<1>1. /\ r.at = "merge" /\ check' = [check EXCEPT ![c] = step]
      /\ UNCHANGED <<folder, override, disk, gateLog, reported, late>>
  <2> HIDE DEF keys
  <2>1. QED
    BY DEF Gated!Merge, Gated!At, keys
<1>2. GatedTyped /\ CheckTells(c)
  BY DEF GatedInv
<1>3. /\ r.folder \in Pointed /\ r.old \in BOOLEAN /\ r.steady \in Looked /\ r.ever \in Looked
      /\ r.folder["models"] \in Paths3
  BY <1>1, <1>2, CheckFields
<1>4. \A t \in Targets : r.folder[t] \in Paths3
  BY <1>3 DEF Pointed
<1>5. \A row \in keys : \E n \in Paths3 :
          /\ row = [key |-> Gated!Key(n), owned |-> row.owned] /\ row.owned \in BOOLEAN
          /\ row.owned => Gated!Key(r.folder["models"]) = Gated!Key(n)
  <2> SUFFICES ASSUME NEW row \in keys
               PROVE  \E n \in Paths3 :
                        /\ row = [key |-> Gated!Key(n), owned |-> row.owned] /\ row.owned \in BOOLEAN
                        /\ row.owned => Gated!Key(r.folder["models"]) = Gated!Key(n)
    OBVIOUS
  <2> DEFINE owns(n) == \E t \in {"models"} : Gated!Key(r.folder[t]) = Gated!Key(n)
  <2>1. PICK n \in Paths3 : row = [key |-> Gated!Key(n), owned |-> owns(n)]
    BY <1>4 DEF Gated!Keys, Gated!Targets, Targets
  <2>2. owns(n) \in BOOLEAN /\ (owns(n) => Gated!Key(r.folder["models"]) = Gated!Key(n))
    OBVIOUS
  <2> HIDE DEF owns
  <2>3. row = [key |-> Gated!Key(n), owned |-> row.owned] /\ row.owned = owns(n)
    BY <2>1
  <2>4. QED
    BY <2>2, <2>3
<1>6. [key |-> Gated!Key(r.folder["models"]), owned |-> TRUE] \in keys
  BY DEF Gated!Keys, Gated!Targets
<1> HIDE DEF keys
<1>7. keys \subseteq GateRows
  <2> SUFFICES ASSUME NEW row \in keys PROVE row \in GateRows
    OBVIOUS
  <2>1. PICK n \in Paths3 : row = [key |-> Gated!Key(n), owned |-> row.owned] /\ row.owned \in BOOLEAN
    BY <1>5
  <2>2. Gated!Key(n) \in GateKeys
    BY <1>2, KeysLead
  <2>3. [key |-> Gated!Key(n), owned |-> row.owned] \in GateRows
    BY <2>1, <2>2 DEF GateRows
  <2>4. QED
    BY <2>1, <2>3
<1>8. \A row \in keys : row.owned => Gated!PlaceOfKey(row.key) = Leads[r.folder["models"]]
  <2> SUFFICES ASSUME NEW row \in keys, row.owned
               PROVE  Gated!PlaceOfKey(row.key) = Leads[r.folder["models"]]
    OBVIOUS
  <2>1. row.key = Gated!Key(r.folder["models"])
    <3>1. PICK n \in Paths3 : /\ row = [key |-> Gated!Key(n), owned |-> row.owned]
                              /\ row.owned => Gated!Key(r.folder["models"]) = Gated!Key(n)
      BY <1>5
    <3>2. row.key = Gated!Key(n)
      BY <3>1
    <3>3. QED
      BY <3>1, <3>2
  <2>2. QED
    BY <1>2, <1>3, <2>1, KeysLead
<1>9. r.steady[r.folder["models"]] # {} => [key |-> <<"place", Leads[r.folder["models"]]>>, owned |-> TRUE] \in keys
  BY <1>1, <1>2, <1>3, <1>6, KeysLead DEF CheckTells, EvidenceTells
<1>10. step \in Checking
  BY <1>3, <1>7 DEF Checking, Gathering
<1>11. check'[c] = step
  BY <1>1, <1>2 DEF GatedTyped
<1>12. /\ check'[c].at = "gather" /\ check'[c].folder = r.folder /\ check'[c].steady = r.steady
       /\ check'[c].ever = r.ever /\ check'[c].left = keys /\ check'[c].old = r.old
  BY <1>11
<1>13. CheckTells(c)'
  <2>1. EvidenceTells(c)'
    BY <1>1, <1>2, <1>12 DEF CheckTells, EvidenceTells, Gated!Evidence, Gated!Shows, Gated!Fact
  <2>2. RowsTell(c)'
    BY <1>8, <1>9, <1>12 DEF RowsTell, OwnSteady, OwnRow, Own, Gated!PlaceOfKey
  <2>3. FoundTells(c)' /\ VerdictTells(c)'
    BY <1>12 DEF FoundTells, VerdictTells
  <2>4. QED
    BY <2>1, <2>2, <2>3 DEF CheckTells
<1>14. r.at \in Before /\ step.at \in Before /\ step.folder = r.folder /\ step.old = r.old
  BY <1>1 DEF Before
<1>15. QED
  <2> HIDE DEF step
  <2>1. QED
    BY <1>1, <1>10, <1>13, <1>14, GoesOn

(* The sync roots are read, once.                                          *)
LEMMA GatherKeeps ==
    ASSUME GatedInv, NEW c \in GateChecks, Gated!Gather(c)
    PROVE  GatedInv'
<1> DEFINE r == check[c]
           roots == {p \in Directories : disk[p].rooted}
           step == [at |-> "measure", folder |-> r.folder, old |-> r.old, steady |-> r.steady,
                    ever |-> r.ever, left |-> r.left, found |-> FALSE, roots |-> roots]
<1>1. /\ r.at = "gather" /\ check' = [check EXCEPT ![c] = step]
      /\ UNCHANGED <<folder, override, disk, gateLog, reported, late>>
  BY DEF Gated!Gather, Gated!At
<1>2. GatedTyped /\ CheckTells(c)
  BY DEF GatedInv
<1>3. /\ r.folder \in Pointed /\ r.old \in BOOLEAN /\ r.steady \in Looked /\ r.ever \in Looked
      /\ r.folder["models"] \in Paths3 /\ Own(c) \in Directories
  BY <1>1, <1>2, CheckFields
<1>4. r.left \in SUBSET GateRows
  BY <1>1, <1>2, ChecksAre DEF Gathering
<1> HIDE DEF roots
<1>5. roots \subseteq Directories
  BY DEF roots
<1>6. step \in Checking
  BY <1>3, <1>4, <1>5 DEF Checking, Measuring
<1>7. check'[c] = step
  BY <1>1, <1>2 DEF GatedTyped
<1>8. /\ check'[c].at = "measure" /\ check'[c].folder = r.folder /\ check'[c].steady = r.steady
      /\ check'[c].ever = r.ever /\ check'[c].left = r.left /\ check'[c].found = FALSE
      /\ check'[c].roots = roots
  BY <1>7
<1>9. EvidenceTells(c) /\ RowsTell(c)
  BY <1>1, <1>2 DEF CheckTells
<1>10. disk[Own(c)].rooted <=> "rooted" \in Gated!Shows(r.folder["models"])
  BY <1>3, Led DEF Gated!Shows, Own
<1>11. Own(c) \in roots => "rooted" \in OwnEver(c)
  BY <1>3, <1>9, <1>10 DEF EvidenceTells, OwnEver, roots
<1>12. "rooted" \in OwnSteady(c) => Own(c) \in roots
  BY <1>3, <1>9, <1>10 DEF EvidenceTells, OwnSteady, Gated!Evidence, roots
<1>13. OwnSteady(c) # {} => OwnRow(c) \in r.left
  BY <1>1, <1>9 DEF RowsTell
<1>14. CheckTells(c)'
  <2>1. EvidenceTells(c)'
    BY <1>1, <1>8, <1>9 DEF EvidenceTells, Gated!Evidence, Gated!Shows, Gated!Fact
  <2>2. RowsTell(c)'
    BY <1>1, <1>8, <1>9 DEF RowsTell, Own, Gated!PlaceOfKey
  <2>3. FoundTells(c)'
    BY <1>8, <1>11, <1>12, <1>13 DEF FoundTells, OwnSteady, OwnEver, OwnRow, Own
  <2>4. VerdictTells(c)'
    BY <1>8 DEF VerdictTells
  <2>5. QED
    BY <2>1, <2>2, <2>3, <2>4 DEF CheckTells
<1>15. r.at \in Before /\ step.at \in Before /\ step.folder = r.folder /\ step.old = r.old
  BY <1>1 DEF Before
<1>16. QED
  <2> HIDE DEF step
  <2>1. QED
    BY <1>1, <1>6, <1>14, <1>15, GoesOn

(* A row is measured, and nothing else of the check changes.               *)
LEMMA RowTaken ==
    ASSUME NEW m \in Measuring, NEW rest \in SUBSET GateRows, NEW f \in BOOLEAN, m.at = "measure"
    PROVE  [m EXCEPT !.left = rest, !.found = f] =
             [at |-> "measure", folder |-> m.folder, old |-> m.old, steady |-> m.steady,
              ever |-> m.ever, left |-> rest, found |-> f, roots |-> m.roots]
<1> DEFINE x == [m EXCEPT !.left = rest]
           y == [x EXCEPT !.found = f]
<1>1. x = [at |-> "measure", folder |-> m.folder, old |-> m.old, steady |-> m.steady,
           ever |-> m.ever, left |-> rest, found |-> m.found, roots |-> m.roots]
  BY DEF Measuring
<1>2. x \in Measuring /\ x.at = "measure"
  BY DEF Measuring
<1>3. y = [at |-> "measure", folder |-> x.folder, old |-> x.old, steady |-> x.steady,
           ever |-> x.ever, left |-> x.left, found |-> f, roots |-> x.roots]
  <2> HIDE DEF x
  <2>1. QED
    BY <1>2 DEF Measuring
<1>4. y = [m EXCEPT !.left = rest, !.found = f]
  OBVIOUS
<1> HIDE DEF y
<1>5. /\ x.folder = m.folder /\ x.old = m.old /\ x.steady = m.steady /\ x.ever = m.ever
      /\ x.left = rest /\ x.roots = m.roots
  BY DEF Measuring
<1> HIDE DEF x
<1>6. QED
  BY <1>3, <1>4, <1>5

(* A row is measured: replicated only if a sign was there, and found so if *)
(* one was there all the time.                                             *)
LEMMA MeasureKeeps ==
    ASSUME GatedInv, NEW c \in GateChecks, Gated!Measure(c)
    PROVE  GatedInv'
<1> DEFINE r == check[c]
<1>1. PICK row \in r.left : check' = [check EXCEPT
          ![c].left = @ \ {row}, ![c].found = @ \/ (row.owned /\ Gated!Replicated(c, Gated!PlaceOfKey(row.key)))]
  BY DEF Gated!Measure
<1> DEFINE finds == row.owned /\ Gated!Replicated(c, Gated!PlaceOfKey(row.key))
           f == r.found \/ finds
           step == [at |-> "measure", folder |-> r.folder, old |-> r.old, steady |-> r.steady,
                    ever |-> r.ever, left |-> r.left \ {row}, found |-> f, roots |-> r.roots]
<1>2. /\ r.at = "measure"
      /\ UNCHANGED <<folder, override, disk, gateLog, reported, late>>
  BY DEF Gated!Measure, Gated!At
<1>3. GatedTyped /\ CheckTells(c) /\ r \in Measuring
  BY <1>2, ChecksAre DEF GatedInv
<1>4. row \in GateRows /\ row.owned \in BOOLEAN /\ r.left \ {row} \in SUBSET GateRows
  BY <1>3 DEF Measuring, GateRows
<1>5. f \in BOOLEAN
  BY <1>3 DEF Measuring
<1> HIDE DEF finds
<1>6. check' = [check EXCEPT ![c] = step]
  <2>1. check' = [check EXCEPT ![c] = [r EXCEPT !.left = r.left \ {row}, !.found = f]]
    BY <1>1, <1>3 DEF GatedTyped, finds
  <2> HIDE DEF f
  <2>2. [r EXCEPT !.left = r.left \ {row}, !.found = f] = step
    BY <1>2, <1>3, <1>4, <1>5, RowTaken
  <2>3. QED
    BY <2>1, <2>2
<1> HIDE DEF f
<1>7. step \in Checking
  BY <1>2, <1>3, <1>4, <1>5 DEF Checking, Measuring
<1>8. check'[c] = step
  BY <1>3, <1>6 DEF GatedTyped
<1>9. /\ check'[c].at = "measure" /\ check'[c].folder = r.folder /\ check'[c].steady = r.steady
      /\ check'[c].ever = r.ever /\ check'[c].left = r.left \ {row} /\ check'[c].roots = r.roots
      /\ check'[c].found = f
  BY <1>8
<1> HIDE DEF step
<1>10. /\ EvidenceTells(c) /\ RowsTell(c) /\ FoundTells(c) /\ r.folder["models"] \in Paths3
       /\ Own(c) \in Directories /\ OwnSteady(c) \subseteq Signs /\ OwnEver(c) \subseteq Signs
  BY <1>2, <1>3, CheckFields DEF CheckTells
<1>11. row.owned => Gated!PlaceOfKey(row.key) = Own(c)
  BY <1>2, <1>10 DEF RowsTell
<1>12. /\ disk[Own(c)].marked <=> "marked" \in Gated!Shows(r.folder["models"])
  BY <1>10, Led DEF Gated!Shows, Own
<1>13. finds => OwnEver(c) # {}
  <2>1. ASSUME finds PROVE OwnEver(c) # {}
    <3>1. Own(c) \in r.roots \/ disk[Own(c)].marked
      BY <1>11, <2>1 DEF finds, Gated!Replicated
    <3>2. Own(c) \in r.roots => "rooted" \in OwnEver(c)
      BY <1>2, <1>10 DEF FoundTells
    <3>3. disk[Own(c)].marked => "marked" \in OwnEver(c)
      BY <1>10, <1>12 DEF EvidenceTells, OwnEver
    <3>4. QED
      BY <3>1, <3>2, <3>3
  <2>2. QED
    BY <2>1
<1>14. OwnSteady(c) # {} /\ row = OwnRow(c) => finds
  <2> SUFFICES ASSUME OwnSteady(c) # {}, row = OwnRow(c) PROVE finds
    OBVIOUS
  <2>1. OwnSteady(c) \subseteq Gated!Evidence(r.folder["models"])
    BY <1>10 DEF EvidenceTells, OwnSteady
  <2>2. /\ disk[Own(c)].at = "open"
        /\ OwnSteady(c) \subseteq Gated!Shows(r.folder["models"])
    BY <1>10, <2>1, Led DEF Gated!Evidence, Own
  <2>3. "rooted" \in OwnSteady(c) \/ "marked" \in OwnSteady(c)
    BY <1>10 DEF Signs
  <2>4. Own(c) \in r.roots \/ disk[Own(c)].marked
    BY <1>2, <1>10, <1>12, <2>2, <2>3 DEF FoundTells
  <2>5. row.owned /\ row.key = <<"place", Own(c)>>
    BY DEF OwnRow
  <2>6. QED
    BY <1>11, <2>2, <2>4, <2>5 DEF finds, Gated!Replicated
<1>15. CheckTells(c)'
  <2>1. EvidenceTells(c)'
    BY <1>2, <1>9, <1>10 DEF EvidenceTells, Gated!Evidence, Gated!Shows, Gated!Fact
  <2>2. RowsTell(c)'
    BY <1>2, <1>9, <1>10 DEF RowsTell, Own, Gated!PlaceOfKey
  <2>3. Own(c)' = Own(c) /\ OwnSteady(c)' = OwnSteady(c) /\ OwnEver(c)' = OwnEver(c) /\ OwnRow(c)' = OwnRow(c)
    BY <1>9 DEF Own, OwnSteady, OwnEver, OwnRow
  <2>4. FoundTells(c)'
    <3>1. check'[c].found => OwnEver(c) # {}
      BY <1>2, <1>9, <1>10, <1>13 DEF FoundTells, f
    <3>2. /\ Own(c) \in r.roots => "rooted" \in OwnEver(c)
          /\ "rooted" \in OwnSteady(c) => Own(c) \in r.roots
          /\ OwnSteady(c) # {} => r.found \/ OwnRow(c) \in r.left
      BY <1>2, <1>10 DEF FoundTells
    <3>3. OwnSteady(c) # {} => check'[c].found \/ OwnRow(c) \in check'[c].left
      BY <1>9, <1>14, <3>2 DEF f
    <3>4. QED
      BY <1>9, <2>3, <3>1, <3>2, <3>3 DEF FoundTells
  <2>5. VerdictTells(c)'
    BY <1>9 DEF VerdictTells
  <2>6. QED
    BY <2>1, <2>2, <2>4, <2>5 DEF CheckTells
<1>16. r.at \in Before /\ step.at \in Before /\ step.folder = r.folder /\ step.old = r.old
  BY <1>2 DEF Before, step
<1>17. QED
  BY <1>2, <1>6, <1>7, <1>15, <1>16, GoesOn

(* The verdict.                                                            *)
LEMMA JudgeKeeps ==
    ASSUME GatedInv, NEW c \in GateChecks, Gated!Judge(c)
    PROVE  GatedInv'
<1> DEFINE r == check[c]
           v == Gated!Verdict(c)
<1>1. PICK row \in {"written", "lost"} :
         /\ check' = [check EXCEPT ![c] = [at |-> v, folder |-> r.folder, old |-> FALSE, steady |-> r.steady,
                                          ever |-> r.ever, row |-> row]]
         /\ gateLog' = IF v # "allowed" /\ row = "written" THEN gateLog \union {<<c, v>>} ELSE gateLog
  BY DEF Gated!Judge
<1> DEFINE step == [at |-> v, folder |-> r.folder, old |-> FALSE, steady |-> r.steady,
                    ever |-> r.ever, row |-> row]
<1>2. r.at = "judge" /\ UNCHANGED <<folder, override, disk, reported, late>>
  BY DEF Gated!Judge, Gated!At
<1>3. v \in {"allowed", "overridden", "refused"} /\ (v = "allowed" <=> ~r.found)
  BY DEF Gated!Verdict
<1> HIDE DEF v
<1>4. GatedTyped /\ CheckTells(c)
  BY DEF GatedInv
<1>5. /\ r.folder \in Pointed /\ r.steady \in Looked /\ r.ever \in Looked
  BY <1>2, <1>4, CheckFields
<1>6. step \in Checking
  BY <1>3, <1>5 DEF Checking, Over
<1>7. check'[c] = step
  BY <1>1, <1>4 DEF GatedTyped
<1>8. /\ check'[c].at = v /\ check'[c].folder = r.folder /\ check'[c].steady = r.steady
      /\ check'[c].ever = r.ever /\ check'[c].row = row
  BY <1>7
<1>9. EvidenceTells(c) /\ FoundTells(c)
  BY <1>2, <1>4 DEF CheckTells
<1>10. CheckTells(c)'
  <2>1. EvidenceTells(c)'
    BY <1>2, <1>8, <1>9 DEF EvidenceTells, Gated!Evidence, Gated!Shows, Gated!Fact
  <2>2. RowsTell(c)' /\ FoundTells(c)'
    BY <1>3, <1>8 DEF RowsTell, FoundTells
  <2>3. VerdictTells(c)'
    BY <1>1, <1>2, <1>3, <1>8, <1>9 DEF FoundTells, VerdictTells, OwnSteady, OwnEver
  <2>4. QED
    BY <2>1, <2>2, <2>3 DEF CheckTells
<1>11. r.at \notin Before /\ step.at \notin Before
  BY <1>2, <1>3 DEF Before
<1>12. QED
  <2> HIDE DEF step
  <2>1. check' = [check EXCEPT ![c] = step]
    BY <1>1 DEF step
  <2>2. QED
    BY <1>1, <1>2, <1>6, <1>10, <1>11, <2>1, GoesOn

(* A check keeps what it tells where the evidence that was there all the   *)
(* time only shrinks, and what was ever there only grows.                  *)
LEMMA StillKnows ==
    ASSUME NEW c \in GateChecks, CheckTells(c), check[c].at # "idle",
           check'[c].at = check[c].at, check'[c].folder = check[c].folder,
           check[c].at \in {"gather", "measure"} => check'[c].left = check[c].left,
           check[c].at \in {"measure", "judge"} => check'[c].found = check[c].found,
           check[c].at = "measure" => check'[c].roots = check[c].roots,
           check[c].at \in {"overridden", "refused"} => check'[c].row = check[c].row,
           OwnSteady(c)' \subseteq OwnSteady(c), OwnEver(c) \subseteq OwnEver(c)',
           EvidenceTells(c)', gateLog \subseteq gateLog'
    PROVE  CheckTells(c)'
<1>1. RowsTell(c) /\ FoundTells(c) /\ VerdictTells(c)
  BY DEF CheckTells
<1>2. Own(c)' = Own(c) /\ OwnRow(c)' = OwnRow(c)
  BY DEF Own, OwnRow
<1>3. RowsTell(c)'
  BY <1>1, <1>2 DEF RowsTell, Gated!PlaceOfKey
<1>4. FoundTells(c)'
  <2>1. /\ check[c].at = "judge" /\ OwnSteady(c)' # {} => check'[c].found
        /\ check[c].at \in {"measure", "judge"} /\ check'[c].found => OwnEver(c)' # {}
    BY <1>1 DEF FoundTells
  <2>2. check[c].at = "measure" =>
           /\ Own(c)' \in check'[c].roots => "rooted" \in OwnEver(c)'
           /\ "rooted" \in OwnSteady(c)' => Own(c)' \in check'[c].roots
           /\ OwnSteady(c)' # {} => check'[c].found \/ OwnRow(c)' \in check'[c].left
    BY <1>1, <1>2 DEF FoundTells
  <2>3. QED
    BY <2>1, <2>2 DEF FoundTells
<1>5. VerdictTells(c)'
  BY <1>1 DEF VerdictTells
<1>6. QED
  BY <1>3, <1>4, <1>5 DEF CheckTells

(* A report that a newer one overtook is otherwise as it was.              *)
LEMMA MadeOld ==
    ASSUME GatedTyped, NEW d \in GateChecks, check[d].at # "idle",
           NEW x, x = [check[d] EXCEPT !.old = TRUE]
    PROVE  /\ x \in Checking /\ x.old = TRUE /\ x.at = check[d].at /\ x.folder = check[d].folder
           /\ x.steady = check[d].steady /\ x.ever = check[d].ever
           /\ check[d].at \in {"gather", "measure"} => x.left = check[d].left
           /\ check[d].at \in {"measure", "judge"} => x.found = check[d].found
           /\ check[d].at = "measure" => x.roots = check[d].roots
           /\ check[d].at \in {"overridden", "refused"} => x.row = check[d].row
<1>1. CASE check[d] \in Started
  BY <1>1 DEF Started, Checking
<1>2. CASE check[d] \in Gathering
  BY <1>2 DEF Gathering, Checking
<1>3. CASE check[d] \in Measuring
  BY <1>3 DEF Measuring, Checking
<1>4. CASE check[d] \in Over
  BY <1>4 DEF Over, Checking
<1>5. QED
  BY <1>1, <1>2, <1>3, <1>4, ChecksAre

(* A check in which only one of the two histories changes.                 *)
LEMMA SteadyMoved ==
    ASSUME NEW m \in Checking, m.at # "idle", NEW s \in Looked,
           NEW x, x = [m EXCEPT !.steady = s]
    PROVE  /\ x \in Checking /\ x.old = m.old /\ x.at = m.at /\ x.folder = m.folder
           /\ x.steady = s /\ x.ever = m.ever
           /\ m.at \in {"gather", "measure"} => x.left = m.left
           /\ m.at \in {"measure", "judge"} => x.found = m.found
           /\ m.at = "measure" => x.roots = m.roots
           /\ m.at \in {"overridden", "refused"} => x.row = m.row
<1>1. CASE m \in Started
  BY <1>1 DEF Started, Checking
<1>2. CASE m \in Gathering
  BY <1>2 DEF Gathering, Checking
<1>3. CASE m \in Measuring
  BY <1>3 DEF Measuring, Checking
<1>4. CASE m \in Over
  BY <1>4 DEF Over, Checking
<1>5. QED
  BY <1>1, <1>2, <1>3, <1>4 DEF Checking

(* The same of the other.                                                  *)
LEMMA EverMoved ==
    ASSUME NEW m \in Checking, m.at # "idle", NEW s \in Looked,
           NEW x, x = [m EXCEPT !.ever = s]
    PROVE  /\ x \in Checking /\ x.old = m.old /\ x.at = m.at /\ x.folder = m.folder
           /\ x.steady = m.steady /\ x.ever = s
           /\ m.at \in {"gather", "measure"} => x.left = m.left
           /\ m.at \in {"measure", "judge"} => x.found = m.found
           /\ m.at = "measure" => x.roots = m.roots
           /\ m.at \in {"overridden", "refused"} => x.row = m.row
<1>1. CASE m \in Started
  BY <1>1 DEF Started, Checking
<1>2. CASE m \in Gathering
  BY <1>2 DEF Gathering, Checking
<1>3. CASE m \in Measuring
  BY <1>3 DEF Measuring, Checking
<1>4. CASE m \in Over
  BY <1>4 DEF Over, Checking
<1>5. QED
  BY <1>1, <1>2, <1>3, <1>4 DEF Checking

(* The report is published: it shows the folders as they are set, or       *)
(* another check will.                                                     *)
LEMMA PublishKeeps ==
    ASSUME GatedInv, NEW c \in GateChecks, Gated!Publish(c)
    PROVE  GatedInv'
<1> DEFINE r == check[c]
           over(d) == d # c /\ check[d].at # "idle" /\ r.folder = folder /\ check[d].folder # folder
<1>1. /\ r.at = "measure" /\ r.left = {} /\ reported' = r.folder /\ late' = (late \/ r.old)
      /\ UNCHANGED <<folder, override, disk, gateLog>>
  BY DEF Gated!Publish, Gated!At
<1>2. check' = [d \in GateChecks |->
           IF d = c THEN IF c = "turn" THEN [r EXCEPT !.at = "judge"] ELSE [at |-> "idle"]
           ELSE IF over(d) THEN [check[d] EXCEPT !.old = TRUE] ELSE check[d]]
  BY DEF Gated!Publish, Gated!Checks, GateChecks, Gated!Idle, Gated!Running, Gated!At
<1>3. GatedTyped /\ CheckTells(c) /\ r \in Measuring /\ ShownSoon
  BY <1>1, ChecksAre DEF GatedInv
<1>4. r.old \in BOOLEAN /\ r.folder \in Pointed /\ late \in BOOLEAN
  BY <1>3 DEF Measuring, GatedTyped
<1>5. /\ check'[c] \in Checking /\ check'[c].at \in {"judge", "idle"}
      /\ check'[c].at = "judge" =>
           /\ check'[c].folder = r.folder /\ check'[c].steady = r.steady
           /\ check'[c].ever = r.ever /\ check'[c].found = r.found
  <2>1. CASE c = "turn"
    <3>1. check'[c] = [r EXCEPT !.at = "judge"]
      BY <1>2, <2>1
    <3>2. QED
      BY <1>3, <3>1 DEF Measuring, Checking
  <2>2. CASE c # "turn"
    <3>1. check'[c] = [at |-> "idle"]
      BY <1>2, <2>2
    <3>2. QED
      BY <3>1 DEF Checking
  <2>3. QED
    BY <2>1, <2>2
<1>6. \A d \in GateChecks \ {c} : IF over(d) THEN check'[d] = [check[d] EXCEPT !.old = TRUE]
                                            ELSE check'[d] = check[d]
  BY <1>2
<1>7. \A d \in GateChecks \ {c} :
        over(d) => /\ check'[d] \in Checking /\ check'[d].old = TRUE
                   /\ check'[d].at = check[d].at /\ check'[d].folder = check[d].folder
  BY <1>3, <1>6, MadeOld
<1>8. GatedTyped'
  <2>1. \A d \in GateChecks : check'[d] \in Checking
    BY <1>3, <1>5, <1>6, <1>7 DEF GatedTyped
  <2>2. check' \in [GateChecks -> Checking]
    BY <1>2, <2>1
  <2>3. late' \in BOOLEAN
    BY <1>1, <1>4
  <2>4. QED
    BY <1>1, <1>3, <1>4, <2>2, <2>3 DEF GatedTyped
<1>9. CheckTells(c)'
  <2>1. EvidenceTells(c) /\ FoundTells(c)
    BY <1>1, <1>3 DEF CheckTells
  <2>2. CASE check'[c].at = "judge"
    <3>1. EvidenceTells(c)'
      BY <1>1, <1>5, <2>1, <2>2 DEF EvidenceTells, Gated!Evidence, Gated!Shows, Gated!Fact
    <3>2. FoundTells(c)'
      BY <1>1, <1>5, <2>1, <2>2 DEF FoundTells, OwnSteady, OwnEver
    <3>3. RowsTell(c)' /\ VerdictTells(c)'
      BY <2>2 DEF RowsTell, VerdictTells
    <3>4. QED
      BY <3>1, <3>2, <3>3 DEF CheckTells
  <2>3. CASE check'[c].at = "idle"
    BY <2>3 DEF CheckTells
  <2>4. QED
    BY <1>5, <2>2, <2>3
<1>10. \A d \in GateChecks : CheckTells(d)'
  <2> SUFFICES ASSUME NEW d \in GateChecks \ {c} PROVE CheckTells(d)'
    BY <1>9
  <2>1. CheckTells(d)
    BY DEF GatedInv
  <2>2. CASE ~over(d)
    BY <1>1, <1>6, <2>1, <2>2, OthersKnow
  <2>3. CASE over(d)
    <3>1. check'[d] = [check[d] EXCEPT !.old = TRUE] /\ check[d].at # "idle"
      BY <1>6, <2>3
    <3>2. /\ check'[d].at = check[d].at /\ check'[d].folder = check[d].folder
          /\ check'[d].steady = check[d].steady /\ check'[d].ever = check[d].ever
          /\ check[d].at \in {"gather", "measure"} => check'[d].left = check[d].left
          /\ check[d].at \in {"measure", "judge"} => check'[d].found = check[d].found
          /\ check[d].at = "measure" => check'[d].roots = check[d].roots
          /\ check[d].at \in {"overridden", "refused"} => check'[d].row = check[d].row
      BY <1>3, <3>1, MadeOld
    <3>3. OwnSteady(d)' = OwnSteady(d) /\ OwnEver(d)' = OwnEver(d)
      BY <3>2 DEF OwnSteady, OwnEver
    <3>4. EvidenceTells(d)'
      BY <1>1, <2>1, <3>1, <3>2 DEF CheckTells, EvidenceTells, Gated!Evidence, Gated!Shows, Gated!Fact
    <3>5. QED
      BY <1>1, <2>1, <3>1, <3>2, <3>3, <3>4, StillKnows
  <2>4. QED
    BY <2>2, <2>3
<1>11. ShownSoon'
  <2>1. CASE late \/ r.old
    BY <1>1, <2>1 DEF ShownSoon
  <2>2. CASE ~late /\ ~r.old /\ r.folder = folder
    <3>1. \A d \in GateChecks : check'[d].at \in Before => check'[d].folder = folder' \/ check'[d].old
      <4> SUFFICES ASSUME NEW d \in GateChecks, check'[d].at \in Before
                   PROVE  check'[d].folder = folder' \/ check'[d].old
        OBVIOUS
      <4>1. d # c
        BY <1>5 DEF Before
      <4>2. CASE over(d)
        BY <1>7, <4>1, <4>2
      <4>3. CASE ~over(d)
        BY <1>1, <1>6, <2>2, <4>1, <4>3 DEF Before
      <4>4. QED
        BY <4>2, <4>3
    <3>2. QED
      BY <1>1, <2>2, <3>1 DEF ShownSoon
  <2>3. CASE ~late /\ ~r.old /\ r.folder # folder
    <3>1. PICK d \in GateChecks : PreShows(d)
      BY <1>1, <1>3, <2>3 DEF ShownSoon, Before
    <3>2. d # c /\ check'[d] = check[d]
      BY <1>6, <2>3, <3>1 DEF PreShows
    <3>3. PreShows(d)'
      BY <1>1, <3>1, <3>2 DEF PreShows
    <3>4. QED
      BY <3>3 DEF ShownSoon
  <2>4. QED
    BY <2>1, <2>2, <2>3
<1>12. QED
  BY <1>8, <1>10, <1>11 DEF GatedInv

(* A place stays a place.                                                  *)
LEMMA DiskTyped ==
    ASSUME GatedTyped, NEW place \in Directories, Gated!Disk(place)
    PROVE  disk' \in [Directories -> [at : {"open", "closed", "absent"}, rooted : BOOLEAN, marked : BOOLEAN]]
<1> DEFINE place0 == disk[place]
           States0 == [at : {"open", "closed", "absent"}, rooted : BOOLEAN, marked : BOOLEAN]
<1>1. disk \in [Directories -> States0] /\ place0 \in States0
  BY DEF GatedTyped
<1>2. \/ \E kind \in {"rooted", "marked"} : disk' = [disk EXCEPT ![place][kind] = ~@]
      \/ disk' = [disk EXCEPT ![place].at = "open"]
      \/ disk' = [disk EXCEPT ![place].at = "closed"]
      \/ disk' = [disk EXCEPT ![place].at = "absent", ![place].marked = FALSE]
  BY DEF Gated!Disk
<1>3. ASSUME NEW now \in States0, disk' = [disk EXCEPT ![place] = now]
      PROVE  disk' \in [Directories -> States0]
  BY <1>1, <1>3
<1>4. CASE \E kind \in {"rooted", "marked"} : disk' = [disk EXCEPT ![place][kind] = ~@]
  <2>1. PICK kind \in {"rooted", "marked"} : disk' = [disk EXCEPT ![place][kind] = ~@]
    BY <1>4
  <2>2. CASE kind = "rooted"
    <3> DEFINE now == [disk[place] EXCEPT !.rooted = ~ disk[place].rooted]
    <3>1. disk' = [disk EXCEPT ![place] = now]
      BY <2>1, <2>2
    <3>2. now \in States0
      BY <1>1
    <3>3. QED
      BY <1>3, <3>1, <3>2
  <2>3. CASE kind = "marked"
    <3> DEFINE now == [disk[place] EXCEPT !.marked = ~ disk[place].marked]
    <3>1. disk' = [disk EXCEPT ![place] = now]
      BY <2>1, <2>3
    <3>2. now \in States0
      BY <1>1
    <3>3. QED
      BY <1>3, <3>1, <3>2
  <2>4. QED
    BY <2>2, <2>3
<1>5. CASE disk' = [disk EXCEPT ![place].at = "open"]
  BY <1>1, <1>5
<1>6. CASE disk' = [disk EXCEPT ![place].at = "closed"]
  BY <1>1, <1>6
<1>7. CASE disk' = [disk EXCEPT ![place].at = "absent", ![place].marked = FALSE]
  <2> DEFINE gone == [disk EXCEPT ![place].at = "absent"]
  <2>1. gone \in [Directories -> States0]
    BY <1>1
  <2>2. disk' = [gone EXCEPT ![place].marked = FALSE]
    BY <1>7
  <2> HIDE DEF gone
  <2>3. QED
    BY <2>1, <2>2
<1>8. QED
  BY <1>2, <1>4, <1>5, <1>6, <1>7

(* A place changes under the checks: what was there all the time shrinks,  *)
(* what was ever there grows.                                              *)
LEMMA DiskKeeps ==
    ASSUME GatedInv, NEW place \in Directories, Gated!Disk(place)
    PROVE  GatedInv'
<1> DEFINE less(c) == [n \in Paths3 |-> check[c].steady[n] \intersect Gated!Evidence(n)']
           more(c) == [n \in Paths3 |-> check[c].ever[n] \union Gated!Shows(n)']
<1>1. /\ UNCHANGED <<folder, override, gateLog, reported, late>>
      /\ check' = [c \in GateChecks |-> IF check[c].at = "idle" THEN check[c] ELSE
                     [check[c] EXCEPT !.steady = less(c), !.ever = more(c)]]
  BY DEF Gated!Disk, Gated!Checks, GateChecks, Gated!Running, Gated!At, Paths3
<1>2. GatedTyped /\ ShownSoon /\ \A c \in GateChecks : CheckTells(c)
  BY DEF GatedInv
<1>3. \A n \in Paths3 : Gated!Evidence(n)' \in SUBSET Signs /\ Gated!Shows(n)' \in SUBSET Signs
  BY DEF Gated!Evidence, Gated!Shows, Signs
<1>4. \A c \in GateChecks : check[c].at # "idle" => less(c) \in Looked /\ more(c) \in Looked
  <2> SUFFICES ASSUME NEW c \in GateChecks, check[c].at # "idle" PROVE less(c) \in Looked /\ more(c) \in Looked
    OBVIOUS
  <2>1. check[c].steady \in Looked /\ check[c].ever \in Looked
    BY <1>2, CheckFields
  <2>2. \A n \in Paths3 : /\ check[c].steady[n] \intersect Gated!Evidence(n)' \in SUBSET Signs
                          /\ check[c].ever[n] \union Gated!Shows(n)' \in SUBSET Signs
    BY <1>3, <2>1 DEF Looked
  <2>3. QED
    BY <2>2 DEF Looked
<1>5. \A c \in GateChecks : check[c].at = "idle" => check'[c] = check[c]
  BY <1>1
<1>6. ASSUME NEW c \in GateChecks, check[c].at # "idle"
      PROVE  /\ check'[c] \in Checking /\ check'[c].old = check[c].old
             /\ check'[c].at = check[c].at /\ check'[c].folder = check[c].folder
             /\ check'[c].steady = less(c) /\ check'[c].ever = more(c)
             /\ check[c].at \in {"gather", "measure"} => check'[c].left = check[c].left
             /\ check[c].at \in {"measure", "judge"} => check'[c].found = check[c].found
             /\ check[c].at = "measure" => check'[c].roots = check[c].roots
             /\ check[c].at \in {"overridden", "refused"} => check'[c].row = check[c].row
  <2> DEFINE s == less(c)
             e == more(c)
             x == [check[c] EXCEPT !.steady = s]
             y == [x EXCEPT !.ever = e]
  <2>1. check'[c] = [check[c] EXCEPT !.steady = s, !.ever = e]
    BY <1>1, <1>6
  <2>2. s \in Looked /\ e \in Looked
    BY <1>4, <1>6
  <2> HIDE DEF s, e
  <2>3. check'[c] = y
    BY <2>1
  <2> HIDE DEF y
  <2>4. check[c] \in Checking
    BY <1>2 DEF GatedTyped
  <2>5. /\ x \in Checking /\ x.old = check[c].old /\ x.at = check[c].at /\ x.folder = check[c].folder
        /\ x.steady = s /\ x.ever = check[c].ever
        /\ check[c].at \in {"gather", "measure"} => x.left = check[c].left
        /\ check[c].at \in {"measure", "judge"} => x.found = check[c].found
        /\ check[c].at = "measure" => x.roots = check[c].roots
        /\ check[c].at \in {"overridden", "refused"} => x.row = check[c].row
    BY <1>6, <2>2, <2>4, SteadyMoved
  <2> HIDE DEF x
  <2>6. /\ y \in Checking /\ y.old = x.old /\ y.at = x.at /\ y.folder = x.folder
        /\ y.steady = x.steady /\ y.ever = e
        /\ x.at \in {"gather", "measure"} => y.left = x.left
        /\ x.at \in {"measure", "judge"} => y.found = x.found
        /\ x.at = "measure" => y.roots = x.roots
        /\ x.at \in {"overridden", "refused"} => y.row = x.row
    <3>1. x.at # "idle"
      BY <1>6, <2>5
    <3>2. QED
      BY <2>2, <2>5, <3>1, EverMoved DEF y
  <2>7. QED
    BY <2>3, <2>5, <2>6 DEF s, e
<1>7. GatedTyped'
  <2>1. \A c \in GateChecks : check'[c] \in Checking
    BY <1>2, <1>5, <1>6 DEF GatedTyped
  <2>2. check' \in [GateChecks -> Checking]
    BY <1>1, <2>1
  <2>3. QED
    BY <1>1, <1>2, <2>2, DiskTyped DEF GatedTyped
<1>8. \A c \in GateChecks : CheckTells(c)'
  <2> SUFFICES ASSUME NEW c \in GateChecks PROVE CheckTells(c)'
    OBVIOUS
  <2>1. CASE check[c].at = "idle"
    BY <1>5, <2>1 DEF CheckTells
  <2>2. CASE check[c].at # "idle"
    <3> DEFINE own == check[c].folder["models"]
    <3>1. own \in Paths3
      BY <1>2, <2>2, CheckFields
    <3>2. /\ check'[c].at = check[c].at /\ check'[c].folder = check[c].folder
          /\ check'[c].steady = less(c) /\ check'[c].ever = more(c)
          /\ check[c].at \in {"gather", "measure"} => check'[c].left = check[c].left
          /\ check[c].at \in {"measure", "judge"} => check'[c].found = check[c].found
          /\ check[c].at = "measure" => check'[c].roots = check[c].roots
          /\ check[c].at \in {"overridden", "refused"} => check'[c].row = check[c].row
      BY <1>6, <2>2
    <3>3. OwnSteady(c)' \subseteq OwnSteady(c) /\ OwnEver(c) \subseteq OwnEver(c)'
      BY <3>1, <3>2 DEF OwnSteady, OwnEver
    <3>4. EvidenceTells(c)'
      BY <3>2 DEF EvidenceTells
    <3>5. QED
      BY <1>1, <1>2, <2>2, <3>2, <3>3, <3>4, StillKnows
  <2>3. QED
    BY <2>1, <2>2
<1>9. ShownSoon'
  <2>1. \A c \in GateChecks : /\ check'[c].at = check[c].at
                              /\ check[c].at \in Before => check'[c].folder = check[c].folder /\ check'[c].old = check[c].old
    BY <1>5, <1>6 DEF Before
  <2>2. \A c \in GateChecks : PreShows(c)' <=> PreShows(c)
    BY <1>1, <2>1 DEF PreShows
  <2>3. QED
    BY <1>1, <1>2, <2>1, <2>2 DEF ShownSoon
<1>10. QED
  BY <1>7, <1>8, <1>9 DEF GatedInv

(* Every step of the checks, the operator and the disk keeps the invariant.*)
LEMMA GatedStep == ASSUME GatedInv, Gated!Next PROVE GatedInv'
<1>1. ASSUME NEW c \in GateChecks, Gated!Step(c) PROVE GatedInv'
  BY <1>1, StartTurnKeeps, MergeKeeps, GatherKeeps, MeasureKeeps, PublishKeeps, JudgeKeeps DEF Gated!Step
<1>2. ASSUME NEW t \in Targets, NEW name \in Paths3, Gated!SetFolder(t, name) PROVE GatedInv'
  BY <1>2, SetFolderKeeps
<1>3. CASE Gated!SetOverride
  BY <1>3, SetOverrideKeeps
<1>4. ASSUME NEW place \in Directories, Gated!Disk(place) PROVE GatedInv'
  BY <1>4, DiskKeeps
<1>5. QED
  BY <1>1, <1>2, <1>3, <1>4 DEF Gated!Next, Gated!Checks, GateChecks, Gated!Targets, Targets, Paths3

(* So does every step of another part.                                     *)
LEMMA GatedUnmoved == ASSUME GatedInv, UNCHANGED gatedVars PROVE GatedInv'
<1>1. UNCHANGED <<folder, override, disk, check, gateLog, reported, late>>
  BY DEF gatedVars
<1>2. \A c \in GateChecks : CheckTells(c)'
  BY <1>1, OthersKnow DEF GatedInv
<1>3. QED
  BY <1>1, <1>2 DEF GatedInv, GatedTyped, ShownSoon, PreShows

(* The invariant gives the lock.                                           *)
LEMMA GatedLocks == GatedInv => Gated!LockHolds
<1> SUFFICES ASSUME GatedInv, NEW c \in {"turn"}, Gated!Judged(c)
             PROVE  /\ check[c].at = "allowed" => Gated!Seen(c, "steady") = {}
                    /\ check[c].at # "allowed" =>
                         /\ Gated!Seen(c, "ever") # {}
                         /\ check[c].row = "written" => <<c, check[c].at>> \in gateLog
  BY DEF Gated!LockHolds
<1>1. c \in GateChecks /\ check[c].at \in {"allowed", "overridden", "refused"}
  BY DEF GateChecks, Gated!Judged
<1>2. VerdictTells(c)
  BY <1>1 DEF GatedInv, CheckTells
<1> DEFINE own == check[c].folder["models"]
<1>3. /\ Gated!Seen(c, "steady") = {n \in {own} : check[c].steady[n] # {}}
      /\ Gated!Seen(c, "ever") = {n \in {own} : check[c].ever[n] # {}}
  BY DEF Gated!Seen
<1>4. QED
  BY <1>1, <1>2, <1>3 DEF VerdictTells, OwnSteady, OwnEver

(* And the panel, when no check runs that is to publish.                   *)
LEMMA GatedPanel == GatedInv => Gated!PanelShowsTheFolders
<1> SUFFICES ASSUME GatedInv, Gated!Running \subseteq {c \in {"turn"} : Gated!Judged(c)}
             PROVE  reported = folder \/ late
  BY DEF Gated!PanelShowsTheFolders
<1>1. \A c \in GateChecks : check[c].at \notin Before
  BY DEF Gated!Running, Gated!At, Gated!Checks, GateChecks, Gated!Judged, Before
<1>2. QED
  BY <1>1 DEF GatedInv, ShownSoon, PreShows

-----------------------------------------------------------------------------
(* All of it together: what holds of the parts in every state.             *)
WholeInv == ListedInv /\ ToldInv /\ GatedInv

LEMMA WholeBegins == Init => WholeInv
BY ListedBegins, ToldBegins, GatedBegins DEF Init, WholeInv

(* In a step one part moves, and the others stay as they are.              *)
LEMMA WholeStep == WholeInv /\ [Next]_vars => WholeInv'
<1> SUFFICES ASSUME WholeInv, [Next]_vars PROVE WholeInv'
  OBVIOUS
<1>2. (~crossed /\ Listed!Next) \/ UNCHANGED listedVars
  BY DEF Next, vars
<1>3. (~mixed /\ Told!Next) \/ UNCHANGED toldVars
  BY DEF Next, vars
<1>4. Gated!Next \/ UNCHANGED gatedVars
  BY DEF Next, vars
<1>6. ListedInv'
  BY <1>2, ListedStep, ListedUnmoved DEF WholeInv
<1>7. ToldInv'
  BY <1>3, ToldStep, ToldUnmoved DEF WholeInv
<1>8. GatedInv'
  BY <1>4, GatedStep, GatedUnmoved DEF WholeInv
<1>9. QED
  BY <1>6, <1>7, <1>8 DEF WholeInv

(* Every state is one the parts know.                                      *)
LEMMA WholeAlways == Spec => []WholeInv
BY WholeBegins, WholeStep, PTL DEF Spec

(* Every part that moves has its types.                                    *)
THEOREM DeskTyped == Spec => []TypeOK
<1>1. WholeInv => TypeOK
  BY ListedTypes, ToldTypes DEF WholeInv, TypeOK
<1>2. QED
  BY <1>1, WholeAlways, PTL

(* However edits of the catalogue, its move, and starts and stops of a     *)
(* router interleave, a turn is given only to a model with tools, and only *)
(* while it fits the window the model is loaded in.                        *)
THEOREM ModelsFitAlways == Spec => []ModelsFit
<1>1. WholeInv => ModelsFit
  BY ListedFits DEF WholeInv, ModelsFit
<1>2. QED
  BY <1>1, WholeAlways, PTL

(* What the operator set is what a restart loads, what was learned from a  *)
(* chat goes with it, a chat reads as it was said, and a store is locked   *)
(* and shown as what was measured says: for every number of editors, chats *)
(* and memories, and every number of changes.                              *)
THEOREM KeptAsSetAlways == Spec => []KeptAsSet
<1>1. WholeInv => KeptAsSet
  BY ListedRestarts, GatedLocks, GatedPanel DEF WholeInv, KeptAsSet, ToldInv
<1>2. QED
  BY <1>1, WholeAlways, PTL

(* No turn switches a memory on again or writes anew what was switched     *)
(* off, and what it learns by itself stays in the scope of its chat: in    *)
(* every step.                                                             *)
THEOREM RunsKeepFaithAlways == Spec => RunsKeepFaith
<1>2. WholeInv /\ [Next]_vars /\ ~UNCHANGED Told!vars => ToldInv /\ ~mixed /\ Told!Next
  BY DEF Next, vars, toldVars, Told!vars, WholeInv
<1>3. WholeInv /\ [Next]_vars =>
        [\A id \in Slots, c \in Talks : Told!Writes(c) =>
           /\ Told!Held(id) /\ ~memory[id].on => memory'[id] = Told!Absent \/ ~memory'[id].on
           /\ ~Told!Held(id) /\ memory'[id] # Told!Absent /\ ~mixed' =>
                Told!OfContent(talk[c].draft) = {} /\
                (talk[c].draft.how = "automatic" => Told!OfTitle(talk[c].draft) = {})]_(Told!vars)
  BY <1>2, SwitchedOffStep
<1>4. WholeInv /\ [Next]_vars =>
        [\A id \in Slots, c \in Talks :
           /\ Told!Writes(c) /\ talk[c].draft.how = "automatic" /\ ~mixed'
           /\ memory'[id] # memory[id]
           => memory'[id].ws = session[c].ws]_(Told!vars)
  BY <1>2, KeptInScopeStep
<1>6. Spec => Told!SwitchedOffStays
  BY <1>3, WholeAlways, PTL DEF Spec, Told!SwitchedOffStays
<1>7. Spec => Told!KeptInScope
  BY <1>4, WholeAlways, PTL DEF Spec, Told!KeptInScope
<1>8. QED
  BY <1>6, <1>7 DEF RunsKeepFaith
=============================================================================
