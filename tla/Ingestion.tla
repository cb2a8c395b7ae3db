------------------------------ MODULE Ingestion ------------------------------
(***************************************************************************)
(* Reading one file into the document store: documents::ingest, by several *)
(* callers at once, while the file is saved and the record is removed.     *)
(*                                                                         *)
(* The bytes are read and hashed first; a record of the same hash, made by *)
(* the same pipeline, is handed back.  Otherwise the text is extracted: by *)
(* itself where the format has it, page by page with a vision model where  *)
(* it has not, and the pages one model could not read are tried with       *)
(* another.  The passes share nothing, so each is one step.                *)
(***************************************************************************)
EXTENDS Naturals, FiniteSets

CONSTANTS
    Readers,     \* calls of ingest
    PageCount,   \* pages of the file
    OcrLimit,    \* MAX_OCR_PAGES
    Kinds,       \* "scan", "native" and "sheet": how the file is read
    Drafts,    \* what the file may hold
    Builds       \* pipelines, oldest first

VARIABLES
    source,      \* the file: its kind and what it holds
    build,       \* the pipeline that runs
    record,      \* the row of this path in documents, with its blocks
    reader       \* each call: its step and what it has so far
vars == <<source, build, record, reader>>

Pages == 1 .. PageCount
None == [sha |-> 0]
Nothing == [at |-> "idle", sha |-> 0, images |-> {}, text |-> {}, thin |-> {},
            silent |-> {}, noted |-> {}, from |-> 0]
At(r, step) == reader[r].at = step
Goto(r, step) == reader' = [reader EXCEPT ![r].at = step]
Drop(r) == reader' = [reader EXCEPT ![r] = Nothing]
Got(r, got) == reader' = [reader EXCEPT ![r] = got]

Init ==
    /\ source \in [kind : Kinds, content : {CHOOSE c \in Drafts : TRUE}]
    /\ build = 1
    /\ record = None
    /\ reader = [r \in Readers |-> Nothing]

-----------------------------------------------------------------------------
(* The bytes are read and hashed; a file that is gone or empty is refused. *)
ReadBytes(r) ==
    /\ At(r, "idle")
    /\ reader' = [reader EXCEPT ![r] = [Nothing EXCEPT !.at = "lookup",
                      !.sha = source.content, !.from = source.content]]
    /\ UNCHANGED <<source, build, record>>

Reusable(r) == record # None /\ record.sha = reader[r].sha /\ record.pipeline = build

(* Same bytes, same place, same pipeline: the record is handed back.       *)
LookUp(r) ==
    /\ At(r, "lookup")
    /\ IF Reusable(r) THEN Drop(r) ELSE Goto(r, "extract")
    /\ UNCHANGED <<source, build, record>>

(* Text of the format itself, from the bytes; a workbook is opened anew    *)
(* from its path.  A page without text is dropped and nothing said of it.  *)
(* What cannot be parsed is refused.                                       *)
ExtractNative(r) ==
    /\ At(r, "extract") /\ source.kind # "scan"
    /\ \/ \E text \in SUBSET Pages :
              Got(r, [reader[r] EXCEPT !.at = "store", !.text = text, !.silent = Pages \ text,
                          !.from = IF source.kind = "sheet" THEN source.content ELSE @])
       \/ Drop(r)
    /\ UNCHANGED <<source, build, record>>

(* Page images of a scan, up to the limit; the rest is noted.  Without an  *)
(* image, or a model for them, the file is refused.                        *)
FindPages(r) ==
    /\ At(r, "extract") /\ source.kind = "scan"
    /\ \/ \E images \in SUBSET Pages :
              /\ Cardinality(images) \in 1 .. OcrLimit
              /\ Got(r, [reader[r] EXCEPT !.at = "read", !.images = images,
                                          !.noted = Pages \ images])
       \/ Drop(r)
    /\ UNCHANGED <<source, build, record>>

(* What the passes have read is kept, unless no page was read at all.      *)
Judged(got) ==
    IF got.text = {} THEN Nothing ELSE [got EXCEPT !.at = "store", !.thin = {}]

(* The first model on every page: read, or too thin to keep, empty or in   *)
(* error.  A reply that only repeats the prompt's example counts as read.  *)
Read(r) ==
    /\ At(r, "read")
    /\ \E thin, echoed \in SUBSET reader[r].images :
          /\ thin \intersect echoed = {}
          /\ LET got == [reader[r] EXCEPT !.thin = thin, !.silent = echoed, !.images = {},
                             !.text = reader[r].images \ (thin \union echoed)]
             IN  Got(r, IF thin = {} THEN Judged(got) ELSE [got EXCEPT !.at = "escalate"])
    /\ UNCHANGED <<source, build, record>>

(* A page the second model cannot read either is a failure of that page;   *)
(* so is every one when there is no second model.                          *)
Unread(r, second, echoed) == reader[r].thin \ (second \union echoed)

(* A second model on the thin pages, if the rules name one that is there.  *)
Escalate(r) ==
    /\ At(r, "escalate")
    /\ \E second, echoed \in SUBSET reader[r].thin :
          /\ second \intersect echoed = {}
          /\ Got(r, Judged([reader[r] EXCEPT
                 !.text = @ \union second, !.silent = @ \union echoed,
                 !.noted = @ \union Unread(r, second, echoed)]))
    /\ UNCHANGED <<source, build, record>>

(* What was read, with the pages that are missing from it noted.           *)
Recorded(got) ==
    [sha |-> got.sha, from |-> got.from, pipeline |-> build,
     text |-> got.text, noted |-> got.noted, silent |-> got.silent]

(* insert_document: one transaction, in place of whatever the path had; or *)
(* the store fails.                                                        *)
Store(r) ==
    /\ At(r, "store")
    /\ record' \in {record, Recorded(reader[r])}
    /\ Drop(r)
    /\ UNCHANGED <<source, build>>

-----------------------------------------------------------------------------
Remove ==
    /\ record # None /\ record' = None
    /\ UNCHANGED <<source, build, reader>>

Save(content) ==
    /\ source' = [source EXCEPT !.content = content]
    /\ UNCHANGED <<build, record, reader>>

(* Another build of the application, whose pipeline differs, is started.   *)
Upgrade ==
    /\ build < Builds
    /\ build' = build + 1
    /\ reader' = [r \in Readers |-> Nothing]
    /\ UNCHANGED <<source, record>>

Reader(r) ==
    \/ ReadBytes(r) \/ LookUp(r) \/ ExtractNative(r) \/ FindPages(r)
    \/ Read(r) \/ Escalate(r) \/ Store(r)

Next ==
    \/ \E r \in Readers : Reader(r)
    \/ Remove \/ Upgrade \/ \E c \in Drafts : Save(c)

Spec == Init /\ [][Next]_vars

-----------------------------------------------------------------------------
TypeOK ==
    /\ source \in [kind : Kinds, content : Drafts] /\ build \in 1 .. Builds
    /\ record = None \/ record \in
           [sha : Drafts, from : Drafts, pipeline : 1 .. Builds,
            text : SUBSET Pages, noted : SUBSET Pages, silent : SUBSET Pages]
    /\ reader \in [Readers ->
           [at : {"idle", "lookup", "extract", "read", "escalate", "store"},
            sha : Drafts \union {0}, from : Drafts \union {0},
            images : SUBSET Pages, text : SUBSET Pages, thin : SUBSET Pages,
            silent : SUBSET Pages, noted : SUBSET Pages]]

(* A record that is partial says so: every page it has no text of is named *)
(* in it, save those that look empty, and no page is named that was read.  *)
PartialSaysSo ==
    record # None =>
        /\ record.text \union record.noted \union record.silent = Pages
        /\ record.noted \intersect (record.text \union record.silent) = {}
        /\ record.noted # {} => record.text # {}

(* The text is of the bytes that were hashed, whoever saved meanwhile; a   *)
(* workbook's may be newer.                                                *)
TextIsOfItsHash == record # None /\ source.kind # "sheet" => record.from = record.sha
=============================================================================
