---------------------------- MODULE FolderPaths ----------------------------
(***************************************************************************)
(* How a name that a model, or a panel, gives becomes a path on the disk.  *)
(*                                                                         *)
(* A path is the sequence of its names.  The open folder is Root, links    *)
(* lead to folders that are there, and the tree changes under everyone.    *)
(* Resolving only looks: resolve refuses what is not plain names, drops a  *)
(* first name that merely repeats the folder's own, and proves that the    *)
(* part that exists lies in the folder.                                    *)
(***************************************************************************)
EXTENDS Naturals, Sequences, SequencesExt, FiniteSets

CONSTANTS
    Spots,      \* bound: the paths something can be at, below the fixed ones
    Rels,       \* relative names that are asked for
    Attached,   \* files shared in this chat
    Approves    \* BOOLEAN: approved_workspace finds the folder

VARIABLE tree   \* what is at each of Spots

Root == <<"w">>
Elsewhere == <<"x">>
Fixed == {<<>>, Root, Elsewhere}
Nowhere == <<"nowhere">>
Leads == [inner |-> Append(Root, "w"), outer |-> Elsewhere]

Kind(p) == IF p \in Spots THEN tree[p] ELSE IF p \in Fixed THEN "folder" ELSE "none"
Parent(p) == SubSeq(p, 1, Len(p) - 1)
Base(p) == p[Len(p)]

(* canonicalize: name by name, through the links; names of what is not     *)
(* there stay as they are, and the path does not exist.                    *)
Settled(p) ==
    LET at[n \in 0 .. Len(p)] ==
            IF n = 0 THEN <<>>
            ELSE LET q == Append(at[n - 1], p[n])
                 IN  IF Kind(q) \in DOMAIN Leads THEN Leads[Kind(q)] ELSE q
    IN  at[Len(p)]
Exists(p) == Kind(Settled(p)) # "none"
Canonical(p) == IF Exists(p) THEN Settled(p) ELSE Nowhere
IsFile(p) == Kind(Settled(p)) = "file"
IsFolder(p) == Kind(Settled(p)) = "folder"
Within(root, p) == IsPrefix(root, p)

(* plain_components                                                        *)
Refused == <<"refused">>
PlainComponents(rel) ==
    IF ".." \in ToSet(rel) \/ "/" \in ToSet(rel) THEN Refused
    ELSE SelectSeq(rel, LAMBDA name : name # ".")

(* without_repeated_root: unless the folder holds a child of that name.    *)
Shortened(checked) ==
    IF checked # <<>> /\ checked[1] = Base(Root) /\ ~Exists(Append(Root, checked[1]))
    THEN Tail(checked) ELSE checked

(* contain: up to the nearest ancestor that exists, which must lie in the  *)
(* folder; the rest is put back under it.                                  *)
ExistingPart(p) ==
    LET up[n \in 0 .. Len(p)] == IF Exists(SubSeq(p, 1, n)) THEN n ELSE up[n - 1]
    IN  SubSeq(p, 1, up[Len(p)])
Contain(p) ==
    LET probe == ExistingPart(p)
    IN  IF Within(Root, Canonical(probe))
        THEN Canonical(probe) \o SubSeq(p, Len(probe) + 1, Len(p)) ELSE Refused

Resolve(rel) ==
    LET checked == PlainComponents(rel)
    IN  IF ~Approves \/ checked = Refused THEN Refused
        ELSE Contain(Root \o Shortened(checked))

(* reverify_after_open: the nearest existing folder above what was opened. *)
Reverified(p) ==
    LET anchor == IF IsFolder(p) THEN p ELSE Parent(p)
    IN  Within(Root, Canonical(ExistingPart(anchor)))

(* read_text: the file read, or refused.                                   *)
ReadText(rel) ==
    LET p == Resolve(rel)
    IN  IF p # Refused /\ Reverified(p) /\ IsFile(p) THEN p ELSE Refused

(* list_dir: the relative names of what a folder holds.                    *)
ListDir(rel) ==
    LET p == Resolve(rel)
    IN  IF p = Refused \/ ~IsFolder(p) THEN {}
        ELSE {Append(rel, Base(q)) : q \in {s \in Spots : Parent(s) = p /\ Kind(s) # "none"}}

(* attachment_by_name and resolve_any: a bare name may be that of a file   *)
(* shared in the chat; two that differ are refused.                        *)
ByName(rel) == {p \in Attached : Len(rel) = 1 /\ Base(p) = rel[1]}

ResolveAny(rel) ==
    LET found == ByName(rel)
        local == Resolve(rel)
    IN  IF found = {} THEN local
        ELSE IF Cardinality(found) > 1 THEN Refused
        ELSE LET shared == Canonical(CHOOSE p \in found : TRUE)
             IN  IF shared = Nowhere \/ local = Refused THEN Refused
                 ELSE IF Exists(local) /\ Canonical(local) # shared THEN Refused
                 ELSE shared

-----------------------------------------------------------------------------
(* What asking resolves to is in the folder; a name that reads as one of   *)
(* its files is that file, so the shortening loses nothing; and what a     *)
(* folder lists can be asked for under the name it is listed by.           *)
StaysInTheFolder ==
    \A rel \in Rels : LET p == Resolve(rel) IN
        p # Refused =>
            /\ Within(Root, p)
            /\ Within(Root, Settled(p))
            /\ Exists(Root \o PlainComponents(rel)) => p = Canonical(Root \o PlainComponents(rel))
            /\ \A name \in ListDir(rel) : Resolve(name) # Refused =>
                   Canonical(Append(p, Base(name))) = Canonical(Resolve(name))

(* A bare name means one file: none other of that name is in the folder    *)
(* or was shared.                                                          *)
NamesOneFile ==
    \A rel \in Rels : LET p == ResolveAny(rel) IN
        p # Refused =>
            /\ \A q \in ByName(rel) : Canonical(q) = p
            /\ Resolve(rel) # Refused /\ Exists(Resolve(rel)) => Canonical(Resolve(rel)) = p
=============================================================================
