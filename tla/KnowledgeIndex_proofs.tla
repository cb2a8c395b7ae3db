------------------------ MODULE KnowledgeIndex_proofs ------------------------
(***************************************************************************)
(* Proofs about the index of one document, for every number of jobs and    *)
(* watchers and of versions of the file.  Stated of the initial states and *)
(* of steps, for the modules that compose the index with other parts.      *)
(***************************************************************************)
EXTENDS KnowledgeIndex, FiniteSetTheorems, TLAPS

(* What is asked of the constants.                                         *)
Bounded == IsFiniteSet(Jobs) /\ MaxSaves \in Nat \ {0}

(* A job that has made its row has an id and a size for it, one that has   *)
(* read the file a version of it; and after a job has stored its passages  *)
(* they are there, or somebody has removed them.                           *)
RowsMade ==
    \A j \in Jobs :
        /\ job[j].at \notin {"idle", "begin"} => job[j].id \in Ids /\ job[j].size \in Sizes
        /\ job[j].at \in {"count", "replace"} => job[j].version \in 1 .. MaxSaves
        /\ job[j].at = "done" => passages # None \/ robbed

IndexInv == TypeOK /\ RowsMade /\ SearchFindsWhole /\ IndexedIsSearchable

-----------------------------------------------------------------------------
(* Something spare.                                                        *)

(* Fewer values than numbers leave a number over.                          *)
LEMMA SomethingSpare ==
    ASSUME NEW T, IsFiniteSet(T), NEW N \in Nat, Cardinality(T) < N
    PROVE  \E n \in 1 .. N : n \notin T
<1>1. IsFiniteSet(1 .. N) /\ Cardinality(1 .. N) = N
  <2>1. 1 \in Int /\ N \in Int
    OBVIOUS
  <2>2. /\ IsFiniteSet(1 .. N)
        /\ Cardinality(1 .. N) = IF 1 > N THEN 0 ELSE N - 1 + 1
    BY <2>1, FS_Interval
  <2>3. QED
    BY <2>2
<1>2. ASSUME 1 .. N \subseteq T
      PROVE  FALSE
  <2>1. Cardinality(1 .. N) <= Cardinality(T)
    BY <1>2, FS_Subset
  <2>2. Cardinality(T) \in Nat
    BY FS_CardinalityType
  <2>3. QED
    BY <1>1, <2>1, <2>2
<1>3. QED
  BY <1>2

(* A function has no more values than arguments.                           *)
LEMMA ImageBound ==
    ASSUME NEW S, IsFiniteSet(S), NEW f, DOMAIN f = S
    PROVE  LET T == {f[x] : x \in S}
           IN  IsFiniteSet(T) /\ Cardinality(T) <= Cardinality(S)
<1> DEFINE T == {f[x] : x \in S}
           g == [x \in S |-> f[x]]
<1>1. g \in Surjection(S, T)
  BY DEF Surjection
<1> HIDE DEF T, g
<1>2. IsFiniteSet(T) /\ Cardinality(T) <= Cardinality(S)
  BY <1>1, FS_Surjection
<1>3. QED
  BY <1>2 DEF T

-----------------------------------------------------------------------------
(* The invariant.                                                          *)

JobStates ==
    [at : {"idle", "queue", "begin", "announce", "extract", "count", "replace", "done", "fail"},
     id : Ids \union {0}, size : Sizes \union {0}, version : 0 .. MaxSaves]
SourceRows == [id : Ids, size : Sizes, status : Statuses]
Stores == [id : Ids, version : 1 .. MaxSaves]

(* The types, with names for the parts.                                    *)
Typed ==
    /\ file \in [version : 1 .. MaxSaves, size : Sizes]
    /\ source \in {None} \union SourceRows
    /\ passages \in {None} \union Stores
    /\ fts \subseteq 1 .. MaxSaves
    /\ job \in [Jobs -> JobStates]
    /\ watching \in BOOLEAN /\ robbed \in BOOLEAN /\ tried \in 0 .. MaxSaves
    /\ watcher \in [Watchers -> [alive : BOOLEAN, pending : BOOLEAN]]

(* They are the same.                                                      *)
LEMMA TypedIsTypeOK == Typed <=> TypeOK
BY DEF Typed, TypeOK, JobStates, SourceRows, Stores

(* Nothing is indexed at first.                                            *)
LEMMA IndexBegins == Bounded /\ Init => IndexInv
<1> SUFFICES ASSUME Bounded, Init
             PROVE  IndexInv
  OBVIOUS
<1>1. MaxSaves \in Nat \ {0}
  BY DEF Bounded
<1>2. /\ file \in [version : 1 .. MaxSaves, size : Sizes]
      /\ source = None /\ passages = None /\ fts = {}
      /\ watching = FALSE /\ robbed = FALSE /\ tried = 0
  BY <1>1 DEF Init
<1>3. job \in [Jobs -> JobStates] /\ \A j \in Jobs : job[j].at = "idle"
  <2>1. Idle \in JobStates /\ Idle.at = "idle"
    BY <1>1 DEF Idle, JobStates
  <2>2. job = [j \in Jobs |-> Idle]
    BY DEF Init
  <2>3. QED
    BY <2>1, <2>2
<1>4. watcher \in [Watchers -> [alive : BOOLEAN, pending : BOOLEAN]]
  BY DEF Init
<1>5. /\ tried \in 0 .. MaxSaves /\ fts \subseteq 1 .. MaxSaves
      /\ source \in {None} \union SourceRows /\ passages \in {None} \union Stores
  BY <1>1, <1>2
<1>6. watching \in BOOLEAN /\ robbed \in BOOLEAN
  BY <1>2
<1>7. Typed
  BY <1>2, <1>3, <1>4, <1>5, <1>6 DEF Typed
<1>8. QED
  BY <1>2, <1>3, <1>7, TypedIsTypeOK
     DEF IndexInv, RowsMade, SearchFindsWhole, IndexedIsSearchable

(* A new source finds an id that nothing refers to.                        *)
LEMMA FreshIdExists ==
    ASSUME Bounded, source = None
    PROVE  FreshId \in Ids
<1> DEFINE f == [j \in Jobs |-> job[j].id]
           T == {f[j] : j \in Jobs}
           n == Cardinality(Jobs)
<1>1. IsFiniteSet(Jobs)
  BY DEF Bounded
<1>2. IsFiniteSet(T) /\ Cardinality(T) <= n
  <2> HIDE DEF T, n
  <2>1. DOMAIN f = Jobs
    OBVIOUS
  <2> HIDE DEF f
  <2>2. QED
    BY <1>1, <2>1, ImageBound DEF T, n
<1>3. n \in Nat /\ Cardinality(T) \in Nat
  BY <1>1, <1>2, FS_CardinalityType
<1>4. /\ IsFiniteSet(T \union {passages.id})
      /\ Cardinality(T \union {passages.id}) < n + 2
  <2> HIDE DEF T, n
  <2>1. /\ IsFiniteSet(T \union {passages.id})
        /\ Cardinality(T \union {passages.id}) =
              IF passages.id \in T THEN Cardinality(T) ELSE Cardinality(T) + 1
    BY <1>2, FS_AddElement
  <2>2. QED
    BY <1>2, <1>3, <2>1
<1>5. PICK i \in 1 .. (n + 2) : i \notin T \union {passages.id}
  <2> HIDE DEF T, n
  <2>1. n + 2 \in Nat
    BY <1>3
  <2>2. QED
    BY <1>4, <2>1, SomethingSpare
<1>6. T = {job[j].id : j \in Jobs}
  OBVIOUS
<1>7. i # source.id
  <2> HIDE DEF n
  <2>1. QED
    BY <1>3, <1>5 DEF None
<1>8. i \in Ids /\ i \notin {source.id, passages.id} \union {job[j].id : j \in Jobs}
  <2> HIDE DEF T
  <2>1. i \in Ids
    BY <1>5 DEF Ids
  <2>2. QED
    BY <1>5, <1>6, <1>7, <2>1
<1>9. QED
  BY <1>8 DEF FreshId

(* The steps of a job.                                                     *)
Working == {"queue", "begin", "announce", "extract", "count", "replace", "done", "fail"}

(* The states a job goes to.                                               *)
LEMMA JobGoesTo ==
    ASSUME Bounded, Typed, NEW j \in Jobs,
           NEW at \in Working
    PROVE  /\ \E x \in JobStates :
                 /\ x.at = at /\ x.id = job[j].id /\ x.size = job[j].size
                 /\ x.version = job[j].version
                 /\ [job EXCEPT ![j].at = at] = [job EXCEPT ![j] = x]
           /\ \E x \in JobStates :
                 /\ x.at = at /\ x.id \in Ids /\ x.size = file.size
                 /\ x.version = job[j].version
                 /\ Row(j, at) = x
           /\ \E x \in JobStates :
                 /\ x.at = at /\ x.id = job[j].id /\ x.size = job[j].size
                 /\ x.version = file.version
                 /\ [job EXCEPT ![j].at = at, ![j].version = file.version]
                      = [job EXCEPT ![j] = x]
<1>1. job[j] \in JobStates /\ job \in [Jobs -> JobStates]
  BY DEF Typed
<1>2. file.size \in Sizes /\ file.version \in 0 .. MaxSaves
  BY DEF Typed, Bounded
<1>3. PICK i \in Ids : i = IF source = None THEN FreshId ELSE source.id
  BY FreshIdExists DEF Typed, SourceRows
<1>4. \E x \in JobStates :
          /\ x.at = at /\ x.id = job[j].id /\ x.size = job[j].size
          /\ x.version = job[j].version
          /\ [job EXCEPT ![j].at = at] = [job EXCEPT ![j] = x]
  <2> DEFINE x == [job[j] EXCEPT !.at = at]
  <2>1. /\ x \in JobStates
        /\ x.at = at /\ x.id = job[j].id /\ x.size = job[j].size /\ x.version = job[j].version
    BY <1>1 DEF JobStates, Working
  <2>2. [job EXCEPT ![j].at = at] = [job EXCEPT ![j] = x]
    BY <1>1
  <2> HIDE DEF x
  <2>3. QED
    BY <2>1, <2>2
<1>5. \E x \in JobStates :
          /\ x.at = at /\ x.id \in Ids /\ x.size = file.size /\ x.version = job[j].version
          /\ Row(j, at) = x
  <2> DEFINE x == [job[j] EXCEPT !.at = at, !.size = file.size, !.id = i]
  <2>1. /\ x \in JobStates
        /\ x.at = at /\ x.id = i /\ x.size = file.size /\ x.version = job[j].version
    BY <1>1, <1>2 DEF JobStates, Working
  <2>2. Row(j, at) = x
    BY <1>3 DEF Row
  <2> HIDE DEF x
  <2>3. QED
    BY <2>1, <2>2
<1>6. \E x \in JobStates :
          /\ x.at = at /\ x.id = job[j].id /\ x.size = job[j].size
          /\ x.version = file.version
          /\ [job EXCEPT ![j].at = at, ![j].version = file.version] = [job EXCEPT ![j] = x]
  <2> DEFINE x == [[job[j] EXCEPT !.at = at] EXCEPT !.version = file.version]
  <2>1. /\ x \in JobStates
        /\ x.at = at /\ x.id = job[j].id /\ x.size = job[j].size /\ x.version = file.version
    BY <1>1, <1>2 DEF JobStates, Working
  <2>2. [job EXCEPT ![j].at = at, ![j].version = file.version] = [job EXCEPT ![j] = x]
    BY <1>1
  <2> HIDE DEF x
  <2>3. QED
    BY <2>1, <2>2
<1>7. QED
  BY <1>4, <1>5, <1>6

(* A state with what its step needs, for a job that has not just stored    *)
(* its passages.                                                           *)
StateMade(x) ==
    /\ x.at \notin {"idle", "begin"} => x.id \in Ids /\ x.size \in Sizes
    /\ x.at \in {"count", "replace"} => x.version \in 1 .. MaxSaves
    /\ x.at # "done"

(* Steps that change a job's state, and no row: all that has to be known   *)
(* is that the state has what its step needs.                              *)
LEMMA JobSteps ==
    ASSUME Bounded, IndexInv, NEW j \in Jobs, NEW x \in JobStates,
           job' = [job EXCEPT ![j] = x],
           StateMade(x),
           UNCHANGED <<file, source, passages, fts, watching, robbed>>,
           tried' \in 0 .. MaxSaves,
           watcher' \in [Watchers -> [alive : BOOLEAN, pending : BOOLEAN]]
    PROVE  IndexInv'
<1>1. Typed
  BY TypedIsTypeOK DEF IndexInv
<1>2. /\ job' \in [Jobs -> JobStates] /\ job'[j] = x
      /\ \A i \in Jobs \ {j} : job'[i] = job[i]
  BY <1>1 DEF Typed
<1>3. Typed'
  BY <1>1, <1>2 DEF Typed
<1>4. TypeOK'
  BY <1>3, TypedIsTypeOK DEF Typed, TypeOK, JobStates, SourceRows, Stores
<1>5. RowsMade'
  BY <1>2 DEF IndexInv, RowsMade, StateMade
<1>6. QED
  BY <1>4, <1>5 DEF IndexInv, SearchFindsWhole, IndexedIsSearchable

(* Who publishes leaves the id of a row that exists.                       *)
LEMMA Upserts ==
    ASSUME Bounded, IndexInv, NEW j \in Jobs, NEW status \in Statuses,
           job[j].at \notin {"idle", "begin"},
           source' = Upserted(job[j], status)
    PROVE  /\ source' \in SourceRows /\ source'.status = status
           /\ source # None => source'.id = source.id
<1>1. job[j].id \in Ids /\ job[j].size \in Sizes
  BY DEF IndexInv, RowsMade
<1>2. source = None \/ source.id \in Ids
  BY DEF IndexInv, TypeOK
<1>3. PICK i \in Ids : i = IF source = None THEN job[j].id ELSE source.id
  BY <1>1, <1>2
<1>4. source' = [id |-> i, size |-> job[j].size, status |-> status]
  BY <1>3 DEF Upserted
<1>5. source' \in SourceRows /\ source'.status = status /\ source'.id = i
  BY <1>1, <1>4 DEF SourceRows
<1>6. QED
  BY <1>3, <1>5

(* Steps that publish and go on: the row is not indexed yet, or its        *)
(* passages are there or were removed.                                     *)
LEMMA PublishSteps ==
    ASSUME Bounded, IndexInv, NEW j \in Jobs, NEW x \in JobStates, NEW status \in Statuses,
           job[j].at \notin {"idle", "begin"},
           source' = Upserted(job[j], status),
           status = "indexed" => passages # None \/ robbed,
           job' = [job EXCEPT ![j] = x],
           StateMade(x),
           UNCHANGED <<file, passages, fts, watching, watcher, tried, robbed>>
    PROVE  IndexInv'
<1>1. Typed
  BY TypedIsTypeOK DEF IndexInv
<1>2. /\ job' \in [Jobs -> JobStates] /\ job'[j] = x
      /\ \A i \in Jobs \ {j} : job'[i] = job[i]
  BY <1>1 DEF Typed
<1>3. /\ source' \in SourceRows /\ source'.status = status
      /\ source # None => source'.id = source.id
  BY Upserts
<1>4. source' # None
  BY <1>3 DEF None, SourceRows
<1>5. Typed'
  BY <1>1, <1>2, <1>3 DEF Typed
<1>6. TypeOK'
  BY <1>5, TypedIsTypeOK DEF Typed, TypeOK, JobStates, SourceRows, Stores
<1>7. RowsMade'
  BY <1>2 DEF IndexInv, RowsMade, StateMade
<1>8. SearchFindsWhole'
  BY <1>3, <1>4 DEF IndexInv, SearchFindsWhole
<1>9. IndexedIsSearchable'
  BY <1>3 DEF IndexedIsSearchable
<1>10. QED
  BY <1>6, <1>7, <1>8, <1>9 DEF IndexInv

(* Every step keeps passages, terms and rows together.                     *)
THEOREM IndexGoesOn == Bounded /\ IndexInv /\ [Next]_vars => IndexInv'
<1> SUFFICES ASSUME Bounded, IndexInv, [Next]_vars
             PROVE  IndexInv'
  OBVIOUS
<1>1. Typed /\ MaxSaves \in Nat \ {0}
  BY TypedIsTypeOK DEF IndexInv, Bounded
<1>2. \A j \in Jobs : job[j] \in JobStates
  BY <1>1 DEF Typed
<1>3. Idle \in JobStates /\ Idle.at = "idle" /\ Idle.id = 0 /\ Idle.size = 0 /\ Idle.version = 0
  BY <1>1 DEF Idle, JobStates
<1>4. /\ file.size \in Sizes /\ file.version \in 1 .. MaxSaves
      /\ watcher \in [Watchers -> [alive : BOOLEAN, pending : BOOLEAN]]
      /\ tried \in 0 .. MaxSaves
  BY <1>1 DEF Typed
<1>5. CASE UNCHANGED vars
  BY <1>5 DEF vars, IndexInv, TypeOK, RowsMade, SearchFindsWhole, IndexedIsSearchable
<1>g. \A j \in Jobs, at \in Working :
          \E x \in JobStates :
              /\ x.at = at /\ x.id = job[j].id /\ x.size = job[j].size
              /\ x.version = job[j].version
              /\ [job EXCEPT ![j].at = at] = [job EXCEPT ![j] = x]
  BY <1>1, JobGoesTo
<1>h. \A j \in Jobs, at \in Working :
          \E x \in JobStates :
              /\ x.at = at /\ x.id \in Ids /\ x.size = file.size
              /\ x.version = job[j].version
              /\ Row(j, at) = x
  BY <1>1, JobGoesTo
<1>i. \A j \in Jobs, at \in Working :
          \E x \in JobStates :
              /\ x.at = at /\ x.id = job[j].id /\ x.size = job[j].size
              /\ x.version = file.version
              /\ [job EXCEPT ![j].at = at, ![j].version = file.version]
                   = [job EXCEPT ![j] = x]
  BY <1>1, JobGoesTo
<1>w. /\ "begin" \in Working /\ "queue" \in Working /\ "announce" \in Working
      /\ "fail" \in Working /\ "count" \in Working /\ "done" \in Working
      /\ "extract" \in Working /\ "replace" \in Working
  BY DEF Working
<1>6. ASSUME NEW j \in Jobs,
             \/ job' = [job EXCEPT ![j].at = "begin"]
             \/ job' = [job EXCEPT ![j] = Row(j, "queue")]
             \/ job' = [job EXCEPT ![j] = Row(j, "announce")],
             UNCHANGED <<file, source, passages, fts, watching, watcher, tried, robbed>>
      PROVE  IndexInv'
  <2>1. CASE job' = [job EXCEPT ![j].at = "begin"]
    <3>1. PICK x \in JobStates : x.at = "begin" /\ job' = [job EXCEPT ![j] = x]
        <4>1. \E x \in JobStates :
                /\ x.at = "begin" /\ x.id = job[j].id /\ x.size = job[j].size
                /\ x.version = job[j].version
                /\ [job EXCEPT ![j].at = "begin"] = [job EXCEPT ![j] = x]
          BY <1>g, <1>w
        <4>2. QED
          BY <2>1, <4>1
    <3>2. StateMade(x)
      BY <3>1 DEF StateMade
    <3>3. QED
      BY <1>4, <1>6, <3>1, <3>2, JobSteps
  <2>2. ASSUME NEW at \in {"queue", "announce"}, job' = [job EXCEPT ![j] = Row(j, at)]
        PROVE  IndexInv'
    <3>1. PICK x \in JobStates :
            x.at = at /\ x.id \in Ids /\ x.size = file.size /\ Row(j, at) = x
      BY <1>h, <1>w
    <3>2. StateMade(x) /\ job' = [job EXCEPT ![j] = x]
      BY <1>4, <2>2, <3>1 DEF StateMade
    <3>3. QED
      BY <1>4, <1>6, <3>1, <3>2, JobSteps
  <2>3. QED
    BY <1>6, <2>1, <2>2
<1>7. ASSUME NEW j \in Jobs, Request(j) \/ Reindex(j) \/ Begin(j)
      PROVE  IndexInv'
  <2>1. /\ \/ job' = [job EXCEPT ![j].at = "begin"]
           \/ job' = [job EXCEPT ![j] = Row(j, "queue")]
           \/ job' = [job EXCEPT ![j] = Row(j, "announce")]
        /\ UNCHANGED <<file, source, passages, fts, watching, watcher, tried, robbed>>
    BY <1>7 DEF Request, Reindex, Begin
  <2>2. QED
    BY <1>6, <2>1
<1>8. ASSUME NEW j \in Jobs, ReindexMissing(j)
      PROVE  IndexInv'
  <2>1. /\ job' = [job EXCEPT ![j] = [Row(j, "fail") EXCEPT !.size = source.size]]
        /\ source # None
        /\ UNCHANGED <<file, source, passages, fts, watching, watcher, tried, robbed>>
    BY <1>8 DEF ReindexMissing
  <2>2. source.size \in Sizes
    BY <1>1, <2>1 DEF Typed, SourceRows
  <2>3. PICK x \in JobStates : x.at = "fail" /\ x.id \in Ids /\ Row(j, "fail") = x
    BY <1>h, <1>w
  <2>4. PICK y : y = [x EXCEPT !.size = source.size]
    OBVIOUS
  <2>5. y \in JobStates /\ StateMade(y) /\ job' = [job EXCEPT ![j] = y]
    BY <2>1, <2>2, <2>3, <2>4 DEF JobStates, StateMade
  <2>6. QED
    BY <1>4, <2>1, <2>5, JobSteps
<1>9. ASSUME NEW j \in Jobs, Extract(j)
      PROVE  IndexInv'
  <2>1. /\ job[j].at = "extract" /\ tried' = file.version
        /\ \/ job' = [job EXCEPT ![j].at = "count", ![j].version = file.version]
           \/ job' = [job EXCEPT ![j].at = "fail"]
        /\ UNCHANGED <<file, source, passages, fts, watching, watcher, robbed>>
    BY <1>9 DEF Extract, At, Goto
  <2>2. job[j].id \in Ids /\ job[j].size \in Sizes
    BY <2>1 DEF IndexInv, RowsMade
  <2>3. tried' \in 0 .. MaxSaves
    BY <1>1, <1>4, <2>1
  <2>4. CASE job' = [job EXCEPT ![j].at = "count", ![j].version = file.version]
    <3>1. PICK x \in JobStates :
            /\ x.at = "count" /\ x.id = job[j].id /\ x.size = job[j].size
            /\ x.version = file.version /\ job' = [job EXCEPT ![j] = x]
        <4>1. \E x \in JobStates :
                /\ x.at = "count" /\ x.id = job[j].id /\ x.size = job[j].size
                /\ x.version = file.version
                /\ [job EXCEPT ![j].at = "count", ![j].version = file.version] = [job EXCEPT ![j] = x]
          BY <1>i, <1>w
        <4>2. QED
          BY <2>4, <4>1
    <3>2. StateMade(x)
      BY <1>4, <2>2, <3>1 DEF StateMade
    <3>3. QED
      BY <1>4, <2>1, <2>3, <3>1, <3>2, JobSteps
  <2>5. CASE job' = [job EXCEPT ![j].at = "fail"]
    <3>1. PICK x \in JobStates :
            /\ x.at = "fail" /\ x.id = job[j].id /\ x.size = job[j].size
            /\ job' = [job EXCEPT ![j] = x]
        <4>1. \E x \in JobStates :
                /\ x.at = "fail" /\ x.id = job[j].id /\ x.size = job[j].size
                /\ x.version = job[j].version
                /\ [job EXCEPT ![j].at = "fail"] = [job EXCEPT ![j] = x]
          BY <1>g, <1>w
        <4>2. QED
          BY <2>5, <4>1
    <3>2. StateMade(x)
      BY <2>2, <3>1 DEF StateMade
    <3>3. QED
      BY <1>4, <2>1, <2>3, <3>1, <3>2, JobSteps
  <2>6. QED
    BY <2>1, <2>4, <2>5
<1>10. ASSUME NEW j \in Jobs, NEW status \in {"queued", "indexing"},
              NEW at \in {"begin", "extract", "replace"}, Publish(j, status, at),
              job[j].at \notin {"idle", "begin"},
              at = "replace" => job[j].at = "count"
       PROVE  IndexInv'
  <2>1. /\ source' = Upserted(job[j], status) /\ status \in Statuses
        /\ job' = [job EXCEPT ![j].at = at]
        /\ UNCHANGED <<file, passages, fts, watching, watcher, tried, robbed>>
    BY <1>10 DEF Publish, Goto, Statuses
  <2>2. PICK x \in JobStates :
          /\ x.at = at /\ x.id = job[j].id /\ x.size = job[j].size
          /\ x.version = job[j].version /\ job' = [job EXCEPT ![j] = x]
      <3>1. \E x \in JobStates :
              /\ x.at = at /\ x.id = job[j].id /\ x.size = job[j].size
              /\ x.version = job[j].version
              /\ [job EXCEPT ![j].at = at] = [job EXCEPT ![j] = x]
        <4>1. at \in Working
          BY DEF Working
        <4>2. QED
          BY <1>g, <4>1
      <3>2. QED
        BY <2>1, <3>1
  <2>3. StateMade(x)
    BY <1>10, <2>2 DEF StateMade, IndexInv, RowsMade
  <2>4. QED
    BY <1>10, <2>1, <2>2, <2>3, PublishSteps
<1>11. ASSUME NEW j \in Jobs, Queue(j) \/ Announce(j) \/ Count(j)
       PROVE  IndexInv'
  BY <1>10, <1>11 DEF Queue, Announce, Count, At
<1>12. ASSUME NEW j \in Jobs, Settle(j)
       PROVE  IndexInv'
  <2>1. PICK status \in Statuses :
          /\ status = IF job[j].at = "done" THEN "indexed" ELSE "failed"
          /\ source' = Upserted(job[j], status)
          /\ job[j].at \in {"done", "fail"} /\ job' = [job EXCEPT ![j] = Idle]
          /\ UNCHANGED <<file, passages, fts, watching, watcher, tried, robbed>>
    BY <1>12 DEF Settle, At, Statuses
  <2>2. status = "indexed" => passages # None \/ robbed
    BY <2>1 DEF IndexInv, RowsMade
  <2>3. StateMade(Idle)
    BY <1>3 DEF StateMade
  <2>4. QED
    BY <1>3, <2>1, <2>2, <2>3, PublishSteps
<1>13. ASSUME NEW j \in Jobs, Replace(j)
       PROVE  IndexInv'
  <2>1. /\ job[j].at = "replace" /\ UNCHANGED <<file, source, watching, watcher, tried>>
        /\ job[j].id \in Ids /\ job[j].size \in Sizes /\ job[j].version \in 1 .. MaxSaves
    BY <1>13 DEF Replace, At, IndexInv, RowsMade
  <2>2. CASE source.id # job[j].id
    <3>1. UNCHANGED <<passages, fts, robbed>> /\ job' = [job EXCEPT ![j].at = "fail"]
      BY <1>13, <2>2 DEF Replace, Goto
    <3>2. PICK x \in JobStates :
            /\ x.at = "fail" /\ x.id = job[j].id /\ x.size = job[j].size
            /\ job' = [job EXCEPT ![j] = x]
        <4>1. \E x \in JobStates :
                /\ x.at = "fail" /\ x.id = job[j].id /\ x.size = job[j].size
                /\ x.version = job[j].version
                /\ [job EXCEPT ![j].at = "fail"] = [job EXCEPT ![j] = x]
          BY <1>g, <1>w
        <4>2. QED
          BY <3>1, <4>1
    <3>3. StateMade(x)
      BY <2>1, <3>2 DEF StateMade
    <3>4. QED
      BY <1>4, <2>1, <3>1, <3>2, <3>3, JobSteps
  <2>3. CASE source.id = job[j].id
    <3>1. /\ passages' = [id |-> job[j].id, version |-> job[j].version]
          /\ fts' = (fts \ Stored(job[j].id)) \union {job[j].version}
          /\ robbed' = FALSE /\ job' = [job EXCEPT ![j].at = "done"]
      BY <1>13, <2>3 DEF Replace, Goto
    <3>2. PICK x \in JobStates :
            /\ x.at = "done" /\ x.id = job[j].id /\ x.size = job[j].size
            /\ job' = [job EXCEPT ![j] = x]
        <4>1. \E x \in JobStates :
                /\ x.at = "done" /\ x.id = job[j].id /\ x.size = job[j].size
                /\ x.version = job[j].version
                /\ [job EXCEPT ![j].at = "done"] = [job EXCEPT ![j] = x]
          BY <1>g, <1>w
        <4>2. QED
          BY <3>1, <4>1
    <3>3. /\ job' \in [Jobs -> JobStates] /\ job'[j] = x
          /\ \A i \in Jobs \ {j} : job'[i] = job[i]
      BY <1>1, <3>2 DEF Typed
    <3>4. /\ passages' \in Stores /\ passages'.id = job[j].id
          /\ passages'.version = job[j].version
      BY <2>1, <3>1 DEF Stores
    <3>5. passages' # None /\ source # None
      <4>1. job[j].id # 0
        BY <2>1 DEF Ids
      <4>2. QED
        BY <2>3, <3>4, <4>1 DEF None
    <3>6. fts \ Stored(job[j].id) = {}
      <4>1. CASE passages = None
        BY <4>1 DEF IndexInv, SearchFindsWhole
      <4>2. CASE passages # None
        BY <2>3, <4>2 DEF IndexInv, SearchFindsWhole, Stored
      <4>3. QED
        BY <4>1, <4>2
    <3>7. fts' = {job[j].version}
      BY <3>1, <3>6
    <3>8. Typed'
      <4>1. fts' \subseteq 1 .. MaxSaves /\ robbed' \in BOOLEAN
        BY <2>1, <3>1, <3>7
      <4>2. QED
        BY <1>1, <2>1, <3>3, <3>4, <4>1 DEF Typed
    <3>9. TypeOK'
      BY <3>8, TypedIsTypeOK DEF Typed, TypeOK, JobStates, SourceRows, Stores
    <3>10. RowsMade'
      BY <2>1, <3>2, <3>3, <3>5 DEF IndexInv, RowsMade
    <3>11. SearchFindsWhole'
      BY <2>1, <2>3, <3>4, <3>5, <3>7 DEF SearchFindsWhole
    <3>12. IndexedIsSearchable'
      BY <3>5 DEF IndexedIsSearchable
    <3>13. QED
      BY <3>9, <3>10, <3>11, <3>12 DEF IndexInv
  <2>4. QED
    BY <2>2, <2>3
<1>14. CASE Remove
  <2>1. /\ source # None /\ source' = None
        /\ fts' = fts \ Stored(source.id)
        /\ passages' = IF passages.id = source.id THEN None ELSE passages
        /\ UNCHANGED <<file, job, watching, watcher, tried>>
    BY <1>14 DEF Remove
  <2>2. robbed' \in BOOLEAN
    BY <1>14 DEF Remove
  <2>3. (\E j \in Jobs : job[j].at # "idle") => robbed'
    BY <1>14 DEF Remove, At
  <2>4. passages' = None /\ fts' = {}
    <3>1. CASE passages = None
      BY <2>1, <3>1 DEF IndexInv, SearchFindsWhole
    <3>2. CASE passages # None
      BY <2>1, <3>2 DEF IndexInv, SearchFindsWhole, Stored
    <3>3. QED
      BY <3>1, <3>2
  <2>5. Typed'
    BY <1>1, <2>1, <2>2, <2>4 DEF Typed
  <2>6. TypeOK'
    BY <2>5, TypedIsTypeOK DEF Typed, TypeOK, JobStates, SourceRows, Stores
  <2>7. RowsMade'
    BY <2>1, <2>3 DEF IndexInv, RowsMade
  <2>8. QED
    BY <2>1, <2>4, <2>6, <2>7 DEF IndexInv, SearchFindsWhole, IndexedIsSearchable
<1>15. ASSUME UNCHANGED <<source, passages, fts, robbed>>,
              file' \in [version : 1 .. MaxSaves, size : Sizes],
              watching' \in BOOLEAN, UNCHANGED tried,
              watcher' \in [Watchers -> [alive : BOOLEAN, pending : BOOLEAN]],
              job' \in [Jobs -> JobStates],
              UNCHANGED job \/ \A j \in Jobs : job'[j].at = "idle"
       PROVE  IndexInv'
  <2>1. Typed'
    BY <1>1, <1>15 DEF Typed
  <2>2. TypeOK'
    BY <2>1, TypedIsTypeOK DEF Typed, TypeOK, JobStates, SourceRows, Stores
  <2>3. RowsMade'
    BY <1>15 DEF IndexInv, RowsMade
  <2>4. QED
    BY <1>15, <2>2, <2>3 DEF IndexInv, SearchFindsWhole, IndexedIsSearchable
<1>16. /\ file \in [version : 1 .. MaxSaves, size : Sizes] /\ watching \in BOOLEAN
       /\ job \in [Jobs -> JobStates]
  BY <1>1 DEF Typed
<1>17. ASSUME NEW size \in Sizes, Save(size)
       PROVE  IndexInv'
  <2>1. /\ file' = [version |-> file.version + 1, size |-> size] /\ file.version < MaxSaves
        /\ UNCHANGED <<source, passages, fts, job, watching, tried, robbed>>
    BY <1>17 DEF Save
  <2>2. file' \in [version : 1 .. MaxSaves, size : Sizes]
    BY <1>1, <1>4, <2>1
  <2>3. watcher' \in [Watchers -> [alive : BOOLEAN, pending : BOOLEAN]]
    <3>1. ASSUME NEW w \in Watchers
          PROVE  [watcher[w] EXCEPT !.pending = @ \/ watcher[w].alive]
                    \in [alive : BOOLEAN, pending : BOOLEAN]
      <4>1. PICK b \in BOOLEAN : b = (watcher[w].pending \/ watcher[w].alive)
        OBVIOUS
      <4>2. [watcher[w] EXCEPT !.pending = b] \in [alive : BOOLEAN, pending : BOOLEAN]
        BY <1>4
      <4>3. QED
        BY <4>1, <4>2
    <3>2. QED
      BY <1>17, <3>1 DEF Save
  <2>4. QED
    BY <1>15, <1>16, <2>1, <2>2, <2>3
<1>18. ASSUME NEW on \in BOOLEAN, SetWatching(on)
       PROVE  IndexInv'
  <2>1. watching' = on /\ UNCHANGED <<file, source, passages, fts, job, tried, robbed>>
    BY <1>18 DEF SetWatching
  <2>2. watcher' \in [Watchers -> [alive : BOOLEAN, pending : BOOLEAN]]
    BY <1>4, <1>18 DEF SetWatching
  <2>3. QED
    BY <1>15, <1>16, <2>1, <2>2
<1>19. ASSUME NEW w \in Watchers, WatcherStops(w)
       PROVE  IndexInv'
  <2>1. UNCHANGED <<file, source, passages, fts, job, watching, tried, robbed>>
    BY <1>19 DEF WatcherStops
  <2>2. watcher' \in [Watchers -> [alive : BOOLEAN, pending : BOOLEAN]]
    BY <1>4, <1>19 DEF WatcherStops
  <2>3. QED
    BY <1>15, <1>16, <2>1, <2>2
<1>20. ASSUME NEW w \in Watchers, WatcherHandles(w)
       PROVE  IndexInv'
  <2>1. UNCHANGED <<file, source, passages, fts, watching, tried, robbed>>
    BY <1>20 DEF WatcherHandles
  <2>2. watcher' \in [Watchers -> [alive : BOOLEAN, pending : BOOLEAN]]
    BY <1>4, <1>20 DEF WatcherHandles
  <2>3. CASE UNCHANGED job
    BY <1>15, <1>16, <2>1, <2>2, <2>3
  <2>4. ASSUME NEW j \in Jobs, job' = [job EXCEPT ![j] = [Idle EXCEPT !.at = "begin"]]
        PROVE  IndexInv'
    <3>1. PICK x : x = [Idle EXCEPT !.at = "begin"]
      OBVIOUS
    <3>2. x \in JobStates /\ x.at = "begin"
      BY <1>1, <3>1 DEF Idle, JobStates
    <3>3. StateMade(x) /\ job' = [job EXCEPT ![j] = x]
      BY <2>4, <3>1, <3>2 DEF StateMade
    <3>4. QED
      BY <1>4, <2>1, <2>2, <3>2, <3>3, JobSteps
  <2>5. QED
    BY <1>20, <2>3, <2>4 DEF WatcherHandles
<1>21. CASE Crash
  <2>1. /\ job' = [j \in Jobs |-> Idle] /\ watching' = FALSE
        /\ UNCHANGED <<file, source, passages, fts, tried, robbed>>
    BY <1>21 DEF Crash
  <2>2. watcher' \in [Watchers -> [alive : BOOLEAN, pending : BOOLEAN]]
    BY <1>21 DEF Crash
  <2>3. job' \in [Jobs -> JobStates] /\ \A j \in Jobs : job'[j].at = "idle"
    BY <1>3, <2>1
  <2>4. QED
    BY <1>15, <1>16, <2>1, <2>2, <2>3
<1>22. QED
  BY <1>5, <1>7, <1>8, <1>9, <1>11, <1>12, <1>13, <1>14, <1>17, <1>18, <1>19, <1>20, <1>21
     DEF Next, Work, Watch

(* What the invariant says to a reader: the types, and search.             *)
LEMMA IndexHolds == IndexInv => TypeOK /\ SearchFindsWhole /\ IndexedIsSearchable
BY DEF IndexInv

==============================================================================
