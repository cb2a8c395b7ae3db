--------------------------- MODULE TurnLoop_proofs ---------------------------
(***************************************************************************)
(* Proofs about a turn, for every number of rounds, of calls in a reply,   *)
(* of steers and of repairs, and every earlier conversation.  The lemmas   *)
(* about sequences of messages come first, then one section for each part  *)
(* of the inductive invariant: the counters, what a conversation begins    *)
(* with, and how its calls and results pair up.                            *)
(***************************************************************************)
EXTENDS MCTurnLoop, SequenceTheorems, FiniteSetTheorems, WellFoundedInduction, TLAPS

(* A non-empty set of positions of a sequence has a first and a last.      *)
LEMMA FirstPosition ==
    ASSUME NEW S \in SUBSET Nat, S # {}
    PROVE  \E i \in S : \A j \in S : i <= j
<1> DEFINE Less == {p \in Nat \X Nat : p[1] < p[2]}
<1>1. OpToRel(<, Nat) = Less
  BY DEF OpToRel
<1>2. IsWellFoundedOn(Less, Nat)
  BY <1>1, NatLessThanWellFounded
<1> HIDE DEF Less
<1>3. PICK i \in S : \A j \in S : ~(<<j, i>> \in Less)
  BY <1>2, WFMin
<1>4. ASSUME NEW j \in S
      PROVE  i <= j
  <2>1. ~(j < i)
    BY <1>3 DEF Less
  <2>2. QED
    BY <2>1
<1>5. QED
  BY <1>4

(* The same from the other end.                                            *)
LEMMA LastPosition ==
    ASSUME NEW n \in Nat, NEW S \in SUBSET (1 .. n), S # {}
    PROVE  \E i \in S : \A j \in S : j <= i
<1> DEFINE T == {n - i : i \in S}
<1>1. T \in SUBSET Nat /\ T # {}
  <2>1. \A i \in S : n - i \in Nat
    OBVIOUS
  <2>2. QED
    BY <2>1
<1>2. PICK t \in T : \A u \in T : t <= u
  BY <1>1, FirstPosition
<1>3. PICK i \in S : t = n - i
  OBVIOUS
<1>4. ASSUME NEW j \in S
      PROVE  j <= i
  BY <1>2, <1>3
<1>5. QED
  BY <1>4

-----------------------------------------------------------------------------
(* What sequences of messages are made of.                                 *)

(* The parts of a concatenation keep their elements in place.              *)
LEMMA Joined ==
    ASSUME NEW c \in Seq(Message), NEW d \in Seq(Message)
    PROVE  /\ c \o d \in Seq(Message)
           /\ Len(c) \in Nat /\ Len(d) \in Nat
           /\ Len(c \o d) = Len(c) + Len(d)
           /\ DOMAIN c = 1 .. Len(c) /\ DOMAIN d = 1 .. Len(d)
           /\ DOMAIN (c \o d) = 1 .. Len(c) + Len(d)
           /\ \A i \in 1 .. Len(c) : (c \o d)[i] = c[i] /\ c[i] \in Message
           /\ \A i \in 1 .. Len(d) : (c \o d)[Len(c) + i] = d[i] /\ d[i] \in Message
<1>1. /\ c \o d \in Seq(Message)
      /\ Len(c \o d) = Len(c) + Len(d)
      /\ \A i \in 1 .. Len(c) + Len(d) :
            (c \o d)[i] = IF i <= Len(c) THEN c[i] ELSE d[i - Len(c)]
  BY ConcatProperties
<1>2. /\ Len(c) \in Nat /\ DOMAIN c = 1 .. Len(c)
      /\ Len(d) \in Nat /\ DOMAIN d = 1 .. Len(d)
      /\ DOMAIN (c \o d) = 1 .. Len(c \o d)
  BY <1>1, LenProperties
<1>3. /\ \A i \in 1 .. Len(c) : c[i] \in Message
      /\ \A i \in 1 .. Len(d) : d[i] \in Message
  BY ElementOfSeq
<1>4. QED
  BY <1>1, <1>2, <1>3

(* A part of a conversation, and where its messages come from.             *)
LEMMA Part ==
    ASSUME NEW c \in Seq(Message), NEW a \in Nat \ {0}, NEW b \in Nat,
           b <= Len(c)
    PROVE  /\ SubSeq(c, a, b) \in Seq(Message)
           /\ DOMAIN SubSeq(c, a, b) = 1 .. Len(SubSeq(c, a, b))
           /\ Len(SubSeq(c, a, b)) = IF a <= b THEN b - a + 1 ELSE 0
           /\ \A i \in 1 .. b - a + 1 : SubSeq(c, a, b)[i] = c[a + i - 1]
           /\ \A i \in a .. b : i \in DOMAIN c /\ c[i] \in Message
<1>1. Len(c) \in Nat /\ DOMAIN c = 1 .. Len(c) /\ \A i \in 1 .. Len(c) : c[i] \in Message
  BY LenProperties, ElementOfSeq
<1>2. \A i \in a .. b : i \in DOMAIN c /\ c[i] \in Message
  BY <1>1
<1>3. /\ SubSeq(c, a, b) \in Seq(Message)
      /\ Len(SubSeq(c, a, b)) = IF a <= b THEN b - a + 1 ELSE 0
      /\ \A i \in 1 .. b - a + 1 : SubSeq(c, a, b)[i] = c[a + i - 1]
  BY <1>2, SubSeqProperties
<1>4. DOMAIN SubSeq(c, a, b) = 1 .. Len(SubSeq(c, a, b))
  BY <1>3, LenProperties
<1>5. QED
  BY <1>2, <1>3, <1>4

(* A sequence of one message.                                              *)
LEMMA Single ==
    ASSUME NEW m \in Message
    PROVE  /\ <<m>> \in Seq(Message) /\ Len(<<m>>) = 1 /\ <<m>>[1] = m
           /\ DOMAIN <<m>> = 1 .. 1
  OBVIOUS

(* The results a reply waits for, and the notes that steering brings.      *)
LEMMA Repeated ==
    ASSUME NEW n \in Nat, NEW m \in Message
    PROVE  LET s == [k \in 1 .. n |-> m]
           IN  /\ s \in Seq(Message) /\ Len(s) = n /\ DOMAIN s = 1 .. n
               /\ \A k \in 1 .. n : s[k] = m
<1> DEFINE s == [k \in 1 .. n |-> m]
<1>1. s \in [1 .. n -> Message]
  OBVIOUS
<1>2. s \in Seq(Message)
  BY <1>1, SeqDef
<1>3. QED
  BY <1>2, LenProperties

(* What the loop says is a message.                                        *)
LEMMA MessagesTyped ==
    /\ Note \in Message /\ Text \in Message /\ Result \in Message
    /\ Msg("system", "prompt") \in Message
    /\ \A what \in {"past", "request", "note", "digest"} : Msg("user", what) \in Message
    /\ \A n \in 0 .. MaxCalls : Calls(n) \in Message
    /\ \A m \in Message :
         /\ m.calls \in 0 .. MaxCalls
         /\ m.role = "user" => m.what \in {"past", "request", "note", "digest"}
         /\ m.what = "past" => m.role = "user"
    /\ MaxCalls \in Nat
  BY TurnAssumption DEF TurnAssumption, Note, Text, Result, Msg, Calls, Message

-----------------------------------------------------------------------------
(* Pairing.                                                                *)

OnlyAssistantsCall(c) == \A i \in DOMAIN c : c[i].calls > 0 => c[i].role = "assistant"

(* A conversation whose calls and results pair up, in which only           *)
(* assistants make calls.                                                  *)
InOrder(c) == Paired(c) /\ OnlyAssistantsCall(c)

(* Conversations that pair up can be put together.                         *)
LEMMA PairedJoined ==
    ASSUME NEW c \in Seq(Message), NEW d \in Seq(Message), Paired(c), Paired(d)
    PROVE  Paired(c \o d)
<1> DEFINE e == c \o d
           n == Len(c)
<1>0. n \in Nat /\ Len(d) \in Nat /\ MaxCalls \in Nat
  BY Joined, MessagesTyped
<1>1. DOMAIN c = 1 .. n /\ DOMAIN d = 1 .. Len(d) /\ DOMAIN e = 1 .. n + Len(d)
  BY Joined
<1>2. \A i \in 1 .. n : e[i] = c[i] /\ c[i].calls \in 0 .. MaxCalls
  BY Joined, MessagesTyped
<1>3. \A i \in 1 .. Len(d) : e[n + i] = d[i] /\ d[i].calls \in 0 .. MaxCalls
  BY Joined, MessagesTyped
<1> HIDE DEF e, n
<1>4. ASSUME NEW i \in DOMAIN e, NEW k \in 1 .. e[i].calls
      PROVE  i + k \in DOMAIN e /\ e[i + k].role = "tool"
  <2>1. CASE i <= n
    <3>1. i \in 1 .. n /\ e[i] = c[i] /\ k \in Nat
      BY <1>0, <1>1, <1>2, <2>1
    <3>2. i + k \in 1 .. n /\ c[i + k].role = "tool"
      BY <1>1, <3>1 DEF Paired
    <3>3. QED
      BY <1>0, <1>1, <1>2, <3>2
  <2>2. CASE i > n
    <3>1. PICK j \in 1 .. Len(d) : i = n + j
      <4>1. i - n \in 1 .. Len(d) /\ i = n + (i - n)
        BY <1>0, <1>1, <2>2
      <4>2. QED
        BY <4>1
    <3>2. e[i] = d[j] /\ k \in Nat /\ k \in 1 .. d[j].calls
      BY <1>3, <3>1
    <3>3. j + k \in 1 .. Len(d) /\ d[j + k].role = "tool"
      BY <1>1, <3>2 DEF Paired
    <3>4. i + k = n + (j + k) /\ e[n + (j + k)].role = "tool"
      BY <1>0, <1>3, <3>1, <3>2, <3>3
    <3>5. QED
      BY <1>0, <1>1, <3>3, <3>4
  <2>3. QED
    BY <1>0, <1>1, <2>1, <2>2
<1>5. ASSUME NEW i \in DOMAIN e, e[i].role = "tool"
      PROVE  \E k \in 1 .. MaxCalls : k < i /\ e[i - k].calls >= k
  <2>1. CASE i <= n
    <3>1. i \in 1 .. n /\ c[i].role = "tool"
      BY <1>0, <1>1, <1>2, <1>5, <2>1
    <3>2. PICK k \in 1 .. MaxCalls : k < i /\ c[i - k].calls >= k
      BY <1>1, <3>1 DEF Paired
    <3>3. i - k \in 1 .. n
      BY <1>0, <3>1, <3>2
    <3>4. QED
      BY <1>2, <3>2, <3>3
  <2>2. CASE i > n
    <3>1. PICK j \in 1 .. Len(d) : i = n + j
      <4>1. i - n \in 1 .. Len(d) /\ i = n + (i - n)
        BY <1>0, <1>1, <2>2
      <4>2. QED
        BY <4>1
    <3>2. PICK k \in 1 .. MaxCalls : k < j /\ d[j - k].calls >= k
      BY <1>1, <1>3, <1>5, <3>1 DEF Paired
    <3>3. j - k \in 1 .. Len(d) /\ i - k = n + (j - k) /\ k < i
      BY <1>0, <3>1, <3>2
    <3>4. QED
      BY <1>3, <3>2, <3>3
  <2>3. QED
    BY <1>0, <1>1, <2>1, <2>2
<1>6. QED
  BY <1>4, <1>5 DEF Paired, e

(* A number that lies within reach of another is so many steps after it.   *)
LEMMA Gap ==
    ASSUME NEW x \in Nat, NEW y \in Nat, NEW k \in Nat, x < y, y <= x + k
    PROVE  \E l \in Nat : x + l = y /\ 1 <= l /\ l <= k
<1>1. y - x \in Nat /\ x + (y - x) = y /\ 1 <= y - x /\ y - x <= k
  OBVIOUS
<1>2. QED
  BY <1>1

ResultAt(c, i) == c[i].role = "tool"

(* A part that begins and ends at no result pairs up.                      *)
LEMMA PairedPart ==
    ASSUME NEW c \in Seq(Message), Paired(c),
           NEW a \in Nat \ {0}, NEW b \in Nat, b <= Len(c),
           a > b \/ ~ResultAt(c, a), b = Len(c) \/ ~ResultAt(c, b + 1)
    PROVE  Paired(SubSeq(c, a, b))
<1> DEFINE e == SubSeq(c, a, b)
<1>0. PICK n \in Nat : n = Len(c) /\ DOMAIN c = 1 .. n /\ b <= n
  BY LenProperties
<1>1. CASE a > b
  <2>1. DOMAIN e = 1 .. 0
    BY <1>1, Part
  <2>2. QED
    BY <2>1 DEF Paired
<1>2. CASE a <= b
  <2>1. DOMAIN e = 1 .. b - a + 1 /\ \A i \in 1 .. b - a + 1 : e[i] = c[a + i - 1]
    BY <1>2, Part
  <2>2. MaxCalls \in Nat /\ \A i \in 1 .. n : c[i].calls \in Nat
    <3>1. \A i \in 1 .. n : c[i] \in Message
      BY <1>0, ElementOfSeq
    <3>2. QED
      BY <3>1, MessagesTyped
  <2> HIDE DEF e
  (* The message of c that message i of the part is. *)
  <2>3. ASSUME NEW i \in DOMAIN e
        PROVE  \E j \in Nat : /\ j = a + i - 1 /\ e[i] = c[j] /\ i \in Nat
                              /\ a <= j /\ j <= b /\ j \in DOMAIN c
                              /\ c[j].calls \in Nat
    <3>1. /\ a + i - 1 \in Nat /\ a <= a + i - 1 /\ a + i - 1 <= b /\ i \in Nat
          /\ a + i - 1 \in 1 .. n
      BY <1>0, <2>1
    <3>2. QED
      BY <1>0, <2>1, <2>2, <3>1
  <2>4. ASSUME NEW i \in DOMAIN e, NEW k \in 1 .. e[i].calls
        PROVE  i + k \in DOMAIN e /\ e[i + k].role = "tool"
    <3>1. PICK j \in Nat : /\ j = a + i - 1 /\ e[i] = c[j] /\ i \in Nat
                           /\ a <= j /\ j <= b /\ j \in DOMAIN c
                           /\ c[j].calls \in Nat
      BY <2>3
    <3>2. k \in Nat /\ 1 <= k /\ k <= c[j].calls
      BY <3>1
    <3>3. \A l \in 1 .. c[j].calls : j + l \in DOMAIN c /\ ResultAt(c, j + l)
      BY <3>1 DEF Paired, ResultAt
    <3>4. j + k \in DOMAIN c /\ ResultAt(c, j + k)
      BY <3>2, <3>3
    <3>5. j + k <= n
      BY <1>0, <3>4
    <3>6. j + k <= b
      <4>1. SUFFICES ASSUME b < j + k
                     PROVE  FALSE
        BY <3>1, <3>2
      <4>2. ~ResultAt(c, b + 1)
        BY <1>0, <3>1, <3>2, <3>5, <4>1
      <4>3. PICK l \in Nat : j + l = b + 1 /\ 1 <= l /\ l <= k
        <5>1. b + 1 \in Nat /\ j < b + 1 /\ b + 1 <= j + k
          BY <3>1, <3>2, <4>1
        <5>2. QED
          BY <3>2, <5>1, Gap
      <4>4. l \in 1 .. c[j].calls
        BY <3>1, <3>2, <4>3
      <4>5. ResultAt(c, b + 1)
        BY <3>3, <4>3, <4>4
      <4>6. QED
        BY <4>2, <4>5
    <3>7. i + k \in 1 .. b - a + 1 /\ a + (i + k) - 1 = j + k
      BY <3>1, <3>2, <3>6
    <3>8. QED
      BY <2>1, <3>4, <3>7 DEF ResultAt
  <2>5. ASSUME NEW i \in DOMAIN e, e[i].role = "tool"
        PROVE  \E k \in 1 .. MaxCalls : k < i /\ e[i - k].calls >= k
    <3>1. PICK j \in Nat : /\ j = a + i - 1 /\ e[i] = c[j] /\ i \in Nat
                           /\ a <= j /\ j <= b /\ j \in DOMAIN c
                           /\ c[j].calls \in Nat
      BY <2>3
    <3>2. PICK k \in 1 .. MaxCalls : k < j /\ c[j - k].calls >= k
      BY <2>5, <3>1 DEF Paired
    <3>3. PICK h \in Nat : h = j - k /\ 1 <= h /\ k \in Nat /\ h + k = j /\ 1 <= k
      <4>1. k \in Nat /\ 1 <= k
        BY <2>2
      <4>2. j - k \in Nat /\ 1 <= j - k /\ (j - k) + k = j
        BY <3>1, <3>2, <4>1
      <4>3. QED
        BY <4>1, <4>2
    <3>4. h \in DOMAIN c /\ c[h].calls \in Nat /\ k <= c[h].calls
      <4>1. h \in 1 .. n
        BY <1>0, <3>1, <3>3
      <4>2. QED
        BY <1>0, <2>2, <3>2, <3>3, <4>1
    <3>5. a <= h
      <4>1. SUFFICES ASSUME h < a
                     PROVE  FALSE
        BY <3>3
      <4>2. PICK l \in Nat : h + l = a /\ 1 <= l /\ l <= k
        <5>1. a <= h + k
          BY <3>1, <3>3
        <5>2. QED
          BY <3>3, <4>1, <5>1, Gap
      <4>3. l \in 1 .. c[h].calls
        BY <3>3, <3>4, <4>2
      <4>4. ResultAt(c, h + l)
        BY <3>4, <4>3 DEF Paired, ResultAt
      <4>5. QED
        BY <1>2, <4>2, <4>4
    <3>6. k < i /\ i - k \in 1 .. b - a + 1 /\ a + (i - k) - 1 = h
      BY <1>2, <3>1, <3>3, <3>5
    <3>7. e[i - k] = c[h]
      BY <2>1, <3>6
    <3>8. QED
      BY <3>2, <3>4, <3>6, <3>7
  <2>6. QED
    BY <2>4, <2>5 DEF Paired, e
<1>3. QED
  BY <1>0, <1>1, <1>2

(* What follows a message of the system or of a user is no result.         *)
LEMMA NoResultAfter ==
    ASSUME NEW c \in Seq(Message), InOrder(c),
           NEW p \in DOMAIN c, c[p].role \notin {"assistant", "tool"}
    PROVE  /\ c[p].calls = 0
           /\ p + 1 \in DOMAIN c => c[p + 1].role # "tool"
<1>0. Len(c) \in Nat /\ DOMAIN c = 1 .. Len(c) /\ MaxCalls \in Nat
  BY LenProperties, MessagesTyped
<1>1. \A i \in DOMAIN c : c[i].calls \in 0 .. MaxCalls
  BY <1>0, ElementOfSeq, MessagesTyped
<1>2. c[p].calls = 0
  BY <1>0, <1>1 DEF InOrder, OnlyAssistantsCall
<1>3. ASSUME p + 1 \in DOMAIN c, c[p + 1].role = "tool"
      PROVE  FALSE
  <2>0. PICK q \in DOMAIN c : q = p + 1 /\ c[q].role = "tool"
    BY <1>3
  <2>1. PICK k \in 1 .. MaxCalls : k < p + 1 /\ c[p + 1 - k].calls >= k
    <3>1. \E k \in 1 .. MaxCalls : k < q /\ c[q - k].calls >= k
      BY <2>0 DEF InOrder, Paired
    <3>2. QED
      BY <2>0, <3>1
  <2>2. CASE k = 1
    BY <1>0, <1>2, <2>1, <2>2
  <2>3. CASE k > 1
    <3>1. p + 1 - k \in DOMAIN c /\ k - 1 \in 1 .. c[p + 1 - k].calls
          /\ (p + 1 - k) + (k - 1) = p
      BY <1>0, <1>1, <2>1, <2>3
    <3>2. c[p].role = "tool"
      BY <3>1 DEF InOrder, Paired
    <3>3. QED
      BY <3>2
  <2>4. QED
    BY <1>0, <2>1, <2>2, <2>3
<1>4. QED
  BY <1>2, <1>3

(* One message that is no result and makes no calls pairs up.              *)
LEMMA InOrderSingle ==
    ASSUME NEW m \in Message, m.calls = 0, m.role # "tool"
    PROVE  InOrder(<<m>>)
<1>1. DOMAIN <<m>> = 1 .. 1 /\ <<m>>[1] = m
  OBVIOUS
<1>2. QED
  BY <1>1 DEF InOrder, Paired, OnlyAssistantsCall

(* InOrder goes over to concatenations ...                                 *)
LEMMA InOrderJoined ==
    ASSUME NEW c \in Seq(Message), NEW d \in Seq(Message), InOrder(c), InOrder(d)
    PROVE  InOrder(c \o d)
<1>1. Paired(c \o d)
  BY PairedJoined DEF InOrder
<1>2. ASSUME NEW i \in DOMAIN (c \o d)
      PROVE  \/ i \in DOMAIN c /\ (c \o d)[i] = c[i]
             \/ \E j \in DOMAIN d : (c \o d)[i] = d[j]
  <2>1. CASE i <= Len(c)
    BY <1>2, <2>1, Joined
  <2>2. CASE i > Len(c)
    <3>1. i - Len(c) \in 1 .. Len(d) /\ i = Len(c) + (i - Len(c))
      BY <1>2, <2>2, Joined
    <3>2. (c \o d)[Len(c) + (i - Len(c))] = d[i - Len(c)]
      BY <3>1, Joined
    <3>3. QED
      BY <3>1, <3>2, Joined
  <2>3. QED
    BY <1>2, <2>1, <2>2, Joined
<1>3. OnlyAssistantsCall(c \o d)
  BY <1>2 DEF InOrder, OnlyAssistantsCall
<1>4. QED
  BY <1>1, <1>3 DEF InOrder

(* ... and to parts that are cut at no result.                             *)
LEMMA InOrderPart ==
    ASSUME NEW c \in Seq(Message), InOrder(c),
           NEW a \in Nat \ {0}, NEW b \in Nat, b <= Len(c),
           a > b \/ ~ResultAt(c, a), b = Len(c) \/ ~ResultAt(c, b + 1)
    PROVE  InOrder(SubSeq(c, a, b)) /\ SubSeq(c, a, b) \in Seq(Message)
<1> DEFINE e == SubSeq(c, a, b)
<1>1. Paired(e)
  BY PairedPart DEF InOrder
<1>2. /\ e \in Seq(Message) /\ DOMAIN e = 1 .. Len(e)
      /\ Len(e) = IF a <= b THEN b - a + 1 ELSE 0
      /\ \A i \in 1 .. b - a + 1 : e[i] = c[a + i - 1]
      /\ \A i \in a .. b : i \in DOMAIN c
  BY Part
<1> HIDE DEF e
<1>3. ASSUME NEW i \in DOMAIN e
      PROVE  a + i - 1 \in DOMAIN c /\ e[i] = c[a + i - 1]
  <2>1. a <= b /\ i \in 1 .. b - a + 1 /\ a + i - 1 \in a .. b
    BY <1>2
  <2>2. QED
    BY <1>2, <2>1
<1>4. OnlyAssistantsCall(e)
  BY <1>3 DEF InOrder, OnlyAssistantsCall
<1>5. QED
  BY <1>1, <1>2, <1>4 DEF InOrder, e

-----------------------------------------------------------------------------
(* What is asked.                                                          *)

Word(m) == m.role = "user" /\ m.what # "digest"
Past(m) == m.role = "user" /\ m.what = "past"

(* Somebody's words are in the conversation; and somebody's words of this  *)
(* turn are, with none of an earlier turn after them.                      *)
SomeoneAsks(c) == \E i \in DOMAIN c : Word(c[i])
NothingPast(c) == \A i \in DOMAIN c : ~Past(c[i])
AskedLast(c) ==
    \E i \in DOMAIN c :
        /\ Word(c[i]) /\ ~Past(c[i])
        /\ \A j \in DOMAIN c : j > i => ~Past(c[j])

(* What each half of a conversation says, the whole says; the later half   *)
(* has the last word unless it asks nothing of its own.                    *)
LEMMA AskedJoined ==
    ASSUME NEW c \in Seq(Message), NEW d \in Seq(Message)
    PROVE  /\ SomeoneAsks(c) \/ SomeoneAsks(d) => SomeoneAsks(c \o d)
           /\ NothingPast(c) /\ NothingPast(d) => NothingPast(c \o d)
           /\ AskedLast(d) => AskedLast(c \o d)
           /\ AskedLast(c) /\ NothingPast(d) => AskedLast(c \o d)
<1> DEFINE e == c \o d
<1>0. PICK m \in Nat, n \in Nat :
          /\ DOMAIN c = 1 .. m /\ DOMAIN d = 1 .. n /\ DOMAIN e = 1 .. m + n
          /\ \A i \in 1 .. m : e[i] = c[i]
          /\ \A i \in 1 .. n : e[m + i] = d[i]
  BY Joined
<1> HIDE DEF e
<1>1. \A i \in 1 .. m : i \in DOMAIN e
  BY <1>0
<1>2. \A i \in 1 .. n : m + i \in DOMAIN e
  BY <1>0
<1>3. ASSUME NEW i \in DOMAIN e
      PROVE  i \in 1 .. m \/ \E k \in 1 .. n : i = m + k
  <2>1. CASE i > m
    <3>1. i - m \in 1 .. n /\ i = m + (i - m)
      BY <1>0, <2>1
    <3>2. QED
      BY <3>1
  <2>2. QED
    BY <1>0, <2>1
<1>4. SomeoneAsks(c) \/ SomeoneAsks(d) => SomeoneAsks(e)
  BY <1>0, <1>1, <1>2 DEF SomeoneAsks
<1>5. NothingPast(c) /\ NothingPast(d) => NothingPast(e)
  BY <1>0, <1>3 DEF NothingPast
<1>6. ASSUME AskedLast(d)
      PROVE  AskedLast(e)
  <2>1. PICK i \in 1 .. n : /\ Word(d[i]) /\ ~Past(d[i])
                            /\ \A j \in 1 .. n : j > i => ~Past(d[j])
    BY <1>0, <1>6 DEF AskedLast
  <2>2. ASSUME NEW j \in DOMAIN e, j > m + i
        PROVE  ~Past(e[j])
    <3>0. j \notin 1 .. m
      BY <1>0, <2>2
    <3>1. PICK k \in 1 .. n : j = m + k
      BY <1>3, <3>0
    <3>2. k > i
      BY <1>0, <2>2, <3>1
    <3>3. QED
      BY <1>0, <2>1, <3>1, <3>2
  <2>3. QED
    BY <1>0, <1>2, <2>1, <2>2 DEF AskedLast
<1>7. ASSUME AskedLast(c), NothingPast(d)
      PROVE  AskedLast(e)
  <2>1. PICK i \in 1 .. m : /\ Word(c[i]) /\ ~Past(c[i])
                            /\ \A j \in 1 .. m : j > i => ~Past(c[j])
    BY <1>0, <1>7 DEF AskedLast
  <2>2. ASSUME NEW j \in DOMAIN e, j > i
        PROVE  ~Past(e[j])
    BY <1>0, <1>3, <1>7, <2>1, <2>2 DEF NothingPast
  <2>3. QED
    BY <1>0, <1>1, <2>1, <2>2 DEF AskedLast
<1>8. QED
  BY <1>4, <1>5, <1>6, <1>7 DEF e

(* What one message says.                                                  *)
LEMMA AskedSingle ==
    ASSUME NEW m \in Message
    PROVE  /\ Word(m) => SomeoneAsks(<<m>>)
           /\ ~Past(m) => NothingPast(<<m>>)
           /\ Word(m) /\ ~Past(m) => AskedLast(<<m>>)
<1>1. DOMAIN <<m>> = 1 .. 1 /\ <<m>>[1] = m
  OBVIOUS
<1>2. QED
  BY <1>1 DEF SomeoneAsks, NothingPast, AskedLast

-----------------------------------------------------------------------------
(* Compaction.                                                             *)

(* The recent part begins at an assistant's message.                       *)
LEMMA CutIsAStart ==
    ASSUME NEW c \in Seq(Message), Starts(c) # {}
    PROVE  CutAt(c) \in Starts(c)
<1>1. Len(c) \in Nat /\ DOMAIN c = 1 .. Len(c) /\ Starts(c) \in SUBSET (1 .. Len(c))
  BY LenProperties DEF Starts
<1>2. PICK last \in Starts(c) : \A j \in Starts(c) : j <= last
  BY <1>1, LastPosition
<1>3. last \in LastStarts(c)
  <2>1. {j \in Starts(c) : j > last} = {}
    BY <1>1, <1>2
  <2>2. Cardinality({j \in Starts(c) : j > last}) = 0
    BY <2>1, FS_EmptySet
  <2>3. QED
    BY <2>2, TurnAssumption DEF TurnAssumption, LastStarts
<1>4. LastStarts(c) \in SUBSET Nat /\ LastStarts(c) \subseteq Starts(c)
  BY <1>1 DEF LastStarts
<1>5. \E i \in LastStarts(c) : \A j \in LastStarts(c) : i <= j
  BY <1>3, <1>4, FirstPosition
<1>6. CutAt(c) \in LastStarts(c)
  BY <1>5 DEF CutAt
<1>7. QED
  BY <1>4, <1>6

(* The lifted message is the last of the older part that somebody said,    *)
(* and there is one whenever somebody said anything there.                 *)
LEMMA PromptIsTheLast ==
    ASSUME NEW c \in Seq(Message), NEW cut \in DOMAIN c
    PROVE  \/ /\ PromptAt(c, cut) = 0
              /\ \A i \in 1 .. cut - 1 : ~Word(c[i])
           \/ /\ PromptAt(c, cut) \in 1 .. cut - 1 /\ Word(c[PromptAt(c, cut)])
              /\ \A i \in 1 .. cut - 1 : Word(c[i]) => i <= PromptAt(c, cut)
<1> DEFINE users == {i \in 1 .. cut - 1 : c[i].role = "user" /\ c[i].what # "digest"}
<1>1. cut - 1 \in Nat
  BY LenProperties
<1>2. CASE users = {}
  BY <1>2 DEF PromptAt, Word
<1>3. CASE users # {}
  <2>1. users \in SUBSET (1 .. cut - 1)
    OBVIOUS
  <2>2. \E i \in users : \A j \in users : j <= i
    BY <1>1, <1>3, <2>1, LastPosition
  <2>3. PromptAt(c, cut) = CHOOSE i \in users : \A j \in users : j <= i
    BY <1>3 DEF PromptAt
  <2>4. PromptAt(c, cut) \in users /\ \A j \in users : j <= PromptAt(c, cut)
    BY <2>2, <2>3
  <2>5. QED
    BY <2>4 DEF Word
<1>4. QED
  BY <1>2, <1>3

(* The pieces a compacted conversation is put together from, and what is   *)
(* put together, are messages.                                             *)
LEMMA CompactionTyped ==
    ASSUME NEW c \in Seq(Message), NEW cut \in Starts(c)
    PROVE  /\ Digested(c, cut) \in Seq(Message)
           /\ Clipped(c, cut) \in Seq(Message)
<1>0. PICK n \in Nat : n = Len(c) /\ DOMAIN c = 1 .. n
  BY LenProperties
<1>1. cut \in 1 .. n /\ cut \in DOMAIN c /\ cut - 1 \in Nat /\ cut - 1 <= n /\ cut \in Nat \ {0}
  BY <1>0 DEF Starts
<1>2. <<c[1]>> \in Seq(Message)
  BY <1>0, <1>1, ElementOfSeq
<1>3. Recent(c, cut) \in Seq(Message)
  BY <1>0, <1>1, Part DEF Recent
<1>4. Lifted(c, cut) \in Seq(Message) /\ Middle(c, cut) \in Seq(Message)
  <2>1. CASE PromptAt(c, cut) = 0
    <3>1. Lifted(c, cut) = <<>> /\ Middle(c, cut) = SubSeq(c, 2, cut - 1)
      BY <2>1 DEF Lifted, Middle
    <3>2. QED
      BY <1>0, <1>1, <3>1, Part, EmptySeq
  <2>2. CASE PromptAt(c, cut) # 0
    <3>1. PICK p \in Nat : p = PromptAt(c, cut) /\ 1 <= p /\ p <= cut - 1
      BY <1>1, <2>2, PromptIsTheLast
    <3>2. /\ Lifted(c, cut) = <<c[p]>>
          /\ Middle(c, cut) = SubSeq(c, 2, p - 1) \o SubSeq(c, p + 1, cut - 1)
      BY <2>2, <3>1 DEF Lifted, Middle
    <3>3. /\ p \in 1 .. n /\ p - 1 \in Nat /\ p - 1 <= n /\ p + 1 \in Nat \ {0}
      BY <1>1, <3>1
    <3>4. SubSeq(c, 2, p - 1) \in Seq(Message) /\ SubSeq(c, p + 1, cut - 1) \in Seq(Message)
      BY <1>0, <1>1, <3>3, Part
    <3>5. QED
      BY <1>0, <3>2, <3>3, <3>4, ElementOfSeq, Joined
  <2>3. QED
    BY <2>1, <2>2
<1>5. <<Msg("user", "digest")>> \in Seq(Message)
  BY MessagesTyped
<1>6. QED
  BY <1>2, <1>3, <1>4, <1>5, Joined DEF Digested, Clipped

(* Joining keeps how a conversation begins.                                *)
LEMMA JoinedBegins ==
    ASSUME NEW c \in Seq(Message), NEW d \in Seq(Message), InOrder(c), InOrder(d),
           Len(c) >= 1
    PROVE  /\ c \o d \in Seq(Message) /\ InOrder(c \o d)
           /\ Len(c \o d) >= 1 /\ (c \o d)[1] = c[1]
<1>1. c \o d \in Seq(Message) /\ InOrder(c \o d)
  BY InOrderJoined, Joined
<1>2. Len(c) \in Nat /\ Len(d) \in Nat /\ Len(c \o d) = Len(c) + Len(d)
  BY Joined
<1>3. 1 \in 1 .. Len(c)
  BY <1>2
<1>4. (c \o d)[1] = c[1]
  BY <1>3, Joined
<1>5. Len(c \o d) >= 1
  BY <1>2
<1>6. QED
  BY <1>1, <1>4, <1>5

(* The pieces a compacted conversation is put together from pair up.       *)
LEMMA PiecesInOrder ==
    ASSUME NEW c \in Seq(Message), InOrder(c), Len(c) > 0, c[1].role = "system",
           NEW cut \in Starts(c)
    PROVE  /\ c[1] \in Message /\ InOrder(<<c[1]>>) /\ ~Past(c[1])
           /\ Lifted(c, cut) \in Seq(Message) /\ InOrder(Lifted(c, cut))
           /\ Middle(c, cut) \in Seq(Message) /\ InOrder(Middle(c, cut))
           /\ Recent(c, cut) \in Seq(Message) /\ InOrder(Recent(c, cut))
<1>0. PICK n \in Nat : n = Len(c) /\ DOMAIN c = 1 .. n /\ n > 0
  BY LenProperties
<1>1. cut \in 1 .. n /\ c[cut].role = "assistant" /\ cut \in DOMAIN c
  BY <1>0 DEF Starts
<1>2. cut # 1 /\ cut - 1 \in Nat /\ cut - 1 <= n /\ (cut - 1) + 1 = cut /\ 2 <= cut /\ cut \in Nat
  <2>1. cut # 1
    BY <1>1
  <2>2. QED
    BY <1>1, <2>1
<1>3. 1 \in DOMAIN c /\ c[1] \in Message
  BY <1>0, ElementOfSeq
<1>4. c[1].calls = 0 /\ (1 + 1 \in DOMAIN c => c[1 + 1].role # "tool")
  BY <1>3, NoResultAfter
<1>5. InOrder(<<c[1]>>) /\ ~Past(c[1])
  BY <1>3, <1>4, InOrderSingle DEF Past
<1>6. ~ResultAt(c, cut) /\ ~ResultAt(c, (cut - 1) + 1)
  BY <1>1, <1>2 DEF ResultAt
<1>7. 2 <= cut - 1 => ~ResultAt(c, 2)
  BY <1>0, <1>1, <1>2, <1>4 DEF ResultAt
<1>8. InOrder(Recent(c, cut)) /\ Recent(c, cut) \in Seq(Message)
  <2>1. cut \in Nat \ {0}
    BY <1>2
  <2>2. QED
    BY <1>0, <1>6, <2>1, InOrderPart DEF Recent
<1>9. CASE PromptAt(c, cut) = 0
  <2>1. Lifted(c, cut) = <<>> /\ Middle(c, cut) = SubSeq(c, 2, cut - 1)
    BY <1>9 DEF Lifted, Middle
  <2>2. <<>> \in Seq(Message) /\ InOrder(<<>>)
    <3>1. DOMAIN <<>> = {}
      OBVIOUS
    <3>2. QED
      BY <3>1, EmptySeq DEF InOrder, Paired, OnlyAssistantsCall
  <2>3. 2 > cut - 1 \/ ~ResultAt(c, 2)
    BY <1>2, <1>7
  <2>4. InOrder(SubSeq(c, 2, cut - 1)) /\ SubSeq(c, 2, cut - 1) \in Seq(Message)
    BY <1>0, <1>2, <1>6, <2>3, InOrderPart
  <2>5. QED
    BY <1>3, <1>5, <1>8, <2>1, <2>2, <2>4
<1>10. CASE PromptAt(c, cut) # 0
  <2>1. PICK p \in Nat : p = PromptAt(c, cut) /\ Word(c[p]) /\ 1 <= p /\ p <= cut - 1
    BY <1>1, <1>2, <1>10, PromptIsTheLast
  <2>2. /\ Lifted(c, cut) = <<c[p]>>
        /\ Middle(c, cut) = SubSeq(c, 2, p - 1) \o SubSeq(c, p + 1, cut - 1)
    BY <1>10, <2>1 DEF Lifted, Middle
  <2>3. p \in DOMAIN c /\ c[p] \in Message
    BY <1>0, <1>2, <2>1, ElementOfSeq
  <2>4. c[p].role = "user" /\ c[p].role \notin {"assistant", "tool"} /\ p # 1
    BY <2>1 DEF Word
  <2>5. c[p].calls = 0 /\ (p + 1 \in DOMAIN c => c[p + 1].role # "tool")
    BY <2>3, <2>4, NoResultAfter
  <2>6. InOrder(<<c[p]>>) /\ <<c[p]>> \in Seq(Message)
    BY <2>3, <2>4, <2>5, InOrderSingle
  <2>7. /\ p - 1 \in Nat /\ p - 1 <= n /\ (p - 1) + 1 = p /\ p + 1 \in Nat \ {0}
        /\ 2 <= p - 1 => 2 <= cut - 1
    BY <1>0, <1>2, <2>1
  <2>8. ~ResultAt(c, (p - 1) + 1)
    BY <2>4, <2>7 DEF ResultAt
  <2>9. 2 > p - 1 \/ ~ResultAt(c, 2)
    BY <1>7, <2>7
  <2>10. InOrder(SubSeq(c, 2, p - 1)) /\ SubSeq(c, 2, p - 1) \in Seq(Message)
    BY <1>0, <2>7, <2>8, <2>9, InOrderPart
  <2>11. p + 1 > cut - 1 \/ ~ResultAt(c, p + 1)
    <3>1. p + 1 <= cut - 1 => p + 1 \in DOMAIN c
      BY <1>0, <1>2, <2>1
    <3>2. p + 1 <= cut - 1 \/ p + 1 > cut - 1
      BY <1>2, <2>1
    <3>3. QED
      BY <2>5, <3>1, <3>2 DEF ResultAt
  <2>12. InOrder(SubSeq(c, p + 1, cut - 1)) /\ SubSeq(c, p + 1, cut - 1) \in Seq(Message)
    BY <1>0, <1>2, <1>6, <2>7, <2>11, InOrderPart
  <2>13. /\ InOrder(SubSeq(c, 2, p - 1) \o SubSeq(c, p + 1, cut - 1))
         /\ SubSeq(c, 2, p - 1) \o SubSeq(c, p + 1, cut - 1) \in Seq(Message)
    BY <2>10, <2>12, InOrderJoined, Joined
  <2>14. QED
    BY <1>3, <1>5, <1>8, <2>2, <2>6, <2>13
<1>11. QED
  BY <1>9, <1>10

(* A compacted conversation begins with the prompt of the system, pairs    *)
(* up, and holds somebody's words; when its middle became a digest, the    *)
(* last words are still this turn's if they were before.                   *)
LEMMA CompactionKeeps ==
    ASSUME NEW c \in Seq(Message), InOrder(c), Len(c) > 0, c[1].role = "system",
           NEW cut \in Starts(c), SomeoneAsks(c),
           NEW d \in {Digested(c, cut), Clipped(c, cut)}
    PROVE  /\ d \in Seq(Message) /\ InOrder(d)
           /\ Len(d) > 0 /\ d[1].role = "system"
           /\ SomeoneAsks(d)
           /\ d = Digested(c, cut) /\ AskedLast(c) => AskedLast(d)
<1> DEFINE head == <<c[1]>> \o Lifted(c, cut)
           mark == <<Msg("user", "digest")>>
           recent == Recent(c, cut)
<1>0. PICK n \in Nat : n = Len(c) /\ DOMAIN c = 1 .. n /\ cut \in 1 .. n /\ cut \in DOMAIN c
  BY LenProperties DEF Starts
<1>1. /\ c[1] \in Message /\ <<c[1]>> \in Seq(Message) /\ InOrder(<<c[1]>>) /\ ~Past(c[1])
      /\ Lifted(c, cut) \in Seq(Message) /\ InOrder(Lifted(c, cut))
      /\ Middle(c, cut) \in Seq(Message) /\ InOrder(Middle(c, cut))
      /\ recent \in Seq(Message) /\ InOrder(recent)
  BY PiecesInOrder, Single
<1>2. /\ Msg("user", "digest") \in Message /\ mark \in Seq(Message)
      /\ InOrder(mark) /\ NothingPast(mark)
  <2>1. Msg("user", "digest") \in Message
    BY MessagesTyped
  <2>2. /\ Msg("user", "digest").calls = 0 /\ Msg("user", "digest").role # "tool"
        /\ ~Past(Msg("user", "digest"))
    BY DEF Msg, Past
  <2>3. QED
    BY <2>1, <2>2, InOrderSingle, AskedSingle, Single
<1>3. head \in Seq(Message) /\ InOrder(head) /\ Len(head) >= 1 /\ head[1] = c[1]
  <2>1. Len(<<c[1]>>) >= 1 /\ <<c[1]>>[1] = c[1]
    BY <1>1, Single
  <2>2. QED
    BY <1>1, <2>1, JoinedBegins
<1>4. \A i \in cut .. n : i - cut + 1 \in DOMAIN recent
                          /\ recent[i - cut + 1] = c[i]
  <2>1. /\ DOMAIN recent = 1 .. Len(recent) /\ Len(recent) = n - cut + 1
        /\ \A i \in 1 .. n - cut + 1 : recent[i] = c[cut + i - 1]
    BY <1>0, Part DEF Recent
  <2> HIDE DEF recent
  <2>2. ASSUME NEW i \in cut .. n
        PROVE  i - cut + 1 \in 1 .. n - cut + 1 /\ cut + (i - cut + 1) - 1 = i
    BY <1>0
  <2>3. QED
    BY <2>1, <2>2
<1>5. \A k \in DOMAIN recent : \E i \in cut .. n : k = i - cut + 1 /\ recent[k] = c[i]
  <2>1. /\ DOMAIN recent = 1 .. Len(recent) /\ Len(recent) = n - cut + 1
        /\ \A i \in 1 .. n - cut + 1 : recent[i] = c[cut + i - 1]
    BY <1>0, Part DEF Recent
  <2> HIDE DEF recent
  <2>2. ASSUME NEW k \in 1 .. n - cut + 1
        PROVE  cut + k - 1 \in cut .. n /\ k = (cut + k - 1) - cut + 1
    BY <1>0
  <2>3. QED
    BY <2>1, <2>2
<1> HIDE DEF mark, recent
<1>6. SomeoneAsks(head) \/ SomeoneAsks(recent)
  <2>1. PICK i \in 1 .. n : Word(c[i])
    BY <1>0 DEF SomeoneAsks
  <2>2. CASE i \in cut .. n
    BY <1>4, <2>1, <2>2 DEF SomeoneAsks
  <2>3. CASE i \in 1 .. cut - 1
    <3>1. PromptAt(c, cut) # 0 /\ Word(c[PromptAt(c, cut)]) /\ PromptAt(c, cut) \in 1 .. cut - 1
      BY <1>0, <2>1, <2>3, PromptIsTheLast
    <3>2. Lifted(c, cut) = <<c[PromptAt(c, cut)]>> /\ c[PromptAt(c, cut)] \in Message
      <4>1. PromptAt(c, cut) \in 1 .. n
        BY <1>0, <3>1
      <4>2. QED
        BY <1>0, <3>1, <4>1, ElementOfSeq DEF Lifted
    <3>3. SomeoneAsks(Lifted(c, cut))
      BY <3>1, <3>2, AskedSingle
    <3>4. QED
      BY <1>1, <3>3, AskedJoined
  <2>4. QED
    BY <1>0, <2>2, <2>3
<1>7. AskedLast(c) => AskedLast(recent) \/ (AskedLast(head) /\ NothingPast(recent))
  <2>1. SUFFICES ASSUME AskedLast(c)
                 PROVE  AskedLast(recent) \/ (AskedLast(head) /\ NothingPast(recent))
    OBVIOUS
  <2>2. PICK i \in 1 .. n : /\ Word(c[i]) /\ ~Past(c[i])
                            /\ \A j \in 1 .. n : j > i => ~Past(c[j])
    BY <1>0, <2>1 DEF AskedLast
  <2>3. CASE i \in cut .. n
    <3>1. i - cut + 1 \in DOMAIN recent /\ recent[i - cut + 1] = c[i]
      BY <1>4, <2>3
    <3>2. ASSUME NEW k \in DOMAIN recent, k > i - cut + 1
          PROVE  ~Past(recent[k])
      <4>1. PICK j \in cut .. n : k = j - cut + 1 /\ recent[k] = c[j]
        BY <1>5
      <4>2. j > i /\ j \in 1 .. n
        BY <1>0, <3>2, <4>1
      <4>3. QED
        BY <2>2, <4>1, <4>2
    <3>3. AskedLast(recent)
      BY <2>2, <3>1, <3>2 DEF AskedLast
    <3>4. QED
      BY <3>3
  <2>4. CASE i \in 1 .. cut - 1
    <3>1. PICK p \in 1 .. cut - 1 : p = PromptAt(c, cut) /\ p # 0 /\ Word(c[p]) /\ i <= p
      BY <1>0, <2>2, <2>4, PromptIsTheLast
    <3>2. p \in 1 .. n /\ (p = i \/ p > i)
      BY <1>0, <3>1
    <3>3. ~Past(c[p]) /\ c[p] \in Message
      BY <1>0, <2>2, <3>2, ElementOfSeq
    <3>4. Lifted(c, cut) = <<c[p]>>
      BY <3>1 DEF Lifted
    <3>5. AskedLast(Lifted(c, cut))
      BY <3>1, <3>3, <3>4, AskedSingle
    <3>6. AskedLast(head)
      BY <1>1, <3>5, AskedJoined
    <3>7. NothingPast(recent)
      <4>1. ASSUME NEW k \in DOMAIN recent
            PROVE  ~Past(recent[k])
        <5>1. PICK j \in cut .. n : recent[k] = c[j]
          BY <1>5
        <5>2. j > i /\ j \in 1 .. n
          BY <1>0, <2>4
        <5>3. QED
          BY <2>2, <5>1, <5>2
      <4>2. QED
        BY <4>1 DEF NothingPast
    <3>8. QED
      BY <3>6, <3>7
  <2>5. QED
    BY <1>0, <2>3, <2>4
<1> HIDE DEF head
<1>8. CASE d = Digested(c, cut)
  <2>1. d = (head \o mark) \o recent
    BY <1>8 DEF Digested, head, mark, recent
  <2>2. /\ head \o mark \in Seq(Message) /\ InOrder(head \o mark)
        /\ Len(head \o mark) >= 1 /\ (head \o mark)[1] = c[1]
    BY <1>2, <1>3, JoinedBegins
  <2>3. d \in Seq(Message) /\ InOrder(d) /\ Len(d) >= 1 /\ d[1] = c[1]
    BY <1>1, <2>1, <2>2, JoinedBegins
  <2>4. SomeoneAsks(d)
    BY <1>1, <1>2, <1>3, <1>6, <2>1, <2>2, AskedJoined
  <2>5. AskedLast(c) => AskedLast(d)
    BY <1>1, <1>2, <1>3, <1>7, <2>1, <2>2, AskedJoined
  <2>6. QED
    BY <2>3, <2>4, <2>5
<1>9. CASE d = Clipped(c, cut) /\ d # Digested(c, cut)
  <2>1. d = (head \o Middle(c, cut)) \o recent
    BY <1>9 DEF Clipped, head, recent
  <2>2. /\ head \o Middle(c, cut) \in Seq(Message) /\ InOrder(head \o Middle(c, cut))
        /\ Len(head \o Middle(c, cut)) >= 1 /\ (head \o Middle(c, cut))[1] = c[1]
    BY <1>1, <1>3, JoinedBegins
  <2>3. d \in Seq(Message) /\ InOrder(d) /\ Len(d) >= 1 /\ d[1] = c[1]
    BY <1>1, <2>1, <2>2, JoinedBegins
  <2>4. SomeoneAsks(d)
    BY <1>1, <1>3, <1>6, <2>1, <2>2, AskedJoined
  <2>5. QED
    BY <1>9, <2>3, <2>4
<1>10. QED
  BY <1>8, <1>9

-----------------------------------------------------------------------------
(* Types and counters.                                                     *)

(* Every request is paid by a round, a repair, the second chance or the    *)
(* plan; a round that goes on has rounds to spare.                         *)
Spent ==
    loop.rounds + loop.repairs + (IF loop.secondChance THEN 0 ELSE 1)
                + (IF loop.finalize THEN 1 ELSE 0)

Counts ==
    /\ pc \notin {"answer", "answering"} \union Ended => loop.rounds < MaxToolRounds
    /\ pc \in {"assemble", "record", "route", "boundary", "send"} => loop.asks <= Spent
    /\ pc \in {"reply", "acting", "gated", "counted", "quiet"} => loop.asks <= Spent + 1
    /\ loop.asks <= MaxToolRounds + 4
    /\ pc \notin {"answering"} \union Ended => loop.answers = 0 /\ ground.retries = 0
    /\ pc = "answering" => loop.answers = ground.retries + 1
    /\ ground.retries <= 2
    /\ loop.answers <= 3

(* What a turn may spend beside its rounds.                                *)
LEMMA SpentBounded ==
    ASSUME loop \in Locals
    PROVE  /\ Spent \in Nat /\ loop.rounds \in Nat /\ loop.repairs \in Nat
           /\ loop.asks \in Nat /\ loop.answers \in Nat
           /\ loop.rounds <= Spent /\ Spent <= loop.rounds + 4
  BY TurnAssumption DEF TurnAssumption, Spent, Locals

(* Appending messages gives messages.                                      *)
LEMMA AppendTyped ==
    ASSUME NEW c \in Seq(Message), NEW m \in Message
    PROVE  Append(c, m) \in Seq(Message) /\ Append(c, m) = c \o <<m>>
  OBVIOUS

(* What a call leaves of the grounding record and the plan.                *)
LEMMA EffectsTyped ==
    ASSUME ground \in Grounding, plan \in {"none", "open", "complete"},
           NEW e \in CallEffects
    PROVE  /\ e.ground \in Grounding /\ e.ground.retries = ground.retries
           /\ e.plan \in {"none", "open", "complete"}
<1> DEFINE g == [ground EXCEPT !.called = TRUE]
<1>1. g \in Grounding /\ g.retries = ground.retries
  BY DEF Grounding
<1>2. \A x \in {g, [g EXCEPT !.sourced = TRUE], [g EXCEPT !.wrote = TRUE],
                [g EXCEPT !.planned = TRUE], [g EXCEPT !.asked = TRUE]} :
          x \in Grounding /\ x.retries = ground.retries
  BY <1>1 DEF Grounding
<1>3. /\ e.ground \in {g, [g EXCEPT !.sourced = TRUE], [g EXCEPT !.wrote = TRUE],
                       [g EXCEPT !.planned = TRUE], [g EXCEPT !.asked = TRUE]}
      /\ e.plan \in {plan, "open", "complete"}
  BY DEF CallEffects
<1>4. QED
  BY <1>2, <1>3

(* The initial state.                                                      *)
LEMMA CountsInit == Init => TypeOK /\ Counts
<1>1. MaxToolRounds \in Nat \ {0} /\ MaxCalls \in Nat /\ EscalateAt \in Nat /\ MaxSteers \in Nat
  BY TurnAssumption DEF TurnAssumption
<1>2. ASSUME Init
      PROVE  TypeOK /\ Counts
  <2>1. ground \in Grounding /\ loop \in Locals
    BY <1>1, <1>2 DEF Init, Grounding, Locals
  <2>2. setup \in Setups
    BY <1>1, <1>2 DEF Init, Setups
  <2>3. chat \in Seq(Message) /\ record \in Seq({"request", "answer", "failure"})
    BY <1>2, EmptySeq DEF Init
  <2>4. TypeOK
    <3>1. pc = "assemble" /\ pending = 0 /\ plan = "none" /\ failures = 0
      BY <1>2 DEF Init
    <3>2. denied \in BOOLEAN
      BY <1>2 DEF Init
    <3>3. pending \in 0 .. MaxCalls /\ failures \in 0 .. EscalateAt
      BY <1>1, <3>1
    <3>4. QED
      BY <2>1, <2>2, <2>3, <3>1, <3>2, <3>3 DEF TypeOK
  <2>5. /\ pc = "assemble" /\ ground.retries = 0 /\ loop.rounds = 0 /\ loop.repairs = 0
        /\ loop.asks = 0 /\ loop.answers = 0
    BY <1>2 DEF Init
  <2>6. Counts
    BY <1>1, <2>1, <2>5, SpentBounded DEF Counts, Ended
  <2>7. QED
    BY <2>4, <2>6
<1>3. QED
  BY <1>2

(* The steps that leave the counters alone: what they may do to the rest.  *)
LEMMA CountsStill ==
    ASSUME TypeOK, Counts, UNCHANGED <<loop, setup>>,
           chat' \in Seq(Message), pending' \in 0 .. MaxCalls,
           ground' \in Grounding, ground'.retries = ground.retries,
           plan' \in {"none", "open", "complete"}, denied' \in BOOLEAN,
           failures' \in 0 .. EscalateAt,
           record' \in Seq({"request", "answer", "failure"}),
           \/ pc' = pc
           \/ pc = "assemble" /\ pc' = "record"
           \/ pc = "record" /\ pc' = "route"
           \/ pc = "route" /\ pc' \in {"boundary", "answer"}
           \/ pc = "boundary" /\ pc' = "send"
           \/ pc = "reply" /\ pc' \in {"acting", "counted", "quiet"}
           \/ pc \in {"acting", "gated"} /\ pc' \in {"acting", "gated", "counted"}
           \/ pc = "quiet" /\ pc' = "answer"
           \/ pc = "answering" /\ pc' = "done"
           \/ pc \notin Ended /\ pc' = "failed"
    PROVE  TypeOK' /\ Counts'
<1>1. TypeOK'
  BY DEF TypeOK, Ended
<1>2. Spent' = Spent
  BY DEF Spent
<1>3. Counts'
  BY <1>2 DEF Counts, TypeOK, Ended
<1>4. QED
  BY <1>1, <1>3

(* Every step leaves the state well typed and the counters in bounds.      *)
LEMMA CountsStep == TypeOK /\ Counts /\ [Next]_vars => TypeOK' /\ Counts'
<1> SUFFICES ASSUME TypeOK, Counts, [Next]_vars
             PROVE  TypeOK' /\ Counts'
  OBVIOUS
<1> USE DEF Goto
<1>0. /\ MaxToolRounds \in Nat \ {0} /\ MaxCalls \in Nat /\ EscalateAt \in Nat /\ MaxSteers \in Nat
      /\ \A h \in Histories : h \in Seq({Msg("user", "past"), Text})
  BY TurnAssumption DEF TurnAssumption
<1>1. /\ pc \in {"assemble", "record", "route", "boundary", "send", "reply",
                 "acting", "gated", "counted", "quiet", "answer", "answering"} \union Ended
      /\ chat \in Seq(Message) /\ pending \in 0 .. MaxCalls
      /\ ground \in Grounding /\ loop \in Locals /\ setup \in Setups
      /\ plan \in {"none", "open", "complete"} /\ denied \in BOOLEAN
      /\ failures \in 0 .. EscalateAt
      /\ record \in Seq({"request", "answer", "failure"})
  BY DEF TypeOK
<1>2. /\ Append(chat, Note) \in Seq(Message) /\ <<>> \in Seq(Message)
      /\ \A n \in 0 .. MaxCalls : Append(chat, Calls(n)) \in Seq(Message)
      /\ Append(chat, Result) \in Seq(Message)
      /\ \A w \in {"request", "answer", "failure"} :
            Append(record, w) \in Seq({"request", "answer", "failure"})
  BY <1>1, MessagesTyped, AppendTyped, EmptySeq
<1>3. CASE \/ AssembleFails \/ RunFails
  <2>1. PICK from \in {"assemble", "record", "route", "boundary", "send", "reply", "acting",
                       "quiet", "answer", "answering"} : Fail(from)
    BY <1>3 DEF AssembleFails, RunFails
  <2>2. QED
    BY <1>0, <1>1, <1>2, <2>1, CountsStill DEF Fail, Ended
<1>4. CASE Assemble
  <2>1. PICK past \in Histories :
           chat' = <<Msg("system", "prompt")>> \o past \o <<Msg("user", "request")>>
    BY <1>4 DEF Assemble
  <2>2. past \in Seq(Message)
    BY <1>0, <2>1, MessagesTyped, SeqMonotonic
  <2>3. chat' \in Seq(Message)
    BY <2>1, <2>2, MessagesTyped, Single, Joined
  <2>4. QED
    BY <1>1, <1>4, <2>3, CountsStill DEF Assemble
<1>5. CASE \/ RecordRequest \/ Route \/ StopCalling \/ LeaveLoop
           \/ AcceptAnswer \/ UNCHANGED vars
  BY <1>1, <1>2, <1>5, CountsStill
     DEF RecordRequest, Route, StopCalling, LeaveLoop, AcceptAnswer, vars
<1>6. CASE Escalate
  <2>1. loop' = [loop EXCEPT !.fallback = TRUE] /\ loop' \in Locals
    BY <1>1, <1>6 DEF Escalate, Locals
  <2>2. TypeOK'
    BY <1>1, <1>2, <1>6, <2>1 DEF TypeOK, Escalate
  <2>3. /\ loop'.rounds = loop.rounds /\ loop'.repairs = loop.repairs
        /\ loop'.secondChance = loop.secondChance /\ loop'.finalize = loop.finalize
        /\ loop'.asks = loop.asks /\ loop'.answers = loop.answers
    BY <1>1, <2>1 DEF Locals
  <2>4. QED
    BY <1>6, <2>2, <2>3 DEF Counts, Spent, Escalate
<1>7. CASE CompactIfNeeded
  <2>1. /\ loop' \in Locals
        /\ loop'.rounds = loop.rounds /\ loop'.repairs = loop.repairs
        /\ loop'.secondChance = loop.secondChance /\ loop'.finalize = loop.finalize
        /\ loop'.asks = loop.asks /\ loop'.answers = loop.answers
    BY <1>1, <1>7 DEF CompactIfNeeded, Locals
  <2>2. pc = "boundary" /\ pc' = "send"
        /\ UNCHANGED <<pending, ground, plan, denied, failures, record, setup>>
    BY <1>7 DEF CompactIfNeeded
  <2>3. Counts'
    BY <2>1, <2>2 DEF Counts, Spent, Ended
  <2>4. chat' \in Seq(Message)
    <3>1. \/ chat' = chat
          \/ /\ Starts(chat) # {}
             /\ chat' \in {Digested(chat, CutAt(chat)), Clipped(chat, CutAt(chat))}
      BY <1>7 DEF CompactIfNeeded, Compacts
    <3>2. QED
      BY <1>1, <3>1, CutIsAStart, CompactionTyped
  <2>5. QED
    BY <1>1, <2>1, <2>2, <2>3, <2>4 DEF TypeOK
<1>8. CASE SendRound
  <2>1. PICK n \in 0 .. setup.steers :
          /\ chat' = chat \o [i \in 1 .. n |-> Note]
          /\ setup' = [setup EXCEPT !.steers = @ - n]
    BY <1>8 DEF SendRound
  <2>2. setup.steers \in 0 .. MaxSteers /\ n \in Nat
    BY <1>0, <1>1, <2>1 DEF Setups
  <2>3. chat' \in Seq(Message)
    <3>1. [i \in 1 .. n |-> Note] \in Seq(Message)
      BY <2>2, MessagesTyped, Repeated
    <3>2. QED
      BY <1>1, <2>1, <3>1, Joined
  <2>4. setup' \in Setups
    <3>1. setup.steers - n \in 0 .. MaxSteers
      BY <1>0, <2>1, <2>2
    <3>2. QED
      BY <1>1, <2>1, <3>1 DEF Setups
  <2>5. /\ pc = "send" /\ pc' = "reply"
        /\ loop' = [loop EXCEPT !.asks = Counted(@)]
        /\ UNCHANGED <<pending, ground, plan, denied, failures, record>>
    BY <1>8 DEF SendRound
  <2>6. loop.asks \in Nat /\ Counted(loop.asks) \in Nat /\ Counted(loop.asks) <= loop.asks + 1
    BY <1>0, <1>1 DEF Counted, Locals
  <2>7. /\ loop' \in Locals /\ loop'.asks = Counted(loop.asks)
        /\ loop'.rounds = loop.rounds /\ loop'.repairs = loop.repairs
        /\ loop'.secondChance = loop.secondChance /\ loop'.finalize = loop.finalize
        /\ loop'.answers = loop.answers
    BY <1>1, <2>5, <2>6 DEF Locals
  <2>8. TypeOK'
    BY <1>1, <2>3, <2>4, <2>5, <2>7 DEF TypeOK
  <2>9. Spent' = Spent /\ Spent \in Nat /\ Spent + 1 <= MaxToolRounds + 4
    <3>1. Spent' = Spent
      BY <2>7 DEF Spent
    <3>2. loop.rounds < MaxToolRounds
      BY <2>5 DEF Counts, Ended
    <3>3. QED
      BY <1>0, <1>1, <3>1, <3>2, SpentBounded
  <2>10. loop'.asks <= Spent' + 1 /\ loop'.asks <= MaxToolRounds + 4
    BY <1>0, <2>5, <2>6, <2>7, <2>9 DEF Counts
  <2>11. QED
    BY <2>5, <2>7, <2>8, <2>10 DEF Counts, Ended
<1>9. CASE \/ Malformed \/ (\E slip \in Slips : CorrectReply(slip))
  <2>1. chat' \in Seq(Message)
    <3>1. chat \o <<Text, Note>> \in Seq(Message)
      BY <1>1, MessagesTyped
    <3>2. QED
      BY <1>2, <1>9, <3>1 DEF Malformed, CorrectReply
  <2>2. ground' \in Grounding /\ ground'.retries = ground.retries
    <3>1. CASE Malformed
      <4>1. PICK v \in 0 .. 2 : ground' = [ground EXCEPT !.malformed = v]
        <5>1. ground.malformed \in 0 .. 2 /\ ground.malformed < 2
          BY <1>1, <3>1 DEF Malformed, Grounding
        <5>2. ground.malformed + 1 \in 0 .. 2
          BY <5>1
        <5>3. QED
          BY <3>1, <5>2 DEF Malformed
      <4>2. QED
        BY <1>1, <4>1 DEF Grounding
    <3>2. ASSUME NEW slip \in Slips, CorrectReply(slip)
          PROVE  ground' \in Grounding /\ ground'.retries = ground.retries
      BY <1>1, <3>2 DEF CorrectReply, Grounding
    <3>3. QED
      BY <1>9, <3>1, <3>2
  <2>3. /\ pc = "reply" /\ pc' = "counted"
        /\ UNCHANGED <<pending, loop, plan, denied, failures, record, setup>>
    BY <1>9 DEF Malformed, CorrectReply
  <2>4. QED
    BY <1>1, <2>1, <2>2, <2>3, CountsStill
<1>10. ASSUME NEW n \in 1 .. MaxCalls, MakeCalls(n)
       PROVE  TypeOK' /\ Counts'
  <2>1. /\ pc = "reply" /\ pc' = "acting" /\ pending' = n /\ chat' = Append(chat, Calls(n))
        /\ UNCHANGED <<ground, loop, plan, denied, failures, record, setup>>
    BY <1>10 DEF MakeCalls
  <2>2. chat' \in Seq(Message) /\ pending' \in 0 .. MaxCalls
    BY <1>0, <1>2, <2>1
  <2>3. QED
    BY <1>1, <2>1, <2>2, CountsStill
<1>11. CASE Call \/ Answered
  <2>0. PICK from \in {"acting", "gated"} : CallReturns(from)
    BY <1>11 DEF Call, Answered
  <2>1. PICK e \in CallEffects :
          /\ ground' = e.ground /\ plan' = e.plan
          /\ denied' = (denied \/ e.how = "denied")
          /\ failures' = IF e.how = "failed" /\ failures < EscalateAt
                         THEN failures + 1 ELSE failures
          /\ chat' = IF AnswersCall(e.how) THEN Append(chat, Result) ELSE chat
    BY <2>0 DEF CallReturns
  <2>2. /\ ground' \in Grounding /\ ground'.retries = ground.retries
        /\ plan' \in {"none", "open", "complete"}
    BY <1>1, <2>1, EffectsTyped
  <2>3. failures' \in 0 .. EscalateAt /\ chat' \in Seq(Message)
    BY <1>0, <1>1, <1>2, <2>1
  <2>4. denied' \in BOOLEAN
    BY <2>1
  <2>5. /\ pending' \in 0 .. MaxCalls
        /\ pc \in {"acting", "gated"} /\ pc' \in {"acting", "counted"}
        /\ UNCHANGED <<loop, record, setup>>
    BY <1>0, <1>1, <2>0 DEF CallReturns
  <2>6. QED
    BY <1>1, <2>2, <2>3, <2>4, <2>5, CountsStill
<1>12. CASE CountRound
  <2>1. /\ pc = "counted" /\ pc' = IF RoundsSpent THEN "answer" ELSE "boundary"
        /\ loop' = [loop EXCEPT !.rounds = @ + 1]
        /\ ground' = [ground EXCEPT !.planAsked = @ \/ AsksForPlan]
        /\ UNCHANGED <<pending, plan, denied, failures, record, setup>>
    BY <1>12 DEF CountRound
  <2>2. chat' \in Seq(Message)
    <3>1. /\ (IF AsksForPlan THEN <<Note>> ELSE <<>>) \in Seq(Message)
          /\ (IF RoundsSpent THEN <<Note>> ELSE <<>>) \in Seq(Message)
      BY <1>2, MessagesTyped, Single
    <3>2. QED
      BY <1>1, <1>12, <3>1, Joined DEF CountRound
  <2>3. ground' \in Grounding /\ ground'.retries = ground.retries
    BY <1>1, <2>1 DEF Grounding
  <2>4. loop.rounds \in Nat /\ loop.rounds < MaxToolRounds
    BY <1>1, <2>1 DEF Counts, Ended, Locals
  <2>5. /\ loop' \in Locals /\ loop'.rounds = loop.rounds + 1
        /\ loop'.repairs = loop.repairs /\ loop'.secondChance = loop.secondChance
        /\ loop'.finalize = loop.finalize
        /\ loop'.asks = loop.asks /\ loop'.answers = loop.answers
    <3>1. loop.rounds + 1 \in 0 .. MaxToolRounds
      BY <1>0, <2>4
    <3>2. PICK v \in 0 .. MaxToolRounds : v = loop.rounds + 1 /\ loop' = [loop EXCEPT !.rounds = v]
      BY <2>1, <3>1
    <3>3. QED
      BY <1>1, <3>2 DEF Locals
  <2>6. TypeOK'
    BY <1>1, <2>1, <2>2, <2>3, <2>5 DEF TypeOK
  <2>7. Spent' = Spent + 1 /\ Spent \in Nat
    <3>1. loop.repairs \in Nat
      BY <1>1, SpentBounded
    <3>2. Spent' = Spent + 1
      BY <2>4, <2>5, <3>1 DEF Spent
    <3>3. QED
      BY <1>1, <3>2, SpentBounded
  <2>8. pc' = "boundary" => loop'.rounds < MaxToolRounds
    BY <1>0, <2>1, <2>4, <2>5 DEF RoundsSpent
  <2>9. loop'.asks <= Spent' /\ loop'.asks <= MaxToolRounds + 4
    BY <2>1, <2>5, <2>7 DEF Counts
  <2>10. QED
    BY <2>1, <2>3, <2>5, <2>6, <2>8, <2>9 DEF Counts, Ended
<1>13. CASE Repair \/ GiveSecondChance \/ FinalizePlan
  <2>1. /\ pc = "quiet" /\ pc' = "boundary" /\ chat' = Append(chat, Note)
        /\ UNCHANGED <<pending, ground, plan, denied, failures, record, setup>>
    BY <1>13 DEF Repair, GiveSecondChance, FinalizePlan, Again
  <2>2. /\ loop' \in Locals /\ loop'.rounds = loop.rounds
        /\ loop'.asks = loop.asks /\ loop'.answers = loop.answers
        /\ \/ /\ loop'.repairs = loop.repairs + 1
              /\ loop'.secondChance = loop.secondChance /\ loop'.finalize = loop.finalize
           \/ /\ loop'.repairs = loop.repairs /\ loop.secondChance /\ ~loop'.secondChance
              /\ loop'.finalize = loop.finalize
           \/ /\ loop'.repairs = loop.repairs /\ loop'.secondChance = loop.secondChance
              /\ ~loop.finalize /\ loop'.finalize
    <3>1. CASE Repair
      <4>1. loop.repairs \in 0 .. 2 /\ loop.repairs < 2
        BY <1>1, <3>1 DEF Repair, MayHaveGaps, Locals
      <4>2. QED
        <5>1. PICK v \in 0 .. 2 : v = loop.repairs + 1
          BY <4>1
        <5>2. PICK f \in BOOLEAN : loop' = [loop EXCEPT !.repairs = v, !.fallback = f]
          <6>1. (loop.fallback \/ setup.workflow = "dashboard") \in BOOLEAN
            OBVIOUS
          <6>2. QED
            BY <3>1, <5>1, <6>1 DEF Repair, Again
        <5>3. QED
          BY <1>1, <5>1, <5>2 DEF Locals
    <3>2. CASE GiveSecondChance
      BY <1>1, <3>2 DEF GiveSecondChance, Again, Locals
    <3>3. CASE FinalizePlan
      BY <1>1, <3>3 DEF FinalizePlan, ShouldFinalizePlan, Again, Locals
    <3>4. QED
      BY <1>13, <3>1, <3>2, <3>3
  <2>3. TypeOK'
    BY <1>1, <1>2, <2>1, <2>2 DEF TypeOK
  <2>4. loop.rounds \in Nat /\ loop.repairs \in Nat /\ Spent \in Nat
    BY <1>1, SpentBounded
  <2>5. Spent' = Spent + 1
    BY <2>2, <2>4 DEF Spent
  <2>6. QED
    BY <2>1, <2>2, <2>3, <2>4, <2>5 DEF Counts, Ended
<1>14. CASE BeginAnswer
  <2>1. /\ pc = "answer" /\ pc' = "answering"
        /\ chat' = IF ground.called THEN Append(chat, Note) ELSE chat
        /\ loop' = [loop EXCEPT !.answers = @ + 1]
        /\ UNCHANGED <<pending, ground, plan, denied, failures, record, setup>>
    BY <1>14 DEF BeginAnswer
  <2>2. loop.answers = 0 /\ ground.retries = 0
    BY <2>1 DEF Counts, Ended
  <2>3. loop' \in Locals /\ loop'.answers = 1 /\ loop'.asks = loop.asks
    <3>1. loop' = [loop EXCEPT !.answers = 1]
      BY <2>1, <2>2
    <3>2. QED
      BY <1>1, <3>1 DEF Locals
  <2>4. TypeOK'
    BY <1>1, <1>2, <2>1, <2>3 DEF TypeOK
  <2>5. QED
    BY <2>1, <2>2, <2>3, <2>4 DEF Counts, Ended
<1>15. CASE AnswerMalformed \/ (\E i \in 1 .. Len(AnswerSlips) : AnswerSlipped(i))
  <2>1. PICK stage \in Nat : Reask(stage)
    <3>1. ASSUME NEW i \in 1 .. Len(AnswerSlips), AnswerSlipped(i)
          PROVE  \E stage \in Nat : Reask(stage)
      BY <3>1 DEF AnswerSlipped, AnswerSlips
    <3>2. QED
      BY <1>15, <3>1 DEF AnswerMalformed
  <2>2. /\ pc = "answering" /\ pc' = pc /\ chat' = Append(chat, Note)
        /\ ground.retries < 2
        /\ ground' = [ground EXCEPT !.retries = @ + 1]
        /\ loop' = [loop EXCEPT !.stage = stage, !.answers = @ + 1]
        /\ UNCHANGED <<pending, plan, denied, failures, record, setup>>
    BY <2>1 DEF Reask, AnswerBudgetLeft
  <2>3. /\ ground.retries \in Nat /\ loop.answers \in Nat
        /\ loop.answers = ground.retries + 1
    BY <1>1, <2>2 DEF Grounding, Locals, Counts
  <2>4. ground' \in Grounding /\ ground'.retries = ground.retries + 1
    BY <1>1, <2>2, <2>3 DEF Grounding
  <2>5. loop' \in Locals /\ loop'.answers = loop.answers + 1 /\ loop'.asks = loop.asks
    <3>1. loop' = [loop EXCEPT !.stage = stage, !.answers = loop.answers + 1]
      BY <2>2
    <3>2. PICK v \in Nat : v = loop.answers + 1
      BY <2>3
    <3>3. loop' = [loop EXCEPT !.stage = stage, !.answers = v]
      BY <3>1, <3>2
    <3>4. QED
      BY <1>1, <3>2, <3>3 DEF Locals
  <2>6. TypeOK'
    BY <1>1, <1>2, <2>2, <2>4, <2>5 DEF TypeOK
  <2>7. QED
    BY <2>2, <2>3, <2>4, <2>5, <2>6 DEF Counts, Ended
<1>16. CASE AskPermission
  BY <1>1, <1>16, CountsStill DEF AskPermission
<1>17. QED
  BY <1>3, <1>4, <1>5, <1>6, <1>7, <1>8, <1>9, <1>10, <1>11, <1>12, <1>13, <1>14, <1>15, <1>16
     DEF Next, Work, Stop

-----------------------------------------------------------------------------
(* The record and the hold on writes without a source.                     *)

Rows == {"request", "answer", "failure"}

Begins ==
    /\ pc \in {"assemble", "record"} => record = <<>> /\ loop.asks = 0 /\ loop.answers = 0
    /\ pc \notin {"assemble", "record", "failed"} => Len(record) > 0 /\ record[1] = "request"
    /\ pc \in {"assemble", "record", "route"} => ~ground.asked
    /\ AskedOnRecord
    /\ HeldWriteIsRaised

(* The transcript of the turn only grows at its end.                       *)
LEMMA RowsGrow ==
    ASSUME NEW r \in Seq(Rows), NEW w \in Rows
    PROVE  /\ Len(Append(r, w)) > 0
           /\ Len(r) > 0 => Append(r, w)[1] = r[1]
           /\ r = <<>> => Append(r, w)[1] = w
<1>1. /\ Len(r) \in Nat /\ Len(Append(r, w)) = Len(r) + 1
      /\ \A i \in 1 .. Len(r) : Append(r, w)[i] = r[i]
      /\ Append(r, w)[Len(r) + 1] = w
  BY AppendProperties, LenProperties
<1>2. r = <<>> => Len(r) = 0
  BY EmptySeq
<1>3. Len(r) > 0 => 1 \in 1 .. Len(r)
  BY <1>1
<1>4. QED
  BY <1>1, <1>2, <1>3

(* At first nothing is on record and nothing has been asked.               *)
LEMMA BeginsInit == Init => Begins
<1>1. ASSUME Init
      PROVE  /\ pc = "assemble" /\ record = <<>> /\ loop.asks = 0 /\ loop.answers = 0
             /\ ~ground.asked
  BY <1>1 DEF Init
<1>2. QED
  BY <1>1 DEF Begins, AskedOnRecord, HeldWriteIsRaised

(* The steps between the assembly and the answer: the record stays, and    *)
(* the answer is reached when the held write has been raised.              *)
LEMMA BeginsStill ==
    ASSUME Begins, UNCHANGED record,
           pc \notin {"assemble", "record"} \union Ended, pc' \notin {"assemble", "record"} \union Ended,
           pc' = "route" => UNCHANGED <<pc, ground>>,
           pc' \in {"answer", "answering"} =>
               \/ ~(ground'.asked /\ ~ground'.wrote)
               \/ ~loop'.secondChance
               \/ loop'.rounds = MaxToolRounds
    PROVE  Begins'
  BY DEF Begins, AskedOnRecord, HeldWriteIsRaised, NudgeLeftNothing, Ended

(* Every step keeps the record in order and raises what was held.          *)
LEMMA BeginsStep == TypeOK /\ TypeOK' /\ Counts /\ Begins /\ [Next]_vars => Begins'
<1> SUFFICES ASSUME TypeOK, TypeOK', Counts, Begins, [Next]_vars
             PROVE  Begins'
  OBVIOUS
<1> USE DEF Goto
<1>0. MaxToolRounds \in Nat \ {0}
  BY TurnAssumption DEF TurnAssumption
<1>1. /\ record \in Seq(Rows) /\ loop \in Locals /\ loop' \in Locals /\ ground \in Grounding
      /\ loop.asks \in Nat /\ loop.answers \in Nat
  BY DEF TypeOK, Rows, Locals
<1>2. \A w \in Rows : /\ Len(Append(record, w)) > 0
                      /\ Len(record) > 0 => Append(record, w)[1] = record[1]
                      /\ record = <<>> => Append(record, w)[1] = w
  BY <1>1, RowsGrow
<1>3. CASE AssembleFails \/ RunFails
  <2>1. PICK from \in {"assemble", "record", "route", "boundary", "send", "reply", "acting",
                       "quiet", "answer", "answering"} : Fail(from)
    BY <1>3 DEF AssembleFails, RunFails
  <2>2. /\ pc = from /\ pc' = "failed" /\ record' = Append(record, "failure")
        /\ UNCHANGED <<loop, ground>>
    BY <2>1 DEF Fail
  <2>3. loop.asks + loop.answers > 0 => Len(record') > 0 /\ record'[1] = "request"
    BY <1>1, <1>2, <2>2 DEF Begins, Rows
  <2>4. QED
    BY <2>2, <2>3 DEF Begins, AskedOnRecord, HeldWriteIsRaised
<1>4. CASE Assemble
  BY <1>4 DEF Assemble, Begins, AskedOnRecord, HeldWriteIsRaised
<1>5. CASE RecordRequest
  BY <1>1, <1>2, <1>5 DEF RecordRequest, Begins, Rows, AskedOnRecord, HeldWriteIsRaised
<1>6. CASE Route
  BY <1>6, BeginsStill DEF Route, Begins, Ended
<1>7. CASE \/ Escalate \/ CompactIfNeeded \/ SendRound
           \/ Malformed \/ (\E slip \in Slips : CorrectReply(slip))
           \/ (\E n \in 1 .. MaxCalls : MakeCalls(n)) \/ StopCalling
           \/ Repair \/ GiveSecondChance \/ FinalizePlan
  <2>1. /\ UNCHANGED record /\ pc \notin {"assemble", "record"} \union Ended
        /\ pc' \in {"boundary", "send", "reply", "counted", "acting", "quiet"}
    BY <1>7 DEF Escalate, CompactIfNeeded, SendRound, Malformed, CorrectReply, MakeCalls,
                StopCalling, Repair, GiveSecondChance, FinalizePlan, Again, Ended
  <2>2. QED
    BY <2>1, BeginsStill DEF Ended
<1>8. CASE Call \/ AskPermission \/ Answered
  <2>1. /\ UNCHANGED record /\ pc \in {"acting", "gated"}
        /\ pc' \in {"acting", "gated", "counted"}
    BY <1>8 DEF Call, AskPermission, Answered, CallReturns
  <2>2. QED
    BY <2>1, BeginsStill DEF Ended
<1>9. CASE CountRound
  <2>1. /\ UNCHANGED record /\ pc = "counted" /\ pc' = IF RoundsSpent THEN "answer" ELSE "boundary"
        /\ loop' = [loop EXCEPT !.rounds = @ + 1]
    BY <1>9 DEF CountRound
  <2>2. RoundsSpent => loop'.rounds = MaxToolRounds
    <3>1. loop.rounds \in Nat /\ loop.rounds < MaxToolRounds
      BY <1>1, <2>1 DEF Locals, Counts, Ended
    <3>2. loop'.rounds = loop.rounds + 1
      <4>1. PICK v \in Nat : v = loop.rounds + 1
        BY <3>1
      <4>2. loop' = [loop EXCEPT !.rounds = v]
        BY <2>1, <4>1
      <4>3. QED
        BY <1>1, <4>1, <4>2 DEF Locals
    <3>3. QED
      BY <1>0, <3>1, <3>2 DEF RoundsSpent
  <2>3. QED
    BY <2>1, <2>2, BeginsStill DEF Ended
<1>10. CASE LeaveLoop
  BY <1>10, BeginsStill DEF LeaveLoop, NudgeLeftNothing, Ended
<1>11. CASE BeginAnswer
  <2>1. /\ UNCHANGED <<record, ground>> /\ pc = "answer" /\ pc' = "answering"
        /\ loop' = [loop EXCEPT !.answers = @ + 1]
    BY <1>11 DEF BeginAnswer
  <2>2. loop'.rounds = loop.rounds /\ loop'.secondChance = loop.secondChance
    BY <1>1, <2>1 DEF Locals
  <2>3. QED
    BY <2>1, <2>2, BeginsStill DEF Begins, HeldWriteIsRaised, NudgeLeftNothing, Ended
<1>12. CASE AnswerMalformed \/ (\E i \in 1 .. Len(AnswerSlips) : AnswerSlipped(i))
  <2>1. PICK stage : Reask(stage)
    BY <1>12 DEF AnswerMalformed, AnswerSlipped
  <2>2. /\ UNCHANGED <<record, pc>> /\ pc = "answering"
        /\ ground' = [ground EXCEPT !.retries = @ + 1]
        /\ loop' = [loop EXCEPT !.stage = stage, !.answers = @ + 1]
    BY <2>1 DEF Reask
  <2>3. /\ loop'.rounds = loop.rounds /\ loop'.secondChance = loop.secondChance
        /\ ground'.asked = ground.asked /\ ground'.wrote = ground.wrote
    BY <1>1, <2>2 DEF Locals, Grounding
  <2>4. QED
    BY <2>2, <2>3, BeginsStill DEF Begins, HeldWriteIsRaised, NudgeLeftNothing, Ended
<1>13. CASE AcceptAnswer
  <2>1. /\ pc = "answering" /\ pc' = "done" /\ record' = Append(record, "answer")
        /\ UNCHANGED <<loop, ground>>
    BY <1>13 DEF AcceptAnswer
  <2>2. Len(record') > 0 /\ record'[1] = "request"
    BY <1>2, <2>1 DEF Begins, Rows
  <2>3. QED
    BY <2>1, <2>2 DEF Begins, AskedOnRecord, HeldWriteIsRaised, NudgeLeftNothing
<1>14. CASE UNCHANGED vars \/ Stop
  <2>1. UNCHANGED vars
    BY <1>14 DEF Stop
  <2>2. QED
    BY <2>1 DEF vars, Begins, AskedOnRecord, HeldWriteIsRaised, NudgeLeftNothing
<1>15. QED
  BY <1>3, <1>4, <1>5, <1>6, <1>7, <1>8, <1>9, <1>10, <1>11, <1>12, <1>13, <1>14
     DEF Next, Work

-----------------------------------------------------------------------------
(* The conversation.                                                       *)

(* A conversation with the results that are still to come.                 *)
Awaited(c, n) == c \o [k \in 1 .. n |-> Result]

(* It begins with the prompt of the system and holds somebody's words.     *)
Opens(c) == Len(c) > 0 /\ c[1].role = "system" /\ SomeoneAsks(c)

Conversation ==
    /\ pending > 0 <=> pc \in {"acting", "gated"}
    /\ pc \notin {"assemble"} \union Ended =>
         /\ Opens(chat)
         /\ InOrder(Awaited(chat, pending))
         /\ ~loop.clipped => AskedLast(chat)

(* Messages without calls and without results are in any order.            *)
LEMMA InOrderPlain ==
    ASSUME NEW c \in Seq(Message), \A i \in DOMAIN c : c[i].calls = 0 /\ c[i].role # "tool"
    PROVE  InOrder(c)
<1>1. ASSUME NEW i \in DOMAIN c
      PROVE  /\ \A k \in 1 .. c[i].calls : i + k \in DOMAIN c /\ c[i + k].role = "tool"
             /\ c[i].role # "tool"
             /\ ~(c[i].calls > 0)
  <2>1. c[i].calls = 0 /\ c[i].role # "tool"
    OBVIOUS
  <2>2. 1 .. c[i].calls = {} /\ ~(c[i].calls > 0)
    BY <2>1
  <2>3. QED
    BY <2>1, <2>2
<1>2. QED
  BY <1>1 DEF InOrder, Paired, OnlyAssistantsCall

(* What the loop adds to a conversation takes nothing from its beginning.  *)
LEMMA OpensGrows ==
    ASSUME NEW c \in Seq(Message), NEW d \in Seq(Message), Opens(c), NothingPast(d)
    PROVE  /\ c \o d \in Seq(Message) /\ Opens(c \o d)
           /\ AskedLast(c) => AskedLast(c \o d)
<1>1. /\ c \o d \in Seq(Message) /\ Len(c) \in Nat /\ Len(d) \in Nat
      /\ Len(c \o d) = Len(c) + Len(d)
      /\ \A i \in 1 .. Len(c) : (c \o d)[i] = c[i]
  BY Joined
<1>2. Len(c \o d) > 0 /\ 1 \in 1 .. Len(c)
  BY <1>1 DEF Opens
<1>3. QED
  BY <1>1, <1>2, AskedJoined DEF Opens

(* Where no result is awaited, what is awaited is the conversation.        *)
LEMMA AwaitedNone ==
    ASSUME NEW c \in Seq(Message)
    PROVE  Awaited(c, 0) = c
<1>1. [k \in 1 .. 0 |-> Result] = <<>>
  OBVIOUS
<1>2. QED
  BY <1>1, ConcatEmptySeq DEF Awaited

(* A result that comes is one of those awaited.                            *)
LEMMA AwaitedOne ==
    ASSUME NEW c \in Seq(Message), NEW n \in Nat \ {0}
    PROVE  Awaited(Append(c, Result), n - 1) = Awaited(c, n)
<1> DEFINE rest == [k \in 1 .. n - 1 |-> Result]
           all == [k \in 1 .. n |-> Result]
<1>1. /\ Result \in Message /\ <<Result>> \in Seq(Message)
      /\ rest \in Seq(Message) /\ all \in Seq(Message)
  BY MessagesTyped, Single, Repeated
<1>2. <<Result>> \o rest = all
  <2>1. /\ <<Result>> \o rest \in Seq(Message)
        /\ Len(<<Result>> \o rest) = n
        /\ \A i \in 1 .. n : (<<Result>> \o rest)[i] = Result
    <3>1. Len(rest) = n - 1 /\ \A k \in 1 .. n - 1 : rest[k] = Result
      BY <1>1, Repeated
    <3>2. Len(<<Result>>) = 1 /\ <<Result>>[1] = Result
      OBVIOUS
    <3> HIDE DEF rest, all
    <3>3. /\ <<Result>> \o rest \in Seq(Message) /\ Len(<<Result>> \o rest) = 1 + (n - 1)
          /\ \A i \in 1 .. 1 + (n - 1) : (<<Result>> \o rest)[i] =
                 IF i <= 1 THEN <<Result>>[i] ELSE rest[i - 1]
      BY <1>1, <3>1, <3>2, ConcatProperties
    <3>4. \A i \in 1 .. n : i <= 1 => i = 1
      OBVIOUS
    <3>5. \A i \in 1 .. n : ~(i <= 1) => i - 1 \in 1 .. n - 1
      OBVIOUS
    <3>6. QED
      BY <3>1, <3>2, <3>3, <3>4, <3>5
  <2>2. Len(all) = n /\ \A k \in 1 .. n : all[k] = Result
    BY <1>1, Repeated
  <2> HIDE DEF rest, all
  <2>3. QED
    BY <1>1, <2>1, <2>2, SeqEqual
<1>3. Append(c, Result) = c \o <<Result>>
  BY <1>1, AppendTyped
<1>4. (c \o <<Result>>) \o rest = c \o (<<Result>> \o rest)
  <2> HIDE DEF rest, all
  <2>1. QED
    BY <1>1, ConcatAssociative
<1>5. QED
  BY <1>2, <1>3, <1>4 DEF Awaited

(* A reply that makes calls is in order with the results it waits for.     *)
LEMMA AwaitedCalls ==
    ASSUME NEW c \in Seq(Message), InOrder(c), NEW n \in 1 .. MaxCalls
    PROVE  InOrder(Awaited(Append(c, Calls(n)), n))
<1> DEFINE results == [k \in 1 .. n |-> Result]
           reply == <<Calls(n)>> \o results
<1>0. MaxCalls \in Nat /\ n \in Nat /\ n \in 0 .. MaxCalls
  BY MessagesTyped
<1>1. /\ Calls(n) \in Message /\ <<Calls(n)>> \in Seq(Message)
      /\ results \in Seq(Message) /\ Len(results) = n
      /\ \A k \in 1 .. n : results[k] = Result
  BY <1>0, MessagesTyped, Single, Repeated
<1>2. Len(<<Calls(n)>>) = 1 /\ <<Calls(n)>>[1] = Calls(n)
  OBVIOUS
<1>3. /\ reply \in Seq(Message) /\ DOMAIN reply = 1 .. 1 + n
      /\ reply[1] = Calls(n)
      /\ \A k \in 1 .. n : reply[1 + k] = Result
  <2> HIDE DEF results
  <2>1. /\ reply \in Seq(Message) /\ DOMAIN reply = 1 .. 1 + n
        /\ \A i \in 1 .. 1 : reply[i] = <<Calls(n)>>[i]
        /\ \A i \in 1 .. n : reply[1 + i] = results[i]
    BY <1>1, <1>2, Joined
  <2>2. QED
    BY <1>1, <1>2, <2>1
<1> HIDE DEF reply
<1>4. /\ Calls(n).calls = n /\ Calls(n).role = "assistant"
      /\ Result.calls = 0 /\ Result.role = "tool"
  BY DEF Calls, Result, Msg
<1>5. ASSUME NEW i \in DOMAIN reply
      PROVE  i = 1 \/ \E k \in 1 .. n : i = 1 + k
  <2>1. CASE i > 1
    <3>1. i - 1 \in 1 .. n /\ i = 1 + (i - 1)
      BY <1>0, <1>3, <2>1
    <3>2. QED
      BY <3>1
  <2>2. QED
    BY <1>0, <1>3, <2>1
<1>6. Paired(reply)
  <2>1. ASSUME NEW i \in DOMAIN reply
        PROVE  /\ \A k \in 1 .. reply[i].calls : i + k \in DOMAIN reply /\ reply[i + k].role = "tool"
               /\ reply[i].role = "tool" =>
                     \E k \in 1 .. MaxCalls : k < i /\ reply[i - k].calls >= k
    <3>1. CASE i = 1
      <4>1. \A k \in 1 .. n : 1 + k \in DOMAIN reply /\ reply[1 + k].role = "tool"
        BY <1>0, <1>3, <1>4
      <4>2. QED
        BY <1>3, <1>4, <3>1, <4>1
    <3>2. CASE \E k \in 1 .. n : i = 1 + k
      <4>1. PICK k \in 1 .. n : i = 1 + k
        BY <3>2
      <4>2. reply[i].calls = 0
        BY <1>3, <1>4, <4>1
      <4>3. k \in 1 .. MaxCalls /\ k < i /\ i - k = 1 /\ n >= k
        BY <1>0, <4>1
      <4>4. reply[i - k].calls >= k
        BY <1>3, <1>4, <4>3
      <4>5. 1 .. reply[i].calls = {}
        BY <4>2
      <4>6. QED
        BY <4>3, <4>4, <4>5
    <3>3. QED
      BY <1>5, <3>1, <3>2
  <2>2. QED
    BY <2>1 DEF Paired
<1>7. OnlyAssistantsCall(reply)
  <2>1. ASSUME NEW i \in DOMAIN reply, reply[i].calls > 0
        PROVE  reply[i].role = "assistant"
    BY <1>3, <1>4, <1>5, <2>1
  <2>2. QED
    BY <2>1 DEF OnlyAssistantsCall
<1>8. InOrder(c \o reply)
  BY <1>3, <1>6, <1>7, InOrderJoined DEF InOrder
<1>9. Append(c, Calls(n)) = c \o <<Calls(n)>>
  BY <1>1, AppendTyped
<1>10. (c \o <<Calls(n)>>) \o results = c \o (<<Calls(n)>> \o results)
  BY <1>1, ConcatAssociative
<1>11. QED
  BY <1>8, <1>9, <1>10 DEF Awaited, reply

(* What the loop says between replies: notes, and texts it corrects.       *)
LEMMA LoopsWords ==
    ASSUME NEW d \in Seq({Note, Text})
    PROVE  d \in Seq(Message) /\ InOrder(d) /\ NothingPast(d)
<1>1. Note \in Message /\ Text \in Message
  BY MessagesTyped
<1>2. d \in Seq(Message)
  BY <1>1, SeqMonotonic
<1>3. \A m \in {Note, Text} : m.calls = 0 /\ m.role # "tool" /\ ~Past(m)
  BY DEF Note, Text, Msg, Past
<1>4. \A i \in DOMAIN d : d[i] \in {Note, Text}
  BY LenProperties, ElementOfSeq
<1>5. QED
  BY <1>2, <1>3, <1>4, InOrderPlain DEF NothingPast

(* A step that leaves the conversation, or adds to it between replies.     *)
LEMMA LoopSays ==
    ASSUME TypeOK, Conversation, UNCHANGED pending, loop'.clipped = loop.clipped,
           pc \notin {"assemble", "acting", "gated"} \union Ended,
           pc' \notin {"assemble", "acting", "gated"},
           NEW d \in Seq({Note, Text}), chat' = chat \o d
    PROVE  Conversation'
<1>1. pending = 0 /\ chat \in Seq(Message) /\ MaxCalls \in Nat
  BY MessagesTyped DEF TypeOK, Conversation
<1>2. d \in Seq(Message) /\ InOrder(d) /\ NothingPast(d)
  BY LoopsWords
<1>3. /\ Opens(chat) /\ InOrder(chat)
      /\ ~loop.clipped => AskedLast(chat)
  BY <1>1, AwaitedNone DEF Conversation
<1>4. /\ chat' \in Seq(Message) /\ Opens(chat') /\ InOrder(chat')
      /\ AskedLast(chat) => AskedLast(chat')
  BY <1>1, <1>2, <1>3, OpensGrows, InOrderJoined
<1>5. pending' = 0 /\ Awaited(chat', pending') = chat'
  BY <1>1, <1>4, AwaitedNone
<1>6. QED
  BY <1>3, <1>4, <1>5 DEF Conversation

(* A step that leaves the conversation as it is.                           *)
LEMMA NothingSaid ==
    ASSUME TypeOK, Conversation, UNCHANGED <<chat, pending>>, loop'.clipped = loop.clipped,
           pc \notin {"assemble", "acting", "gated"} \union Ended,
           pc' \notin {"assemble", "acting", "gated"}
    PROVE  Conversation'
<1>1. <<>> \in Seq({Note, Text}) /\ chat \in Seq(Message)
  BY EmptySeq DEF TypeOK
<1>2. chat' = chat \o <<>>
  BY <1>1, ConcatEmptySeq
<1>3. QED
  BY <1>1, <1>2, LoopSays

(* The prompt is in order, and the operator has the last word in it.       *)
LEMMA PromptAssembled ==
    ASSUME NEW past \in Histories
    PROVE  LET c == <<Msg("system", "prompt")>> \o past \o <<Msg("user", "request")>>
           IN  c \in Seq(Message) /\ Opens(c) /\ InOrder(c) /\ AskedLast(c)
<1> DEFINE system == <<Msg("system", "prompt")>>
           request == <<Msg("user", "request")>>
<1>1. /\ Msg("system", "prompt") \in Message /\ Msg("user", "request") \in Message
      /\ Msg("user", "past") \in Message /\ Text \in Message
  BY MessagesTyped
<1>2. past \in Seq({Msg("user", "past"), Text})
  BY TurnAssumption DEF TurnAssumption
<1>3. past \in Seq(Message) /\ InOrder(past)
  <2>1. past \in Seq(Message)
    BY <1>1, <1>2, SeqMonotonic
  <2>2. \A i \in DOMAIN past : past[i] \in {Msg("user", "past"), Text}
    BY <1>2, LenProperties, ElementOfSeq
  <2>3. \A m \in {Msg("user", "past"), Text} : m.calls = 0 /\ m.role # "tool"
    BY DEF Text, Msg
  <2>4. QED
    BY <2>1, <2>2, <2>3, InOrderPlain
<1>4. /\ Msg("system", "prompt").calls = 0 /\ Msg("system", "prompt").role = "system"
      /\ Msg("user", "request").calls = 0 /\ Msg("user", "request").role = "user"
      /\ Word(Msg("user", "request")) /\ ~Past(Msg("user", "request"))
  BY DEF Msg, Word, Past
<1>5. /\ system \in Seq(Message) /\ Len(system) = 1 /\ system[1] = Msg("system", "prompt")
      /\ request \in Seq(Message) /\ InOrder(system) /\ InOrder(request)
      /\ SomeoneAsks(request) /\ AskedLast(request)
  BY <1>1, <1>4, Single, InOrderSingle, AskedSingle
<1> HIDE DEF system, request
<1>6. /\ system \o past \in Seq(Message) /\ InOrder(system \o past)
      /\ Len(system \o past) >= 1 /\ (system \o past)[1] = system[1]
  <2>1. Len(system) >= 1
    BY <1>5
  <2>2. QED
    BY <1>3, <1>5, <2>1, JoinedBegins
<1>7. /\ system \o past \o request \in Seq(Message) /\ InOrder(system \o past \o request)
      /\ Len(system \o past \o request) >= 1
      /\ (system \o past \o request)[1] = system[1]
  BY <1>5, <1>6, JoinedBegins
<1>8. SomeoneAsks(system \o past \o request) /\ AskedLast(system \o past \o request)
  BY <1>5, <1>6, AskedJoined
<1>9. Len(system \o past \o request) > 0
  BY <1>7, LenProperties
<1>10. QED
  BY <1>4, <1>5, <1>7, <1>8, <1>9 DEF Opens, system, request

(* Every step keeps the conversation in order and the question in it.      *)
LEMMA ConversationStep == TypeOK /\ TypeOK' /\ Conversation /\ [Next]_vars => Conversation'
<1> SUFFICES ASSUME TypeOK, TypeOK', Conversation, [Next]_vars
             PROVE  Conversation'
  OBVIOUS
<1> USE DEF Goto
<1>1. /\ chat \in Seq(Message) /\ pending \in 0 .. MaxCalls /\ MaxCalls \in Nat
      /\ loop \in Locals
  BY MessagesTyped DEF TypeOK
<1>2. /\ pc \notin {"acting", "gated"} => pending = 0
      /\ pc \notin {"assemble"} \union Ended => Opens(chat)
      /\ pc \notin {"assemble", "acting", "gated"} \union Ended => InOrder(chat)
      /\ pc \notin {"assemble"} \union Ended => (~loop.clipped => AskedLast(chat))
  BY <1>1, AwaitedNone DEF Conversation
<1>3. /\ Append(chat, Note) = chat \o <<Note>>
      /\ <<>> \in Seq({Note, Text}) /\ <<Note>> \in Seq({Note, Text})
      /\ <<Text, Note>> \in Seq({Note, Text})
  BY <1>1, MessagesTyped, AppendTyped, EmptySeq
<1>4. CASE AssembleFails \/ RunFails
  BY <1>4 DEF AssembleFails, RunFails, Fail, Conversation, Ended
<1>5. CASE AcceptAnswer
  BY <1>2, <1>5 DEF AcceptAnswer, Conversation, Ended
<1>6. CASE Assemble
  <2>1. PICK past \in Histories :
           chat' = <<Msg("system", "prompt")>> \o past \o <<Msg("user", "request")>>
    BY <1>6 DEF Assemble
  <2>2. chat' \in Seq(Message) /\ Opens(chat') /\ InOrder(chat') /\ AskedLast(chat')
    BY <2>1, PromptAssembled
  <2>3. pc' = "record" /\ pending' = 0
    BY <1>2, <1>6 DEF Assemble
  <2>4. QED
    BY <2>2, <2>3, AwaitedNone DEF Conversation
<1>7. CASE RecordRequest \/ Route \/ StopCalling \/ LeaveLoop
  <2>1. /\ UNCHANGED <<chat, pending, loop>> /\ pc \in {"record", "route", "reply", "quiet"}
        /\ pc' \in {"route", "boundary", "answer", "quiet"}
    BY <1>7 DEF RecordRequest, Route, StopCalling, LeaveLoop
  <2>2. QED
    BY <2>1, NothingSaid DEF Ended
<1>8. CASE \/ Escalate \/ Repair \/ GiveSecondChance \/ FinalizePlan
           \/ Malformed \/ (\E slip \in Slips : CorrectReply(slip))
           \/ AnswerMalformed \/ (\E i \in 1 .. Len(AnswerSlips) : AnswerSlipped(i))
           \/ BeginAnswer
  <2>1. /\ UNCHANGED pending /\ pc \in {"boundary", "quiet", "reply", "answer", "answering"}
        /\ pc' \in {"boundary", "counted", "answering"}
        /\ \E d \in {<<>>, <<Note>>, <<Text, Note>>} : chat' = chat \o d
    <3>1. chat \o <<>> = chat
      BY <1>1, ConcatEmptySeq
    <3>2. QED
      BY <1>3, <1>8, <3>1
         DEF Escalate, Repair, GiveSecondChance, FinalizePlan, Again, Malformed, CorrectReply,
             AnswerMalformed, AnswerSlipped, Reask, BeginAnswer
  <2>2. loop'.clipped = loop.clipped
    BY <1>1, <1>8
       DEF Locals, Escalate, Repair, GiveSecondChance, FinalizePlan, Again, Malformed,
           CorrectReply, AnswerMalformed, AnswerSlipped, Reask, BeginAnswer
  <2>3. QED
    BY <1>3, <2>1, <2>2, LoopSays DEF Ended
<1>9. CASE CompactIfNeeded
  <2>1. pc = "boundary" /\ pc' = "send" /\ UNCHANGED pending
    BY <1>9 DEF CompactIfNeeded
  <2>2. CASE UNCHANGED <<chat, loop>>
    BY <2>1, <2>2, NothingSaid DEF Ended
  <2>3. CASE /\ Compacts(chat)
             /\ \/ chat' = Digested(chat, CutAt(chat)) /\ UNCHANGED loop
                \/ chat' = Clipped(chat, CutAt(chat)) /\ loop'.clipped
    <3>1. CutAt(chat) \in Starts(chat)
      BY <1>1, <2>3, CutIsAStart DEF Compacts
    <3>2. /\ chat' \in Seq(Message) /\ InOrder(chat') /\ Opens(chat')
          /\ chat' = Digested(chat, CutAt(chat)) /\ AskedLast(chat) => AskedLast(chat')
      BY <1>1, <1>2, <2>1, <2>3, <3>1, CompactionKeeps DEF Opens, Ended
    <3>3. ~loop'.clipped => AskedLast(chat')
      BY <1>2, <2>1, <2>3, <3>2 DEF Ended
    <3>4. QED
      BY <1>2, <2>1, <3>2, <3>3, AwaitedNone DEF Conversation
  <2>4. loop' = [loop EXCEPT !.clipped = TRUE] => loop'.clipped
    BY <1>1 DEF Locals
  <2>5. QED
    BY <1>9, <2>2, <2>3, <2>4 DEF CompactIfNeeded
<1>10. CASE SendRound
  <2>1. PICK n \in 0 .. setup.steers : chat' = chat \o [i \in 1 .. n |-> Note]
    BY <1>10 DEF SendRound
  <2>2. n \in Nat
    <3>1. setup.steers \in 0 .. MaxSteers /\ MaxSteers \in Nat
      BY TurnAssumption DEF TurnAssumption, TypeOK, Setups
    <3>2. QED
      BY <2>1, <3>1
  <2>3. [i \in 1 .. n |-> Note] \in Seq({Note, Text})
    <3>1. [i \in 1 .. n |-> Note] \in [1 .. n -> {Note, Text}]
      OBVIOUS
    <3>2. QED
      BY <2>2, <3>1, SeqDef
  <2>4. /\ pc = "send" /\ pc' = "reply" /\ UNCHANGED pending /\ loop'.clipped = loop.clipped
    BY <1>1, <1>10 DEF SendRound, Locals
  <2>5. QED
    BY <2>1, <2>3, <2>4, LoopSays DEF Ended
<1>11. CASE CountRound
  <2>1. /\ pc = "counted" /\ pc' \in {"answer", "boundary"} /\ UNCHANGED pending
        /\ loop' = [loop EXCEPT !.rounds = @ + 1]
        /\ chat' = chat \o (IF AsksForPlan THEN <<Note>> ELSE <<>>)
                        \o (IF RoundsSpent THEN <<Note>> ELSE <<>>)
    BY <1>11 DEF CountRound
  <2>2. PICK d \in {<<>>, <<Note>>}, e \in {<<>>, <<Note>>} : chat' = (chat \o d) \o e
    BY <2>1
  <2>3. /\ d \in Seq({Note, Text}) /\ e \in Seq({Note, Text}) /\ d \in Seq(Message)
        /\ e \in Seq(Message)
    BY <1>3, LoopsWords
  <2>4. d \o e \in Seq({Note, Text}) /\ (chat \o d) \o e = chat \o (d \o e)
    <3>1. d \o e \in Seq({Note, Text})
      BY <2>3, ConcatProperties
    <3>2. (chat \o d) \o e = chat \o (d \o e)
      <4> HIDE DEF Message
      <4>1. QED
        BY <1>1, <2>3, ConcatAssociative
    <3>3. QED
      BY <3>1, <3>2
  <2>5. loop'.clipped = loop.clipped
    BY <1>1, <2>1 DEF Locals
  <2>6. QED
    BY <2>1, <2>2, <2>4, <2>5, LoopSays DEF Ended
<1>12. CASE \E n \in 1 .. MaxCalls : MakeCalls(n)
  <2>1. PICK n \in 1 .. MaxCalls : MakeCalls(n)
    BY <1>12
  <2>2. /\ pc = "reply" /\ pc' = "acting" /\ pending' = n /\ chat' = Append(chat, Calls(n))
        /\ UNCHANGED loop
    BY <2>1 DEF MakeCalls
  <2>3. InOrder(Awaited(chat', pending'))
    BY <1>1, <1>2, <2>2, AwaitedCalls DEF Ended
  <2>4. n \in 0 .. MaxCalls /\ n > 0
    BY <1>1
  <2>5. /\ Calls(n) \in Message /\ <<Calls(n)>> \in Seq(Message) /\ NothingPast(<<Calls(n)>>)
        /\ chat' = chat \o <<Calls(n)>>
    <3>1. Calls(n) \in Message
      BY <2>4, MessagesTyped
    <3>2. ~Past(Calls(n))
      BY DEF Past, Calls
    <3>3. QED
      BY <1>1, <2>2, <3>1, <3>2, AppendTyped, AskedSingle, Single
  <2>6. Opens(chat') /\ (AskedLast(chat) => AskedLast(chat'))
    BY <1>1, <1>2, <2>2, <2>5, OpensGrows DEF Ended
  <2>7. QED
    BY <1>2, <2>2, <2>3, <2>4, <2>6 DEF Conversation, Ended
<1>13. CASE Call \/ Answered
  <2>1. /\ pc \in {"acting", "gated"} /\ pending > 0 /\ pending' = pending - 1
        /\ pc' = IF pending = 1 THEN "counted" ELSE "acting"
        /\ chat' = Append(chat, Result) /\ UNCHANGED loop
    BY <1>13 DEF Call, Answered, CallReturns, AnswersCall
  <2>2. pending \in Nat \ {0}
    BY <1>1, <2>1
  <2>3. Awaited(chat', pending') = Awaited(chat, pending)
    BY <1>1, <2>1, <2>2, AwaitedOne
  <2>4. /\ Result \in Message /\ <<Result>> \in Seq(Message) /\ NothingPast(<<Result>>)
        /\ chat' = chat \o <<Result>>
    <3>1. ~Past(Result)
      BY DEF Past, Result, Msg
    <3>2. QED
      BY <1>1, <2>1, <3>1, MessagesTyped, AppendTyped, AskedSingle, Single
  <2>5. Opens(chat') /\ (AskedLast(chat) => AskedLast(chat'))
    BY <1>1, <1>2, <2>1, <2>4, OpensGrows DEF Ended
  <2>6. pending' > 0 <=> pc' \in {"acting", "gated"}
    BY <2>1, <2>2
  <2>7. QED
    BY <2>1, <2>3, <2>5, <2>6 DEF Conversation, Ended
<1>14. CASE AskPermission
  BY <1>14 DEF AskPermission, Conversation, Ended
<1>15. CASE UNCHANGED vars \/ Stop
  BY <1>15 DEF vars, Stop, Conversation
<1>16. QED
  BY <1>4, <1>5, <1>6, <1>7, <1>8, <1>9, <1>10, <1>11, <1>12, <1>13, <1>14, <1>15
     DEF Next, Work

-----------------------------------------------------------------------------
(* The theorems.                                                           *)

(* The inductive invariant.                                                *)
TurnInv == TypeOK /\ Counts /\ Begins /\ Conversation

(* It holds in every reachable state.                                      *)
LEMMA TurnIsSound == Spec => []TurnInv
<1>1. Init => TurnInv
  <2>1. Init => Conversation
    BY DEF Init, Conversation
  <2>2. QED
    BY <2>1, CountsInit, BeginsInit DEF TurnInv
<1>2. TurnInv /\ [Next]_vars => TurnInv'
  BY CountsStep, BeginsStep, ConversationStep DEF TurnInv
<1>3. QED
  BY <1>1, <1>2, PTL DEF Spec

(* The values of the turn have their types; a turn goes through the states *)
(* of orchestrate and tool_round only.                                     *)
THEOREM TurnTyped == Spec => []TypeOK
<1>1. TurnInv => TypeOK
  BY DEF TurnInv
<1>2. QED
  BY <1>1, TurnIsSound, PTL

(* Every request a turn sends to the model server has each call answered   *)
(* once and in place, requests are bounded by the rounds and the chances,  *)
(* and a write that was held is raised before the answer.                  *)
THEOREM RequestsInOrder == Spec => []RoundsInOrder
<1>1. TurnInv => RoundsInOrder
  <2>1. ASSUME TurnInv
        PROVE  PairedRequests
    <3>1. ASSUME pc \in {"reply", "answering"}
          PROVE  Paired(chat)
      <4>1. chat \in Seq(Message) /\ pending = 0
        BY <2>1, <3>1, MessagesTyped DEF TurnInv, TypeOK, Conversation
      <4>2. QED
        BY <2>1, <3>1, <4>1, AwaitedNone DEF TurnInv, Conversation, InOrder, Ended
    <3>2. QED
      BY <3>1 DEF PairedRequests
  <2>2. QED
    BY <2>1 DEF TurnInv, RoundsInOrder, RequestsBounded, Counts, Begins
<1>2. QED
  BY <1>1, TurnIsSound, PTL

(* A model that is asked anything is asked by a turn on record, and in     *)
(* every request, as long as no summary has failed, this turn has the last *)
(* word over earlier ones (compact_if_needed, lift_preserved).             *)
THEOREM AskedAllAlong == Spec => []AskedInThisTurn
<1>1. TurnInv => AskedInThisTurn
  <2>1. ASSUME TurnInv, pc \in {"reply", "answering"}, ~loop.clipped
        PROVE  \E i \in DOMAIN chat :
                  /\ chat[i].role = "user"
                  /\ chat[i].what \in {"request", "note"}
                  /\ \A j \in DOMAIN chat : j > i => chat[j].what # "past"
    <3>1. AskedLast(chat) /\ chat \in Seq(Message)
      BY <2>1 DEF TurnInv, TypeOK, Conversation, Ended
    <3>2. \A i \in DOMAIN chat :
             /\ chat[i].role = "user" =>
                   chat[i].what \in {"past", "request", "note", "digest"}
             /\ chat[i].what = "past" => chat[i].role = "user"
      <4>1. \A i \in DOMAIN chat : chat[i] \in Message
        BY <3>1, LenProperties, ElementOfSeq
      <4>2. QED
        BY <4>1, MessagesTyped
    <3>3. QED
      BY <3>1, <3>2 DEF AskedLast, Word, Past
  <2>2. QED
    BY <2>1 DEF TurnInv, AskedInThisTurn, LastWordIsThisTurns, Begins
<1>2. QED
  BY <1>1, TurnIsSound, PTL

=============================================================================
