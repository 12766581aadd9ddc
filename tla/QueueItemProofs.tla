--------------------------- MODULE QueueItemProofs ---------------------------
(***************************************************************************)
(* What is proved of QueueItem, for any number of sources, any sizes and   *)
(* any settings.                                                           *)
(*                                                                         *)
(* 1. m_downloads lists exactly the downloads that are going on, once      *)
(*    each, as long as the file is in the queue.  Inductive with the types *)
(*    of m_downloads and of the control points (IInv): a connection is     *)
(*    listed from addDownload on and leaves the list in one step with its  *)
(*    control point, and removeQueueItem, which empties the list under all *)
(*    others, takes the file out of the queue.                             *)
(*                                                                         *)
(* 2. Types and block boundaries.  Inductive as Shape: what each           *)
(*    connection has in hand begins at a block and ends at one or at the   *)
(*    end of the file, it has received no more of it than there is, and    *)
(*    what is recorded are such segments that do not touch.  The steps     *)
(*    rest on three facts about the code's arithmetic: what addSegment     *)
(*    joins (addSegmentJoins), what getNextSegmentL gives (NextGiven) and  *)
(*    what is left of a chunk that is overlapped or cut (CutGiven).        *)
(*                                                                         *)
(* 3. What is on the disk.  Inductive as OnDisk, on top of Shape: what is  *)
(*    recorded, what ended or failed downloads received and, once moved,   *)
(*    the whole file were written.  Every step is then one of FileLife or  *)
(*    leaves its variables alone (FileImplemented).                        *)
(*                                                                         *)
(* 4. What is true instead of two statements that the code refutes: a part *)
(*    lost again from the record lies in a segment that was joined at that *)
(*    moment (ShrinksCorrect); what is chosen is free of all that is       *)
(*    listed or done when it is chosen (ChosenCorrect).                    *)
(*                                                                         *)
(* addSegment folds over a set; that the fold obeys its equation, and what *)
(* it makes of every set of segments, is shown with a least counterexample *)
(* among the sizes of sets.                                                *)
(***************************************************************************)
EXTENDS QueueItem, FiniteSetTheorems, WellFoundedInduction, TLAPS

ListTypes ==
  /\ phase \in [Users -> Phases]
  /\ status = "queued" => downloads \in Seq(Users)

Listed == {"requested", "running", "ended", "added", "leaving", "failed", "put"}

IInv == ListTypes /\ NoGhostDownload

(* RemoveFirst of an element that is there once takes it out and leaves    *)
(* the others, once each.                                                  *)
LEMMA RemoveFirstOnce ==
  ASSUME NEW S, NEW s \in Seq(S), NEW e,
         \A i, j \in DOMAIN s : s[i] = s[j] => i = j
  PROVE  LET r == RemoveFirst(s, e)
         IN /\ r \in Seq(S)
            /\ \A i, j \in DOMAIN r : r[i] = r[j] => i = j
            /\ ToSet(r) = ToSet(s) \ {e}
  <1>1. CASE \E i \in 1..Len(s) : s[i] = e
    <2>1. PICK k \in 1..Len(s) : s[k] = e
      BY <1>1
    <2>. DEFINE a == SubSeq(s, 1, k - 1)
                b == SubSeq(s, k + 1, Len(s))
    <2>2. {i \in 1..Len(s) : s[i] = e} = {k}
      BY <2>1
    <2>3. Min({k}) = k
      BY <2>1 DEF Min
    <2>4. RemoveFirst(s, e) = a \o b
      BY <1>1, <2>2, <2>3 DEF RemoveFirst, RemoveAt, SelectInSeq
    <2>5. a \in Seq(S) /\ Len(a) = k - 1 /\ \A i \in 1..(k - 1) : a[i] = s[i]
      BY <2>1
    <2>6. b \in Seq(S) /\ Len(b) = Len(s) - k
          /\ \A i \in 1..(Len(s) - k) : b[i] = s[k + i]
      BY <2>1
    <2>. HIDE DEF a, b
    <2>. DEFINE r == a \o b
    <2>7. r \in Seq(S) /\ Len(r) = Len(s) - 1
      <3>1. r \in Seq(S) /\ Len(r) = Len(a) + Len(b)
        <4>1. a \in Seq(S) /\ b \in Seq(S)
          BY <2>5, <2>6
        <4>. QED BY <4>1
      <3>. QED BY <2>1, <2>5, <2>6, <3>1
    <2>8. ASSUME NEW i \in 1..Len(r)
          PROVE  r[i] = IF i < k THEN s[i] ELSE s[i + 1]
      <3>1. CASE i < k
        BY <2>1, <2>5, <2>6, <3>1
      <3>2. CASE i >= k
        <4>1. i - (k - 1) \in 1..(Len(s) - k) /\ k + (i - (k - 1)) = i + 1
          BY <2>1, <2>7, <3>2
        <4>2. r[i] = b[i - (k - 1)]
          BY <2>1, <2>5, <2>6, <2>7, <3>2
        <4>. QED BY <2>1, <2>6, <3>2, <4>1, <4>2
      <3>. QED BY <2>1, <3>1, <3>2
    <2>. HIDE DEF r
    <2>9. DOMAIN r = 1..Len(r) /\ DOMAIN s = 1..Len(s)
      BY <2>7
    <2>10. \A i, j \in DOMAIN r : r[i] = r[j] => i = j
      <3>. SUFFICES ASSUME NEW i \in 1..Len(r), NEW j \in 1..Len(r), r[i] = r[j] PROVE i = j
        BY <2>9
      <3>. DEFINE at(n) == IF n < k THEN n ELSE n + 1
      <3>1. s[at(i)] = s[at(j)] /\ at(i) \in 1..Len(s) /\ at(j) \in 1..Len(s)
        BY <2>1, <2>7, <2>8
      <3>2. at(i) = at(j)
        BY <2>9, <3>1
      <3>. QED BY <2>1, <3>2
    <2>11. ToSet(r) = ToSet(s) \ {e}
      <3>1. ASSUME NEW x \in ToSet(r) PROVE x \in ToSet(s) \ {e}
        <4>1. PICK i \in 1..Len(r) : r[i] = x
          BY <2>9 DEF ToSet
        <4>. DEFINE n == IF i < k THEN i ELSE i + 1
        <4>2. n \in 1..Len(s) /\ n # k /\ s[n] = x
          BY <2>1, <2>7, <2>8, <4>1
        <4>. HIDE DEF n
        <4>3. s[n] # e
          BY <2>1, <2>9, <4>2
        <4>. QED BY <2>9, <4>2, <4>3 DEF ToSet
      <3>2. ASSUME NEW x \in ToSet(s) \ {e} PROVE x \in ToSet(r)
        <4>1. PICK n \in 1..Len(s) : s[n] = x
          BY <2>9 DEF ToSet
        <4>. DEFINE i == IF n < k THEN n ELSE n - 1
        <4>2. n # k
          BY <2>1, <4>1, <3>2
        <4>3. i \in 1..Len(r) /\ r[i] = x
          BY <2>1, <2>7, <2>8, <4>1, <4>2
        <4>. QED BY <2>9, <4>3 DEF ToSet
      <3>. QED BY <3>1, <3>2
    <2>. QED BY <2>4, <2>7, <2>10, <2>11, Zenon DEF r
  <1>2. CASE ~\E i \in 1..Len(s) : s[i] = e
    <2>1. RemoveFirst(s, e) = s
      BY <1>2 DEF RemoveFirst
    <2>2. e \notin ToSet(s)
      BY <1>2 DEF ToSet
    <2>3. ToSet(s) = ToSet(s) \ {e}
      BY <2>2
    <2>. QED BY <2>1, <2>3, Zenon
  <1>. QED BY <1>1, <1>2

-----------------------------------------------------------------------------
(* A step that leaves the list: the connection stays on its side of it.    *)
LEMMA SameSide ==
  ASSUME IInv, NEW u \in Users, NEW p \in Phases, Goto(u, p),
         status = "queued" => (phase[u] \in Listed <=> p \in Listed),
         UNCHANGED <<downloads, status>>
  PROVE  IInv'
  BY DEF IInv, ListTypes, Goto, Listed, NoGhostDownload, Registered

LEMMA Added ==
  ASSUME IInv, NEW u \in Users, addDownload(u)
  PROVE  IInv'
  <1>. USE DEF IInv, ListTypes
  <1>1. downloads' = Append(downloads, u) /\ status' = status /\ phase[u] = "chosen"
        /\ phase' = [phase EXCEPT ![u] = "requested"]
    BY DEF addDownload, Goto
  <1>2. ListTypes'
    BY <1>1 DEF Phases
  <1>3. ASSUME status = "queued"
        PROVE  /\ Registered' = {v \in Users : phase'[v] \in Listed}
               /\ \A i, j \in DOMAIN downloads' : downloads'[i] = downloads'[j] => i = j
    <2>1. /\ Registered = {v \in Users : phase[v] \in Listed}
          /\ \A i, j \in DOMAIN downloads : downloads[i] = downloads[j] => i = j
      BY <1>3 DEF NoGhostDownload, Listed
    <2>2. u \notin Registered
      BY <1>1, <2>1 DEF Listed
    <2>3. /\ downloads \in Seq(Users)
          /\ DOMAIN downloads = 1..Len(downloads) /\ DOMAIN downloads' = 1..(Len(downloads) + 1)
          /\ \A i \in 1..Len(downloads) : downloads'[i] = downloads[i]
          /\ downloads'[Len(downloads) + 1] = u
      BY <1>1, <1>3
    <2>4. \A i \in 1..Len(downloads) : downloads[i] # u
      BY <2>2, <2>3 DEF Registered, ToSet
    <2>5. Registered' = Registered \cup {u}
      BY <2>3 DEF Registered, ToSet
    <2>6. {v \in Users : phase'[v] \in Listed} = {v \in Users : phase[v] \in Listed} \cup {u}
      BY <1>1 DEF Listed
    <2>7. \A i, j \in DOMAIN downloads' : downloads'[i] = downloads'[j] => i = j
      BY <2>1, <2>3, <2>4
    <2>. QED BY <2>1, <2>5, <2>6, <2>7
  <1>. QED BY <1>1, <1>2, <1>3 DEF NoGhostDownload, Listed

LEMMA Removed ==
  ASSUME IInv, NEW u \in Users, NEW p \in Phases \ Listed, Goto(u, p),
         downloads' = RemoveFirst(downloads, u), status = "queued", status' = status
  PROVE  IInv'
  <1>. USE DEF IInv, ListTypes
  <1>1. /\ Registered = {v \in Users : phase[v] \in Listed}
        /\ \A i, j \in DOMAIN downloads : downloads[i] = downloads[j] => i = j
    BY DEF NoGhostDownload, Listed
  <1>2. /\ downloads' \in Seq(Users)
        /\ \A i, j \in DOMAIN downloads' : downloads'[i] = downloads'[j] => i = j
        /\ Registered' = Registered \ {u}
    <2>. DEFINE r == RemoveFirst(downloads, u)
    <2>1. downloads \in Seq(Users)
      OBVIOUS
    <2>2. /\ r \in Seq(Users)
          /\ \A i, j \in DOMAIN r : r[i] = r[j] => i = j
          /\ ToSet(r) = ToSet(downloads) \ {u}
      BY <1>1, <2>1, RemoveFirstOnce, Zenon
    <2>3. downloads' = r
      OBVIOUS
    <2>. HIDE DEF r
    <2>. QED BY <2>2, <2>3, Zenon DEF Registered
  <1>3. phase' = [phase EXCEPT ![u] = p] /\ phase' \in [Users -> Phases]
    BY DEF Goto
  <1>4. {v \in Users : phase'[v] \in Listed} = {v \in Users : phase[v] \in Listed} \ {u}
    BY <1>3
  <1>. QED BY <1>1, <1>2, <1>3, <1>4 DEF NoGhostDownload, Listed

(* Once out of the queue the file does not come back.                      *)
LEMMA Gone ==
  ASSUME IInv, phase' \in [Users -> Phases], status' # "queued"
  PROVE  IInv'
  BY DEF IInv, ListTypes, NoGhostDownload

LEMMA InvStep == IInv /\ [Next]_vars => IInv'
  <1>. SUFFICES ASSUME IInv, [Next]_vars PROVE IInv'
    OBVIOUS
  <1>. USE DEF itemVars, fileVars, flagVars, Phases, Listed
  <1>1. ASSUME NEW u \in Users, Ask(u) \/ ChooseSegment(u) \/ Relock(u) PROVE IInv'
    BY <1>1, SameSide DEF Ask, ChooseSegment, Relock
  <1>2. ASSUME NEW u \in Users, ChooseOverlap(u) \/ markOriginal(u) PROVE IInv'
    BY <1>2, SameSide DEF ChooseOverlap, markOriginal
  <1>3. ASSUME NEW u \in Users, addDownload(u) PROVE IInv'
    BY <1>3, Added
  <1>4. ASSUME NEW u \in Users, startData(u) \/ startOverlap(u) PROVE IInv'
    BY <1>4, SameSide DEF startData, startOverlap, Start
  <1>5. ASSUME NEW u \in Users, fireData(u) PROVE IInv'
    BY <1>5 DEF fireData, IInv, ListTypes, NoGhostDownload, Registered
  <1>6. ASSUME NEW u \in Users, endData(u) \/ addFinished(u) \/ fileDone(u) PROVE IInv'
    BY <1>6, SameSide DEF endData, addFinished, fileDone
  <1>7. ASSUME NEW u \in Users, failDownload(u) \/ endDataFails(u) \/ addUnfinished(u)
        PROVE  IInv'
    BY <1>7, SameSide DEF failDownload, endDataFails, addUnfinished, Active
  <1>8. ASSUME NEW u \in Users, segmentDone(u) PROVE IInv'
    <2>1. Goto(u, "idle") /\ downloads' = RemoveFirst(downloads, u) /\ status' = status
      BY <1>8 DEF segmentDone
    <2>2. CASE status = "queued"
      BY <2>1, <2>2, Removed
    <2>3. CASE status # "queued"
      BY <2>1, <2>3, Gone DEF Goto, IInv, ListTypes
    <2>. QED BY <2>2, <2>3
  <1>9. ASSUME NEW u \in Users, removeDownload(u) PROVE IInv'
    <2>1. /\ Goto(u, "idle") \/ Goto(u, "unmarking")
          /\ downloads' = RemoveFirst(downloads, u) /\ status' = status
      BY <1>9 DEF removeDownload
    <2>2. CASE status = "queued"
      BY <2>1, <2>2, Removed
    <2>3. CASE status # "queued"
      BY <2>1, <2>3, Gone DEF Goto, IInv, ListTypes
    <2>. QED BY <2>2, <2>3
  <1>10. ASSUME NEW u \in Users, removeQueueItem(u) \/ dropDownload(u) PROVE IInv'
    <2>1. Goto(u, "idle") /\ status' # "queued"
      BY <1>10 DEF removeQueueItem, dropDownload
    <2>. QED BY <2>1, Gone DEF Goto, IInv, ListTypes
  <1>11. ASSUME NEW u \in Users, unmarkOriginal(u) PROVE IInv'
    BY <1>11, SameSide DEF unmarkOriginal
  <1>12. CASE UNCHANGED vars
    BY <1>12 DEF vars, IInv, ListTypes, NoGhostDownload, Registered
  <1>. QED
    BY <1>1, <1>2, <1>3, <1>4, <1>5, <1>6, <1>7, <1>8, <1>9, <1>10, <1>11, <1>12, Zenon
    DEF Next, Thread, GetDownload, Transfer, PutFinished, PutUnfinished

(* As long as the file is in the queue m_downloads lists exactly the       *)
(* downloads that are going on, once each: none is left behind to block    *)
(* its part of the file (addDownload, removeDownload, putDownload).        *)
THEOREM DownloadsCorrect == Spec => []NoGhostDownload
  <1>1. Init => IInv
    <2>. SUFFICES ASSUME Init PROVE IInv
      OBVIOUS
    <2>1. downloads = <<>> /\ phase = [u \in Users |-> "idle"]
      BY DEF Init
    <2>2. Registered = {} /\ DOMAIN downloads = {}
      BY <2>1 DEF Registered, ToSet
    <2>. QED BY <2>1, <2>2 DEF IInv, ListTypes, NoGhostDownload, Phases
  <1>2. IInv => NoGhostDownload
    BY DEF IInv
  <1>. QED BY <1>1, <1>2, InvStep, PTL DEF Spec

-----------------------------------------------------------------------------
(* Least and greatest members.                                             *)

Less == {p \in Nat \X Nat : p[1] < p[2]}

LEMMA LessFounded == IsWellFoundedOn(Less, Nat)
  BY NatLessThanWellFounded, Zenon DEF OpToRel, Less

LEMMA HasLeast ==
  ASSUME NEW I, I \subseteq Nat, I # {}
  PROVE  \E x \in I : \A y \in I : x <= y
  <1>1. PICK x \in I : \A y \in I : ~(<<y, x>> \in Less)
    BY LessFounded, WFMin
  <1>2. ASSUME NEW y \in I PROVE x <= y
    <2>1. x \in Nat /\ y \in Nat
      OBVIOUS
    <2>2. y < x => <<y, x>> \in Less
      BY <2>1 DEF Less
    <2>. QED BY <1>1, <2>1, <2>2
  <1>. QED BY <1>2

LEMMA HasMin ==
  ASSUME NEW I, I \subseteq Nat, I # {}
  PROVE  Min(I) \in I /\ \A y \in I : Min(I) <= y
  BY HasLeast DEF Min

LEMMA HasGreatest ==
  ASSUME NEW m \in Nat, NEW I, I \subseteq -1..m, I # {}
  PROVE  \E x \in I : \A y \in I : y <= x
  <1>. DEFINE D == {m - x : x \in I}
  <1>1. D \subseteq Nat /\ D # {}
    OBVIOUS
  <1>2. PICK d \in D : \A e \in D : d <= e
    BY <1>1, HasLeast
  <1>3. PICK x \in I : d = m - x
    OBVIOUS
  <1>4. \A y \in I : m - x <= m - y
    BY <1>2, <1>3
  <1>. QED BY <1>4

LEMMA HasMax ==
  ASSUME NEW m \in Nat, NEW I, I \subseteq 0..m, I # {}
  PROVE  Max(I) \in I /\ \A y \in I : y <= Max(I)
  <1>1. I \subseteq -1..m
    OBVIOUS
  <1>2. \E x \in I : \A y \in I : x >= y
    <2>1. PICK x \in I : \A y \in I : y <= x
      BY <1>1, HasGreatest
    <2>. QED BY <2>1
  <1>3. Max(I) \in I /\ \A y \in I : Max(I) >= y
    BY <1>2, Zenon DEF Max
  <1>. QED BY <1>3

LEMMA MinOfTwo ==
  ASSUME NEW a \in Nat, NEW b \in Nat
  PROVE  Min({a, b}) = IF a <= b THEN a ELSE b
  <1>1. Min({a, b}) \in {a, b} /\ \A y \in {a, b} : Min({a, b}) <= y
    BY HasMin
  <1>. QED BY <1>1

-----------------------------------------------------------------------------
(* The order of segments.                                                  *)

LEMMA HasLatest ==
  ASSUME NEW T, T \subseteq Segments, T # {}
  PROVE  Latest(T) \in T /\ \A t \in T \ {Latest(T)} : Before(t, Latest(T))
  <1>. USE SizesAssumption
  <1>. DEFINE Starts == {t.start : t \in T}
  <1>1. PICK a \in Starts : \A b \in Starts : b <= a
    <2>1. Starts \subseteq -1..FileSize /\ Starts # {}
      BY DEF Segments
    <2>. QED BY <2>1, HasGreatest
  <1>. DEFINE Ends == {t.end : t \in {t \in T : t.start = a}}
  <1>2. PICK e \in Ends : \A b \in Ends : b <= e
    <2>1. Ends \subseteq -1..FileSize /\ Ends # {}
      BY DEF Segments
    <2>. QED BY <2>1, HasGreatest
  <1>3. PICK s \in T : s.start = a /\ s.end = e
    OBVIOUS
  <1>4. \A t \in T \ {s} : Before(t, s)
    <2>. SUFFICES ASSUME NEW t \in T, t # s PROVE Before(t, s)
      OBVIOUS
    <2>1. t.start <= a
      BY <1>1
    <2>2. t.start = a => t.end <= e
      BY <1>2
    <2>3. t.start # s.start \/ t.end # s.end
      BY DEF Segments
    <2>4. t.start \in Int /\ t.end \in Int /\ s.start \in Int /\ s.end \in Int
      BY DEF Segments
    <2>. QED BY <1>3, <2>1, <2>2, <2>3, <2>4 DEF Before
  <1>. QED BY <1>3, <1>4, Zenon DEF Latest

LEMMA SegmentsFinite == IsFiniteSet(Segments)
  <1>. DEFINE I == -1..FileSize
              P == I \X I
              f == [p \in P |-> [start |-> p[1], end |-> p[2]]]
  <1>1. IsFiniteSet(I)
    BY SizesAssumption, FS_Interval
  <1>2. IsFiniteSet(P)
    BY <1>1, FS_Product
  <1>3. \A s \in Segments : \E p \in P : f[p] = s
    <2>. TAKE s \in Segments
    <2>1. <<s.start, s.end>> \in P /\ f[<<s.start, s.end>>] = s
      BY DEF Segments
    <2>. QED BY <2>1
  <1>4. f \in [P -> Segments]
    BY DEF Segments
  <1>. HIDE DEF f, P
  <1>5. f \in Surjection(P, Segments)
    BY <1>3, <1>4 DEF Surjection
  <1>. QED BY <1>2, <1>5, FS_Surjection

-----------------------------------------------------------------------------
(* addSegment joins the segments from the earliest to the latest: the fold *)
(* obeys its equation, since the sets it is taken of grow by one.          *)

Step(f, T) == IF T = {} THEN {} ELSE Join(Latest(T), f[T \ {Latest(T)}])

LEMMA FoldExists ==
  ASSUME NEW R, R \subseteq Segments
  PROVE  \E f : f = [T \in SUBSET R |-> Step(f, T)]
  <1>. DEFINE Small(n) == {T \in SUBSET R : Cardinality(T) <= n}
              Good(n) == \E f : f = [T \in Small(n) |-> Step(f, T)]
              Bad == {n \in Nat : ~Good(n)}
  <1>1. \A T \in SUBSET R : IsFiniteSet(T) /\ Cardinality(T) \in Nat
    BY SegmentsFinite, FS_Subset, FS_CardinalityType
  <1>2. Good(0)
    <2>1. Small(0) = {{}}
      BY <1>1, FS_EmptySet
    <2>. DEFINE f == [T \in Small(0) |-> {}]
    <2>2. f = [T \in Small(0) |-> Step(f, T)]
      BY <2>1 DEF Step
    <2>. QED BY <2>2
  <1>3. ASSUME NEW n \in Nat, Good(n) PROVE Good(n + 1)
    <2>1. PICK f : f = [T \in Small(n) |-> Step(f, T)]
      BY <1>3
    <2>. DEFINE g == [T \in Small(n + 1) |-> Step(f, T)]
    <2>2. ASSUME NEW T \in Small(n + 1) PROVE g[T] = Step(g, T)
      <3>1. CASE T = {}
        BY <3>1 DEF Step
      <3>2. CASE T # {}
        <4>. DEFINE U == T \ {Latest(T)}
        <4>1. Latest(T) \in T
          BY <3>2, HasLatest
        <4>2. Cardinality(U) = Cardinality(T) - 1
          BY <1>1, <4>1, FS_RemoveElement
        <4>3. U \in Small(n) /\ U \in Small(n + 1)
          BY <1>1, <4>2
        <4>4. f[U] = g[U]
          BY <2>1, <4>3
        <4>. QED BY <3>2, <4>4 DEF Step
      <3>. QED BY <3>1, <3>2
    <2>3. g = [T \in Small(n + 1) |-> Step(g, T)]
      BY <2>2
    <2>. QED BY <2>3
  <1>4. Bad = {}
    <2>. SUFFICES ASSUME Bad # {} PROVE FALSE
      OBVIOUS
    <2>. HIDE DEF Good
    <2>1. PICK m \in Bad : \A k \in Bad : m <= k
      BY HasLeast
    <2>2. m # 0
      BY <1>2
    <2>3. m - 1 \in Nat /\ m - 1 \notin Bad
      BY <2>1, <2>2
    <2>4. Good((m - 1) + 1)
      BY <1>3, <2>3
    <2>. QED BY <2>1, <2>4
  <1>. DEFINE n == Cardinality(R)
  <1>5. n \in Nat
    BY <1>1
  <1>6. Good(n)
    BY <1>4, <1>5
  <1>7. Small(n) = SUBSET R
    <2>. SUFFICES ASSUME NEW T \in SUBSET R PROVE Cardinality(T) <= n
      OBVIOUS
    <2>. QED BY SegmentsFinite, FS_Subset
  <1>. QED BY <1>6, <1>7

LEMMA FoldEquation ==
  ASSUME NEW S, NEW s, S \cup {s} \subseteq Segments
  PROVE  \E f : /\ f = [T \in SUBSET (S \cup {s}) |-> Step(f, T)]
                /\ addSegment(S, s) = f[S \cup {s}]
  <1>. DEFINE R == S \cup {s}
              F == CHOOSE f : f = [T \in SUBSET R |->
                     IF T = {} THEN {} ELSE Join(Latest(T), f[T \ {Latest(T)}])]
  <1>1. addSegment(S, s) = F[R]
    BY Zenon DEF addSegment, MapThenFoldSet
  <1>2. \E f : f = [T \in SUBSET R |-> Step(f, T)]
    BY FoldExists
  <1>3. F = [T \in SUBSET R |-> Step(F, T)]
    BY <1>2, Zenon DEF Step
  <1>. HIDE DEF F
  <1>. QED BY <1>1, <1>3

(* Segments that are given to a connection, and those that may be recorded.*)
Given ==
  {s \in Segments : /\ 0 <= s.start /\ s.start <= s.end
                    /\ s.start % BlockSize = 0 /\ OnBoundary(s.end)}
Recorded == {s \in Given : s.start < s.end}

Apart(S) == \A s, t \in S : s # t => s.end < t.start \/ t.end < s.start

Unnested(S) == \A s, t \in S : ~Inside(s, t)

(* What joining makes of a set: segments of the same kind that do not      *)
(* touch, and cover nothing that the set does not cover, but all of that   *)
(* where none of the set lies inside another.                              *)
IsJoined(J, T) ==
  /\ J \subseteq Recorded /\ Apart(J)
  /\ Covered(J) \subseteq Covered(T)
  /\ \A j \in J : \E t \in T : j.start <= t.start /\ j.end = t.end
  /\ Unnested(T) => Covered(T) \subseteq Covered(J)

LEMMA RecordedTypes ==
  \A s \in Recorded : /\ s \in Segments /\ s.start \in Nat /\ s.end \in Nat /\ s.start < s.end
                      /\ s.end <= FileSize /\ s = Segment(s.start, s.end)
  BY SizesAssumption DEF Recorded, Given, Segments, Segment

LEMMA UnitsOf ==
  ASSUME NEW a \in Int, NEW b \in Int
  PROVE  Units(Segment(a, b)) = {n \in Int : a <= n /\ n < b}
  BY DEF Units, Segment

LEMMA CoveredWith ==
  ASSUME NEW S, NEW s
  PROVE  Covered(S \cup {s}) = Covered(S) \cup Units(s)
  BY DEF Covered

LEMMA JoinOne ==
  ASSUME NEW T, T \subseteq Recorded, T # {}, NEW J, IsJoined(J, T \ {Latest(T)})
  PROVE  IsJoined(Join(Latest(T), J), T)
  <1>. DEFINE x == Latest(T)
              l == Latest(J)
              big == Segment(l.start, x.end)
  <1>1. T \subseteq Segments /\ J \subseteq Recorded /\ J \subseteq Segments
    BY RecordedTypes DEF IsJoined
  <1>2. x \in T /\ \A t \in T \ {x} : Before(t, x)
    BY <1>1, HasLatest
  <1>3. x \in Recorded /\ \A j \in J : j.start <= x.start
    <2>. SUFFICES ASSUME NEW j \in J PROVE j.start <= x.start
      BY <1>2
    <2>1. PICK t \in T \ {x} : j.start <= t.start
      BY DEF IsJoined
    <2>2. t.start <= x.start
      BY <1>2, RecordedTypes DEF Before
    <2>. QED BY <1>1, <1>2, <2>1, <2>2, RecordedTypes
  <1>4. Covered(T) = Covered(T \ {x}) \cup Units(x)
    <2>1. T = (T \ {x}) \cup {x}
      BY <1>2
    <2>. QED BY <2>1, CoveredWith
  <1>5. /\ Apart(J) /\ Covered(J) \subseteq Covered(T \ {x})
        /\ \A j \in J : \E t \in T : j.start <= t.start /\ j.end = t.end
        /\ Unnested(T) => Covered(T \ {x}) \subseteq Covered(J)
    BY DEF IsJoined, Unnested
  <1>. HIDE DEF x
  <1>6. CASE J # {} /\ l.end >= x.start
    <2>1. l \in J /\ \A t \in J \ {l} : Before(t, l)
      BY <1>1, <1>6, HasLatest
    <2>. HIDE DEF l
    <2>2. Join(x, J) = (J \ {l}) \cup {big}
      BY <1>6 DEF Join, l
    <2>3. big \in Recorded /\ big.start = l.start /\ big.end = x.end
      BY <1>1, <1>3, <2>1 DEF Recorded, Given, Segment, Segments
    <2>4. ASSUME NEW j \in J \ {l} PROVE j.end < big.start
      <3>1. j.end < l.start \/ l.end < j.start
        BY <1>5, <2>1 DEF Apart
      <3>2. j.start <= l.start
        BY <1>1, <2>1, RecordedTypes DEF Before
      <3>. QED BY <1>1, <2>1, <2>3, <3>1, <3>2, RecordedTypes
    <2>5. Units(big) \subseteq Units(l) \cup Units(x)
      <3>1. l = Segment(l.start, l.end) /\ x = Segment(x.start, x.end)
        BY <1>1, <1>3, <2>1, RecordedTypes
      <3>2. l.start \in Int /\ l.end \in Int /\ x.start \in Int /\ x.end \in Int
        BY <1>1, <1>3, <2>1, RecordedTypes
      <3>3. Units(l) = {n \in Int : l.start <= n /\ n < l.end}
        BY <3>1, <3>2, UnitsOf
      <3>4. Units(x) = {n \in Int : x.start <= n /\ n < x.end}
        BY <3>1, <3>2, UnitsOf
      <3>5. Units(big) = {n \in Int : l.start <= n /\ n < x.end}
        BY <3>2, UnitsOf
      <3>. QED BY <1>6, <3>2, <3>3, <3>4, <3>5
    <2>. HIDE DEF big
    <2>6. Covered((J \ {l}) \cup {big}) \subseteq Covered(T)
      <3>1. Covered((J \ {l}) \cup {big}) = Covered(J \ {l}) \cup Units(big)
        BY CoveredWith
      <3>2. Covered(J \ {l}) \subseteq Covered(J) /\ Units(l) \subseteq Covered(J)
        BY <2>1 DEF Covered
      <3>. QED BY <1>4, <1>5, <2>5, <3>1, <3>2
    <2>7. Apart((J \ {l}) \cup {big})
      BY <1>5, <2>4 DEF Apart
    <2>8. \A j \in (J \ {l}) \cup {big} : \E t \in T : j.start <= t.start /\ j.end = t.end
      <3>1. big.start <= x.start /\ big.end = x.end
        BY <1>3, <2>1, <2>3
      <3>. QED BY <1>2, <1>5, <3>1
    <2>9. ASSUME Unnested(T) PROVE Covered(T) \subseteq Covered((J \ {l}) \cup {big})
      <3>1. l.end <= x.end
        <4>1. PICK t \in T \ {x} : l.start <= t.start /\ l.end = t.end
          BY <2>1 DEF IsJoined, x
        <4>2. Before(t, x) /\ ~Inside(x, t)
          BY <1>2, <2>9 DEF Unnested
        <4>. QED BY <1>1, <1>3, <4>1, <4>2, RecordedTypes DEF Before, Inside
      <3>2. Units(l) \cup Units(x) \subseteq Units(big)
        <4>1. /\ l = Segment(l.start, l.end) /\ x = Segment(x.start, x.end)
              /\ l.start \in Int /\ l.end \in Int /\ x.start \in Int /\ x.end \in Int
              /\ l.start <= x.start
          BY <1>1, <1>3, <2>1, RecordedTypes
        <4>2. /\ Units(l) = {n \in Int : l.start <= n /\ n < l.end}
              /\ Units(x) = {n \in Int : x.start <= n /\ n < x.end}
          BY <4>1, UnitsOf
        <4>3. Units(big) = {n \in Int : l.start <= n /\ n < x.end}
          BY <4>1, UnitsOf DEF big
        <4>. QED BY <3>1, <4>1, <4>2, <4>3
      <3>3. Covered(J) = Covered(J \ {l}) \cup Units(l)
        <4>1. J = (J \ {l}) \cup {l}
          BY <2>1
        <4>. QED BY <4>1, CoveredWith
      <3>4. Covered((J \ {l}) \cup {big}) = Covered(J \ {l}) \cup Units(big)
        BY CoveredWith
      <3>. QED BY <1>4, <1>5, <2>9, <3>2, <3>3, <3>4
    <2>. QED BY <1>1, <1>2, <2>2, <2>3, <2>6, <2>7, <2>8, <2>9 DEF IsJoined, x
  <1>7. CASE ~(J # {} /\ l.end >= x.start)
    <2>1. Join(x, J) = J \cup {x}
      BY <1>7 DEF Join
    <2>2. ASSUME NEW j \in J PROVE j.end < x.start
      <3>1. l \in J /\ \A t \in J \ {l} : Before(t, l)
        BY <1>1, HasLatest
      <3>. HIDE DEF l
      <3>2. l.end < x.start
        BY <1>1, <1>3, <1>7, <3>1, RecordedTypes
      <3>3. j = l \/ j.end < l.start \/ l.end < j.start
        BY <1>5, <3>1 DEF Apart
      <3>4. j = l \/ j.start <= l.start
        BY <1>1, <3>1, RecordedTypes DEF Before
      <3>. QED BY <1>1, <1>3, <3>1, <3>2, <3>3, <3>4, RecordedTypes
    <2>3. Covered(J \cup {x}) \subseteq Covered(T)
      <3>1. Covered(J \cup {x}) = Covered(J) \cup Units(x)
        BY CoveredWith
      <3>. QED BY <1>4, <1>5, <3>1
    <2>4. Apart(J \cup {x})
      BY <1>5, <2>2 DEF Apart
    <2>5. \A j \in J \cup {x} : \E t \in T : j.start <= t.start /\ j.end = t.end
      <3>1. x.start <= x.start /\ x.end = x.end
        BY <1>3, RecordedTypes
      <3>. QED BY <1>2, <1>5, <3>1
    <2>6. Unnested(T) => Covered(T) \subseteq Covered(J \cup {x})
      <3>1. Covered(J \cup {x}) = Covered(J) \cup Units(x)
        BY CoveredWith
      <3>. QED BY <1>4, <1>5, <3>1
    <2>. QED BY <1>1, <1>2, <1>3, <2>1, <2>3, <2>4, <2>5, <2>6 DEF IsJoined, x
  <1>. QED BY <1>6, <1>7

LEMMA FoldJoins ==
  ASSUME NEW R, R \subseteq Recorded, NEW f, f = [T \in SUBSET R |-> Step(f, T)]
  PROVE  \A T \in SUBSET R : IsJoined(f[T], T)
  <1>1. R \subseteq Segments /\ \A T \in SUBSET R : IsFiniteSet(T) /\ Cardinality(T) \in Nat
    <2>1. R \subseteq Segments
      BY RecordedTypes
    <2>. QED BY <2>1, SegmentsFinite, FS_Subset, FS_CardinalityType
  <1>2. \A T \in SUBSET R : f[T] = Step(f, T)
    OBVIOUS
  <1>. DEFINE Bad == {n \in Nat : \E T \in SUBSET R : Cardinality(T) = n /\ ~IsJoined(f[T], T)}
  <1>3. Bad = {}
    <2>. SUFFICES ASSUME Bad # {} PROVE FALSE
      OBVIOUS
    <2>1. PICK n \in Bad : \A k \in Bad : n <= k
      BY HasLeast
    <2>2. PICK T \in SUBSET R : Cardinality(T) = n /\ ~IsJoined(f[T], T)
      OBVIOUS
    <2>3. CASE T = {}
      <3>1. f[T] = {}
        BY <1>2, <2>3 DEF Step
      <3>. QED BY <2>2, <2>3, <3>1 DEF IsJoined, Apart, Covered
    <2>4. CASE T # {}
      <3>. DEFINE U == T \ {Latest(T)}
      <3>1. Latest(T) \in T
        BY <1>1, <2>4, HasLatest
      <3>2. U \in SUBSET R /\ Cardinality(U) = n - 1
        BY <1>1, <2>2, <3>1, FS_RemoveElement
      <3>3. Cardinality(U) \in Nat
        BY <1>1, <3>2
      <3>4. IsJoined(f[U], U)
        <4>1. Cardinality(U) \notin Bad
          <5>1. n \in Nat /\ Bad \subseteq Nat
            OBVIOUS
          <5>. HIDE DEF Bad, U
          <5>. QED BY <2>1, <3>2, <3>3, <5>1
        <4>. QED BY <3>2, <3>3, <4>1
      <3>5. f[T] = Join(Latest(T), f[U])
        BY <1>2, <2>4 DEF Step
      <3>. QED BY <2>2, <2>4, <3>4, <3>5, JoinOne
    <2>. QED BY <2>3, <2>4
  <1>. QED BY <1>1, <1>3

(* What addSegment promises: recorded segments stay whole blocks that do   *)
(* not touch one another, and nothing passes for done that was not before  *)
(* and is not in the new one.  What was done stays so unless the new one   *)
(* and an old one lie one inside the other.                                *)
LEMMA addSegmentJoins ==
  ASSUME NEW S, NEW s, S \subseteq Recorded, s \in Recorded
  PROVE  /\ addSegment(S, s) \subseteq Recorded /\ Apart(addSegment(S, s))
         /\ Covered(addSegment(S, s)) \subseteq Covered(S) \cup Units(s)
         /\ Apart(S) /\ (\A t \in S : ~Inside(s, t) /\ ~Inside(t, s)) =>
              Covered(S) \cup Units(s) \subseteq Covered(addSegment(S, s))
  <1>. DEFINE R == S \cup {s}
  <1>1. R \subseteq Segments /\ R \subseteq Recorded
    BY RecordedTypes
  <1>2. PICK f : f = [T \in SUBSET R |-> Step(f, T)] /\ addSegment(S, s) = f[R]
    BY <1>1, FoldEquation
  <1>3. IsJoined(f[R], R)
    BY <1>1, <1>2, FoldJoins
  <1>4. ASSUME Apart(S), \A t \in S : ~Inside(s, t) /\ ~Inside(t, s) PROVE Unnested(R)
    <2>. SUFFICES ASSUME NEW a \in R, NEW b \in R, Inside(a, b) PROVE FALSE
      BY DEF Unnested
    <2>1. a \in Recorded /\ b \in Recorded /\ a # b
      BY <1>1, RecordedTypes DEF Inside
    <2>2. a \in S /\ b \in S
      BY <1>4, <2>1
    <2>3. a.end < b.start \/ b.end < a.start
      BY <1>4, <2>1, <2>2 DEF Apart
    <2>. QED BY <2>1, <2>3, RecordedTypes DEF Inside
  <1>. QED BY <1>2, <1>3, <1>4, CoveredWith DEF IsJoined

-----------------------------------------------------------------------------
(* Blocks.                                                                 *)

LEMMA Remainder ==
  \A n \in Nat : /\ n \div BlockSize \in Nat /\ n % BlockSize \in 0..BlockSize - 1
                 /\ n = BlockSize * (n \div BlockSize) + (n % BlockSize)
  BY SizesAssumption

LEMMA Multiple ==
  ASSUME NEW q \in Nat
  PROVE  (BlockSize * q) % BlockSize = 0
  BY SizesAssumption

LEMMA SumOfMultiples ==
  ASSUME NEW a \in Nat, NEW b \in Nat, a % BlockSize = 0, b % BlockSize = 0
  PROVE  (a + b) % BlockSize = 0
  <1>. DEFINE i == a \div BlockSize
              j == b \div BlockSize
  <1>1. i \in Nat /\ j \in Nat /\ a = BlockSize * i /\ b = BlockSize * j
    BY Remainder, SizesAssumption
  <1>. HIDE DEF i, j
  <1>2. a + b = BlockSize * (i + j)
    BY <1>1, SizesAssumption
  <1>. QED BY <1>1, <1>2, Multiple

LEMMA CutToBlocks ==
  ASSUME NEW a \in Nat, NEW p \in Nat, a % BlockSize = 0
  PROVE  /\ p - (p % BlockSize) \in 0..p
         /\ (a + p - (p % BlockSize)) % BlockSize = 0
  <1>. DEFINE q == p - (p % BlockSize)
  <1>1. q \in 0..p /\ q = BlockSize * (p \div BlockSize) /\ p \div BlockSize \in Nat
    BY Remainder, SizesAssumption
  <1>2. q % BlockSize = 0
    BY <1>1, Multiple
  <1>3. q \in Nat /\ a + p - (p % BlockSize) = a + q
    BY <1>1, Remainder
  <1>. HIDE DEF q
  <1>. QED BY <1>1, <1>2, <1>3, SumOfMultiples DEF q

LEMMA RemainderType == \A n \in Nat : n % BlockSize \in Nat
  BY SizesAssumption

LEMMA NothingMultiple == 0 % BlockSize = 0
  BY SizesAssumption

LEMMA RoundedUp ==
  ASSUME NEW n \in Nat
  PROVE  RoundUp(n) \in Nat /\ RoundUp(n) % BlockSize = 0 /\ RoundUp(n) < n + BlockSize
  <1>. DEFINE q == (n + BlockSize - 1) \div BlockSize
  <1>1. n + BlockSize - 1 \in Nat
    BY SizesAssumption
  <1>2. q \in Nat
    BY <1>1, Remainder
  <1>3. RoundUp(n) = BlockSize * q
    BY <1>2, SizesAssumption DEF RoundUp
  <1>4. BlockSize * q <= n + BlockSize - 1 /\ BlockSize * q \in Nat
    BY <1>1, <1>2, Remainder, SizesAssumption
  <1>. HIDE DEF q
  <1>. QED BY <1>2, <1>3, <1>4, Multiple, SizesAssumption

(* A block boundary before the end of a block is not behind its beginning. *)
LEMMA BoundaryBefore ==
  ASSUME NEW a \in Nat, NEW b \in Nat, a % BlockSize = 0, b % BlockSize = 0, b < a + BlockSize
  PROVE  b <= a
  <1>. DEFINE i == a \div BlockSize
              j == b \div BlockSize
  <1>1. i \in Nat /\ j \in Nat /\ a = BlockSize * i /\ b = BlockSize * j
    BY Remainder, SizesAssumption
  <1>. HIDE DEF i, j
  <1>2. j <= i
    <2>. SUFFICES ASSUME j >= i + 1 PROVE FALSE
      BY <1>1
    <2>1. PICK k \in Nat : j = i + 1 + k
      <3>1. j - (i + 1) \in Nat /\ j = i + 1 + (j - (i + 1))
        BY <1>1
      <3>. QED BY <3>1
    <2>2. BlockSize * j = BlockSize * i + BlockSize + BlockSize * k /\ BlockSize * k \in Nat
      BY <1>1, <2>1, SizesAssumption
    <2>. QED BY <1>1, <2>2, SizesAssumption
  <1>3. PICK k \in Nat : i = j + k
    <2>1. i - j \in Nat /\ i = j + (i - j)
      BY <1>1, <1>2
    <2>. QED BY <2>1
  <1>4. BlockSize * i = BlockSize * j + BlockSize * k /\ BlockSize * k \in Nat
    BY <1>1, <1>3, SizesAssumption
  <1>. QED BY <1>1, <1>4

-----------------------------------------------------------------------------
(* What each connection has in hand, and what is recorded.                 *)

Held(u) ==
  /\ seg[u] \in Given \cup {Refused}
  /\ pos[u] \in 0..size(seg[u])
  /\ phase[u] \in {"idle", "granted"} => pos[u] = 0
  /\ phase[u] \in {"running", "ended"} => size(seg[u]) > 0
  /\ phase[u] = "ended" => pos[u] = size(seg[u])

Threads ==
  /\ phase \in [Users -> Phases] /\ seg \in [Users -> Segments] /\ pos \in [Users -> 0..FileSize]
  /\ \A u \in Users : Held(u)

Rest ==
  /\ multiChunk \in MultiChunk /\ downloads \in Seq(Users) /\ status \in Statuses
  /\ disk \subseteq 0..FileSize - 1 /\ moves \in Nat /\ fails \in 0..MaxFails
  /\ started \subseteq Users /\ overlapped \subseteq Users
  /\ overlapper \subseteq Users /\ killed \subseteq Users

DoneApart == done \subseteq Recorded /\ Apart(done)

Shape == Threads /\ Rest /\ DoneApart

LEMMA GivenTypes ==
  \A s \in Given \cup {Refused} :
    /\ s \in Segments /\ s.start \in Int /\ s.end \in Int
    /\ s = Segment(s.start, s.end) /\ size(s) \in 0..FileSize
    /\ size(s) > 0 => s \in Recorded /\ s.start \in Nat
  BY SizesAssumption DEF Given, Recorded, Refused, Segments, Segment, size

LEMMA GivenSegment ==
  ASSUME NEW a \in Nat, NEW b \in Nat, a <= b, b <= FileSize,
         a % BlockSize = 0, OnBoundary(b)
  PROVE  Segment(a, b) \in Given
  BY SizesAssumption DEF Given, Segment, Segments

LEMMA NothingGiven == Nothing \in Given /\ size(Nothing) = 0
  <1>1. 0 % BlockSize = 0
    BY SizesAssumption
  <1>2. Segment(0, 0) \in Given
    BY <1>1, GivenSegment, SizesAssumption DEF OnBoundary
  <1>. QED BY <1>2 DEF Nothing, Segment, size

LEMMA PartGiven ==
  ASSUME NEW a \in Multiples, NEW n \in Nat, n % BlockSize = 0
  PROVE  Part(a, n) \in Given
  <1>1. a \in Nat /\ a <= FileSize /\ a % BlockSize = 0 /\ FileSize \in Nat
    BY SizesAssumption DEF Multiples
  <1>. DEFINE e == Min({FileSize, a + n})
  <1>2. e = IF FileSize <= a + n THEN FileSize ELSE a + n
    BY <1>1, MinOfTwo
  <1>3. (a + n) % BlockSize = 0
    BY <1>1, SumOfMultiples
  <1>4. e \in Nat /\ a <= e /\ e <= FileSize /\ OnBoundary(e)
    BY <1>1, <1>2, <1>3 DEF OnBoundary
  <1>. HIDE DEF e
  <1>5. Segment(a, e) \in Given
    BY <1>1, <1>4, GivenSegment
  <1>. QED BY <1>5 DEF Part, e

LEMMA NextFreeFree ==
  ASSUME FreeStarts # {}, NEW w \in WantedSizes
  PROVE  \E a \in Multiples, n \in Nat :
           n % BlockSize = 0 /\ Free(a, n) /\ NextFree(w) = Part(a, n)
  <1>. DEFINE start == Min(FreeStarts)
              Sizes == {k \in Multiples \cup {BlockSize} : 0 < k /\ k <= w /\ Free(start, k)}
              n == Max(Sizes)
  <1>1. start \in FreeStarts
    <2>1. FreeStarts \subseteq Nat
      BY DEF FreeStarts, Multiples
    <2>. QED BY <2>1, HasMin
  <1>2. start \in Multiples /\ Free(start, BlockSize)
    BY <1>1 DEF FreeStarts
  <1>. HIDE DEF start
  <1>3. BlockSize <= w
    <2>1. CASE w = BlockSize
      BY <2>1, SizesAssumption
    <2>2. CASE w \in Multiples \ {0}
      <3>1. w \in Nat \ {0} /\ w % BlockSize = 0
        BY <2>2 DEF Multiples
      <3>2. w = BlockSize * (w \div BlockSize) /\ w \div BlockSize \in Nat
        BY <3>1, Remainder, SizesAssumption
      <3>. DEFINE q == w \div BlockSize
      <3>3. q \in Nat /\ w = BlockSize * q
        BY <3>2
      <3>. HIDE DEF q
      <3>. QED BY <3>1, <3>3, SizesAssumption
    <2>. QED BY <2>1, <2>2 DEF WantedSizes
  <1>4. w \in Nat
    BY SizesAssumption DEF WantedSizes, Multiples
  <1>5. Sizes \subseteq 0..w /\ BlockSize \in Sizes
    BY <1>2, <1>3, <1>4, SizesAssumption DEF Multiples
  <1>6. n \in Sizes
    BY <1>4, <1>5, HasMax
  <1>7. n \in Nat /\ n % BlockSize = 0
    <2>1. BlockSize % BlockSize = 0 /\ BlockSize \in Nat
      BY SizesAssumption
    <2>. QED BY <1>6, <2>1 DEF Multiples
  <1>8. Free(start, n)
    BY <1>6
  <1>. HIDE DEF n, Sizes
  <1>9. NextFree(w) = Part(start, n)
    BY Zenon DEF NextFree, start, n, Sizes
  <1>. QED BY <1>2, <1>7, <1>8, <1>9

LEMMA NextFreeGiven ==
  ASSUME FreeStarts # {}, NEW w \in WantedSizes
  PROVE  NextFree(w) \in Given
  BY NextFreeFree, PartGiven

LEMMA FirstDoneIn ==
  ASSUME done \subseteq Recorded, Apart(done), done # {}
  PROVE  FirstDone \in done /\ \A t \in done : FirstDone.start <= t.start
  <1>. DEFINE Starts == {s.start : s \in done}
  <1>1. Starts \subseteq Nat /\ Starts # {}
    BY RecordedTypes
  <1>2. PICK a \in Starts : \A b \in Starts : a <= b
    BY <1>1, HasLeast
  <1>3. PICK s \in done : s.start = a
    OBVIOUS
  <1>4. \A t \in done : t = s \/ Before(s, t)
    <2>. SUFFICES ASSUME NEW t \in done, t # s PROVE Before(s, t)
      OBVIOUS
    <2>1. s.end < t.start \/ t.end < s.start
      BY DEF Apart
    <2>2. a <= t.start
      BY <1>2
    <2>. QED BY <1>3, <2>1, <2>2, RecordedTypes DEF Before
  <1>5. FirstDone \in done /\ \A t \in done : t = FirstDone \/ Before(FirstDone, t)
    BY <1>3, <1>4, Zenon DEF FirstDone
  <1>. HIDE DEF FirstDone
  <1>. QED BY <1>5, RecordedTypes DEF Before

LEMMA NextGiven ==
  ASSUME Shape, NEW s \in NextSegments
  PROVE  s \in Given \cup {Refused}
  <1>1. CASE s \in NextShared
    <2>1. s \in {Refused, Nothing} \/ (FreeStarts # {} /\ \E w \in WantedSizes : s = NextFree(w))
      BY <1>1 DEF NextShared
    <2>. QED BY <2>1, NothingGiven, NextFreeGiven
  <1>2. CASE s \in NextSingle
    <2>1. 0 % BlockSize = 0 /\ FileSize \in Nat
      BY SizesAssumption
    <2>2. CASE done = {}
      <3>1. s = Refused \/ s = Segment(0, FileSize)
        BY <1>2, <2>2 DEF NextSingle
      <3>2. Segment(0, FileSize) \in Given
        BY <2>1, GivenSegment DEF OnBoundary
      <3>. QED BY <3>1, <3>2
    <2>3. CASE done # {}
      <3>. DEFINE n == RoundUp(FirstDone.start)
      <3>1. s = Refused \/ s = Segment(0, Min({FileSize, n}))
        BY <1>2, <2>3 DEF NextSingle
      <3>2. FirstDone \in done /\ done \subseteq Recorded
        BY <2>3, FirstDoneIn DEF Shape, DoneApart
      <3>3. FirstDone.start \in Nat
        BY <3>2, RecordedTypes
      <3>4. n \in Nat /\ n % BlockSize = 0
        BY <3>3, RoundedUp
      <3>. HIDE DEF n
      <3>5. 0 \in Multiples
        BY <2>1 DEF Multiples
      <3>6. Part(0, n) \in Given
        BY <3>4, <3>5, PartGiven
      <3>7. Part(0, n) = Segment(0, Min({FileSize, n}))
        BY <3>4 DEF Part
      <3>. QED BY <3>1, <3>6, <3>7
    <2>. QED BY <2>2, <2>3
  <1>. QED BY <1>1, <1>2 DEF NextSegments

LEMMA CutGiven ==
  ASSUME Shape, NEW v \in Users
  PROVE  /\ pos[v] < size(seg[v]) => OverlapOf(v) \in Given
         /\ size(Aligned(v)) > 0 => Aligned(v) \in Recorded
         /\ Units(Aligned(v)) \subseteq Received(v)
         /\ Received(v) \subseteq Units(seg[v])
         /\ Received(v) \subseteq 0..FileSize - 1
         /\ pos[v] = size(seg[v]) => Received(v) = Units(seg[v])
  <1>. DEFINE s == seg[v]
              p == pos[v]
              r == p % BlockSize
  <1>1. s \in Given \cup {Refused} /\ p \in 0..size(s)
    BY DEF Shape, Threads, Held
  <1>. HIDE DEF s, p
  <1>2. /\ s \in Segments /\ s.start \in Int /\ s.end \in Int
        /\ s = Segment(s.start, s.end) /\ size(s) \in 0..FileSize /\ size(s) = s.end - s.start
    BY <1>1, GivenTypes DEF size
  <1>3. p \in Nat /\ FileSize \in Nat
    BY <1>1, <1>2, SizesAssumption
  <1>4. r \in Nat /\ p - r \in 0..p
    <2>1. p - r \in 0..p
      BY <1>3, CutToBlocks, NothingMultiple
    <2>. QED BY <1>3, <2>1, RemainderType
  <1>5. OverlapOf(v) = Segment(s.start + p - r, s.end) /\ Aligned(v) = Segment(s.start, s.start + p - r)
        /\ Received(v) = Units(Segment(s.start, s.start + p))
    BY DEF OverlapOf, Aligned, Received, s, p
  <1>6. /\ Received(v) = {n \in Int : s.start <= n /\ n < s.start + p}
        /\ Units(s) = {n \in Int : s.start <= n /\ n < s.end}
    BY <1>2, <1>3, <1>5, UnitsOf
  <1>7. Units(Aligned(v)) = {n \in Int : s.start <= n /\ n < s.start + p - r}
    <2>1. s.start + p - r \in Int
      BY <1>2, <1>3, <1>4
    <2>. QED BY <1>2, <1>5, <2>1, UnitsOf
  <1>8. CASE size(s) = 0
    <2>1. p = 0 /\ p - r = 0
      BY <1>1, <1>2, <1>4, <1>8
    <2>2. size(Aligned(v)) = 0
      BY <1>2, <1>3, <1>4, <1>5, <2>1 DEF Segment, size
    <2>3. Received(v) = {} /\ Units(Aligned(v)) = {}
      BY <1>2, <1>3, <1>6, <1>7, <2>1
    <2>4. Units(s) = {}
      BY <1>2, <1>6, <1>8
    <2>. QED BY <1>8, <2>1, <2>2, <2>3, <2>4 DEF s, p
  <1>9. CASE size(s) > 0
    <2>1. s \in Given /\ s.start \in Nat /\ s.end \in Nat /\ s.end <= FileSize
          /\ s.start % BlockSize = 0 /\ OnBoundary(s.end)
      BY <1>1, <1>2, <1>9, GivenTypes, RecordedTypes DEF Given, Recorded
    <2>2. (s.start + p - r) % BlockSize = 0
      BY <1>3, <2>1, CutToBlocks
    <2>3. s.start + p - r \in Nat /\ s.start <= s.start + p - r /\ s.start + p - r <= s.end
      BY <1>1, <1>2, <1>3, <1>4, <2>1
    <2>. HIDE DEF r
    <2>4. OnBoundary(s.start + p - r) /\ s.start + p - r <= FileSize
      BY <1>3, <2>1, <2>2, <2>3 DEF OnBoundary
    <2>5. OverlapOf(v) \in Given
      BY <1>5, <2>1, <2>2, <2>3, GivenSegment
    <2>6. Aligned(v) \in Given
      BY <1>5, <2>1, <2>3, <2>4, GivenSegment
    <2>7. size(Aligned(v)) > 0 => Aligned(v) \in Recorded
      BY <2>6, GivenTypes
    <2>. QED BY <1>1, <1>2, <1>3, <1>4, <1>6, <1>7, <2>1, <2>5, <2>7 DEF s, p
  <1>. QED BY <1>2, <1>8, <1>9

LEMMA ShapeTypes == Shape => TypeOK /\ SegmentsAligned
  <1>. SUFFICES ASSUME Shape PROVE TypeOK /\ SegmentsAligned
    OBVIOUS
  <1>1. done \subseteq Segments
    BY RecordedTypes DEF Shape, DoneApart
  <1>2. TypeOK
    BY <1>1 DEF Shape, Threads, Rest, TypeOK
  <1>3. \A s \in done : OnBoundary(s.start) /\ OnBoundary(s.end) /\ size(s) > 0
    BY RecordedTypes DEF Shape, DoneApart, Recorded, Given, OnBoundary, size
  <1>4. ASSUME NEW u \in Users PROVE size(seg[u]) <= 0 \/ seg[u].start % BlockSize = 0
    <2>1. CASE seg[u] \in Given
      BY <2>1 DEF Given
    <2>2. CASE seg[u] = Refused
      BY <2>2 DEF Refused, Segment, size
    <2>. QED BY <2>1, <2>2 DEF Shape, Threads, Held
  <1>. QED BY <1>2, <1>3, <1>4 DEF SegmentsAligned, Shape, DoneApart, Apart

-----------------------------------------------------------------------------
(* m_downloads.                                                            *)

LEMMA RemoveFirstIn ==
  ASSUME NEW S, NEW s \in Seq(S), NEW e
  PROVE  RemoveFirst(s, e) \in Seq(S)
  <1>1. CASE \E i \in 1..Len(s) : s[i] = e
    <2>. DEFINE I == {i \in 1..Len(s) : s[i] = e}
                k == Min(I)
    <2>1. I # {} /\ I \subseteq Nat
      BY <1>1
    <2>2. k \in I
      BY <2>1, HasMin
    <2>3. RemoveFirst(s, e) = SubSeq(s, 1, k - 1) \o SubSeq(s, k + 1, Len(s))
      BY <1>1, <2>1, <2>2 DEF RemoveFirst, RemoveAt, SelectInSeq
    <2>. HIDE DEF k
    <2>4. k \in 1..Len(s)
      BY <2>2
    <2>5. SubSeq(s, 1, k - 1) \in Seq(S) /\ SubSeq(s, k + 1, Len(s)) \in Seq(S)
      BY <2>4
    <2>. QED BY <2>3, <2>5
  <1>2. CASE ~\E i \in 1..Len(s) : s[i] = e
    BY <1>2 DEF RemoveFirst
  <1>. QED BY <1>1, <1>2

LEMMA FirstOfIn ==
  ASSUME downloads \in Seq(Users), NEW V, V \subseteq Registered, V # {}
  PROVE  FirstOf(V) \in V /\ V \subseteq Users
  <1>. DEFINE I == {i \in DOMAIN downloads : downloads[i] \in V}
  <1>1. DOMAIN downloads = 1..Len(downloads) /\ Len(downloads) \in Nat
    OBVIOUS
  <1>2. I \subseteq Nat /\ I # {}
    BY <1>1 DEF Registered, ToSet
  <1>3. Min(I) \in I
    BY <1>2, HasMin
  <1>4. V \subseteq Users
    BY <1>1 DEF Registered, ToSet
  <1>. QED BY <1>3, <1>4 DEF FirstOf

-----------------------------------------------------------------------------
(* What a thread does to its own Download.                                 *)

LEMMA ThreadStep ==
  ASSUME Shape, NEW u \in Users, NEW p \in Phases, NEW s \in Given \cup {Refused},
         NEW n \in 0..size(s),
         p \in {"idle", "granted"} => n = 0,
         p \in {"running", "ended"} => size(s) > 0,
         p = "ended" => n = size(s),
         phase' = [phase EXCEPT ![u] = p], seg' = [seg EXCEPT ![u] = s],
         pos' = [pos EXCEPT ![u] = n]
  PROVE  Threads'
  <1>1. s \in Segments /\ n \in 0..FileSize
    BY GivenTypes, SizesAssumption
  <1>2. phase' \in [Users -> Phases] /\ seg' \in [Users -> Segments] /\ pos' \in [Users -> 0..FileSize]
    BY <1>1 DEF Shape, Threads
  <1>3. ASSUME NEW v \in Users PROVE Held(v)'
    <2>1. CASE v = u
      <3>1. phase'[v] = p /\ seg'[v] = s /\ pos'[v] = n
        BY <2>1 DEF Shape, Threads
      <3>. QED BY <3>1 DEF Held
    <2>2. CASE v # u
      <3>1. phase'[v] = phase[v] /\ seg'[v] = seg[v] /\ pos'[v] = pos[v]
        BY <2>2 DEF Shape, Threads
      <3>2. Held(v)
        BY DEF Shape, Threads
      <3>. QED BY <3>1, <3>2 DEF Held
    <2>. QED BY <2>1, <2>2
  <1>. QED BY <1>2, <1>3 DEF Threads

LEMMA PhaseStep ==
  ASSUME Shape, NEW u \in Users, NEW p \in Phases, Goto(u, p), UNCHANGED <<seg, pos>>,
         p \in {"idle", "granted"} => pos[u] = 0,
         p \in {"running", "ended"} => size(seg[u]) > 0,
         p = "ended" => pos[u] = size(seg[u])
  PROVE  Threads'
  <1>1. seg[u] \in Given \cup {Refused} /\ pos[u] \in 0..size(seg[u])
    BY DEF Shape, Threads, Held
  <1>2. seg' = [seg EXCEPT ![u] = seg[u]] /\ pos' = [pos EXCEPT ![u] = pos[u]]
    BY DEF Shape, Threads
  <1>. QED BY <1>1, <1>2, ThreadStep DEF Goto

LEMMA ForgetStep ==
  ASSUME Shape, NEW u \in Users, NEW V, Goto(u, "idle"), Forget(u, V)
  PROVE  /\ Threads'
         /\ started' \subseteq Users /\ overlapped' \subseteq Users
         /\ overlapper' \subseteq Users /\ killed' \subseteq Users
  <1>1. Nothing \in Given \cup {Refused} /\ 0 \in 0..size(Nothing)
    BY NothingGiven
  <1>2. Threads'
    BY <1>1, ThreadStep DEF Goto, Forget, Phases
  <1>. QED BY <1>2 DEF Forget, Shape, Rest

LEMMA ChooseStep ==
  ASSUME Shape, NEW u \in Users, ChooseSegment(u) \/ ChooseOverlap(u)
  PROVE  Shape'
  <1>1. phase[u] = "granted" /\ pos[u] = 0 /\ pos' = pos
    BY DEF ChooseSegment, ChooseOverlap, Shape, Threads, Held
  <1>2. pos' = [pos EXCEPT ![u] = 0]
    BY <1>1 DEF Shape, Threads
  <1>3. \E s \in Given \cup {Refused} : seg' = [seg EXCEPT ![u] = s]
    <2>1. CASE ChooseSegment(u)
      BY <2>1, NextGiven DEF ChooseSegment
    <2>2. CASE ChooseOverlap(u)
      <3>1. PICK v \in Slow(u) : seg' = [seg EXCEPT ![u] = OverlapOf(v)]
        BY <2>2 DEF ChooseOverlap
      <3>2. v \in Users /\ pos[v] < size(seg[v])
        <4>1. v \in Registered /\ pos[v] < size(seg[v])
          BY DEF Slow
        <4>. QED BY <4>1 DEF Registered, ToSet, Shape, Rest
      <3>. QED BY <3>1, <3>2, CutGiven
    <2>. QED BY <2>1, <2>2
  <1>4. Threads'
    <2>1. PICK s \in Given \cup {Refused} : seg' = [seg EXCEPT ![u] = s]
      BY <1>3
    <2>2. 0 \in 0..size(s)
      BY GivenTypes
    <2>3. PICK p \in {"chosen", "marking"} : phase' = [phase EXCEPT ![u] = p]
      BY DEF ChooseSegment, ChooseOverlap, Goto
    <2>. QED BY <1>2, <2>1, <2>2, <2>3, ThreadStep DEF Phases
  <1>. QED BY <1>4 DEF ChooseSegment, ChooseOverlap, Shape, Rest, DoneApart, itemVars, fileVars, flagVars

LEMMA OriginalIn ==
  ASSUME downloads \in Seq(Users), NEW s
  PROVE  Original(s) \subseteq Users
  <1>. DEFINE V == {v \in Registered : contains(seg[v], s)}
  <1>1. CASE V = {}
    BY <1>1 DEF Original
  <1>2. CASE V # {}
    <2>1. FirstOf(V) \in V /\ V \subseteq Users
      BY <1>2, FirstOfIn
    <2>. QED BY <1>2, <2>1 DEF Original
  <1>. QED BY <1>1, <1>2

LEMMA GetStep ==
  ASSUME Shape, NEW u \in Users, GetDownload(u)
  PROVE  Shape'
  <1>. USE DEF Shape, itemVars, fileVars, flagVars
  <1>1. CASE Ask(u)
    <2>1. pos[u] = 0
      BY <1>1 DEF Ask, Threads, Held
    <2>2. Threads'
      BY <1>1, <2>1, PhaseStep DEF Ask, Phases
    <2>. QED BY <1>1, <2>2 DEF Ask, Rest, DoneApart
  <1>2. CASE ChooseSegment(u) \/ ChooseOverlap(u)
    BY <1>2, ChooseStep
  <1>3. CASE markOriginal(u)
    <2>1. Threads'
      BY <1>3, PhaseStep DEF markOriginal, Phases
    <2>2. Original(seg[u]) \subseteq Users
      BY OriginalIn DEF Rest
    <2>. QED BY <1>3, <2>1, <2>2 DEF markOriginal, Rest, DoneApart
  <1>4. CASE Relock(u)
    <2>1. Threads'
      BY <1>4, PhaseStep DEF Relock, Phases
    <2>. QED BY <1>4, <2>1 DEF Relock, Rest, DoneApart
  <1>5. CASE addDownload(u)
    <2>1. Threads'
      BY <1>5, PhaseStep DEF addDownload, Phases
    <2>2. downloads' \in Seq(Users)
      BY <1>5 DEF addDownload, Rest
    <2>. QED BY <1>5, <2>1, <2>2 DEF addDownload, Rest, DoneApart
  <1>. QED BY <1>1, <1>2, <1>3, <1>4, <1>5 DEF GetDownload

LEMMA TransferStep ==
  ASSUME Shape, NEW u \in Users, Transfer(u)
  PROVE  Shape'
  <1>. USE DEF Shape, itemVars, fileVars, flagVars
  <1>1. CASE startData(u) \/ startOverlap(u)
    <2>1. Start(u)
      BY <1>1 DEF startData, startOverlap
    <2>2. Threads'
      BY <2>1, PhaseStep DEF Start, Phases
    <2>3. overlapped' \subseteq Users
      BY <1>1 DEF startData, startOverlap, Rest
    <2>4. killed' \subseteq Users
      <3>1. CASE startData(u)
        BY <3>1 DEF startData, Rest
      <3>2. CASE startOverlap(u)
        <4>1. Originals(u) # {} /\ Originals(u) \subseteq Registered
          BY <3>2 DEF startOverlap, Originals
        <4>2. FirstOf(Originals(u)) \in Users
          BY <4>1, FirstOfIn DEF Rest
        <4>. QED BY <3>2, <4>2 DEF startOverlap, Rest
      <3>. QED BY <1>1, <3>1, <3>2
    <2>. QED BY <2>1, <2>2, <2>3, <2>4 DEF Start, Rest, DoneApart
  <1>2. CASE fireData(u)
    <2>. DEFINE n == pos[u] + 1
    <2>1. /\ seg[u] \in Given \cup {Refused} /\ pos[u] \in 0..size(seg[u])
          /\ phase[u] = "running" /\ pos[u] < size(seg[u]) /\ size(seg[u]) \in 0..FileSize
      BY <1>2, GivenTypes DEF fireData, Threads, Held
    <2>2. n \in 0..size(seg[u]) /\ size(seg[u]) > 0
      BY <2>1
    <2>3. /\ phase' = [phase EXCEPT ![u] = "running"] /\ seg' = [seg EXCEPT ![u] = seg[u]]
          /\ pos' = [pos EXCEPT ![u] = n]
      BY <1>2, <2>1 DEF fireData, Threads
    <2>. HIDE DEF n
    <2>4. Threads'
      BY <2>1, <2>2, <2>3, ThreadStep DEF Phases
    <2>. QED BY <1>2, <2>4 DEF fireData, Rest, DoneApart
  <1>3. CASE endData(u)
    <2>1. Threads'
      BY <1>3, PhaseStep DEF endData, Phases, Threads, Held
    <2>2. Received(u) \subseteq 0..FileSize - 1
      BY CutGiven
    <2>. QED BY <1>3, <2>1, <2>2 DEF endData, Rest, DoneApart
  <1>. QED BY <1>1, <1>2, <1>3 DEF Transfer

LEMMA FinishedStep ==
  ASSUME Shape, NEW u \in Users, PutFinished(u)
  PROVE  Shape'
  <1>. USE DEF Shape, itemVars, fileVars, flagVars
  <1>1. CASE addFinished(u)
    <2>1. Threads'
      BY <1>1, PhaseStep DEF addFinished, Phases
    <2>2. seg[u] \in Recorded
      BY <1>1, GivenTypes DEF addFinished, Threads, Held
    <2>3. DoneApart'
      <3>1. done' = addSegment(done, seg[u])
        BY <1>1 DEF addFinished
      <3>2. addSegment(done, seg[u]) \subseteq Recorded /\ Apart(addSegment(done, seg[u]))
        BY <2>2, addSegmentJoins DEF DoneApart
      <3>. QED BY <3>1, <3>2 DEF DoneApart, Apart
    <2>. QED BY <1>1, <2>1, <2>3 DEF addFinished, Rest
  <1>2. CASE segmentDone(u)
    <2>1. downloads' \in Seq(Users)
      BY <1>2, RemoveFirstIn DEF segmentDone, Rest
    <2>. QED BY <1>2, <2>1, ForgetStep DEF segmentDone, Rest, DoneApart
  <1>3. CASE fileDone(u)
    <2>1. Threads'
      BY <1>3, PhaseStep DEF fileDone, Phases
    <2>2. Registered \subseteq Users
      BY DEF Registered, ToSet, Rest
    <2>. QED BY <1>3, <2>1, <2>2 DEF fileDone, Rest, DoneApart
  <1>4. CASE removeQueueItem(u)
    BY <1>4, ForgetStep DEF removeQueueItem, Rest, DoneApart, Statuses
  <1>5. CASE dropDownload(u)
    BY <1>5, ForgetStep DEF dropDownload, Rest, DoneApart
  <1>. QED BY <1>1, <1>2, <1>3, <1>4, <1>5 DEF PutFinished

LEMMA MayFailType ==
  ASSUME Shape, NEW u \in Users, MayFail(u) \/ (fails < MaxFails /\ fails' = fails + 1)
  PROVE  fails' \in 0..MaxFails
  BY SizesAssumption DEF MayFail, Shape, Rest

LEMMA UnfinishedStep ==
  ASSUME Shape, NEW u \in Users, PutUnfinished(u)
  PROVE  Shape'
  <1>. USE DEF Shape, itemVars, fileVars, flagVars
  <1>1. CASE failDownload(u)
    <2>1. Threads'
      BY <1>1, PhaseStep DEF failDownload, Phases
    <2>2. Received(u) \subseteq 0..FileSize - 1
      BY CutGiven
    <2>3. fails' \in 0..MaxFails
      BY <1>1, MayFailType DEF failDownload
    <2>. QED BY <1>1, <2>1, <2>2, <2>3 DEF failDownload, Flushed, Rest, DoneApart
  <1>2. CASE endDataFails(u)
    <2>1. seg[u] \in Given \cup {Refused} /\ 0 \in 0..size(seg[u])
      BY GivenTypes DEF Threads, Held
    <2>2. /\ phase' = [phase EXCEPT ![u] = "failed"] /\ seg' = [seg EXCEPT ![u] = seg[u]]
          /\ pos' = [pos EXCEPT ![u] = 0]
      BY <1>2 DEF endDataFails, Goto, Threads
    <2>3. Threads'
      BY <2>1, <2>2, ThreadStep DEF Phases
    <2>4. fails' \in 0..MaxFails
      BY <1>2, MayFailType DEF endDataFails
    <2>. QED BY <1>2, <2>3, <2>4 DEF endDataFails, Rest, DoneApart
  <1>3. CASE addUnfinished(u)
    <2>1. Threads'
      BY <1>3, PhaseStep DEF addUnfinished, Phases
    <2>2. DoneApart'
      <3>1. CASE size(Aligned(u)) > 0
        <4>1. done' = addSegment(done, Aligned(u))
          BY <1>3, <3>1 DEF addUnfinished
        <4>2. Aligned(u) \in Recorded
          BY <3>1, CutGiven
        <4>3. /\ addSegment(done, Aligned(u)) \subseteq Recorded
              /\ Apart(addSegment(done, Aligned(u)))
          BY <4>2, addSegmentJoins DEF DoneApart
        <4>. QED BY <4>1, <4>3 DEF DoneApart, Apart
      <3>2. CASE ~(size(Aligned(u)) > 0)
        BY <1>3, <3>2 DEF addUnfinished, DoneApart, Apart
      <3>. QED BY <3>1, <3>2
    <2>. QED BY <1>3, <2>1, <2>2 DEF addUnfinished, Rest
  <1>4. CASE removeDownload(u)
    <2>1. downloads' \in Seq(Users)
      BY <1>4, RemoveFirstIn DEF removeDownload, Rest
    <2>2. CASE u \in overlapper
      <3>1. Threads'
        BY <1>4, <2>2, PhaseStep DEF removeDownload, Phases
      <3>. QED BY <1>4, <2>1, <2>2, <3>1 DEF removeDownload, Rest, DoneApart
    <2>3. CASE u \notin overlapper
      BY <1>4, <2>1, <2>3, ForgetStep DEF removeDownload, Rest, DoneApart
    <2>. QED BY <2>2, <2>3
  <1>5. CASE unmarkOriginal(u)
    BY <1>5, ForgetStep DEF unmarkOriginal, Rest, DoneApart
  <1>. QED BY <1>1, <1>2, <1>3, <1>4, <1>5 DEF PutUnfinished

LEMMA ShapeInit == Init => Shape
  <1>. SUFFICES ASSUME Init PROVE Shape
    OBVIOUS
  <1>1. Nothing \in Segments /\ Nothing \in Given /\ size(Nothing) = 0
    BY NothingGiven, GivenTypes
  <1>2. Threads
    BY <1>1, SizesAssumption DEF Init, Threads, Held, Phases
  <1>3. Rest
    BY SizesAssumption DEF Init, Rest, Statuses
  <1>. QED BY <1>2, <1>3 DEF Init, Shape, DoneApart, Apart

LEMMA ShapeStep == Shape /\ [Next]_vars => Shape'
  <1>. SUFFICES ASSUME Shape, [Next]_vars PROVE Shape'
    OBVIOUS
  <1>1. ASSUME NEW u \in Users, Thread(u) PROVE Shape'
    BY <1>1, GetStep, TransferStep, FinishedStep, UnfinishedStep DEF Thread
  <1>2. CASE UNCHANGED vars
    <2>. USE DEF vars, itemVars, fileVars, flagVars
    <2>1. Threads'
      BY <1>2 DEF Shape, Threads, Held
    <2>. QED BY <1>2, <2>1 DEF Shape, Rest, DoneApart, Apart
  <1>. QED BY <1>1, <1>2 DEF Next

-----------------------------------------------------------------------------
(* What was written to the temporary file.                                 *)

OnDisk ==
  /\ Covered(done) \subseteq disk
  /\ \A u \in Users : phase[u] \in {"ended", "failed"} => Received(u) \subseteq disk
  /\ moves > 0 => 0..FileSize - 1 \subseteq disk

(* A step of u that writes and does not move the file: what u says was     *)
(* received, and what becomes done, has to be on the disk after it.        *)
LEMMA DiskStep ==
  ASSUME Shape, OnDisk, NEW u \in Users,
         disk \subseteq disk', moves' = moves,
         Covered(done') \subseteq disk',
         \A v \in Users \ {u} : phase'[v] = phase[v] /\ seg'[v] = seg[v] /\ pos'[v] = pos[v],
         phase'[u] \in {"ended", "failed"} => Received(u)' \subseteq disk'
  PROVE  OnDisk'
  <1>1. ASSUME NEW v \in Users, phase'[v] \in {"ended", "failed"} PROVE Received(v)' \subseteq disk'
    <2>1. CASE v = u
      BY <1>1, <2>1
    <2>2. CASE v # u
      <3>1. Received(v)' = Received(v) /\ phase'[v] = phase[v]
        BY <2>2 DEF Received
      <3>. QED BY <1>1, <3>1 DEF OnDisk
    <2>. QED BY <2>1, <2>2
  <1>. QED BY <1>1 DEF OnDisk

(* Most steps of u neither write nor record, and leave u where nothing is  *)
(* claimed about what it received.                                         *)
LEMMA DiskKept ==
  ASSUME Shape, OnDisk, NEW u \in Users, NEW p \in Phases \ {"ended", "failed"},
         Goto(u, p), UNCHANGED <<done, disk, moves>>,
         \A v \in Users \ {u} : seg'[v] = seg[v] /\ pos'[v] = pos[v]
  PROVE  OnDisk'
  <1>1. phase'[u] = p /\ \A v \in Users \ {u} : phase'[v] = phase[v]
    BY DEF Goto, Shape, Threads
  <1>. QED BY <1>1, DiskStep DEF OnDisk, Covered

LEMMA ForgetKept ==
  ASSUME Shape, OnDisk, NEW u \in Users, NEW V, Goto(u, "idle"), Forget(u, V),
         UNCHANGED <<done, disk, moves>>
  PROVE  OnDisk'
  <1>1. \A v \in Users \ {u} : seg'[v] = seg[v] /\ pos'[v] = pos[v]
    BY DEF Forget, Shape, Threads
  <1>. QED BY <1>1, DiskKept DEF Phases

LEMMA DiskGet ==
  ASSUME Shape, OnDisk, NEW u \in Users, GetDownload(u)
  PROVE  OnDisk'
  <1>1. UNCHANGED <<done, disk, moves>>
    BY DEF GetDownload, Ask, ChooseSegment, ChooseOverlap, markOriginal, Relock, addDownload,
           itemVars, fileVars
  <1>2. \E p \in Phases \ {"ended", "failed"} : Goto(u, p)
    BY DEF GetDownload, Ask, ChooseSegment, ChooseOverlap, markOriginal, Relock, addDownload, Phases
  <1>3. \A v \in Users \ {u} : seg'[v] = seg[v] /\ pos'[v] = pos[v]
    BY DEF GetDownload, Ask, ChooseSegment, ChooseOverlap, markOriginal, Relock, addDownload,
           Shape, Threads
  <1>. QED BY <1>1, <1>2, <1>3, DiskKept

LEMMA DiskTransfer ==
  ASSUME Shape, OnDisk, NEW u \in Users, Transfer(u)
  PROVE  OnDisk'
  <1>1. CASE startData(u) \/ startOverlap(u)
    <2>1. Start(u)
      BY <1>1 DEF startData, startOverlap
    <2>. QED BY <2>1, DiskKept DEF Start, itemVars, fileVars, Phases
  <1>2. CASE fireData(u)
    <2>1. UNCHANGED <<done, disk, moves, phase, seg>> /\ phase[u] = "running"
      BY <1>2 DEF fireData, itemVars, fileVars
    <2>2. \A v \in Users \ {u} : pos'[v] = pos[v]
      BY <1>2 DEF fireData, Shape, Threads
    <2>. QED BY <2>1, <2>2, DiskStep DEF OnDisk, Covered
  <1>3. CASE endData(u)
    <2>1. UNCHANGED <<done, moves, seg, pos>> /\ disk' = disk \cup Received(u)
      BY <1>3 DEF endData, itemVars
    <2>2. \A v \in Users \ {u} : phase'[v] = phase[v]
      BY <1>3 DEF endData, Goto, Shape, Threads
    <2>3. Received(u)' = Received(u)
      BY <2>1 DEF Received
    <2>. QED BY <2>1, <2>2, <2>3, DiskStep DEF OnDisk, Covered
  <1>. QED BY <1>1, <1>2, <1>3 DEF Transfer

(* A finished file has one segment, from its start to its end: all of it   *)
(* is covered, and what is covered is on the disk.                         *)
LEMMA FinishedCovers ==
  ASSUME isFinished
  PROVE  Covered(done) = 0..FileSize - 1
  <1>1. done = {Segment(0, FileSize)}
    BY DEF isFinished
  <1>2. Units(Segment(0, FileSize)) = 0..FileSize - 1
    BY DEF Units, Segment
  <1>. QED BY <1>1, <1>2 DEF Covered

LEMMA DiskFinished ==
  ASSUME Shape, OnDisk, NEW u \in Users, PutFinished(u)
  PROVE  OnDisk'
  <1>1. CASE addFinished(u)
    <2>1. UNCHANGED <<disk, moves, seg, pos>> /\ done' = addSegment(done, seg[u]) /\ phase[u] = "ended"
      BY <1>1 DEF addFinished, fileVars
    <2>2. seg[u] \in Recorded /\ pos[u] = size(seg[u])
      BY <2>1, GivenTypes DEF Shape, Threads, Held
    <2>3. Units(seg[u]) \subseteq disk
      BY <2>1, <2>2, CutGiven DEF OnDisk
    <2>4. Covered(addSegment(done, seg[u])) \subseteq Covered(done) \cup Units(seg[u])
      BY <2>2, addSegmentJoins DEF Shape, DoneApart
    <2>5. Covered(done') \subseteq disk'
      BY <2>1, <2>3, <2>4 DEF OnDisk
    <2>6. phase'[u] = "added" /\ \A v \in Users \ {u} : phase'[v] = phase[v]
      BY <1>1 DEF addFinished, Goto, Shape, Threads
    <2>. QED BY <2>1, <2>5, <2>6, DiskStep
  <1>2. CASE segmentDone(u)
    BY <1>2, ForgetKept DEF segmentDone, fileVars
  <1>3. CASE fileDone(u)
    <2>1. 0..FileSize - 1 \subseteq disk
      BY <1>3, FinishedCovers DEF fileDone, OnDisk
    <2>2. UNCHANGED <<done, disk, seg, pos>>
      BY <1>3 DEF fileDone, itemVars
    <2>3. \A v \in Users : phase'[v] \in {"ended", "failed"} => phase[v] = phase'[v]
      BY <1>3 DEF fileDone, Goto, Shape, Threads
    <2>4. ASSUME NEW v \in Users, phase'[v] \in {"ended", "failed"} PROVE Received(v)' \subseteq disk'
      <3>1. Received(v)' = Received(v)
        BY <2>2 DEF Received
      <3>. QED BY <2>2, <2>3, <2>4, <3>1 DEF OnDisk
    <2>5. Covered(done') \subseteq disk'
      BY <2>2 DEF OnDisk
    <2>. QED BY <2>1, <2>2, <2>4, <2>5 DEF OnDisk
  <1>4. CASE removeQueueItem(u)
    BY <1>4, ForgetKept DEF removeQueueItem, fileVars
  <1>5. CASE dropDownload(u)
    BY <1>5, ForgetKept DEF dropDownload, itemVars, fileVars
  <1>. QED BY <1>1, <1>2, <1>3, <1>4, <1>5 DEF PutFinished

(* Where the flush of an aborted download does not fail.                   *)
LEMMA DiskUnfinished ==
  ASSUME Shape, OnDisk, "aborted" \notin FlushErrors, NEW u \in Users, PutUnfinished(u)
  PROVE  OnDisk'
  <1>1. CASE failDownload(u)
    <2>1. UNCHANGED <<done, moves, seg, pos>> /\ disk' = disk \cup Received(u)
      BY <1>1 DEF failDownload, Flushed, itemVars
    <2>2. \A v \in Users \ {u} : phase'[v] = phase[v]
      BY <1>1 DEF failDownload, Goto, Shape, Threads
    <2>3. Received(u)' = Received(u)
      BY <2>1 DEF Received
    <2>. QED BY <2>1, <2>2, <2>3, DiskStep DEF OnDisk, Covered
  <1>2. CASE endDataFails(u)
    <2>1. UNCHANGED <<done, disk, moves, seg>> /\ pos' = [pos EXCEPT ![u] = 0]
      BY <1>2 DEF endDataFails, itemVars, fileVars
    <2>2. \A v \in Users \ {u} : phase'[v] = phase[v] /\ pos'[v] = pos[v]
      BY <1>2 DEF endDataFails, Goto, Shape, Threads
    <2>3. Received(u)' = {}
      <3>1. pos'[u] = 0 /\ seg'[u] = seg[u]
        BY <2>1 DEF Shape, Threads
      <3>2. seg[u].start \in Int
        BY GivenTypes DEF Shape, Threads, Held
      <3>3. Received(u)' = Units(Segment(seg[u].start, seg[u].start + 0))
        BY <3>1 DEF Received
      <3>. QED BY <3>2, <3>3, UnitsOf
    <2>. QED BY <2>1, <2>2, <2>3, DiskStep DEF OnDisk, Covered
  <1>3. CASE addUnfinished(u)
    <2>1. UNCHANGED <<disk, moves, seg, pos>> /\ phase[u] = "failed"
      BY <1>3 DEF addUnfinished, fileVars
    <2>2. Units(Aligned(u)) \subseteq disk
      BY <2>1, CutGiven DEF OnDisk
    <2>3. Covered(done') \subseteq disk'
      <3>1. CASE size(Aligned(u)) > 0
        <4>1. done' = addSegment(done, Aligned(u))
          BY <1>3, <3>1 DEF addUnfinished
        <4>2. Aligned(u) \in Recorded
          BY <3>1, CutGiven
        <4>3. Covered(addSegment(done, Aligned(u))) \subseteq Covered(done) \cup Units(Aligned(u))
          BY <4>2, addSegmentJoins DEF Shape, DoneApart
        <4>. QED BY <2>1, <2>2, <4>1, <4>3 DEF OnDisk
      <3>2. CASE ~(size(Aligned(u)) > 0)
        BY <1>3, <2>1, <3>2 DEF addUnfinished, OnDisk
      <3>. QED BY <3>1, <3>2
    <2>4. phase'[u] = "put" /\ \A v \in Users \ {u} : phase'[v] = phase[v]
      BY <1>3 DEF addUnfinished, Goto, Shape, Threads
    <2>. QED BY <2>1, <2>3, <2>4, DiskStep
  <1>4. CASE removeDownload(u)
    <2>1. UNCHANGED <<done, disk, moves>>
      BY <1>4 DEF removeDownload, fileVars
    <2>2. CASE u \in overlapper
      BY <1>4, <2>1, <2>2, DiskKept DEF removeDownload, Phases
    <2>3. CASE u \notin overlapper
      BY <1>4, <2>1, <2>3, ForgetKept DEF removeDownload
    <2>. QED BY <2>2, <2>3
  <1>5. CASE unmarkOriginal(u)
    BY <1>5, ForgetKept DEF unmarkOriginal, itemVars, fileVars
  <1>. QED BY <1>1, <1>2, <1>3, <1>4, <1>5 DEF PutUnfinished

LEMMA OnDiskInit == Init => OnDisk
  <1>. SUFFICES ASSUME Init PROVE OnDisk
    OBVIOUS
  <1>1. Covered(done) = {} /\ moves = 0
    BY DEF Init, Covered
  <1>. QED BY <1>1 DEF Init, OnDisk

LEMMA OnDiskStep ==
  ASSUME "aborted" \notin FlushErrors, Shape, OnDisk, [Next]_vars
  PROVE  OnDisk'
  <1>1. ASSUME NEW u \in Users, Thread(u) PROVE OnDisk'
    BY <1>1, DiskGet, DiskTransfer, DiskFinished, DiskUnfinished DEF Thread
  <1>2. CASE UNCHANGED vars
    <2>1. UNCHANGED <<done, disk, moves, phase, seg, pos>>
      BY <1>2 DEF vars, itemVars, fileVars
    <2>2. \A v \in Users : Received(v)' = Received(v)
      BY <2>1 DEF Received
    <2>. QED BY <2>1, <2>2 DEF OnDisk, Covered
  <1>. QED BY <1>1, <1>2 DEF Next

-----------------------------------------------------------------------------

LEMMA ShapeCorrect == Spec => []Shape
  BY ShapeInit, ShapeStep, PTL DEF Spec

(* Every variable keeps its type, whatever the threads do in between one   *)
(* another's steps: in particular no Download ever claims more bytes than  *)
(* the file has, and every segment that QueueItem::getNextSegmentL gives   *)
(* lies in the file.                                                       *)
THEOREM TypeCorrect == Spec => []TypeOK
  BY ShapeCorrect, ShapeTypes, PTL

(* m_done_segment always holds whole blocks that do not touch, and every   *)
(* requested segment starts at a block: QueueItem::addSegmentL, the cut in *)
(* QueueManager::putDownload and QueueItem::getNextSegmentL never leave a  *)
(* part that begins inside a block, for any file and block size.           *)
THEOREM AlignedCorrect == Spec => []SegmentsAligned
  BY ShapeCorrect, ShapeTypes, PTL

(* What m_done_segment says is done is in the temporary file, as long as   *)
(* no flush of an aborted download fails: that failure is swallowed by     *)
(* DownloadManager::removeDownload, and what it lost is recorded.          *)
THEOREM DiskCorrect ==
  ASSUME "aborted" \notin FlushErrors
  PROVE  Spec => []DoneOnDisk
  <1>1. Init => OnDisk
    BY OnDiskInit
  <1>2. Shape /\ OnDisk /\ [Next]_vars => OnDisk'
    BY OnDiskStep
  <1>3. OnDisk => DoneOnDisk
    BY DEF OnDisk, DoneOnDisk
  <1>. QED BY <1>1, <1>2, <1>3, ShapeCorrect, PTL DEF Spec

(* Under the same condition a file that was moved to its target is whole:  *)
(* isFinished is true only when every unit was written.                    *)
THEOREM MovedCorrect ==
  ASSUME "aborted" \notin FlushErrors
  PROVE  Spec => []MovedComplete
  <1>1. Init => OnDisk
    BY OnDiskInit
  <1>2. Shape /\ OnDisk /\ [Next]_vars => OnDisk'
    BY OnDiskStep
  <1>3. OnDisk => MovedComplete
    BY DEF OnDisk, MovedComplete
  <1>. QED BY <1>1, <1>2, <1>3, ShapeCorrect, PTL DEF Spec

-----------------------------------------------------------------------------
(* What is done shrinks only where a segment lies inside another.          *)

LEMMA ShrinkStep ==
  ASSUME Shape, NEW u \in Users, Thread(u)
  PROVE  \/ Covered(done) \subseteq Covered(done')
         \/ \E t \in done :
              /\ phase[u] \in {"ended", "failed"} /\ phase'[u] \in {"added", "put"}
              /\ Inside(AddedSegment(u), t) \/ Inside(t, AddedSegment(u))
  <1>1. CASE addFinished(u)
    <2>1. done' = addSegment(done, seg[u]) /\ phase[u] = "ended" /\ phase'[u] = "added"
      BY <1>1 DEF addFinished, Goto, Shape, Threads
    <2>2. seg[u] \in Recorded /\ AddedSegment(u) = seg[u]
      BY <2>1, GivenTypes DEF Shape, Threads, Held, AddedSegment
    <2>. QED BY <2>1, <2>2, addSegmentJoins DEF Shape, DoneApart
  <1>2. CASE addUnfinished(u)
    <2>1. phase[u] = "failed" /\ phase'[u] = "put" /\ AddedSegment(u) = Aligned(u)
      BY <1>2 DEF addUnfinished, Goto, Shape, Threads, AddedSegment
    <2>2. CASE size(Aligned(u)) > 0
      <3>1. done' = addSegment(done, Aligned(u)) /\ Aligned(u) \in Recorded
        BY <1>2, <2>2, CutGiven DEF addUnfinished
      <3>. QED BY <2>1, <3>1, addSegmentJoins DEF Shape, DoneApart
    <2>3. CASE ~(size(Aligned(u)) > 0)
      BY <1>2, <2>3 DEF addUnfinished
    <2>. QED BY <2>2, <2>3
  <1>3. CASE ~addFinished(u) /\ ~addUnfinished(u)
    <2>1. done' = done
      BY <1>3, Zenon
      DEF Thread, GetDownload, Transfer, PutFinished, PutUnfinished, Ask, ChooseSegment, ChooseOverlap,
          markOriginal, Relock, addDownload, startData, startOverlap, Start, fireData, endData,
          segmentDone, fileDone, removeQueueItem, dropDownload, failDownload, endDataFails,
          removeDownload, unmarkOriginal, itemVars
    <2>. QED BY <2>1
  <1>. QED BY <1>1, <1>2, <1>3

(* What m_done_segment covers gets less only where the segment added and   *)
(* one that is there lie one strictly inside the other: in every other     *)
(* order of parts, overlaps and cuts QueueItem::addSegmentL loses nothing. *)
THEOREM ShrinksCorrect == Spec => ShrinksOnlyInside
  <1>. DEFINE Shrinks == \/ Covered(done) \subseteq Covered(done')
                         \/ \E u \in Users : \E t \in done :
                              LET s == AddedSegment(u) IN
                              /\ phase[u] \in {"ended", "failed"} /\ phase'[u] \in {"added", "put"}
                              /\ Inside(s, t) \/ Inside(t, s)
  <1>1. Shape /\ [Next]_vars => [Shrinks]_vars
    <2>. SUFFICES ASSUME Shape, NEW u \in Users, Thread(u) PROVE Shrinks
      BY DEF Next
    <2>. QED BY ShrinkStep
  <1>2. Spec => [][Shrinks]_vars
    BY <1>1, ShapeCorrect, PTL DEF Spec
  <1>. QED BY <1>2 DEF ShrinksOnlyInside

-----------------------------------------------------------------------------
(* What is chosen is free.                                                 *)

(* A part getNextSegmentL finds free has nothing of it done: of a part of  *)
(* one block, which may be done in part, that follows from the boundaries. *)
LEMMA FreeUndone ==
  ASSUME DoneApart, NEW a \in Multiples, NEW n \in Nat, n % BlockSize = 0, Free(a, n)
  PROVE  Units(Part(a, n)) \cap Covered(done) = {}
  <1>. DEFINE e == Min({FileSize, a + n})
  <1>1. a \in Nat /\ a <= FileSize /\ a % BlockSize = 0 /\ FileSize \in Nat /\ BlockSize \in Nat
    BY SizesAssumption DEF Multiples
  <1>2. e \in Nat /\ e <= FileSize /\ e <= a + n /\ (e = FileSize \/ e = a + n)
    BY <1>1, MinOfTwo
  <1>3. Part(a, n) = Segment(a, e) /\ Part(a, n).start = a /\ Part(a, n).end = e
    BY DEF Part, Segment
  <1>. HIDE DEF e
  <1>4. ASSUME NEW s \in done PROVE ~(a < s.end /\ s.start < e)
    <2>1. s.start \in Nat /\ s.end \in Nat /\ s.end <= FileSize /\ s.start % BlockSize = 0
          /\ (s.end = FileSize \/ s.end % BlockSize = 0)
      BY RecordedTypes DEF DoneApart, Recorded, Given, OnBoundary
    <2>2. CASE n <= BlockSize
      <3>. SUFFICES ASSUME a < s.end, s.start < e PROVE FALSE
        OBVIOUS
      <3>1. ~(s.start <= a /\ s.end >= e)
        BY <1>3, <2>2 DEF Free
      <3>2. s.start <= a
        <4>1. s.start < a + BlockSize
          BY <1>1, <1>2, <2>1, <2>2
        <4>. QED BY <1>1, <2>1, <4>1, BoundaryBefore
      <3>3. s.end < e /\ s.end % BlockSize = 0
        BY <1>2, <2>1, <3>1, <3>2
      <3>4. s.end < a + BlockSize
        BY <1>1, <1>2, <2>1, <2>2, <3>3
      <3>5. s.end <= a
        BY <1>1, <2>1, <3>3, <3>4, BoundaryBefore
      <3>. QED BY <1>1, <2>1, <3>5
    <2>3. CASE ~(n <= BlockSize)
      BY <1>3, <2>3 DEF Free, overlaps
    <2>. QED BY <2>2, <2>3
  <1>5. Units(Part(a, n)) = {k \in Int : a <= k /\ k < e}
    BY <1>1, <1>2, <1>3, UnitsOf
  <1>6. \A s \in done : Units(s) = {k \in Int : s.start <= k /\ k < s.end}
    <2>1. \A s \in done : s = Segment(s.start, s.end) /\ s.start \in Int /\ s.end \in Int
      BY RecordedTypes DEF DoneApart
    <2>. QED BY <2>1, UnitsOf
  <1>7. \A s \in done : s.start \in Int /\ s.end \in Int
    BY RecordedTypes DEF DoneApart
  <1>8. \A s \in done : Units(Part(a, n)) \cap Units(s) = {}
    BY <1>1, <1>2, <1>4, <1>5, <1>6, <1>7
  <1>. QED BY <1>8 DEF Covered

LEMMA EmptyFree ==
  ASSUME Shape, NEW s \in {Nothing, Refused}
  PROVE  Units(s) = {} /\ \A v \in Registered : ~overlaps(s, seg[v])
  <1>1. Units(s) = {}
    BY UnitsOf DEF Nothing, Refused
  <1>2. \A v \in Registered : /\ seg[v].start \in Int /\ seg[v].end \in Int /\ seg[v].start >= -1
                             /\ (seg[v].start >= 0 \/ seg[v].end <= 0)
    <2>. TAKE v \in Registered
    <2>1. seg[v] \in Given \cup {Refused}
      BY DEF Registered, ToSet, Shape, Threads, Rest, Held
    <2>. QED BY <2>1, SizesAssumption DEF Given, Refused, Segments, Segment
  <1>3. s.start = s.end /\ s.start \in {0, -1}
    BY DEF Nothing, Refused, Segment
  <1>4. \A v \in Registered : ~overlaps(s, seg[v])
    BY <1>2, <1>3 DEF overlaps
  <1>. QED BY <1>1, <1>4

LEMMA NextIsFree ==
  ASSUME Shape, NEW s \in NextSegments
  PROVE  /\ \A v \in Registered : ~overlaps(s, seg[v])
         /\ Units(s) \cap Covered(done) = {}
  <1>1. CASE s \in {Nothing, Refused}
    BY <1>1, EmptyFree
  <1>2. CASE s \in NextShared \ {Nothing, Refused}
    <2>1. FreeStarts # {} /\ \E w \in WantedSizes : s = NextFree(w)
      BY <1>2 DEF NextShared
    <2>2. PICK a \in Multiples, n \in Nat : n % BlockSize = 0 /\ Free(a, n) /\ s = Part(a, n)
      BY <2>1, NextFreeFree
    <2>3. \A v \in Registered : ~overlaps(s, seg[v])
      BY <2>2 DEF Free
    <2>. QED BY <2>2, <2>3, FreeUndone DEF Shape
  <1>3. CASE s \in NextSingle \ {Nothing, Refused}
    <2>1. Registered = {}
      <3>1. downloads = <<>>
        BY <1>3 DEF NextSingle
      <3>. QED BY <3>1 DEF Registered, ToSet
    <2>2. CASE done = {}
      BY <2>1, <2>2 DEF Covered
    <2>3. CASE done # {}
      <3>. DEFINE f == FirstDone.start
                  e == Min({FileSize, RoundUp(f)})
      <3>1. s = Segment(0, e)
        BY <1>3, <2>3 DEF NextSingle
      <3>2. FirstDone \in done /\ \A t \in done : f <= t.start
        BY <2>3, FirstDoneIn DEF Shape, DoneApart
      <3>3. f \in Nat /\ f % BlockSize = 0
        BY <3>2, RecordedTypes DEF Shape, DoneApart, Recorded, Given
      <3>. HIDE DEF f
      <3>4. RoundUp(f) \in Nat /\ RoundUp(f) <= f
        BY <3>3, RoundedUp, BoundaryBefore
      <3>5. e \in Nat /\ e <= f
        BY <3>3, <3>4, MinOfTwo, SizesAssumption
      <3>. HIDE DEF e
      <3>6. Units(s) = {k \in Int : 0 <= k /\ k < e}
        BY <3>1, <3>5, UnitsOf
      <3>7. \A t \in done : t.start \in Int /\ Units(t) = {k \in Int : t.start <= k /\ k < t.end}
        <4>1. \A t \in done : t = Segment(t.start, t.end) /\ t.start \in Int /\ t.end \in Int
          BY RecordedTypes DEF Shape, DoneApart
        <4>. QED BY <4>1, UnitsOf
      <3>8. \A t \in done : Units(s) \cap Units(t) = {}
        BY <3>2, <3>3, <3>5, <3>6, <3>7
      <3>. QED BY <2>1, <3>8 DEF Covered
    <2>. QED BY <2>2, <2>3
  <1>. QED BY <1>1, <1>2, <1>3 DEF NextSegments

(* What a connection is given, unless it overlaps another's chunk, is free *)
(* when QueueItem::getNextSegmentL chooses it: no listed download loads    *)
(* any of it and none of it was recorded, though parts of one block may be *)
(* done in part.  Two connections share a part only if the second chose    *)
(* between the choice of the first and its entry in m_downloads.           *)
THEOREM ChosenCorrect == Spec => ChosenFree
  <1>. DEFINE Chooses == \A u \in Users : phase[u] = "granted" /\ phase'[u] = "chosen" =>
                           /\ \A v \in Registered : ~overlaps(seg'[u], seg[v])
                           /\ Units(seg'[u]) \cap Covered(done) = {}
  <1>1. Shape /\ [Next]_vars => [Chooses]_vars
    <2>. SUFFICES ASSUME Shape, NEW w \in Users, Thread(w),
                         NEW u \in Users, phase[u] = "granted", phase'[u] = "chosen"
                  PROVE  /\ \A v \in Registered : ~overlaps(seg'[u], seg[v])
                         /\ Units(seg'[u]) \cap Covered(done) = {}
      BY DEF Next
    <2>1. \E s \in NextSegments : seg'[u] = s
      <3>1. ChooseSegment(w) \/ phase' = phase \/ \E p \in Phases \ {"chosen"} : Goto(w, p)
            \/ markOriginal(w)
        BY DEF Thread, GetDownload, Transfer, PutFinished, PutUnfinished, Ask, ChooseOverlap,
               Relock, addDownload, startData, startOverlap, Start, fireData, endData, addFinished,
               segmentDone, fileDone, removeQueueItem, dropDownload, failDownload, endDataFails,
               addUnfinished, removeDownload, unmarkOriginal, Phases
      <3>2. ChooseSegment(w) /\ u = w
        BY <3>1 DEF ChooseSegment, markOriginal, Goto, Shape, Threads
      <3>. QED BY <3>2 DEF ChooseSegment, Shape, Threads
    <2>. QED BY <2>1, NextIsFree
  <1>2. Spec => [][Chooses]_vars
    BY <1>1, ShapeCorrect, PTL DEF Spec
  <1>. QED BY <1>2 DEF ChosenFree

-----------------------------------------------------------------------------
(* QueueItem implements FileLife: endData and failDownload write,          *)
(* addFinished and addUnfinished record, fileDone moves, removeQueueItem   *)
(* takes the file out of the queue, the others stutter.                    *)

(* removeQueueItem follows the move of the same thread.                    *)
LeavesMoved == \A u \in Users : phase[u] = "leaving" => moves > 0

LEMMA LeavesStep ==
  ASSUME Shape, LeavesMoved, [Next]_vars
  PROVE  LeavesMoved'
  <1>1. ASSUME NEW u \in Users, Thread(u) PROVE LeavesMoved'
    <2>1. CASE fileDone(u)
      BY <2>1 DEF fileDone, LeavesMoved, Shape, Rest
    <2>2. CASE ~fileDone(u)
      <3>1. UNCHANGED moves
        BY <1>1, <2>2, Zenon
        DEF Thread, GetDownload, Transfer, PutFinished, PutUnfinished, Ask, ChooseSegment, ChooseOverlap,
            markOriginal, Relock, addDownload, startData, startOverlap, Start, fireData, endData,
            addFinished, segmentDone, removeQueueItem, dropDownload, failDownload, endDataFails,
            addUnfinished, removeDownload, unmarkOriginal, fileVars
      <3>2. phase' = phase \/ \E p \in Phases \ {"leaving"} : Goto(u, p)
        BY <1>1, <2>2
        DEF Thread, GetDownload, Transfer, PutFinished, PutUnfinished, Ask, ChooseSegment, ChooseOverlap,
            markOriginal, Relock, addDownload, startData, startOverlap, Start, fireData, endData,
            addFinished, segmentDone, removeQueueItem, dropDownload, failDownload, endDataFails,
            addUnfinished, removeDownload, unmarkOriginal, Phases
      <3>. QED BY <3>1, <3>2 DEF Goto, LeavesMoved, Shape, Threads
    <2>. QED BY <2>1, <2>2
  <1>2. CASE UNCHANGED vars
    BY <1>2 DEF vars, fileVars, LeavesMoved
  <1>. QED BY <1>1, <1>2 DEF Next

LEMMA QuietFile ==
  ASSUME UNCHANGED <<disk, done, moves, status>>
  PROVE  UNCHANGED File!vars
  BY DEF File!vars, Covered

LEMMA ThreadImplements ==
  ASSUME Shape, Shape', OnDisk, OnDisk', LeavesMoved, "aborted" \notin FlushErrors,
         NEW u \in Users, Thread(u)
  PROVE  [File!Next]_(File!vars)
  <1>1. CASE endData(u) \/ failDownload(u)
    <2>1. UNCHANGED <<done, moves, status>> /\ disk' = disk \cup Received(u)
      BY <1>1 DEF endData, failDownload, Flushed, itemVars
    <2>2. disk' \subseteq 0..FileSize - 1
      BY DEF Shape, Rest
    <2>3. File!Write
      BY <2>1, <2>2 DEF File!Write, Covered
    <2>. QED BY <2>3 DEF File!Next
  <1>2. CASE addFinished(u) \/ addUnfinished(u)
    <2>1. UNCHANGED <<disk, moves, status>>
      BY <1>2 DEF addFinished, addUnfinished, fileVars
    <2>2. Covered(done)' \subseteq disk
      BY <2>1 DEF OnDisk
    <2>3. File!Record
      BY <2>1, <2>2 DEF File!Record
    <2>. QED BY <2>3 DEF File!Next
  <1>3. CASE fileDone(u)
    <2>1. UNCHANGED <<disk, done, status>> /\ moves' = moves + 1 /\ Covered(done) = 0..FileSize - 1
      BY <1>3, FinishedCovers DEF fileDone, itemVars
    <2>2. moves' > 0
      BY <2>1 DEF Shape, Rest
    <2>3. File!Move
      BY <2>1, <2>2 DEF File!Move, Covered
    <2>. QED BY <2>3 DEF File!Next
  <1>4. CASE removeQueueItem(u)
    <2>1. UNCHANGED <<disk, done, moves>> /\ status' # "queued" /\ moves > 0
      BY <1>4 DEF removeQueueItem, fileVars, LeavesMoved
    <2>2. File!Leave
      BY <2>1 DEF File!Leave, Covered
    <2>. QED BY <2>2 DEF File!Next
  <1>5. CASE ~(endData(u) \/ failDownload(u) \/ addFinished(u) \/ addUnfinished(u)
               \/ fileDone(u) \/ removeQueueItem(u))
    <2>1. UNCHANGED <<disk, done, moves, status>>
      BY <1>5
      DEF Thread, GetDownload, Transfer, PutFinished, PutUnfinished, Ask, ChooseSegment, ChooseOverlap,
          markOriginal, Relock, addDownload, startData, startOverlap, Start, fireData,
          segmentDone, dropDownload, endDataFails, removeDownload, unmarkOriginal, itemVars, fileVars
    <2>. QED BY <2>1, QuietFile
  <1>. QED BY <1>1, <1>2, <1>3, <1>4, <1>5

(* What a QueueItem promises of its file, for any number of connections    *)
(* and any sizes, where no flush of an aborted download fails: what is     *)
(* recorded was written, the file is moved when all of it is recorded, and *)
(* it leaves the queue after it was moved.                                 *)
THEOREM FileImplemented ==
  ASSUME "aborted" \notin FlushErrors
  PROVE  Spec => FileSpec
  <1>1. Init => OnDisk /\ LeavesMoved /\ File!Init
    <2>. SUFFICES ASSUME Init PROVE LeavesMoved /\ File!Init
      BY OnDiskInit
    <2>. QED BY DEF Init, LeavesMoved, File!Init, Covered
  <1>2. Shape /\ OnDisk /\ [Next]_vars => OnDisk'
    BY OnDiskStep
  <1>3. Shape /\ LeavesMoved /\ [Next]_vars => LeavesMoved'
    BY LeavesStep
  <1>4. Shape /\ Shape' /\ OnDisk /\ OnDisk' /\ LeavesMoved /\ [Next]_vars => [File!Next]_(File!vars)
    <2>. SUFFICES ASSUME Shape, Shape', OnDisk, OnDisk', LeavesMoved, [Next]_vars
                  PROVE  [File!Next]_(File!vars)
      OBVIOUS
    <2>1. CASE UNCHANGED vars
      BY <2>1, QuietFile DEF vars, itemVars, fileVars
    <2>. QED BY <2>1, ThreadImplements DEF Next
  <1>. QED BY <1>1, <1>2, <1>3, <1>4, ShapeCorrect, PTL DEF Spec, FileSpec, File!Spec
=============================================================================
