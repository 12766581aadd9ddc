------------------------------ MODULE QueueItem ------------------------------
(***************************************************************************)
(* One QueueItem, a file downloaded in segments from several users at      *)
(* once. Each user's connection has its own thread, which goes through     *)
(*   ask      QueueManager::getDownload under QueueItem::g_cs (getNextL),  *)
(*   choose   the constructor of Download, with getNextSegmentL,           *)
(*   register UserQueue::addDownload,                                      *)
(*   run      DownloadManager::startData, fireData and endData,            *)
(*   put      QueueManager::putDownload, finished or not.                  *)
(* Each of those takes its own lock (g_cs, m_fcs_download, m_fcs_segment)  *)
(* and none spans two of them, so they interleave between the threads.     *)
(* The file is counted in units of which BlockSize make a tree block.      *)
(***************************************************************************)
EXTENDS Integers, Sequences, FiniteSets, SequencesExt

CONSTANTS Users,        \* sources of the file, each with one connection
          FileSize,     \* getSize()
          BlockSize,    \* block size of the file's hash tree
          MaxSegments,  \* getMaxSegments()
          Faster,       \* pairs <<u, v>>: u was twice as fast as v is now
          MultiChunk,   \* the values considered of setting ENABLE_MULTI_CHUNK
          FlushErrors,  \* flushes that may fail: "complete", "aborted"
          MaxFails      \* bound: transfers that fail on their own

ASSUME SizesAssumption ==
  /\ FileSize \in Nat \ {0} /\ BlockSize \in Nat \ {0} /\ MaxSegments \in Nat
  /\ MultiChunk \subseteq BOOLEAN /\ MaxFails \in Nat
  /\ FlushErrors \subseteq {"complete", "aborted"} /\ Faster \subseteq Users \X Users

VARIABLES
  multiChunk, \* setting ENABLE_MULTI_CHUNK, the same throughout
  done,       \* m_done_segment
  downloads,  \* m_downloads, by user
  status,     \* "queued", then finished and "kept" in the list or "removed"
  disk,       \* units of the temporary file that were written
  moves,      \* times the file was moved to its target
  phase,      \* control point of each user's connection thread
  seg,        \* the segment of each user's Download
  pos,        \* its getPos()
  started,    \* users whose Download has its start time set
  overlapped, \* users whose Download has a segment with the overlapped flag
  overlapper, \* users whose Download has FLAG_OVERLAP
  killed,     \* users whose connection was told to disconnect
  fails       \* failures so far, for the bound MaxFails

itemVars == <<multiChunk, done, downloads, status>>
fileVars == <<disk, moves>>
flagVars == <<started, overlapped, overlapper, killed>>
vars == <<itemVars, fileVars, phase, seg, pos, flagVars, fails>>

-----------------------------------------------------------------------------
(* Segments: [start, end) *)

Segment(s, e) == [start |-> s, end |-> e]
Nothing == Segment(0, 0)
Refused == Segment(-1, -1)

size(s) == s.end - s.start
overlaps(s, t) == s.start < t.end /\ t.start < s.end
contains(s, t) == s.start <= t.start /\ s.end = t.end

Units(s) == s.start .. s.end - 1
Covered(S) == UNION {Units(s) : s \in S}

\* s lies inside t and touches neither of its ends.
Inside(s, t) == t.start < s.start /\ s.end < t.end

Segments == [start : -1..FileSize, end : -1..FileSize]

Phases == {"idle", "granted", "marking", "chosen", "relock", "requested",
           "running", "ended", "added", "leaving", "failed", "put", "unmarking"}

Statuses == {"queued", "kept", "removed"}

TypeOK ==
  /\ multiChunk \in MultiChunk
  /\ done \subseteq Segments
  /\ downloads \in Seq(Users)
  /\ status \in Statuses
  /\ disk \subseteq 0..FileSize - 1
  /\ moves \in Nat
  /\ phase \in [Users -> Phases]
  /\ seg \in [Users -> Segments]
  /\ pos \in [Users -> 0..FileSize]
  /\ UNION {started, overlapped, overlapper, killed} \subseteq Users
  /\ fails \in 0..MaxFails

Init ==
  /\ multiChunk \in MultiChunk
  /\ done = {}
  /\ downloads = <<>>
  /\ status = "queued"
  /\ disk = {}
  /\ moves = 0
  /\ phase = [u \in Users |-> "idle"]
  /\ seg = [u \in Users |-> Nothing]
  /\ pos = [u \in Users |-> 0]
  /\ started = {} /\ overlapped = {} /\ overlapper = {} /\ killed = {}
  /\ fails = 0

Registered == ToSet(downloads)

\* The first of the users in the order of m_downloads.
FirstOf(users) ==
  downloads[Min({i \in DOMAIN downloads : downloads[i] \in users})]

\* What QueueItem::setOverlapped finds: the first download that contains s.
Original(s) ==
  LET hits == {v \in Registered : contains(seg[v], s)}
  IN  IF hits = {} THEN {} ELSE {FirstOf(hits)}

-----------------------------------------------------------------------------
(* addSegment: insert in the sorted set, then join neighbours *)

Before(s, t) == s.start < t.start \/ (s.start = t.start /\ s.end < t.end)

\* The last segment in that order, as a reverse iterator finds it.
Latest(S) == CHOOSE s \in S : \A t \in S \ {s} : Before(t, s)

Join(s, joined) ==
  IF joined # {} /\ Latest(joined).end >= s.start
  THEN (joined \ {Latest(joined)}) \cup {Segment(Latest(joined).start, s.end)}
  ELSE joined \cup {s}

addSegment(S, s) ==
  MapThenFoldSet(Join, {}, LAMBDA t : t, Latest, S \cup {s})

\* Mutant of isFinished: only the end of the last segment is looked at.
isFinishedAtEnd == \E s \in done : done = {s} /\ s.end = FileSize

isFinished == \E s \in done : done = {s} /\ s = Segment(0, FileSize)

-----------------------------------------------------------------------------
(* getNextSegmentL *)

\* The part of length n at start, cut at the end of the file.
Part(start, n) == Segment(start, Min({FileSize, start + n}))

\* A part of one block is taken even when some of it is done.
Free(start, n) ==
  LET p == Part(start, n) IN
  /\ \A s \in done : IF n <= BlockSize
                     THEN ~(s.start <= p.start /\ s.end >= p.end)
                     ELSE ~overlaps(p, s)
  /\ \A v \in Registered : ~overlaps(p, seg[v])

Multiples == {k \in 0..FileSize : k % BlockSize = 0}
\* Mutant of FreeStarts: a last block that is not whole is left out.
FreeWholeStarts == {b \in Multiples : b + BlockSize <= FileSize /\ Free(b, BlockSize)}

FreeStarts == {b \in Multiples : b < FileSize /\ Free(b, BlockSize)}

\* The first free block, widened as far as the wanted size and the rest allow.
NextFree(wanted) ==
  LET start == Min(FreeStarts)
      n == Max({k \in Multiples \cup {BlockSize} :
                  0 < k /\ k <= wanted /\ Free(start, k)})
  IN  Part(start, n)

\* What the size wanted by the connection and the part done come to.
WantedSizes == (Multiples \ {0}) \cup {BlockSize}

\* Running chunks that are not overlapped and would take u less than half the
\* time: when a chunk is slow is left open, but not with nothing left of it.
Slow(u) ==
  {v \in Registered : /\ <<u, v>> \in Faster
                      /\ v \in started \ overlapped
                      /\ pos[v] < size(seg[v])}

OverlapOf(v) ==
  Segment(seg[v].start + pos[v] - (pos[v] % BlockSize), seg[v].end)

\* The results with MULTI_CHUNK; the wanted size and speeds vary.
NextShared ==
  IF Len(downloads) >= MaxSegments THEN {Refused}
  ELSE IF FreeStarts # {} THEN {NextFree(w) : w \in WantedSizes}
  ELSE {Nothing}

RoundUp(n) == ((n + BlockSize - 1) \div BlockSize) * BlockSize

FirstDone == CHOOSE s \in done : \A t \in done : t = s \/ Before(s, t)

\* Without MULTI_CHUNK a second CFlyFastLock(m_fcs_segment) is taken when the
\* head of the file is done.
Relocks == ~multiChunk /\ downloads = <<>> /\ done # {} /\ FirstDone.start <= 0

NextSingle ==
  IF downloads # <<>> THEN {Refused}
  ELSE IF done = {} THEN {Segment(0, FileSize)}
  ELSE {Segment(0, Min({FileSize, RoundUp(FirstDone.start)}))}

NextSegments == IF multiChunk THEN NextShared ELSE NextSingle

CanOverlap(u) == multiChunk /\ NextShared = {Nothing} /\ Slow(u) # {}

\* A thread that waits for itself keeps m_fcs_segment for ever.
SegmentLockFree == \A v \in Users : phase[v] # "relock"

-----------------------------------------------------------------------------
(* getDownload, and the constructor of Download *)

Goto(u, p) == phase' = [phase EXCEPT ![u] = p]

\* getNextL: an item nobody downloads is given without a look at its segments.
Ask(u) ==
  /\ phase[u] = "idle" /\ status = "queued" /\ SegmentLockFree
  /\ \/ downloads = <<>>
     \/ CanOverlap(u)
     \/ \E s \in NextSegments : size(s) # 0
  /\ Goto(u, "granted")
  /\ UNCHANGED <<itemVars, fileVars, seg, pos, flagVars, fails>>

ChooseSegment(u) ==
  /\ phase[u] = "granted" /\ SegmentLockFree /\ ~Relocks
  /\ \E s \in NextSegments : seg' = [seg EXCEPT ![u] = s]
  /\ Goto(u, "chosen")
  /\ UNCHANGED <<itemVars, fileVars, pos, flagVars, fails>>

\* A slow chunk is overlapped at its last block boundary; then it is marked, so
\* that nobody else overlaps it.
ChooseOverlap(u) ==
  /\ phase[u] = "granted" /\ CanOverlap(u) /\ SegmentLockFree
  /\ \E v \in Slow(u) : seg' = [seg EXCEPT ![u] = OverlapOf(v)]
  /\ overlapped' = overlapped \cup {u}
  /\ overlapper' = overlapper \cup {u}
  /\ Goto(u, "marking")
  /\ UNCHANGED <<itemVars, fileVars, pos, started, killed, fails>>

markOriginal(u) ==
  /\ phase[u] = "marking"
  /\ overlapped' = overlapped \cup Original(seg[u])
  /\ Goto(u, "chosen")
  /\ UNCHANGED <<itemVars, fileVars, seg, pos, started, overlapper, killed, fails>>

Relock(u) ==
  /\ phase[u] = "granted" /\ SegmentLockFree /\ Relocks
  /\ Goto(u, "relock")
  /\ UNCHANGED <<itemVars, fileVars, seg, pos, flagVars, fails>>

addDownload(u) ==
  /\ phase[u] = "chosen"
  /\ downloads' = Append(downloads, u)
  /\ Goto(u, "requested")
  /\ UNCHANGED <<multiChunk, done, status, fileVars, seg, pos, flagVars, fails>>

-----------------------------------------------------------------------------
(* startData, fireData, endData *)

\* disconectedSlow: the first chunk of another user with the same end.
Originals(u) == {v \in Registered \ {u} : contains(seg[v], seg[u])}

\* The peer answers: a request of no bytes is refused by it, a removed or moved
\* file by setFile.
Start(u) ==
  /\ phase[u] = "requested" /\ u \notin killed
  /\ size(seg[u]) > 0 /\ status # "removed" /\ moves = 0
  /\ started' = started \cup {u}
  /\ Goto(u, "running")
  /\ UNCHANGED <<itemVars, fileVars, seg, pos, overlapper, fails>>

startData(u) ==
  /\ Start(u)
  /\ u \notin overlapped
  /\ UNCHANGED <<overlapped, killed>>

startOverlap(u) ==
  /\ Start(u)
  /\ u \in overlapped /\ Originals(u) # {}
  /\ LET v == FirstOf(Originals(u)) IN
       /\ pos[v] < size(seg[v])
       /\ killed' = killed \cup {v}
  /\ overlapped' = overlapped \ {u}

\* Mutant of fireData: more bytes are taken than were asked for.
fireDataUnlimited(u) ==
  /\ phase[u] = "running" /\ u \notin killed
  /\ pos' = [pos EXCEPT ![u] = @ + 1]
  /\ UNCHANGED <<itemVars, fileVars, phase, seg, flagVars, fails>>

\* The callback that receives the last unit goes on to endData.
fireData(u) ==
  /\ phase[u] = "running" /\ u \notin killed /\ pos[u] < size(seg[u])
  /\ pos' = [pos EXCEPT ![u] = @ + 1]
  /\ UNCHANGED <<itemVars, fileVars, phase, seg, flagVars, fails>>

\* The bytes a Download has received, written when its buffers are flushed.
Received(u) == Units(Segment(seg[u].start, seg[u].start + pos[u]))

endData(u) ==
  /\ phase[u] = "running" /\ pos[u] = size(seg[u])
  /\ disk' = disk \cup Received(u)
  /\ Goto(u, "ended")
  /\ UNCHANGED <<itemVars, moves, seg, pos, flagVars, fails>>

-----------------------------------------------------------------------------
(* putDownload of a finished segment *)

\* The Download goes; the chunks in unmarked lose their overlapped flag.
Forget(u, unmarked) ==
  /\ pos' = [pos EXCEPT ![u] = 0]
  /\ seg' = [seg EXCEPT ![u] = Nothing]
  /\ started' = started \ {u}
  /\ overlapped' = overlapped \ ({u} \cup unmarked)
  /\ overlapper' = overlapper \ {u}
  /\ killed' = killed \ {u}

addFinished(u) ==
  /\ phase[u] = "ended" /\ status # "removed" /\ SegmentLockFree
  /\ done' = addSegment(done, seg[u])
  /\ overlapped' = overlapped \ {u}
  /\ Goto(u, "added")
  /\ UNCHANGED <<multiChunk, downloads, status, fileVars, seg, pos, started, overlapper, killed, fails>>

\* The file is not finished: removeDownload, and the connection asks again.
segmentDone(u) ==
  /\ phase[u] = "added" /\ ~isFinished
  /\ downloads' = RemoveFirst(downloads, u)
  /\ Forget(u, {})
  /\ Goto(u, "idle")
  /\ UNCHANGED <<multiChunk, done, status, fileVars, fails>>

\* disconectedAllPosible and moveFile, for whoever sees the file finished.
fileDone(u) ==
  /\ phase[u] = "added" /\ isFinished
  /\ killed' = killed \cup (Registered \ {u})
  /\ moves' = moves + 1
  /\ Goto(u, "leaving")
  /\ UNCHANGED <<itemVars, disk, seg, pos, started, overlapped, overlapper, fails>>

\* removeQueueItem takes every source's download out; then the queue drops the
\* item, unless the setting KEEP_FINISHED_FILES_OPTION is on.
removeQueueItem(u) ==
  /\ phase[u] = "leaving"
  /\ downloads' = <<>>
  /\ status' \in {"kept", "removed"}
  /\ Forget(u, {})
  /\ Goto(u, "idle")
  /\ UNCHANGED <<multiChunk, done, fileVars, fails>>

-----------------------------------------------------------------------------
(* failDownload and putDownload of an unfinished one *)

\* Mutants of Aligned: the last block is rounded up, or not at all.
AlignedUp(u) == Segment(seg[u].start, Min({seg[u].end, seg[u].start + RoundUp(pos[u])}))
Unaligned(u) == Segment(seg[u].start, seg[u].start + pos[u])

\* The segment up to the last block that was received whole.
Aligned(u) == Segment(seg[u].start, seg[u].start + pos[u] - (pos[u] % BlockSize))

Active == {"requested", "running"}

\* removeDownload flushes the buffers and swallows what goes wrong there.
Flushed(u) ==
  \/ disk' = disk \cup Received(u)
  \/ "aborted" \in FlushErrors /\ pos[u] > 0 /\ disk' = disk

\* The connection breaks, the peer refuses, or setFile throws.
MayFail(u) ==
  \/ u \in killed /\ UNCHANGED fails
  \/ size(seg[u]) <= 0 /\ UNCHANGED fails
  \/ phase[u] = "requested" /\ (status = "removed" \/ moves > 0) /\ UNCHANGED fails
  \/ phase[u] = "requested" /\ u \in overlapped /\ UNCHANGED fails
  \/ fails < MaxFails /\ fails' = fails + 1

failDownload(u) ==
  /\ phase[u] \in Active
  /\ phase[u] = "running" => pos[u] < size(seg[u])
  /\ MayFail(u)
  /\ Flushed(u)
  /\ Goto(u, "failed")
  /\ UNCHANGED <<itemVars, moves, seg, pos, flagVars>>

\* endData handles an error of its flush: resetPos, then failDownload.
endDataFails(u) ==
  /\ "complete" \in FlushErrors /\ fails < MaxFails
  /\ phase[u] = "running" /\ pos[u] = size(seg[u])
  /\ fails' = fails + 1
  /\ pos' = [pos EXCEPT ![u] = 0]
  /\ Goto(u, "failed")
  /\ UNCHANGED <<itemVars, fileVars, seg, flagVars>>

addUnfinished(u) ==
  /\ phase[u] = "failed" /\ status # "removed"
  /\ IF size(Aligned(u)) > 0
     THEN SegmentLockFree /\ done' = addSegment(done, Aligned(u))
     ELSE UNCHANGED done
  /\ Goto(u, "put")
  /\ UNCHANGED <<multiChunk, downloads, status, fileVars, seg, pos, flagVars, fails>>

\* Mutant of removeDownload: the download stays listed.
removeNothing(u) ==
  /\ phase[u] = "put"
  /\ IF u \in overlapper
     THEN Goto(u, "unmarking") /\ UNCHANGED <<seg, pos, flagVars>>
     ELSE Goto(u, "idle") /\ Forget(u, {})
  /\ UNCHANGED <<itemVars, fileVars, fails>>

removeDownload(u) ==
  /\ phase[u] = "put"
  /\ downloads' = RemoveFirst(downloads, u)
  /\ IF u \in overlapper
     THEN Goto(u, "unmarking") /\ UNCHANGED <<seg, pos, flagVars>>
     ELSE Goto(u, "idle") /\ Forget(u, {})
  /\ UNCHANGED <<multiChunk, done, status, fileVars, fails>>

\* An overlapping chunk that failed gives its original free again.
unmarkOriginal(u) ==
  /\ phase[u] = "unmarking"
  /\ Forget(u, Original(seg[u]))
  /\ Goto(u, "idle")
  /\ UNCHANGED <<itemVars, fileVars, fails>>

\* The item has left the queue: only the Download is given up.
dropDownload(u) ==
  /\ phase[u] \in {"ended", "failed"} /\ status = "removed"
  /\ Forget(u, {})
  /\ Goto(u, "idle")
  /\ UNCHANGED <<itemVars, fileVars, fails>>

-----------------------------------------------------------------------------

GetDownload(u) ==
  \/ Ask(u) \/ ChooseSegment(u) \/ ChooseOverlap(u) \/ markOriginal(u)
  \/ Relock(u) \/ addDownload(u)

Transfer(u) == startData(u) \/ startOverlap(u) \/ fireData(u) \/ endData(u)

PutFinished(u) ==
  \/ addFinished(u) \/ segmentDone(u) \/ fileDone(u) \/ removeQueueItem(u)
  \/ dropDownload(u)

PutUnfinished(u) ==
  \/ failDownload(u) \/ endDataFails(u) \/ addUnfinished(u)
  \/ removeDownload(u) \/ unmarkOriginal(u)

Thread(u) == GetDownload(u) \/ Transfer(u) \/ PutFinished(u) \/ PutUnfinished(u)

Next == \E u \in Users : Thread(u)

Spec == Init /\ [][Next]_vars

\* Every connection's thread goes on while it can: a peer that stops sending is
\* disconnected by the timer, which is one of the MaxFails failures.
FairSpec == Spec /\ \A u \in Users : WF_vars(Thread(u))

-----------------------------------------------------------------------------
(* Properties *)

\* What m_done_segment says is done was written to the temporary file: it is
\* not asked for again and goes into the finished file.
DoneOnDisk == Covered(done) \subseteq disk

\* The file is moved to its target only when every part of it was written.
MovedComplete == moves > 0 => 0..FileSize - 1 \subseteq disk

\* Done segments start and end at block boundaries or at the end of the file,
\* and every requested segment starts at one: the hash check of a download
\* asserts it can only start there. They are joined when they touch, which
\* is how isFinished knows the file is complete.
OnBoundary(n) == n % BlockSize = 0 \/ n = FileSize

SegmentsAligned ==
  /\ \A s \in done : OnBoundary(s.start) /\ OnBoundary(s.end) /\ size(s) > 0
  /\ \A s, t \in done : s # t => s.end < t.start \/ t.end < s.start
  /\ \A u \in Users : phase[u] = "requested" => size(seg[u]) <= 0 \/ seg[u].start % BlockSize = 0

\* While the file is in the queue, m_downloads lists exactly the downloads that
\* are going on, once each: a ghost would block its part of the file for ever.
NoGhostDownload ==
  status = "queued" =>
    /\ Registered = {u \in Users : phase[u] \in {"requested", "running", "ended",
                                               "added", "leaving", "failed", "put"}}
    /\ \A i, j \in DOMAIN downloads : downloads[i] = downloads[j] => i = j

\* What is done stays done: a segment that was recorded is never lost.
DoneNeverShrinks == [][Covered(done) \subseteq Covered(done')]_done

\* What addSegment joins covers less than its segments only where one lies
\* inside another: there the end of the outer one is lost.
AddedSegment(u) == IF phase[u] = "ended" THEN seg[u] ELSE Aligned(u)

ShrinksOnlyInside ==
  [][\/ Covered(done) \subseteq Covered(done')
     \/ \E u \in Users : \E t \in done :
          LET s == AddedSegment(u) IN
          /\ phase[u] \in {"ended", "failed"} /\ phase'[u] \in {"added", "put"}
          /\ Inside(s, t) \/ Inside(t, s)]_vars

\* Two users download the same part only when one overlaps the other's chunk.
NoSharedPart ==
  status = "queued" =>
    \A u, v \in Registered :
      u # v /\ overlaps(seg[u], seg[v]) => u \in overlapper \/ v \in overlapper

\* What getNextSegmentL chooses without an overlap is free: no download that is
\* listed at that moment loads any of it, and none of it is done.
ChosenFree ==
  [][\A u \in Users : phase[u] = "granted" /\ phase'[u] = "chosen" =>
       /\ \A v \in Registered : ~overlaps(seg'[u], seg[v])
       /\ Units(seg'[u]) \cap Covered(done) = {}]_vars

\* No thread asks for m_fcs_segment, which is not recursive, while it holds it.
NeverRelocks == SegmentLockFree

\* Every part of the file is received in the end, if the transfers fail a
\* bounded number of times only: no order of overlaps, failures and part sizes
\* leaves a part that nobody is given.
AllReceived == <>(0..FileSize - 1 \subseteq disk)

\* The file is finished and moved to its target in the end, not left complete
\* in the folder for temporary files.
FileCompletes == <>(moves > 0)

-----------------------------------------------------------------------------
\* What the item promises of its file: see FileLife.
File == INSTANCE FileLife WITH
          Parts <- 0..FileSize - 1,
          written <- disk,
          recorded <- Covered(done),
          moved <- moves > 0,
          gone <- status # "queued"
FileSpec == File!Spec
=============================================================================
