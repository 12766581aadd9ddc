---------------------------- MODULE HasherProofs ----------------------------
(***************************************************************************)
(* What is proved of Hasher, for any number of files and of sharers and    *)
(* any bound on the signals: its type, that no waiting file is stranded,   *)
(* that an idle hasher does not say it is hashing, and that the tree of a  *)
(* part of a file is recorded only at the end of the program.              *)
(*                                                                         *)
(* NoFileStranded is not inductive: a thread that waits inside a file has  *)
(* counted itself in m_paused and will use a signal up, so it too must be  *)
(* covered by the signals given and owed.                                  *)
(***************************************************************************)
EXTENDS Hasher, FiniteSetTheorems, TLAPS

Covered ==
  pc # "stopped" =>
    Cardinality(w) + (IF pc = "pausing" THEN 1 ELSE 0)
      <= tokens + Owed + (IF pc = "woken" THEN 1 ELSE 0)

\* RunningHasWork from the end of a file to the moment the next is taken.
IdleHasWork == pc \in {"wait", "woken", "rebuilt"} /\ running => w # {}

\* isShutdown() begins when the user has confirmed that he wants to leave.
StopLast == gui \in {"open", "resume", "rebuild", "asked"} => ~stop

\* A reader that leaves its file before the end was told to, and remembers it.
Interrupted ==
  /\ pc = "check" /\ left > 0 => stop \/ ~running
  /\ pc = "record" /\ left > 0 => stop

\* fastHash looks whether it is done before it goes on.
FastGoesOn == pc \in Reading /\ mode = "fast" => left > 0

HasFile == pc \in Reading \cup {"open", "slow", "check", "record"} => file \in Files

Flags == IdleHasWork /\ StopLast /\ Interrupted /\ FastGoesOn /\ HasFile /\ WholeTrees

LEMMA SetCounts ==
  ASSUME TypeOK
  PROVE  /\ IsFiniteSet(w) /\ Cardinality(w) \in Nat
         /\ \A f \in Files : f \notin w => Cardinality(w \cup {f}) = Cardinality(w) + 1
         /\ \A f \in w : Cardinality(w \ {f}) = Cardinality(w) - 1
         /\ \A D \in Dirs : Cardinality(w \ D) \in Nat /\ Cardinality(w \ D) <= Cardinality(w)
         /\ w = {} => Cardinality(w) = 0
  <1>1. IsFiniteSet(w)
    BY FilesAssumption, FS_Subset DEF TypeOK
  <1>2. Cardinality(w) \in Nat
    BY <1>1, FS_CardinalityType
  <1>3. \A f \in Files : f \notin w => Cardinality(w \cup {f}) = Cardinality(w) + 1
    BY <1>1, FS_AddElement
  <1>4. \A f \in w : Cardinality(w \ {f}) = Cardinality(w) - 1
    BY <1>1, FS_RemoveElement
  <1>5. \A D \in Dirs : Cardinality(w \ D) \in Nat /\ Cardinality(w \ D) <= Cardinality(w)
    <2>. TAKE D \in Dirs
    <2>1. IsFiniteSet(w \ D) /\ Cardinality(w \ D) <= Cardinality(w)
      BY <1>1, FS_Subset
    <2>. QED BY <2>1, FS_CardinalityType
  <1>6. w = {} => Cardinality(w) = 0
    <2>. HAVE w = {}
    <2>. QED BY FS_EmptySet
  <1>. QED BY <1>1, <1>2, <1>3, <1>4, <1>5, <1>6

-----------------------------------------------------------------------------
LEMMA InitAll == Init => TypeOK /\ Covered /\ Flags
  <1>. SUFFICES ASSUME Init PROVE TypeOK /\ Covered /\ Flags
    OBVIOUS
  <1>1. TypeOK
    <2>1. running \in BOOLEAN /\ rebuild \in BOOLEAN /\ stop \in BOOLEAN
      BY DEF Init
    <2>2. left \in 0 .. Blocks /\ tokens \in Nat /\ paused \in Int
      BY BlocksAssumption DEF Init
    <2>3. holds \in [Sharers -> {"none", "resume", "nothing"}]
      BY DEF Init
    <2>. QED BY <2>1, <2>2, <2>3 DEF Init, TypeOK, Places, Reading, Closing
  <1>2. Covered
    <2>. Cardinality({}) = 0
      BY FS_EmptySet
    <2>. QED BY DEF Init, Covered, Owed
  <1>3. Flags
    BY DEF Init, Reading, Flags, IdleHasWork, StopLast, Interrupted, FastGoesOn, HasFile, WholeTrees
  <1>. QED BY <1>1, <1>2, <1>3

LEMMA OwedType == ASSUME TypeOK PROVE Owed \in Nat
  BY DEF TypeOK, Owed

LEMMA ShareStepKeeps ==
  ASSUME TypeOK, Covered, Flags, NEW s \in Sharers,
         (\E f \in Files : hashFile(s, f)) \/ HashPauser(s) \/ EndPauser(s)
  PROVE  TypeOK' /\ Covered' /\ Flags'
  <1>1. ASSUME NEW f \in Files, hashFile(s, f)
        PROVE  TypeOK' /\ Covered' /\ Flags'
    <2>1. TypeOK'
      BY <1>1 DEF TypeOK, hashFile, thread, others
    <2>2. Covered'
      <3>1. pc' = pc /\ Cardinality(w') = Cardinality(w) + 1 /\ Cardinality(w) \in Nat
        BY <1>1, SetCounts DEF hashFile, thread
      <3>2. tokens' + Owed' = tokens + Owed + 1 /\ tokens' \in Nat /\ Owed' \in Nat
        BY <1>1 DEF hashFile, TypeOK, Owed
      <3>. QED BY <3>1, <3>2, OwedType DEF Covered, TypeOK
    <2>3. Flags'
      BY <1>1 DEF hashFile, thread, others, Flags, IdleHasWork, StopLast, Interrupted, FastGoesOn, HasFile, WholeTrees
    <2>. QED BY <2>1, <2>2, <2>3
  <1>2. CASE HashPauser(s)
    <2>1. TypeOK'
      BY <1>2 DEF TypeOK, HashPauser, pause, thread
    <2>2. Covered'
      <3>1. pc' = pc /\ w' = w /\ tokens' = tokens /\ Owed' \in Nat /\ Owed' >= Owed
        BY <1>2 DEF HashPauser, pause, thread, TypeOK, Owed
      <3>. QED BY <3>1, OwedType, SetCounts DEF Covered, TypeOK
    <2>3. Flags'
      BY <1>2 DEF HashPauser, thread, Flags, IdleHasWork, StopLast, Interrupted, FastGoesOn, HasFile, WholeTrees
    <2>. QED BY <2>1, <2>2, <2>3
  <1>3. CASE EndPauser(s)
    <2>1. TypeOK'
      BY <1>3, OwedType DEF TypeOK, EndPauser, resume, thread
    <2>2. Covered'
      <3>1. pc' = pc /\ w' = w /\ tokens' + Owed' = tokens + Owed
        BY <1>3 DEF EndPauser, resume, thread, TypeOK, Owed
      <3>. QED BY <3>1, SetCounts DEF Covered, TypeOK
    <2>3. Flags'
      BY <1>3 DEF EndPauser, thread, Flags, IdleHasWork, StopLast, Interrupted, FastGoesOn, HasFile, WholeTrees
    <2>. QED BY <2>1, <2>2, <2>3
  <1>. QED BY <1>1, <1>2, <1>3

GuiStep ==
  \/ \E D \in Dirs : stopHashing(D)
  \/ Button \/ ButtonResume \/ scheduleRebuild \/ RebuildSignal
  \/ OnClose \/ (\E yes \in BOOLEAN : Answer(yes)) \/ Exit

LEMMA GuiTypes ==
  ASSUME TypeOK, GuiStep
  PROVE  TypeOK'
  <1>1. ASSUME NEW D \in Dirs, stopHashing(D) PROVE TypeOK'
    BY <1>1 DEF TypeOK, stopHashing, thread, others
  <1>2. CASE Button
    BY <1>2 DEF TypeOK, Button, pause, thread, Closing
  <1>3. CASE ButtonResume
    BY <1>3, OwedType DEF TypeOK, ButtonResume, resume, thread, Closing
  <1>4. CASE scheduleRebuild
    BY <1>4 DEF TypeOK, scheduleRebuild, thread, Closing
  <1>5. CASE RebuildSignal
    BY <1>5 DEF TypeOK, RebuildSignal, signal, thread, Closing
  <1>6. CASE OnClose
    BY <1>6 DEF TypeOK, OnClose, shared, thread, Closing
  <1>7. ASSUME NEW yes \in BOOLEAN, Answer(yes) PROVE TypeOK'
    BY <1>7 DEF TypeOK, Answer, thread, Closing
  <1>8. CASE Exit
    BY <1>8 DEF TypeOK, Exit, shutdown, signal, join, shared, thread, Closing
  <1>. QED BY <1>1, <1>2, <1>3, <1>4, <1>5, <1>6, <1>7, <1>8 DEF GuiStep

LEMMA GuiCovers ==
  ASSUME TypeOK, Covered, GuiStep
  PROVE  Covered'
  <1>1. ASSUME NEW D \in Dirs, stopHashing(D) PROVE Covered'
    <2>1. /\ pc' = pc /\ tokens' = tokens /\ Owed' = Owed
          /\ Cardinality(w') \in Nat /\ Cardinality(w') <= Cardinality(w)
      BY <1>1, SetCounts DEF stopHashing, thread, Owed
    <2>. QED BY <2>1, SetCounts, OwedType DEF Covered, TypeOK
  <1>2. CASE Button \/ ButtonResume
    <2>1. /\ pc' = pc /\ w' = w
          /\ tokens' + Owed' >= tokens + Owed /\ tokens' + Owed' \in Nat
      BY <1>2 DEF Button, ButtonResume, pause, resume, thread, TypeOK, Owed
    <2>. QED BY <2>1, SetCounts, OwedType DEF Covered, TypeOK
  <1>3. CASE RebuildSignal \/ shutdown
    <2>1. pc' = pc /\ w' = w /\ Owed' = Owed /\ tokens' \in {tokens + 1, tokens + 2}
      BY <1>3 DEF RebuildSignal, shutdown, signal, thread, Owed
    <2>. QED BY <2>1, SetCounts, OwedType DEF Covered, TypeOK
  <1>4. CASE scheduleRebuild \/ OnClose \/ join \/ \E yes \in BOOLEAN : Answer(yes)
    <2>1. pc' = pc /\ w' = w /\ Owed' = Owed /\ tokens' = tokens
      BY <1>4 DEF scheduleRebuild, OnClose, join, Answer, shared, thread, Owed
    <2>. QED BY <2>1 DEF Covered
  <1>. QED BY <1>1, <1>2, <1>3, <1>4 DEF GuiStep, Exit

LEMMA GuiFlags ==
  ASSUME Flags, GuiStep
  PROVE  Flags'
  <1>1. ASSUME NEW D \in Dirs, stopHashing(D) PROVE Flags'
    BY <1>1 DEF stopHashing, thread, others, Flags, IdleHasWork, StopLast, Interrupted, FastGoesOn, HasFile, WholeTrees
  <1>2. CASE Button \/ ButtonResume \/ scheduleRebuild \/ RebuildSignal \/ OnClose
    BY <1>2 DEF Button, ButtonResume, scheduleRebuild, RebuildSignal, OnClose, shared, thread,
                Flags, IdleHasWork, StopLast, Interrupted, FastGoesOn, HasFile, WholeTrees
  <1>3. ASSUME NEW yes \in BOOLEAN, Answer(yes) PROVE Flags'
    BY <1>3 DEF Answer, thread, Flags, IdleHasWork, StopLast, Interrupted, FastGoesOn, HasFile, WholeTrees
  <1>4. CASE Exit
    BY <1>4 DEF Exit, shutdown, join, shared, thread,
                Flags, IdleHasWork, StopLast, Interrupted, FastGoesOn, HasFile, WholeTrees
  <1>. QED BY <1>1, <1>2, <1>3, <1>4 DEF GuiStep

-----------------------------------------------------------------------------
(* The thread.  The steps that touch neither the signals nor what waits,   *)
(* and neither begin nor end a wait, keep Covered by their shape.          *)

InFile ==
  \/ CopyName \/ Open \/ Loop \/ FastBlock \/ Slow \/ SlowBlock \/ Check \/ hashDone \/ End

LEMMA InFileTypes ==
  ASSUME TypeOK, FastGoesOn, HasFile, InFile
  PROVE  TypeOK'
  <1>. USE DEF TypeOK, At, To, Places, Reading
  <1>1. CASE CopyName \/ Loop \/ Check
    BY <1>1 DEF CopyName, Loop, Check, KeepFile, shared, others
  <1>2. CASE Open \/ Slow
    BY <1>2, BlocksAssumption DEF Open, Slow, shared, others
  <1>6. CASE End
    <2>1. running' \in BOOLEAN
      BY <1>6 DEF End
    <2>. QED BY <1>6, <2>1, BlocksAssumption DEF End, others
  <1>3. CASE FastBlock
    <2>1. left > 0 /\ left' = left - 1
      BY <1>3 DEF FastBlock, FastGoesOn
    <2>2. left' \in 0 .. Blocks
      BY <2>1, BlocksAssumption
    <2>3. pc' \in {"check", "pause", "slow"}
      BY <1>3 DEF FastBlock
    <2>. QED BY <1>3, <2>2, <2>3 DEF FastBlock, shared, others
  <1>4. CASE SlowBlock
    BY <1>4, BlocksAssumption DEF SlowBlock, shared, others
  <1>5. CASE hashDone
    BY <1>5 DEF hashDone, shared, others, HasFile
  <1>. QED BY <1>1, <1>2, <1>3, <1>4, <1>5, <1>6 DEF InFile

LEMMA InFileCovers ==
  ASSUME Covered, InFile
  PROVE  Covered'
  <1>1. /\ pc \notin {"woken", "pausing", "stopped"} /\ pc' \notin {"woken", "pausing", "stopped"}
        /\ w' = w /\ tokens' = tokens /\ Owed' = Owed
    BY DEF InFile, CopyName, Open, Loop, FastBlock, Slow, SlowBlock, Check, hashDone, End,
           KeepFile, shared, At, To, Owed
  <1>. QED BY <1>1 DEF Covered

LEMMA InFileFlags ==
  ASSUME TypeOK, Flags, InFile
  PROVE  Flags'
  <1>. USE BlocksAssumption DEF Flags, IdleHasWork, StopLast, Interrupted, FastGoesOn, HasFile, WholeTrees, At, To, Reading
  <1>1. CASE Open \/ Slow
    BY <1>1 DEF Open, Slow, shared, others
  <1>6. CASE CopyName
    <2>1. fname # NoFile => fname \in Files
      BY DEF TypeOK
    <2>. QED BY <1>6, <2>1 DEF CopyName, shared, others
  <1>2. CASE Loop \/ Check
    BY <1>2 DEF Loop, Check, KeepFile, shared, others
  <1>3. CASE FastBlock \/ SlowBlock
    BY <1>3 DEF FastBlock, SlowBlock, shared, others, TypeOK
  <1>4. CASE hashDone
    BY <1>4 DEF hashDone, shared, others
  <1>5. CASE End
    BY <1>5 DEF End, others
  <1>. QED BY <1>1, <1>2, <1>3, <1>4, <1>5, <1>6 DEF InFile

Signalling ==
  wait \/ Break \/ doRebuild \/ Rebuilt \/ Take \/ instantPause \/ Pausing

LEMMA SignallingTypes ==
  ASSUME TypeOK, Signalling
  PROVE  TypeOK'
  <1>. USE DEF TypeOK, At, To, Places, Reading, KeepFile
  <1>1. CASE wait \/ Pausing
    BY <1>1 DEF wait, Pausing, others
  <1>2. CASE Break \/ Rebuilt
    BY <1>2 DEF Break, Rebuilt, shared, others
  <1>3. CASE doRebuild \/ instantPause
    BY <1>3 DEF doRebuild, signal, instantPause, pause, others
  <1>4. CASE Take
    BY <1>4 DEF Take, others
  <1>. QED BY <1>1, <1>2, <1>3, <1>4 DEF Signalling

LEMMA SignallingCovers ==
  ASSUME TypeOK, Covered, Signalling
  PROVE  Covered'
  <1>. USE OwedType, SetCounts DEF At, To, Covered
  <1>1. CASE wait
    <2>1. /\ pc = "wait" /\ pc' = "woken" /\ tokens' = tokens - 1
          /\ w' = w /\ Owed' = Owed
      BY <1>1 DEF wait, Owed
    <2>. QED BY <2>1 DEF TypeOK
  <1>2. CASE Break
    BY <1>2 DEF Break
  <1>3. CASE doRebuild
    <2>1. /\ pc = "woken" /\ pc' = "rebuilt" /\ tokens' \in {tokens + 1, tokens + 2}
          /\ w' = w /\ Owed' = Owed
      BY <1>3 DEF doRebuild, signal, Owed
    <2>. QED BY <2>1 DEF TypeOK
  <1>4. CASE Rebuilt
    <2>1. /\ pc = "rebuilt" /\ pc' = "wait" /\ tokens' = tokens
          /\ w' = w /\ Owed' = Owed
      BY <1>4 DEF Rebuilt, Owed
    <2>. QED BY <2>1
  <1>5. CASE Take
    <2>1. pc = "woken" /\ pc' = "copy" /\ tokens' = tokens /\ Owed' = Owed
      BY <1>5 DEF Take, Owed
    <2>2. CASE w = {}
      <3>1. w' = {}
        BY <1>5, <2>2 DEF Take
      <3>2. Cardinality(w') = 0
        BY <3>1, FS_EmptySet
      <3>. QED BY <2>1, <3>2 DEF TypeOK
    <2>3. ASSUME NEW f \in w, w' = w \ {f} PROVE Covered'
      <3>1. Cardinality(w') = Cardinality(w) - 1
        BY <2>3
      <3>. QED BY <2>1, <3>1 DEF TypeOK
    <2>. QED BY <1>5, <2>2, <2>3 DEF Take
  <1>6. CASE instantPause
    <2>1. CASE paused > 0
      <3>1. /\ pc = "pause" /\ pc' = "pausing" /\ tokens' = tokens
            /\ w' = w /\ Owed' = Owed + 1
        BY <1>6, <2>1 DEF instantPause, pause, Owed, TypeOK
      <3>. QED BY <3>1 DEF TypeOK
    <2>2. CASE ~(paused > 0)
      <3>1. /\ pc = "pause" /\ pc' = "loop" /\ tokens' = tokens
            /\ w' = w /\ Owed' = Owed
        BY <1>6, <2>2 DEF instantPause, Owed
      <3>. QED BY <3>1
    <2>. QED BY <2>1, <2>2
  <1>7. CASE Pausing
    <2>1. /\ pc = "pausing" /\ pc' = "loop" /\ tokens' = tokens - 1
          /\ w' = w /\ Owed' = Owed
      BY <1>7 DEF Pausing, Owed
    <2>. QED BY <2>1 DEF TypeOK
  <1>. QED BY <1>1, <1>2, <1>3, <1>4, <1>5, <1>6, <1>7 DEF Signalling

LEMMA SignallingFlags ==
  ASSUME Flags, Signalling
  PROVE  Flags'
  <1>. USE DEF Flags, IdleHasWork, StopLast, Interrupted, FastGoesOn, HasFile, WholeTrees, At, To, KeepFile, Reading
  <1>1. CASE wait \/ Pausing \/ instantPause
    BY <1>1 DEF wait, Pausing, instantPause, others
  <1>2. CASE Break \/ Rebuilt \/ doRebuild
    BY <1>2 DEF Break, Rebuilt, doRebuild, shared, others
  <1>3. CASE Take
    BY <1>3 DEF Take, others
  <1>. QED BY <1>1, <1>2, <1>3 DEF Signalling

-----------------------------------------------------------------------------
IInv == TypeOK /\ Covered /\ Flags

LEMMA Inductive == IInv /\ [Next]_vars => IInv'
  <1>. SUFFICES ASSUME IInv, [Next]_vars PROVE IInv'
    OBVIOUS
  <1>. USE DEF IInv
  <1>1. ASSUME NEW s \in Sharers,
               (\E f \in Files : hashFile(s, f)) \/ HashPauser(s) \/ EndPauser(s)
        PROVE  IInv'
    BY <1>1, ShareStepKeeps
  <1>2. CASE GuiStep
    BY <1>2, GuiTypes, GuiCovers, GuiFlags
  <1>3. CASE InFile
    BY <1>3, InFileTypes, InFileCovers, InFileFlags DEF Flags
  <1>4. CASE Signalling
    BY <1>4, SignallingTypes, SignallingCovers, SignallingFlags
  <1>5. CASE UNCHANGED vars
    <2>1. TypeOK'
      BY <1>5 DEF TypeOK, vars, shared, thread, others
    <2>2. Covered'
      BY <1>5 DEF Covered, Owed, vars, shared, thread
    <2>3. Flags'
      BY <1>5 DEF Flags, IdleHasWork, StopLast, Interrupted, FastGoesOn, HasFile, WholeTrees, vars, shared, thread, others
    <2>. QED BY <2>1, <2>2, <2>3
  <1>. QED BY <1>1, <1>2, <1>3, <1>4, <1>5 DEF Next, Run, GuiStep, InFile, Signalling

\* Every reachable state has its type.
THEOREM TypeCorrect == Spec => []TypeOK
  <1>1. Init => IInv
    BY InitAll DEF IInv
  <1>2. IInv => TypeOK
    BY DEF IInv
  <1>. QED BY <1>1, <1>2, Inductive, PTL DEF Spec

\* No file waits for a signal that will not be given: pauses that use signals
\* up owe them, whatever pauses, stops, rebuilds and closing interleave.
THEOREM NoneStranded == Spec => []NoFileStranded
  <1>1. Init => IInv
    BY InitAll DEF IInv
  <1>2. IInv => NoFileStranded
    BY SetCounts, OwedType DEF IInv, Covered, NoFileStranded, TypeOK
  <1>. QED BY <1>1, <1>2, Inductive, PTL DEF Spec

\* IsHashing() is not left set in an idle hasher, so the program can close.
THEOREM RunningCorrect == Spec => []RunningHasWork
  <1>1. Init => IInv
    BY InitAll DEF IInv
  <1>2. IInv => RunningHasWork
    BY DEF IInv, Flags, IdleHasWork, RunningHasWork
  <1>. QED BY <1>1, <1>2, Inductive, PTL DEF Spec

\* The tree of a part of a file is recorded only once the program is closing.
THEOREM TreesCorrect == Spec => []WholeTrees
  <1>1. Init => IInv
    BY InitAll DEF IInv
  <1>2. IInv => WholeTrees
    BY DEF IInv, Flags
  <1>. QED BY <1>1, <1>2, Inductive, PTL DEF Spec
=============================================================================
