------------------------------- MODULE Hasher -------------------------------
(***************************************************************************)
(* HashManager::Hasher (src/client/HashManager.cpp): the thread that reads *)
(* the shared files and computes their hash trees, and the threads that    *)
(* give it files, pause it, stop it and at last shut it down.              *)
(*                                                                         *)
(* One semaphore serves three purposes: a signal for every file waiting in *)
(* w, a signal to end a pause that caught the thread inside a file, and    *)
(* the signal of shutdown or of a rebuild.  While the hasher is paused the *)
(* signals are not given but counted, in m_paused, which is the number of  *)
(* pauses, plus the signals owed: resume gives all but one of the count.   *)
(*                                                                         *)
(* A file is a number of blocks to read; what they contain, their names,   *)
(* the speed limit and the progress figures (m_currentSize, iMaxBytes...)  *)
(* are left out, and so is the order in which waiting files are taken.     *)
(***************************************************************************)
EXTENDS Integers, FiniteSets

CONSTANTS
  Files,        \* the files that may be shared
  Dirs,         \* the sets of files a stopHashing(baseDir) can name
  NoFile,       \* an empty m_fname
  Blocks,       \* the buffers a file fills
  Sharers,      \* threads that change the share, under a HashPauser
  Gui,          \* the one of them that also runs the dialogs and the exit
  MaxSignals    \* bound on the signals given and owed

ASSUME FilesAssumption == IsFiniteSet(Files) /\ NoFile \notin Files
ASSUME DirsAssumption == Dirs \subseteq SUBSET Files
ASSUME BlocksAssumption == Blocks \in Nat \ {0}
ASSUME GuiAssumption == Gui \in Sharers
ASSUME MaxSignalsAssumption == MaxSignals \in Nat

VARIABLES
  w,            \* the files waiting to be hashed
  tokens,       \* the value of m_hash_semaphore
  paused,       \* m_paused
  running,      \* m_running: IsHashing()
  rebuild,      \* m_rebuild
  fname,        \* m_fname: what getStats shows
  stop,         \* isShutdown()
  pc,           \* where the thread is
  file,         \* the thread's l_fname
  mode,         \* which reader has the file: fastHash or the slow loop
  left,         \* the blocks of the file not yet in its tree
  partial,      \* the files whose recorded tree misses part of them
  holds,        \* what a HashPauser of the sharer will do: "none" without one
  gui           \* where the exit of the program is

shared == <<w, tokens, paused, running, rebuild, fname, stop>>
thread == <<pc, file, mode, left, partial>>
others == <<holds, gui>>
vars == <<shared, thread, others>>

Reading == {"loop", "block", "pause", "pausing"}
Places == {"wait", "woken", "rebuilt", "copy", "open", "slow", "check", "record", "end", "stopped"}
            \cup Reading
Closing == {"open", "resume", "rebuild", "asked", "before", "join", "closed"}

\* The state is always well formed.
TypeOK ==
  /\ w \subseteq Files /\ partial \subseteq Files
  /\ tokens \in Nat /\ paused \in Int
  /\ running \in BOOLEAN /\ rebuild \in BOOLEAN /\ stop \in BOOLEAN
  /\ fname \in Files \cup {NoFile} /\ file \in Files \cup {NoFile}
  /\ pc \in Places /\ mode \in {"fast", "slow"} /\ left \in 0 .. Blocks
  /\ holds \in [Sharers -> {"none", "resume", "nothing"}]
  /\ gui \in Closing

Init ==
  /\ w = {} /\ tokens = 0 /\ paused = 0
  /\ running = FALSE /\ rebuild = FALSE /\ stop = FALSE
  /\ fname = NoFile /\ file = NoFile
  /\ pc = "wait" /\ mode = "fast" /\ left = 0
  /\ partial = {}
  /\ holds = [s \in Sharers |-> "none"]
  /\ gui = "open"

Owed == IF paused > 1 THEN paused - 1 ELSE 0

\* Room for one more signal in a bounded model.
Room == tokens + paused < MaxSignals /\ tokens - paused < MaxSignals

-----------------------------------------------------------------------------
(* What the other threads do                                               *)

\* A sharer is free to act: the user interface only while it is not in the
\* middle of closing the program or of a dialog's button.
Free(s) == s = Gui => gui = "open"

\* The share is being built under a HashPauser; a file that is not in the
\* data base is given to the hasher.  The cache of the data base is behind,
\* so that may be a file hashed already, or the one in the thread's hands.
hashFile(s, f) ==
  /\ holds[s] # "none" /\ Free(s) /\ Room
  /\ f \notin w
  /\ w' = w \cup {f}
  /\ IF paused > 0 THEN paused' = paused + 1 /\ UNCHANGED tokens
                   ELSE tokens' = tokens + 1 /\ UNCHANGED paused
  /\ UNCHANGED <<running, rebuild, fname, stop, thread, others>>

pause == paused' = paused + 1

resume ==
  /\ tokens' = tokens + Owed
  /\ paused' = IF paused > 1 THEN 0 ELSE paused - 1

HashPauser(s) ==
  /\ holds[s] = "none" /\ Free(s) /\ Room
  /\ pause
  /\ holds' = [holds EXCEPT ![s] = IF paused > 0 THEN "nothing" ELSE "resume"]
  /\ UNCHANGED <<w, tokens, running, rebuild, fname, stop, thread, gui>>

EndPauser(s) ==
  /\ holds[s] # "none" /\ Free(s)
  /\ IF holds[s] = "resume" THEN resume ELSE UNCHANGED <<tokens, paused>>
  /\ holds' = [holds EXCEPT ![s] = "none"]
  /\ UNCHANGED <<w, running, rebuild, fname, stop, thread, gui>>

\* Mutant of stopHashing: only the waiting files are dropped.
stopWaiting(D) ==
  /\ gui = "open" /\ holds[Gui] = "none"
  /\ w' = w \ D
  /\ UNCHANGED <<tokens, paused, running, rebuild, fname, stop, thread, others>>

stopHashing(D) ==
  /\ gui = "open" /\ holds[Gui] = "none"
  /\ w' = w \ D
  /\ running' = FALSE
  /\ fname' = NoFile
  /\ UNCHANGED <<tokens, paused, rebuild, stop, thread, others>>

\* The button of the progress dialog: resume if the hasher is paused, by
\* whomever, else pause.  It looks, and then acts.
Button ==
  /\ gui = "open" /\ holds[Gui] = "none"
  /\ IF paused > 0 THEN gui' = "resume" /\ UNCHANGED paused
                   ELSE Room /\ pause /\ UNCHANGED gui
  /\ UNCHANGED <<w, tokens, running, rebuild, fname, stop, thread, holds>>

ButtonResume ==
  /\ gui = "resume"
  /\ resume
  /\ gui' = "open"
  /\ UNCHANGED <<w, running, rebuild, fname, stop, thread, holds>>

signal == tokens' = tokens + (IF paused # 0 THEN 2 ELSE 1)

scheduleRebuild ==
  /\ gui = "open" /\ holds[Gui] = "none" /\ Room
  /\ rebuild' = TRUE
  /\ gui' = "rebuild"
  /\ UNCHANGED <<w, tokens, paused, running, fname, stop, thread, holds>>

RebuildSignal ==
  /\ gui = "rebuild"
  /\ signal
  /\ gui' = "open"
  /\ UNCHANGED <<w, paused, running, rebuild, fname, stop, thread, holds>>

\* The user closes the program.  It does not close while IsHashing, but then
\* it asks him, and hashing may begin while he makes up his mind.
OnClose ==
  /\ gui = "open" /\ holds[Gui] = "none" /\ ~running
  /\ gui' = "asked"
  /\ UNCHANGED <<shared, thread, holds>>

Answer(yes) ==
  /\ gui = "asked"
  /\ stop' = yes
  /\ gui' = IF yes THEN "before" ELSE "open"
  /\ UNCHANGED <<w, tokens, paused, running, rebuild, fname, thread, holds>>

\* Mutant of shutdown: the thread is told to stop and not woken.
shutdownSilent ==
  /\ gui = "before"
  /\ gui' = "join"
  /\ UNCHANGED <<shared, thread, holds>>

shutdown ==
  /\ gui = "before"
  /\ signal
  /\ gui' = "join"
  /\ UNCHANGED <<w, paused, running, rebuild, fname, stop, thread, holds>>

join ==
  /\ gui = "join" /\ pc = "stopped"
  /\ gui' = "closed"
  /\ UNCHANGED <<shared, thread, holds>>

-----------------------------------------------------------------------------
(* The thread: Hasher::run                                                 *)

At(p) == pc = p
To(p) == pc' = p
KeepFile == UNCHANGED <<file, mode, left, partial>>

wait ==
  /\ At("wait") /\ tokens > 0
  /\ tokens' = tokens - 1
  /\ To("woken")
  /\ KeepFile /\ UNCHANGED <<w, paused, running, rebuild, fname, stop, others>>

Break ==
  /\ At("woken") /\ stop
  /\ To("stopped")
  /\ KeepFile /\ UNCHANGED <<shared, others>>

\* doRebuild asks for a rebuild once more, and so gives a signal; the request
\* is withdrawn only after that.
doRebuild ==
  /\ At("woken") /\ ~stop /\ rebuild
  /\ signal
  /\ To("rebuilt")
  /\ KeepFile /\ UNCHANGED <<w, paused, running, rebuild, fname, stop, others>>

Rebuilt ==
  /\ At("rebuilt")
  /\ rebuild' = FALSE
  /\ To("wait")
  /\ KeepFile /\ UNCHANGED <<w, tokens, paused, running, fname, stop, others>>

Take ==
  /\ At("woken") /\ ~stop /\ ~rebuild
  /\ \/ w = {} /\ fname' = NoFile /\ UNCHANGED w
     \/ \E f \in w : fname' = f /\ w' = w \ {f}
  /\ running' = (w # {})
  /\ To("copy")
  /\ KeepFile /\ UNCHANGED <<tokens, paused, rebuild, stop, others>>

\* l_fname is read under a second lock: a stopHashing between the two has
\* emptied m_fname.
CopyName ==
  /\ At("copy")
  /\ file' = fname
  /\ To(IF fname = NoFile THEN "end" ELSE "open")
  /\ UNCHANGED <<mode, left, partial, shared, others>>

\* The file is gone; its tree is in its NTFS stream; fastHash opens it; or
\* the slow loop must read it.
Open ==
  /\ At("open")
  /\ \/ To("end") /\ UNCHANGED <<mode, left>>
     \/ To("check") /\ left' = 0 /\ UNCHANGED mode
     \/ To("loop") /\ left' = Blocks /\ mode' = "fast"
     \/ To("slow") /\ UNCHANGED <<mode, left>>
  /\ UNCHANGED <<file, partial, shared, others>>

\* The condition of the loop: before a block in fastHash, after one in the
\* slow loop.  An interrupted fastHash has failed.
Loop ==
  /\ At("loop")
  /\ To(IF ~stop /\ running THEN "block" ELSE IF mode = "fast" THEN "slow" ELSE "check")
  /\ KeepFile /\ UNCHANGED <<shared, others>>

\* Mutant of FastBlock: one block too many is read.
FastBlockMore ==
  /\ At("block") /\ mode = "fast"
  /\ left' = left - 1
  /\ IF left = 0 THEN To("check") ELSE To("pause") \/ To("slow")
  /\ UNCHANGED <<file, mode, partial, shared, others>>

FastBlock ==
  /\ At("block") /\ mode = "fast"
  /\ left' = left - 1
  /\ IF left = 1 THEN To("check") ELSE To("pause") \/ To("slow")
  /\ UNCHANGED <<file, mode, partial, shared, others>>

\* fastHash did not do it: read the file again from its start.
Slow ==
  /\ At("slow")
  /\ IF running THEN mode' = "slow" /\ left' = Blocks /\ (To("block") \/ To("end"))
                ELSE To("end") /\ UNCHANGED <<mode, left>>
  /\ UNCHANGED <<file, partial, shared, others>>

SlowBlock ==
  /\ At("block") /\ mode = "slow"
  /\ \/ left > 0 /\ left' = left - 1 /\ To("pause")
     \/ left = 0 /\ To("check") /\ UNCHANGED left
     \/ To("end") /\ UNCHANGED left
  /\ UNCHANGED <<file, mode, partial, shared, others>>

\* Mutant of instantPause: the signal it waits for is not counted.
instantPauseUncounted ==
  /\ At("pause")
  /\ To(IF paused > 0 THEN "pausing" ELSE "loop")
  /\ KeepFile /\ UNCHANGED <<shared, others>>

instantPause ==
  /\ At("pause")
  /\ IF paused > 0 THEN pause /\ To("pausing") ELSE To("loop") /\ UNCHANGED paused
  /\ KeepFile /\ UNCHANGED <<w, tokens, running, rebuild, fname, stop, others>>

Pausing ==
  /\ At("pausing") /\ tokens > 0
  /\ tokens' = tokens - 1
  /\ To("loop")
  /\ KeepFile /\ UNCHANGED <<w, paused, running, rebuild, fname, stop, others>>

\* Mutant of Check: m_running is not looked at again.
CheckNothing ==
  /\ At("check")
  /\ To("record")
  /\ KeepFile /\ UNCHANGED <<shared, others>>

Check ==
  /\ At("check")
  /\ To(IF running THEN "record" ELSE "end")
  /\ KeepFile /\ UNCHANGED <<shared, others>>

\* The tree, finished as it is, replaces the one on record, unless that fails.
hashDone ==
  /\ At("record")
  /\ \/ partial' = IF left > 0 THEN partial \cup {file} ELSE partial \ {file}
     \/ UNCHANGED partial
  /\ To("end")
  /\ UNCHANGED <<file, mode, left, shared, others>>

\* Mutant of End: m_running is left to the next file.
EndRunning ==
  /\ At("end")
  /\ fname' = NoFile
  /\ file' = NoFile /\ mode' = "fast" /\ left' = 0
  /\ To("wait")
  /\ UNCHANGED <<w, tokens, paused, running, rebuild, stop, partial, others>>

\* What run declares inside its loop ends here.
End ==
  /\ At("end")
  /\ fname' = NoFile
  /\ running' = (running /\ w # {})
  /\ file' = NoFile /\ mode' = "fast" /\ left' = 0
  /\ To("wait")
  /\ UNCHANGED <<w, tokens, paused, rebuild, stop, partial, others>>

-----------------------------------------------------------------------------
Run ==
  \/ wait \/ Break \/ doRebuild \/ Rebuilt \/ Take \/ CopyName \/ Open \/ Loop
  \/ FastBlock \/ Slow \/ SlowBlock \/ instantPause \/ Pausing \/ Check
  \/ hashDone \/ End

Exit == shutdown \/ join

Next ==
  \/ Run
  \/ \E s \in Sharers, f \in Files : hashFile(s, f)
  \/ \E s \in Sharers : HashPauser(s) \/ EndPauser(s)
  \/ \E D \in Dirs : stopHashing(D)
  \/ Button \/ ButtonResume \/ scheduleRebuild \/ RebuildSignal
  \/ OnClose \/ (\E yes \in BOOLEAN : Answer(yes)) \/ Exit

Spec == Init /\ [][Next]_vars

\* The thread runs; a HashPauser lives as long as a block of code; what the
\* user interface has begun it ends.  Nobody has to press a button.
FairSpec ==
  /\ Spec /\ WF_vars(Run) /\ WF_vars(Exit)
  /\ WF_vars(ButtonResume) /\ WF_vars(RebuildSignal)
  /\ \A s \in Sharers : WF_vars(EndPauser(s))

-----------------------------------------------------------------------------
(* What it promises                                                        *)

\* A waiting file has its signal: given, owed by the next resume, or just
\* taken by the thread, which then looks into w.  So a file is never left
\* in w by a thread that sleeps for ever, although pauses use up signals,
\* and stops and rebuilds leave signals over.
NoFileStranded ==
  pc # "stopped" =>
    Cardinality(w) <= tokens + Owed + (IF pc = "woken" THEN 1 ELSE 0)

\* IsHashing() keeps the program from closing, so an idle hasher never says
\* it is hashing: while it waits with m_running set, a file is waiting too.
RunningHasWork == pc = "wait" /\ running => w # {}

\* However a stopHashing, a pause and a reading error meet, the tree of a
\* part of a file is not recorded as the file's while the program runs.
WholeTrees == partial # {} => stop

\* If the share changes no more and no pause lasts for ever, in the end
\* nothing waits and IsHashing() is false, so the program can be closed.
HashingEnds ==
  ( /\ <>[][~\E s \in Sharers, f \in Files : hashFile(s, f)]_vars
    /\ []<>(paused <= 0) )
  => <>[](stop \/ (w = {} /\ ~running))

\* If no pause lasts for ever, the thread ends when the program closes: the
\* two signals of shutdown are enough, or those a resume still owes.
JoinUnlessPaused == []<>(paused <= 0) => (stop ~> gui = "closed")

\* "it caused deadlock on client exit: join hangs" (HashManager.h): what was
\* mended for a lock is promised of the pauses too.
JoinReturns == stop ~> gui = "closed"
=============================================================================
