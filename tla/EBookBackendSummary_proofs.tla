-------------------- MODULE EBookBackendSummary_proofs --------------------
(***************************************************************************)
(* Proofs about EBookBackendSummary, for any items, any clock and any      *)
(* number of writes and crashes.  The properties follow from an inductive  *)
(* invariant that says, for each place at which e_book_backend_summary_save*)
(* or the process may stop, what memory and the two files hold.            *)
(***************************************************************************)
EXTENDS EBookBackendSummary, FiniteSetTheorems, TLAPS

----------------------------------------------------------------------------
(* The inductive invariant *)

(* Nothing of a process that is down is left but the files. *)
DownIsIdle ==
  ~up => save.pc = "idle" /\ pending = {} /\ ~closing /\ ~dirty /\ ~timer /\ sources = 0

(* No mtime is in the future. *)
PastTimes == dbTime <= now /\ file.mtime <= now /\ new.mtime <= now

(* What memory lacks of the database is what a request is about to add. *)
MemFollowsDb ==
  memDoubt = {} /\ up =>
    /\ pending = {} => mem = db
    /\ \A c \in pending : Applied(mem, c) = db

(* A save was begun on a dirty summary; memory is what its header          *)
(* announced unless a contact changed meanwhile, and its file holds that   *)
(* unless it is lost.                                                      *)
Undisturbed == "overlap" \notin fileDoubt
Holds(f, S) == f.kind = "whole" /\ f.items = S

SaveFollowsMem ==
  /\ save.pc # "idle" => dirty
  /\ save.pc # "idle" /\ Undisturbed => mem = save.items
  /\ save.pc = "write" => new.kind = "torn"
  /\ save.pc \in {"unlink", "rename"} /\ ~lost => Holds(new, save.items)
  /\ save.pc \in {"unlink", "rename"} /\ lost => new.kind = "torn"
  /\ save.pc = "rename" => file.kind = "none"
  /\ save.pc = "clean" /\ ~lost => Holds(file, save.items) /\ new.kind = "none"

(* A save that did not notice an error left no whole file in its place. *)
LostIsGone == up /\ lost /\ save.pc \notin {"unlink", "rename"} => file.kind # "whole"

(* While no save is on, the new file is not the only one. *)
NewIsSpare == up /\ save.pc = "idle" /\ file.kind = "none" /\ ~lost => new.kind = "none"

(* A file that is newer than the database is of the database. *)
Fresh(f) == f.kind = "whole" /\ f.mtime > dbTime => f.items = db

FilesFollowDb ==
  memDoubt = {} /\ fileDoubt = {} =>
    /\ Fresh(file)
    /\ file.kind = "none" \/ save.pc \in {"unlink", "rename"} => Fresh(new)

TimerHasSource == up /\ save.pc = "idle" /\ (timer \/ dirty) => sources > 0

IInv ==
  /\ TypeOK /\ DownIsIdle /\ PastTimes /\ MemFollowsDb /\ SaveFollowsMem
  /\ LostIsGone /\ NewIsSpare /\ FilesFollowDb /\ TimerHasSource /\ ChangesAreDirty

(* What pending may be: nothing, or one change. *)
LEMMA PendingSize ==
  Cardinality({}) <= 1 /\ \A c : Cardinality({c}) <= 1
BY FS_EmptySet, FS_Singleton

----------------------------------------------------------------------------
(* Every step keeps the invariant: one lemma per action. *)

LEMMA InitHolds == Init => IInv
<1> SUFFICES ASSUME Init PROVE IInv
  OBVIOUS
<1>1. TypeOK
  <2>1. NoFile \in File /\ 0 \in 0..MaxTime /\ 0 \in 0..MaxWrites /\ 0 \in 0..MaxCrashes
    BY SummaryAssumption DEF File, NoFile
  <2>2. Unsaved \in [pc : {"idle", "write", "unlink", "rename", "clean"}, items : SUBSET Items]
    BY DEF Unsaved
  <2>3. {} \in SUBSET Change /\ {} \subseteq Doubts /\ Cardinality({}) <= 1
    BY PendingSize
  <2> QED BY <2>1, <2>2, <2>3 DEF Init, TypeOK
<1>2. DownIsIdle /\ PastTimes /\ MemFollowsDb /\ LostIsGone /\ NewIsSpare /\ TimerHasSource
  BY DEF Init, NoFile, Unsaved, DownIsIdle, PastTimes, MemFollowsDb, LostIsGone, NewIsSpare, TimerHasSource
<1>3. SaveFollowsMem /\ FilesFollowDb /\ ChangesAreDirty
  BY DEF Init, NoFile, Unsaved, SaveFollowsMem, FilesFollowDb, Fresh, ChangesAreDirty
<1> QED BY <1>1, <1>2, <1>3 DEF IInv

(* A process that goes down leaves nothing to claim of its memory. *)
LEMMA DownClaimsNothing ==
  ASSUME Down
  PROVE  /\ DownIsIdle' /\ MemFollowsDb' /\ SaveFollowsMem'
         /\ LostIsGone' /\ NewIsSpare' /\ TimerHasSource' /\ ChangesAreDirty'
BY DEF Down, Unsaved, DownIsIdle, MemFollowsDb, SaveFollowsMem, LostIsGone, NewIsSpare,
       TimerHasSource, ChangesAreDirty

(* ... and what it leaves has its types. *)
LEMMA DownHasTypes ==
  ASSUME Down
  PROVE  /\ mem' \in SUBSET Items /\ up' \in BOOLEAN /\ dirty' \in BOOLEAN
         /\ timer' \in BOOLEAN /\ closing' \in BOOLEAN /\ sources' \in Nat
         /\ save' \in [pc : {"idle", "write", "unlink", "rename", "clean"}, items : SUBSET Items]
         /\ pending' \in SUBSET Change /\ Cardinality(pending') <= 1
BY PendingSize DEF Down, Unsaved

(* A touched summary keeps the types of its flags. *)
LEMMA TouchHasTypes ==
  ASSUME TypeOK, e_book_backend_summary_touch
  PROVE  dirty' \in BOOLEAN /\ timer' \in BOOLEAN /\ sources' \in Nat
<1>1. sources' = sources \/ sources' = sources + 1
  BY DEF e_book_backend_summary_touch
<1>2. sources' \in Nat
  BY <1>1 DEF TypeOK
<1> QED BY <1>2 DEF e_book_backend_summary_touch

(* A fresh save. *)
LEMMA BeginSaveHasTypes ==
  ASSUME TypeOK, BeginSave
  PROVE  /\ new' \in File
         /\ save' \in [pc : {"idle", "write", "unlink", "rename", "clean"}, items : SUBSET Items]
BY DEF BeginSave, TypeOK, File

LEMMA TickKeeps == ASSUME IInv, Tick PROVE IInv'
<1>1. TypeOK'
  BY SummaryAssumption DEF IInv, TypeOK, Tick, doubts
<1>2. DownIsIdle' /\ MemFollowsDb' /\ LostIsGone' /\ NewIsSpare' /\ TimerHasSource' /\ ChangesAreDirty'
  BY DEF IInv, DownIsIdle, MemFollowsDb, LostIsGone, NewIsSpare, TimerHasSource, ChangesAreDirty, Tick, doubts
<1>3. PastTimes'
  BY SummaryAssumption DEF IInv, TypeOK, File, PastTimes, Tick
<1>4. SaveFollowsMem' /\ FilesFollowDb'
  BY DEF IInv, SaveFollowsMem, Undisturbed, Holds, FilesFollowDb, Fresh, Tick, doubts
<1> QED BY <1>1, <1>2, <1>3, <1>4 DEF IInv

(* A file that was newer than the database is not when it is written. *)
LEMMA WriteKeeps == ASSUME IInv, Write PROVE IInv'
<1>1. TypeOK'
  <2>1. db' \in SUBSET Items /\ dbTime' \in 0..MaxTime /\ writes' \in 0..MaxWrites
    BY SummaryAssumption DEF IInv, TypeOK, Write, Applied, Change
  <2>2. pending' \in SUBSET Change /\ Cardinality(pending') <= 1 /\ memDoubt' \subseteq Doubts
    BY PendingSize DEF IInv, TypeOK, Write, Doubts
  <2> QED BY <2>1, <2>2 DEF IInv, TypeOK, Write
<1>2. DownIsIdle' /\ LostIsGone' /\ NewIsSpare' /\ TimerHasSource' /\ ChangesAreDirty'
  BY DEF IInv, DownIsIdle, LostIsGone, NewIsSpare, TimerHasSource, ChangesAreDirty, Write
<1>3. PastTimes'
  BY DEF IInv, TypeOK, PastTimes, Write
<1>4. MemFollowsDb'
  BY DEF IInv, MemFollowsDb, Write
<1>5. SaveFollowsMem'
  BY DEF IInv, SaveFollowsMem, Undisturbed, Holds, Write
<1>6. FilesFollowDb'
  BY DEF IInv, TypeOK, File, PastTimes, FilesFollowDb, Fresh, Write
<1> QED BY <1>1, <1>2, <1>3, <1>4, <1>5, <1>6 DEF IInv

LEMMA UpdateSummaryKeeps == ASSUME IInv, UpdateSummary PROVE IInv'
<1> PICK c \in pending :
      /\ mem' = Applied(mem, c)
      /\ IF c.op = "add" \/ c.item \in mem THEN e_book_backend_summary_touch
         ELSE UNCHANGED <<dirty, timer, sources>>
  BY DEF UpdateSummary
<1>0. c \in Change /\ up
  BY DEF IInv, TypeOK, DownIsIdle, UpdateSummary
<1>1. TypeOK'
  <2>1. mem' \in SUBSET Items /\ pending' \in SUBSET Change /\ Cardinality(pending') <= 1
    BY <1>0, PendingSize DEF IInv, TypeOK, UpdateSummary, Applied, Change
  <2>2. dirty' \in BOOLEAN /\ timer' \in BOOLEAN /\ sources' \in Nat
    <3>1. CASE e_book_backend_summary_touch
      BY <3>1, TouchHasTypes DEF IInv
    <3>2. CASE UNCHANGED <<dirty, timer, sources>>
      BY <3>2 DEF IInv, TypeOK
    <3> QED BY <3>1, <3>2
  <2>3. fileDoubt' \subseteq Doubts
    BY DEF IInv, TypeOK, UpdateSummary, Doubts
  <2> QED BY <2>1, <2>2, <2>3 DEF IInv, TypeOK, UpdateSummary
<1>2. DownIsIdle' /\ PastTimes' /\ LostIsGone' /\ NewIsSpare'
  BY <1>0 DEF IInv, DownIsIdle, PastTimes, LostIsGone, NewIsSpare, UpdateSummary
<1>3. MemFollowsDb'
  BY DEF IInv, MemFollowsDb, UpdateSummary
<1>4. SaveFollowsMem'
  BY DEF IInv, SaveFollowsMem, Undisturbed, Holds, UpdateSummary, e_book_backend_summary_touch
<1>5. FilesFollowDb'
  BY DEF IInv, FilesFollowDb, Fresh, UpdateSummary
<1>6. TimerHasSource'
  BY DEF IInv, TypeOK, TimerHasSource, UpdateSummary, e_book_backend_summary_touch
<1>7. ChangesAreDirty'
  <2>1. CASE c.op = "add" \/ c.item \in mem
    BY <2>1 DEF e_book_backend_summary_touch, ChangesAreDirty
  <2>2. CASE ~(c.op = "add" \/ c.item \in mem)
    <3>1. mem' = mem /\ dirty' = dirty
      BY <2>2 DEF IInv, TypeOK, Applied
    <3> QED BY <3>1 DEF IInv, ChangesAreDirty, UpdateSummary
  <2> QED BY <2>1, <2>2
<1> QED BY <1>1, <1>2, <1>3, <1>4, <1>5, <1>6, <1>7 DEF IInv

(* The file is of the database, unless there is a doubt. *)
LEMMA FinishWriteKeeps == ASSUME IInv, FinishWrite PROVE IInv'
<1>0. PICK k \in {"whole", "torn"} :
        new' = [kind |-> k, items |-> save.items, mtime |-> now] /\ lost' = (k = "torn")
  BY DEF FinishWrite
<1>a. save' = [save EXCEPT !.pc = "unlink"] /\ save'.pc = "unlink" /\ save'.items = save.items
  BY DEF FinishWrite, IInv, TypeOK
<1>1. TypeOK'
  <2>1. new' \in File /\ save' \in [pc : {"idle", "write", "unlink", "rename", "clean"}, items : SUBSET Items]
    BY <1>0, <1>a DEF IInv, TypeOK, File
  <2>2. sources' \in Nat
    <3>1. sources' = sources \/ (sources > 0 /\ sources' = sources - 1)
      BY DEF FinishWrite, RemoveSource
    <3> QED BY <3>1 DEF IInv, TypeOK
  <2>3. timer' \in BOOLEAN /\ fileDoubt' \subseteq Doubts
    BY DEF IInv, TypeOK, FinishWrite, Doubts
  <2>4. lost' \in BOOLEAN
    BY <1>0
  <2> QED BY <2>1, <2>2, <2>3, <2>4 DEF IInv, TypeOK, FinishWrite
<1>2. DownIsIdle' /\ MemFollowsDb' /\ LostIsGone' /\ NewIsSpare' /\ TimerHasSource' /\ ChangesAreDirty'
  BY <1>a DEF IInv, DownIsIdle, MemFollowsDb, LostIsGone, NewIsSpare, TimerHasSource, ChangesAreDirty, FinishWrite
<1>3. PastTimes'
  BY <1>0 DEF IInv, TypeOK, PastTimes, FinishWrite
<1>4. SaveFollowsMem'
  BY <1>0, <1>a DEF IInv, SaveFollowsMem, Undisturbed, Holds, FinishWrite
<1>5. FilesFollowDb'
  BY <1>0, <1>a DEF IInv, DownIsIdle, SaveFollowsMem, Undisturbed, MemFollowsDb, FilesFollowDb,
     Fresh, FinishWrite
<1> QED BY <1>1, <1>2, <1>3, <1>4, <1>5 DEF IInv

LEMMA FailWriteKeeps == ASSUME IInv, FailWrite PROVE IInv'
<1>0. new' = NoFile /\ new' \in File /\ new'.kind = "none" /\ new'.mtime = 0
  BY SummaryAssumption DEF FailWrite, NoFile, File
<1>1. PastTimes'
  BY <1>0 DEF IInv, TypeOK, PastTimes, FailWrite
<1>2. FilesFollowDb'
  BY <1>0 DEF IInv, FilesFollowDb, Fresh, FailWrite, doubts
<1>3. CASE closing
  <2>1. Down
    BY <1>3 DEF FailWrite
  <2>2. TypeOK'
    BY <1>0, <2>1, DownHasTypes DEF IInv, TypeOK, FailWrite, doubts
  <2> QED BY <1>1, <1>2, <2>1, <2>2, DownClaimsNothing DEF IInv
<1>4. CASE ~closing
  <2>0. /\ save' = Unsaved /\ save'.pc = "idle" /\ sources' = sources + 1 /\ dirty
        /\ UNCHANGED <<up, mem, dirty, timer, closing, pending>>
    BY <1>4 DEF IInv, SaveFollowsMem, FailWrite, Unsaved
  <2>1. TypeOK'
    BY <1>0, <2>0 DEF IInv, TypeOK, FailWrite, doubts, Unsaved
  <2>2. up /\ DownIsIdle' /\ MemFollowsDb' /\ LostIsGone' /\ NewIsSpare' /\ ChangesAreDirty'
    BY <1>0, <2>0 DEF IInv, DownIsIdle, MemFollowsDb, LostIsGone, NewIsSpare, ChangesAreDirty, FailWrite, doubts
  <2>3. SaveFollowsMem'
    BY <2>0 DEF SaveFollowsMem
  <2>4. TimerHasSource'
    BY <2>0 DEF IInv, TypeOK, TimerHasSource
  <2> QED BY <1>1, <1>2, <2>1, <2>2, <2>3, <2>4 DEF IInv
<1> QED BY <1>3, <1>4

LEMMA UnlinkKeeps == ASSUME IInv, Unlink PROVE IInv'
<1>0. /\ file' = NoFile /\ file' \in File /\ file'.kind = "none" /\ file'.mtime = 0
      /\ save' = [save EXCEPT !.pc = "rename"] /\ save'.pc = "rename" /\ save'.items = save.items
  BY SummaryAssumption DEF IInv, TypeOK, Unlink, NoFile, File
<1>1. TypeOK'
  BY <1>0 DEF IInv, TypeOK, Unlink, doubts
<1>2. PastTimes'
  BY <1>0 DEF IInv, TypeOK, PastTimes, Unlink
<1>3. DownIsIdle' /\ MemFollowsDb' /\ LostIsGone' /\ NewIsSpare' /\ TimerHasSource' /\ ChangesAreDirty'
  BY <1>0 DEF IInv, DownIsIdle, MemFollowsDb, LostIsGone, NewIsSpare, TimerHasSource, ChangesAreDirty, Unlink, doubts
<1>4. SaveFollowsMem' /\ FilesFollowDb'
  BY <1>0 DEF IInv, SaveFollowsMem, Undisturbed, Holds, FilesFollowDb, Fresh, Unlink, doubts
<1> QED BY <1>1, <1>2, <1>3, <1>4 DEF IInv

LEMMA RenameKeeps == ASSUME IInv, Rename PROVE IInv'
<1>0. /\ save' = [save EXCEPT !.pc = "clean"] /\ save'.pc = "clean" /\ save'.items = save.items
      /\ NoFile \in File /\ NoFile.kind = "none" /\ NoFile.mtime = 0 /\ file.kind = "none"
  BY SummaryAssumption DEF IInv, TypeOK, SaveFollowsMem, Rename, NoFile, File
<1>a. \/ file' = new /\ new' = NoFile /\ lost' = lost
      \/ file' = file /\ new' = new /\ lost' = TRUE
  BY DEF Rename
<1>1. TypeOK'
  BY <1>0, <1>a DEF IInv, TypeOK, Rename
<1>2. PastTimes'
  BY <1>0, <1>a DEF IInv, TypeOK, PastTimes, Rename
<1>3. DownIsIdle' /\ MemFollowsDb' /\ NewIsSpare' /\ TimerHasSource' /\ ChangesAreDirty'
  BY <1>0 DEF IInv, DownIsIdle, MemFollowsDb, NewIsSpare, TimerHasSource, ChangesAreDirty, Rename
<1>4. LostIsGone'
  BY <1>0, <1>a DEF IInv, SaveFollowsMem, LostIsGone, Rename
<1>5. SaveFollowsMem'
  BY <1>0, <1>a DEF IInv, SaveFollowsMem, Undisturbed, Holds, Rename
<1>6. FilesFollowDb'
  BY <1>0, <1>a DEF IInv, FilesFollowDb, Fresh, Rename
<1> QED BY <1>1, <1>2, <1>3, <1>4, <1>5, <1>6 DEF IInv

(* A doubt is dispelled when the saved file is what is in memory. *)
LEMMA FinishSaveKeeps == ASSUME IInv, FinishSave PROVE IInv'
<1>0. fileDoubt' \subseteq Doubts
  BY DEF IInv, TypeOK, FinishSave
<1>1. PastTimes'
  BY DEF IInv, PastTimes, FinishSave
<1>2. up /\ (~lost => new.kind = "none" /\ file.kind = "whole")
  BY DEF IInv, DownIsIdle, SaveFollowsMem, Holds, FinishSave
<1>3. FilesFollowDb'
  <2>1. fileDoubt' = {} => fileDoubt = {} \/ (file.kind = "whole" /\ mem = file.items /\ pending = {})
    BY DEF FinishSave
  <2>2. save'.pc = "idle"
    BY DEF FinishSave, Down, Unsaved
  <2> QED BY <1>2, <2>1, <2>2 DEF IInv, MemFollowsDb, FilesFollowDb, Fresh, FinishSave
<1>4. CASE closing
  <2>1. Down
    BY <1>4 DEF FinishSave
  <2>2. TypeOK'
    BY <1>0, <2>1, DownHasTypes DEF IInv, TypeOK, FinishSave
  <2> QED BY <1>1, <1>3, <2>1, <2>2, DownClaimsNothing DEF IInv
<1>5. CASE ~closing
  <2>0. /\ save' = Unsaved /\ save'.pc = "idle" /\ dirty' = FALSE /\ timer' = FALSE
        /\ UNCHANGED <<up, mem, sources, closing, pending>>
    BY <1>5 DEF FinishSave, Unsaved
  <2>1. TypeOK'
    BY <1>0, <2>0 DEF IInv, TypeOK, FinishSave, Unsaved
  <2>2. DownIsIdle' /\ MemFollowsDb' /\ SaveFollowsMem' /\ LostIsGone' /\ NewIsSpare' /\ TimerHasSource'
    BY <1>2, <2>0 DEF IInv, DownIsIdle, MemFollowsDb, SaveFollowsMem, LostIsGone, NewIsSpare, TimerHasSource,
       FinishSave
  <2>3. ChangesAreDirty'
    BY <2>0 DEF IInv, SaveFollowsMem, Undisturbed, Holds, ChangesAreDirty, FinishSave
  <2> QED BY <1>1, <1>3, <2>1, <2>2, <2>3 DEF IInv
<1> QED BY <1>4, <1>5

LEMMA FlushKeeps == ASSUME IInv, summary_flush_func PROVE IInv'
<1>1. CASE dirty
  <2>0. /\ BeginSave /\ new'.kind = "torn" /\ new'.mtime = now
        /\ save'.pc = "write" /\ save'.items = mem /\ timer' = timer
    BY <1>1 DEF summary_flush_func, BeginSave
  <2>1. TypeOK'
    BY <2>0, BeginSaveHasTypes DEF IInv, TypeOK, summary_flush_func, doubts
  <2>2. DownIsIdle' /\ MemFollowsDb' /\ LostIsGone' /\ NewIsSpare' /\ TimerHasSource' /\ ChangesAreDirty'
    BY <2>0 DEF IInv, DownIsIdle, MemFollowsDb, LostIsGone, NewIsSpare, TimerHasSource, ChangesAreDirty,
       summary_flush_func, doubts
  <2>3. PastTimes'
    BY <2>0 DEF IInv, TypeOK, PastTimes, summary_flush_func
  <2>4. SaveFollowsMem' /\ FilesFollowDb'
    BY <1>1, <2>0 DEF IInv, SaveFollowsMem, FilesFollowDb, Fresh, summary_flush_func, doubts
  <2> QED BY <2>1, <2>2, <2>3, <2>4 DEF IInv
<1>2. CASE ~dirty
  <2>0. timer' = FALSE /\ UNCHANGED <<new, save, dirty>>
    BY <1>2 DEF summary_flush_func
  <2>1. TypeOK'
    <3>1. sources' \in Nat
      BY DEF IInv, TypeOK, summary_flush_func
    <3>2. timer' \in BOOLEAN
      BY <2>0
    <3> QED BY <2>0, <3>1, <3>2 DEF IInv, TypeOK, summary_flush_func, doubts
  <2>2. DownIsIdle' /\ PastTimes' /\ MemFollowsDb' /\ LostIsGone' /\ NewIsSpare' /\ ChangesAreDirty'
    BY <2>0 DEF IInv, DownIsIdle, PastTimes, MemFollowsDb, LostIsGone, NewIsSpare, ChangesAreDirty,
       summary_flush_func, doubts
  <2>3. SaveFollowsMem' /\ FilesFollowDb' /\ TimerHasSource'
    BY <1>2, <2>0 DEF IInv, SaveFollowsMem, Undisturbed, Holds, FilesFollowDb, Fresh,
       TimerHasSource, summary_flush_func, doubts
  <2> QED BY <2>1, <2>2, <2>3 DEF IInv
<1> QED BY <1>1, <1>2

(* A clean summary is of the database, so that it may be marked current. *)
LEMMA DisposeKeeps == ASSUME IInv, Dispose PROVE IInv'
<1>0. /\ dbTime' \in 0..MaxTime /\ dbTime' <= now
      /\ memDoubt = {} => dbTime' = dbTime
  BY DEF IInv, TypeOK, PastTimes, Dispose
<1>1. CASE dirty
  <2>0. /\ BeginSave /\ new'.kind = "torn" /\ new'.mtime = now
        /\ save'.pc = "write" /\ save'.items = mem /\ closing' = TRUE
        /\ UNCHANGED <<file, up, mem, dirty, timer, sources, pending>>
    BY <1>1 DEF Dispose, BeginSave
  <2>1. TypeOK'
    BY <1>0, <2>0, BeginSaveHasTypes DEF IInv, TypeOK, Dispose, doubts
  <2>2. DownIsIdle' /\ MemFollowsDb' /\ LostIsGone' /\ NewIsSpare' /\ TimerHasSource' /\ ChangesAreDirty'
    BY <2>0 DEF IInv, DownIsIdle, MemFollowsDb, LostIsGone, NewIsSpare, TimerHasSource, ChangesAreDirty,
       Dispose, doubts
  <2>3. PastTimes'
    BY <1>0, <2>0 DEF IInv, TypeOK, PastTimes, Dispose
  <2>4. SaveFollowsMem' /\ FilesFollowDb'
    BY <1>0, <1>1, <2>0 DEF IInv, SaveFollowsMem, FilesFollowDb, Fresh, Dispose, doubts
  <2> QED BY <2>1, <2>2, <2>3, <2>4 DEF IInv
<1>2. CASE ~dirty
  <2>0. Down /\ new' = new /\ file' = IF file.kind = "none" THEN file ELSE [file EXCEPT !.mtime = now]
    BY <1>2 DEF Dispose
  <2>1. /\ file' \in File /\ file'.kind = file.kind /\ file'.items = file.items /\ file'.mtime <= now
    BY <2>0 DEF IInv, TypeOK, File, PastTimes
  <2>2. TypeOK'
    BY <1>0, <2>0, <2>1, DownHasTypes DEF IInv, TypeOK, Dispose, doubts
  <2>3. PastTimes'
    BY <1>0, <2>0, <2>1 DEF IInv, PastTimes, Dispose
  <2>4. save'.pc = "idle"
    BY <2>0 DEF Down, Unsaved
  <2>5. FilesFollowDb'
    BY <1>2, <2>0, <2>1, <2>4 DEF IInv, MemFollowsDb, LostIsGone, NewIsSpare, ChangesAreDirty, FilesFollowDb,
       Fresh, Dispose, doubts
  <2> QED BY <2>0, <2>2, <2>3, <2>5, DownClaimsNothing DEF IInv
<1> QED BY <1>1, <1>2

LEMMA CrashKeeps == ASSUME IInv, Crash PROVE IInv'
<1>1. Down /\ save'.pc = "idle"
  BY DEF Crash, Down, Unsaved
<1>2. TypeOK'
  BY <1>1, SummaryAssumption, DownHasTypes DEF IInv, TypeOK, Crash, doubts
<1>3. PastTimes' /\ FilesFollowDb'
  BY <1>1 DEF IInv, PastTimes, FilesFollowDb, Fresh, Crash, doubts
<1> QED BY <1>1, <1>2, <1>3, DownClaimsNothing DEF IInv

(* The restart: what is loaded is newer than the database and so, without  *)
(* a doubt, of the database; what is built is.                             *)
LEMMA LoadSourceKeeps == ASSUME IInv, LoadSource PROVE IInv'
<1>0. /\ save.pc = "idle" /\ pending = {} /\ ~closing /\ ~dirty /\ ~timer /\ sources = 0
      /\ file' = Opened /\ up' = TRUE /\ lost' = FALSE
      /\ UNCHANGED <<now, db, dbTime, save, closing, pending, writes, crashes>>
  BY DEF IInv, DownIsIdle, LoadSource
<1>1. /\ Opened \in File /\ Opened.mtime <= now
      /\ new' \in File /\ new'.mtime <= now
      /\ Opened.kind = "none" => new'.kind = "none"
  BY SummaryAssumption DEF IInv, TypeOK, PastTimes, LoadSource, Opened, Recovers, NoFile, File
<1>2. PastTimes'
  BY <1>0, <1>1 DEF IInv, PastTimes
<1>3. DownIsIdle' /\ SaveFollowsMem' /\ LostIsGone' /\ NewIsSpare'
  BY <1>0, <1>1 DEF DownIsIdle, SaveFollowsMem, LostIsGone, NewIsSpare
<1>4. memDoubt = {} /\ fileDoubt = {} => Fresh(Opened)
  BY DEF IInv, FilesFollowDb, Opened, Recovers
<1>5. CASE e_book_backend_summary_is_up_to_date /\ e_book_backend_summary_load
  <2>0. /\ mem' = Opened.items /\ dirty' = FALSE /\ UNCHANGED <<timer, sources, fileDoubt>>
        /\ memDoubt' = memDoubt \cup fileDoubt \cup (IF Opened.mtime = dbTime THEN {"second"} ELSE {})
        /\ Opened.kind = "whole" /\ Opened.mtime >= dbTime
    BY <1>5 DEF LoadSource, e_book_backend_summary_is_up_to_date, e_book_backend_summary_load,
       AllItemsRead
  <2>1. TypeOK'
    BY <1>0, <1>1, <2>0 DEF IInv, TypeOK, File, Doubts
  <2>2. memDoubt' = {} => memDoubt = {} /\ fileDoubt = {} /\ Opened.items = db
    BY <1>1, <1>4, <2>0 DEF Fresh, File, IInv, TypeOK
  <2>3. MemFollowsDb' /\ FilesFollowDb'
    BY <1>0, <2>0, <2>2 DEF MemFollowsDb, FilesFollowDb, Fresh
  <2>4. TimerHasSource' /\ ChangesAreDirty'
    BY <1>0, <2>0 DEF TimerHasSource, ChangesAreDirty
  <2> QED BY <1>2, <1>3, <2>1, <2>3, <2>4 DEF IInv
<1>6. CASE ~(e_book_backend_summary_is_up_to_date /\ e_book_backend_summary_load)
  <2>0. PICK read \in SUBSET db :
        /\ mem' = read /\ memDoubt' = IF read = db THEN {} ELSE {"unread"}
        /\ IF read # {} THEN e_book_backend_summary_touch /\ fileDoubt' = {}
           ELSE /\ UNCHANGED <<dirty, timer, sources>>
                /\ fileDoubt' = IF Opened.kind = "whole" THEN {"emptied"} ELSE {}
    BY <1>6 DEF LoadSource
  <2>1. TypeOK'
    <3>1. dirty' \in BOOLEAN /\ timer' \in BOOLEAN /\ sources' \in Nat
      <4>1. CASE e_book_backend_summary_touch
        BY <4>1, TouchHasTypes DEF IInv
      <4>2. CASE UNCHANGED <<dirty, timer, sources>>
        BY <4>2 DEF IInv, TypeOK
      <4> QED BY <2>0, <4>1, <4>2
    <3>2. fileDoubt' \subseteq Doubts /\ memDoubt' \subseteq Doubts
      BY <2>0 DEF Doubts
    <3>3. mem' \in SUBSET Items
      BY <2>0 DEF IInv, TypeOK
    <3> QED BY <1>0, <1>1, <3>1, <3>2, <3>3 DEF IInv, TypeOK
  <2>2. ~(Opened.kind = "whole" /\ Opened.mtime > dbTime)
    BY <1>1, <1>6 DEF e_book_backend_summary_is_up_to_date, e_book_backend_summary_load,
       AllItemsRead, File, IInv, TypeOK
  <2>3. MemFollowsDb' /\ FilesFollowDb'
    <3>1. memDoubt' = {} => mem' = db
      BY <2>0
    <3> QED BY <1>0, <1>1, <2>2, <3>1 DEF MemFollowsDb, FilesFollowDb, Fresh
  <2>4. TimerHasSource' /\ ChangesAreDirty'
    BY <1>0, <2>0 DEF TimerHasSource, ChangesAreDirty, e_book_backend_summary_touch
  <2> QED BY <1>2, <1>3, <2>1, <2>3, <2>4 DEF IInv
<1> QED BY <1>5, <1>6

LEMMA StepKeeps == IInv /\ [Next]_vars => IInv'
<1> SUFFICES ASSUME IInv, [Next]_vars PROVE IInv'
  OBVIOUS
<1>1. CASE UNCHANGED vars
  BY <1>1 DEF vars, IInv, TypeOK, DownIsIdle, PastTimes, MemFollowsDb, SaveFollowsMem, Undisturbed,
     Holds, LostIsGone, NewIsSpare, FilesFollowDb, Fresh, TimerHasSource, ChangesAreDirty
<1> QED BY <1>1, TickKeeps, WriteKeeps, UpdateSummaryKeeps, FinishWriteKeeps, FailWriteKeeps,
           UnlinkKeeps, RenameKeeps, FinishSaveKeeps, FlushKeeps, DisposeKeeps, CrashKeeps,
           LoadSourceKeeps DEF Next, SaveStep

----------------------------------------------------------------------------
(* Theorems *)

(* The invariant holds in every state, wherever the process was killed.    *)
THEOREM SummarySafety == Spec => []IInv
BY InitHolds, StepKeeps, PTL DEF Spec

(* Types: memory and the files of e-book-backend-summary.c keep theirs.    *)
THEOREM SummaryTypeCorrect == Spec => []TypeOK
<1>1. IInv => TypeOK
  BY DEF IInv
<1> QED BY SummarySafety, <1>1, PTL

(* After any crashes and restarts the summary e_book_backend_file_load_    *)
(* source has loaded or built is of the database, but for the known doubts.*)
THEOREM RestartIsSafe == Spec => []SummaryIsCurrent
<1>1. IInv => SummaryIsCurrent
  BY DEF IInv, MemFollowsDb, SummaryIsCurrent, Current
<1> QED BY SummarySafety, <1>1, PTL

(* priv->dirty is set whenever memory and the saved file differ.           *)
THEOREM NothingUnmarked == Spec => []ChangesAreDirty
<1>1. IInv => ChangesAreDirty
  BY DEF IInv
<1> QED BY SummarySafety, <1>1, PTL

(* A dirty summary has a timeout of the main loop to save it.              *)
THEOREM DirtyWillBeSaved == Spec => []DirtyHasTimeout
<1>1. IInv => DirtyHasTimeout
  BY DEF IInv, TimerHasSource, DirtyHasTimeout
<1> QED BY SummarySafety, <1>1, PTL

(* No step of a save, and no crash in it, leaves e_book_backend_summary_   *)
(* open without a whole summary when there was one, unless an error that   *)
(* the save does not test tore the file or kept its old name.              *)
THEOREM SaveReplacesFile == Spec => SavedStaysSaved
<1>1. ASSUME IInv, Next, Opened.kind = "whole", ~lost
      PROVE  Opened'.kind = "whole"
  <2>0. file \in File /\ new \in File /\ save.pc \in {"idle", "write", "unlink", "rename", "clean"}
    BY <1>1 DEF IInv, TypeOK
  <2>1. CASE Tick \/ Write \/ UpdateSummary \/ FinishSave \/ Crash
    BY <1>1, <2>1 DEF Tick, Write, UpdateSummary, FinishSave, Crash, Opened, Recovers
  <2>2. CASE FinishWrite \/ FailWrite
    <3>1. new.kind = "torn" /\ file' = file
      BY <1>1, <2>2 DEF IInv, SaveFollowsMem, FinishWrite, FailWrite
    <3> QED BY <1>1, <3>1 DEF Opened, Recovers
  <2>3. CASE Unlink \/ Rename
    <3>1. new.kind = "whole"
      BY <1>1, <2>3 DEF IInv, SaveFollowsMem, Holds, Unlink, Rename
    <3>2. (file'.kind = "none" /\ new' = new) \/ file' = new
      BY <1>1, <2>3 DEF IInv, SaveFollowsMem, Unlink, Rename, NoFile
    <3> QED BY <3>1, <3>2 DEF Opened, Recovers
  <2>4. CASE summary_flush_func \/ Dispose
    <3>1. file.kind = "whole"
      BY <1>1, <2>4 DEF IInv, LostIsGone, NewIsSpare, Opened, Recovers, summary_flush_func, Dispose
    <3>2. file' = file \/ file' = [file EXCEPT !.mtime = now]
      BY <2>4 DEF summary_flush_func, Dispose
    <3> QED BY <2>0, <3>1, <3>2 DEF Opened, Recovers, File
  <2>5. CASE LoadSource
    BY <1>1, <2>5 DEF LoadSource, Opened, Recovers
  <2> QED BY <1>1, <2>1, <2>2, <2>3, <2>4, <2>5 DEF Next, SaveStep
<1>2. IInv /\ [Next]_vars
        => [Opened.kind = "whole" /\ ~lost => Opened'.kind = "whole"]_vars
  BY <1>1
<1> QED BY SummarySafety, <1>2, PTL DEF Spec, SavedStaysSaved
=============================================================================
