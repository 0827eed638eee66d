------------------------ MODULE EBookBackendSummary ------------------------
(***************************************************************************)
(* The summary of an address book on disk: how e-book-backend-summary.c    *)
(* saves it, and how the file backend decides on opening the book whether  *)
(* the saved summary may be loaded or must be built anew.  The process may *)
(* be killed between any two steps; what is on disk stays.                 *)
(*                                                                         *)
(* Two threads touch the summary without a lock: the one that serves a     *)
(* request, and the main loop, which runs summary_flush_func.  A file is a *)
(* record [kind, items, mtime]: kind "torn" is one whose header announces  *)
(* items it does not hold.  Times are in seconds, the granularity of       *)
(* st_mtime.                                                               *)
(***************************************************************************)
EXTENDS Integers, FiniteSets

CONSTANTS
  Items,       \* the contacts a book can hold
  MaxTime,     \* bound: seconds that pass
  MaxWrites,   \* bound: requests that write the database
  MaxCrashes   \* bound: times the process is killed

ASSUME SummaryAssumption ==
  IsFiniteSet(Items) /\ MaxTime \in Nat /\ MaxWrites \in Nat /\ MaxCrashes \in Nat

VARIABLES
  now,         \* the clock
  db, dbTime,  \* the database and the mtime of its file
  file, new,   \* the files summary_path and summary_path.new
  up,          \* the book is loaded
  mem,         \* priv->items
  dirty,       \* priv->dirty
  timer,       \* priv->flush_timeout is not 0
  sources,     \* timeouts of summary_flush_func the main loop will run
  save,        \* e_book_backend_summary_save: where it is, what its header announced
  closing,     \* the save is that of dispose
  pending,     \* written to the database and not yet to the summary
  writes, crashes,
  lost,        \* history: the last save left no whole summary_path and did not notice
  fileDoubt,   \* history: why the saved summary may not be the one in memory
  memDoubt     \* history: why the one in memory may not be of the database

vars == <<now, db, dbTime, file, new, up, mem, dirty, timer, sources, save,
          closing, pending, writes, crashes, lost, fileDoubt, memDoubt>>
doubts == <<lost, fileDoubt, memDoubt>>

File == [kind : {"none", "whole", "torn"}, items : SUBSET Items, mtime : 0..MaxTime]
NoFile == [kind |-> "none", items |-> {}, mtime |-> 0]
Unsaved == [pc |-> "idle", items |-> {}]

Change == [op : {"add", "remove"}, item : Items]

Doubts == {"unsynced", "overlap", "late", "second", "emptied", "unread"}

TypeOK ==
  /\ now \in 0..MaxTime /\ dbTime \in 0..MaxTime
  /\ db \in SUBSET Items /\ mem \in SUBSET Items
  /\ file \in File /\ new \in File
  /\ up \in BOOLEAN /\ dirty \in BOOLEAN /\ timer \in BOOLEAN /\ closing \in BOOLEAN
  /\ sources \in Nat
  /\ save \in [pc : {"idle", "write", "unlink", "rename", "clean"}, items : SUBSET Items]
  /\ pending \in SUBSET Change /\ Cardinality(pending) <= 1
  /\ writes \in 0..MaxWrites /\ crashes \in 0..MaxCrashes
  /\ lost \in BOOLEAN /\ fileDoubt \subseteq Doubts /\ memDoubt \subseteq Doubts

Init ==
  /\ now = 0 /\ db = {} /\ dbTime = 0
  /\ file = NoFile /\ new = NoFile
  /\ up = FALSE /\ mem = {} /\ dirty = FALSE
  /\ timer = FALSE /\ sources = 0
  /\ save = Unsaved /\ closing = FALSE
  /\ pending = {} /\ writes = 0 /\ crashes = 0
  /\ lost = FALSE /\ fileDoubt = {} /\ memDoubt = {}

Tick ==
  /\ now < MaxTime
  /\ now' = now + 1
  /\ UNCHANGED <<db, dbTime, file, new, up, mem, dirty, timer, sources, save,
                 closing, pending, writes, crashes, doubts>>

----------------------------------------------------------------------------
(* A request: db->put or db->del with db->sync, then, unless the sync of a *)
(* put failed, the summary.                                                *)

Applied(S, c) == IF c.op = "add" THEN S \cup {c.item} ELSE S \ {c.item}

Write ==
  /\ up /\ pending = {} /\ ~closing /\ writes < MaxWrites
  /\ \E c \in Change :
       /\ Applied(db, c) # db
       /\ db' = Applied(db, c)
       /\ \/ pending' = {c} /\ UNCHANGED memDoubt
          \/ c.op = "add" /\ memDoubt' = memDoubt \cup {"unsynced"} /\ UNCHANGED pending
  /\ dbTime' = now
  /\ writes' = writes + 1
  /\ UNCHANGED <<now, file, new, up, mem, dirty, timer, sources, save, closing,
                 crashes, lost, fileDoubt>>

\* mutants: the summary is not marked; no timeout is added
TouchNotDirty == UNCHANGED dirty /\ timer' = TRUE /\ sources' = sources + 1
TouchNoTimeout == dirty' = TRUE /\ UNCHANGED <<timer, sources>>

\* a timeout is added unless there is one: flush_timeout_millis is not 0
e_book_backend_summary_touch ==
  /\ dirty' = TRUE
  /\ timer' = TRUE
  /\ sources' = IF timer THEN sources ELSE sources + 1

\* e_book_backend_summary_add_contact, e_book_backend_summary_remove_contact
UpdateSummary ==
  /\ \E c \in pending :
       /\ mem' = Applied(mem, c)
       /\ IF c.op = "add" \/ c.item \in mem THEN e_book_backend_summary_touch
          ELSE UNCHANGED <<dirty, timer, sources>>
  /\ pending' = {}
  /\ fileDoubt' = fileDoubt \cup (IF save.pc # "idle" THEN {"overlap"} ELSE {})
  /\ UNCHANGED <<now, db, dbTime, file, new, up, save, closing, writes, crashes, lost,
                 memDoubt>>

----------------------------------------------------------------------------
(* e_book_backend_summary_save *)

(* Opens summary_path.new and writes the header with the number of items.  *)
BeginSave ==
  /\ new' = [kind |-> "torn", items |-> {}, mtime |-> now]
  /\ save' = [pc |-> "write", items |-> mem]

\* mutant: a timeout is removed whether or not there is one
RemoveAnySource == {sources - 1}

\* g_source_remove (flush_timeout): the timeout that runs, or another
RemoveSource == IF timer /\ sources > 0 THEN {sources, sources - 1} ELSE {sources}

(* Writes the items and closes the file.  It holds too little if fclose    *)
(* could not write what was buffered, which is not tested, or if contacts  *)
(* were removed since the header was written.                              *)
FinishWrite ==
  /\ save.pc = "write"
  /\ \E k \in {"whole", "torn"} :
       /\ new' = [kind |-> k, items |-> save.items, mtime |-> now]
       /\ lost' = (k = "torn")
  /\ save' = [save EXCEPT !.pc = "unlink"]
  /\ timer' = FALSE
  /\ sources' \in RemoveSource
  /\ fileDoubt' = fileDoubt \cup (IF pending # {} THEN {"late"} ELSE {})
  /\ UNCHANGED <<now, db, dbTime, file, up, mem, dirty, closing, pending, writes,
                 crashes, memDoubt>>

\* what is left of the process after dispose or a crash
Down ==
  /\ up' = FALSE /\ mem' = {} /\ dirty' = FALSE /\ timer' = FALSE
  /\ sources' = 0 /\ save' = Unsaved /\ closing' = FALSE /\ pending' = {}

\* mutant: summary_flush_func does not ask to be run again
FailGivesUp ==
  /\ save.pc = "write"
  /\ new' = NoFile
  /\ IF closing THEN Down
     ELSE save' = Unsaved /\ UNCHANGED <<up, mem, dirty, timer, sources, closing, pending>>
  /\ UNCHANGED <<now, db, dbTime, file, writes, crashes, doubts>>

(* The label lose: summary_path.new is removed.  summary_flush_func asks   *)
(* to be run again; dispose gives up.                                      *)
FailWrite ==
  /\ save.pc = "write"
  /\ new' = NoFile
  /\ IF closing THEN Down
     ELSE /\ save' = Unsaved /\ sources' = sources + 1
          /\ UNCHANGED <<up, mem, dirty, timer, closing, pending>>
  /\ UNCHANGED <<now, db, dbTime, file, writes, crashes, doubts>>

Unlink ==
  /\ save.pc = "unlink"
  /\ file' = NoFile
  /\ save' = [save EXCEPT !.pc = "rename"]
  /\ UNCHANGED <<now, db, dbTime, new, up, mem, dirty, timer, sources, closing,
                 pending, writes, crashes, doubts>>

\* the result of g_rename is not tested either
Rename ==
  /\ save.pc = "rename"
  /\ \/ file' = new /\ new' = NoFile /\ UNCHANGED lost
     \/ lost' = TRUE /\ UNCHANGED <<file, new>>
  /\ save' = [save EXCEPT !.pc = "clean"]
  /\ UNCHANGED <<now, db, dbTime, up, mem, dirty, timer, sources, closing,
                 pending, writes, crashes, fileDoubt, memDoubt>>

(* dirty is reset, whatever changed meanwhile, and summary_flush_func sets *)
(* flush_timeout to 0.                                                     *)
FinishSave ==
  /\ save.pc = "clean"
  /\ fileDoubt' = IF file.kind = "whole" /\ mem = file.items /\ pending = {}
                  THEN {} ELSE fileDoubt
  /\ IF closing THEN Down
     ELSE /\ save' = Unsaved /\ dirty' = FALSE /\ timer' = FALSE
          /\ UNCHANGED <<up, mem, sources, closing, pending>>
  /\ UNCHANGED <<now, db, dbTime, file, new, writes, crashes, lost, memDoubt>>

\* the main loop runs a timeout
summary_flush_func ==
  /\ up /\ sources > 0 /\ save.pc = "idle"
  /\ sources' = sources - 1
  /\ IF dirty THEN BeginSave /\ UNCHANGED timer
     ELSE timer' = FALSE /\ UNCHANGED <<new, save>>
  /\ UNCHANGED <<now, db, dbTime, file, up, mem, dirty, closing, pending,
                 writes, crashes, doubts>>

----------------------------------------------------------------------------
(* e_book_backend_file_dispose, when the last client is gone: the database *)
(* is closed, which writes what a failed sync left; a summary that is not  *)
(* dirty is marked as current with utime.                                  *)
Dispose ==
  /\ up /\ save.pc = "idle" /\ pending = {} /\ ~closing
  /\ dbTime' = IF "unsynced" \in memDoubt THEN now ELSE dbTime
  /\ \/ /\ dirty /\ BeginSave /\ closing' = TRUE
        /\ UNCHANGED <<file, up, mem, dirty, timer, sources, pending>>
     \/ /\ ~dirty
        /\ file' = IF file.kind = "none" THEN file ELSE [file EXCEPT !.mtime = now]
        /\ Down
        /\ UNCHANGED new
  /\ UNCHANGED <<now, db, writes, crashes, doubts>>

Crash ==
  /\ up /\ crashes < MaxCrashes
  /\ crashes' = crashes + 1
  /\ Down
  /\ UNCHANGED <<now, db, dbTime, file, new, writes, doubts>>

\* mutant: the new summary is not looked for
NeverRecovers == FALSE

(* e_book_backend_summary_open: a missing summary is looked for under the  *)
(* name of the new one.                                                    *)
Recovers == file.kind = "none" /\ new.kind # "none"
Opened == IF Recovers THEN new ELSE file

\* mutant: the times are not compared
AlwaysUpToDate == Opened.kind # "none"

e_book_backend_summary_is_up_to_date == Opened.kind # "none" /\ Opened.mtime >= dbTime

(* e_book_backend_summary_load_item succeeds for as many items as the      *)
(* header announces; the load fails if one is missing.                     *)
AllItemsRead(f) == f.kind = "whole"

e_book_backend_summary_load == AllItemsRead(Opened)

(* e_book_backend_file_load_source: loads the summary if it is up to date  *)
(* and whole, else builds it, adding (and so touching) contact by contact. *)
(* An error of the cursor ends build_summary before the last contact and   *)
(* is only logged.                                                         *)
LoadSource ==
  /\ ~up
  /\ up' = TRUE
  /\ file' = Opened
  /\ new' = IF Recovers THEN NoFile ELSE new
  /\ lost' = FALSE
  /\ IF e_book_backend_summary_is_up_to_date /\ e_book_backend_summary_load
     THEN /\ mem' = Opened.items
          /\ dirty' = FALSE /\ UNCHANGED <<timer, sources>>
          /\ memDoubt' = memDoubt \cup fileDoubt
                         \cup (IF Opened.mtime = dbTime THEN {"second"} ELSE {})
          /\ UNCHANGED fileDoubt
     ELSE \E read \in SUBSET db :
          /\ mem' = read
          /\ memDoubt' = IF read = db THEN {} ELSE {"unread"}
          /\ IF read # {} THEN e_book_backend_summary_touch /\ fileDoubt' = {}
             ELSE /\ UNCHANGED <<dirty, timer, sources>>
                  /\ fileDoubt' = IF Opened.kind = "whole" THEN {"emptied"} ELSE {}
  /\ UNCHANGED <<now, db, dbTime, save, closing, pending, writes, crashes>>

----------------------------------------------------------------------------
SaveStep == FinishWrite \/ FailWrite \/ Unlink \/ Rename \/ FinishSave

Next ==
  \/ Tick \/ Write \/ UpdateSummary
  \/ SaveStep \/ summary_flush_func
  \/ Dispose \/ Crash \/ LoadSource

Spec == Init /\ [][Next]_vars

(* The main loop runs its timeouts and each save goes on; a write of the   *)
(* file that is tried again and again succeeds in the end.                 *)
Fairness ==
  /\ WF_vars(summary_flush_func) /\ SF_vars(FinishWrite)
  /\ WF_vars(Unlink \/ Rename \/ FinishSave)

FairSpec == Spec /\ Fairness

----------------------------------------------------------------------------
(* Properties *)

Current == up /\ pending = {} => mem = db

(* A summary that was loaded or built, and kept up since, is a summary of  *)
(* the database, whatever crashes and restarts went before: a summary that *)
(* is out of date or torn is built anew.  The history names the known      *)
(* causes for which this is not claimed: a failed sync, a contact changed  *)
(* during a save, a save between a write and its summary, a database       *)
(* written in the very second of the save, a database found empty, and a   *)
(* database that could not be read to its end.                             *)
SummaryIsCurrent == memDoubt = {} => Current

(* What is not on disk is marked dirty: a clean exit saves it and a        *)
(* timeout will, unless the change came during a save or an error of       *)
(* fclose or g_rename, which the save does not test, lost the file.        *)
ChangesAreDirty ==
  up /\ save.pc = "idle" /\ fileDoubt = {} /\ ~lost /\ ~dirty
    => mem = IF file.kind = "whole" THEN file.items ELSE {}

(* While the summary is dirty there is a timeout for it, or a save is on.  *)
DirtyHasTimeout == up /\ dirty /\ save.pc = "idle" => sources > 0

(* A saved summary is replaced, never lost: once opening the book would    *)
(* find a whole summary, it would at every later step, wherever in a save  *)
(* the process is killed and whatever contacts change during it, unless    *)
(* the file the save has closed is torn or was not renamed.                *)
SavedStaysSaved == [][Opened.kind = "whole" /\ ~lost => Opened'.kind = "whole"]_vars

(* A change is flushed: a dirty summary does not stay dirty while the      *)
(* process lives.                                                          *)
DirtyIsFlushed == dirty ~> ~dirty

(* The documentation of e_book_backend_summary_load: "The load is          *)
(* successful if the file was located, it was in the correct format, and   *)
(* it was not out of date."                                                *)
LoadedIsNotOutOfDate == memDoubt \subseteq {"emptied"} => Current
=============================================================================
