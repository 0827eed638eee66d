----------------------------- MODULE CamelStore -----------------------------
(***************************************************************************)
(* Folders of a mail store (camel/camel-store.c) with their bag, the       *)
(* virtual trash folder that shows the open folders, and the directories   *)
(* on disk that the maildir provider keeps.  A step is one call of the     *)
(* bag, of the provider or of the virtual folder.  Names have no           *)
(* subfolders, and vJunk, which is treated like vTrash after it, is left   *)
(* out.                                                                    *)
(***************************************************************************)
EXTENDS CamelObjectBag

CONSTANTS VTrash,        \* CAMEL_VTRASH_NAME
          OnDisk,        \* the maildirs there are at the start
          MaxCalls       \* bound: calls made of the store

Names == Keys \ {VTrash}

ASSUME StoreAssumption == VTrash \in Keys /\ OnDisk \subseteq Names /\ MaxCalls \in Nat

\* References can be counted.
ASSUME FiniteAssumption == IsFiniteSet(Threads) /\ IsFiniteSet(Objects)

VARIABLES thread,        \* what each thread does, with its local variables
          folderLock,    \* the thread that holds folder_lock of the store
          disk,          \* names of which there is a maildir
          subs,          \* the folders of each virtual folder
          calls,         \* calls made so far
          missed,        \* history: folders opened while the trash was filled
          strayed        \* history: folders left in the bag without a maildir

vars == <<bagVars, thread, folderLock, disk, subs, calls, missed, strayed>>

\* Where a thread is: in no call, with or without a folder; in get_folder, which
\* delete_folder calls as well; in delete_folder; in rename_folder.
Places == {"idle", "keeps",
           "reserving", "exclAbort", "open", "abort", "trash", "trashWait", "addSub",
           "unrefTrash", "add", "list", "fill",
           "delLock", "delMeta", "delState",
           "delGet", "delWait", "delTrash", "delTrashWait", "delSub", "delUnrefTrash",
           "delMark", "delBag", "unlock",
           "renLock", "renGet", "renWait", "renMove", "renUnref", "rekey"}

\* folder is also the folder a caller keeps; vfolder is the trash or, in
\* rename_folder, the folder of the provider; list is what is left of a
\* camel_object_bag_list; ok is the provider's answer; deleting says that
\* get_folder was called by delete_folder.
Thread == [pc : Places, name : Keys, new : Keys,
           create : BOOLEAN, excl : BOOLEAN, ok : BOOLEAN, deleting : BOOLEAN,
           folder : Objects \cup {NoObject},
           vfolder : Objects \cup {NoObject}, list : SUBSET Objects]

\* A thread that is in no call.
Idle == [pc |-> "idle", name |-> VTrash, new |-> VTrash, create |-> FALSE, excl |-> FALSE,
         folder |-> NoObject, vfolder |-> NoObject, list |-> {}, ok |-> FALSE,
         deleting |-> FALSE]

Init ==
    /\ BagInit
    /\ thread = [t \in Threads |-> Idle]
    /\ folderLock = NoThread
    /\ disk = OnDisk
    /\ subs = [o \in Objects |-> {}]
    /\ calls = 0
    /\ missed = {}
    /\ strayed = {}

-----------------------------------------------------------------------------
At(t, p) == ~aborted /\ thread[t].pc = p

\* A call of the store begins.
Call(t) == At(t, "idle") /\ calls < MaxCalls /\ calls' = calls + 1

Become(t, r) == thread' = [thread EXCEPT ![t] = r]

Go(t, p) == Become(t, [thread[t] EXCEPT !.pc = p])

\* Where a thread goes after a lookup of k.
After(k, found, none, wait) ==
    IF objectTable[k] # NoObject THEN found ELSE IF reserved[k].there THEN wait ELSE none

\* camel_object_bag_get(VTrash), and what is left of it after a wait
GetTrash(t, found, none, wait) ==
    /\ camel_object_bag_get(t, VTrash)
    /\ Become(t, [thread[t] EXCEPT !.vfolder = objectTable[VTrash],
                                   !.pc = After(VTrash, found, none, wait)])
    /\ UNCHANGED <<calls, folderLock, disk, subs, missed, strayed>>

GetTrashWoken(t, found, none) ==
    /\ get_woken(t, VTrash)
    /\ Become(t, [thread[t] EXCEPT !.vfolder = objectTable[VTrash],
                                   !.pc = After(VTrash, found, none, none)])
    /\ UNCHANGED <<calls, folderLock, disk, subs, missed, strayed>>

\* camel_object_unref; what the histories say of an object ends with it.
Unref(o) ==
    /\ camel_object_unref(o)
    /\ missed' = IF refCount[o] = 1 THEN missed \ {o} ELSE missed
    /\ strayed' = IF refCount[o] = 1 THEN strayed \ {o} ELSE strayed

Untouched == UNCHANGED <<bagVars, missed, strayed>>

UnrefVFolder(t, then) ==
    /\ Unref(thread[t].vfolder)
    /\ Become(t, [thread[t] EXCEPT !.vfolder = NoObject, !.pc = then])
    /\ UNCHANGED <<calls, folderLock, disk, subs>>

-----------------------------------------------------------------------------
(* camel_store_get_folder                                                  *)

\* get_folder returns: its caller has a reference to the folder.
Returned(r, f) ==
    IF r.deleting
    THEN [Idle EXCEPT !.pc = "delState", !.name = r.name, !.folder = f]
    ELSE [Idle EXCEPT !.pc = "keeps", !.folder = f]

\* get_folder returns NULL.
Failed(r) == IF r.deleting THEN [Idle EXCEPT !.pc = "delGet", !.name = r.name] ELSE Idle

\* A folder that is in the bag is returned, unless the caller wants a new one.
Reserved(t, r, wait) ==
    LET f == objectTable[r.name] IN
    Become(t, IF f = NoObject THEN [r EXCEPT !.pc = After(r.name, "open", "open", wait)]
              ELSE IF r.excl THEN [r EXCEPT !.folder = f, !.pc = "exclAbort"]
              ELSE Returned(r, f))

get_folder(t, k, create, excl) ==
    /\ Call(t)
    /\ camel_object_bag_reserve(t, k)
    /\ Reserved(t, [Idle EXCEPT !.name = k, !.create = create, !.excl = excl /\ create], "reserving")
    /\ UNCHANGED <<folderLock, disk, subs, missed, strayed>>

get_folder_reserved(t) ==
    /\ At(t, "reserving")
    /\ reserve_woken(t, thread[t].name)
    /\ Reserved(t, thread[t], "open")
    /\ UNCHANGED <<calls, folderLock, disk, subs, missed, strayed>>

\* The bag has the folder, so that the caller has reserved nothing.
get_folder_excl(t) ==
    /\ At(t, "exclAbort")
    /\ camel_object_bag_abort(t, thread[t].name)
    /\ Become(t, Returned(thread[t], thread[t].folder))
    /\ UNCHANGED <<calls, folderLock, disk, subs, missed, strayed>>

\* Memory that neither an object nor its finaliser uses.  Which of it the
\* allocator takes makes no difference.
Unused == {o \in Objects : refCount[o] = 0 /\ subs[o] = {}}

NewFolder(t, then) ==
    LET o == CHOOSE u \in Unused : TRUE IN
    /\ Unused # {}
    /\ camel_object_new(t, o)
    /\ Become(t, [thread[t] EXCEPT !.folder = o, !.pc = then])
    /\ UNCHANGED <<calls, folderLock, subs, missed, strayed>>

\* get_folder of the maildir provider: the directory is there, or is made.
get_folder_open(t) ==
    LET k == thread[t].name IN
    /\ At(t, "open") /\ k # VTrash
    /\ IF k \in disk THEN ~thread[t].excl ELSE thread[t].create
    /\ NewFolder(t, "trash")
    /\ disk' = disk \cup {k}

get_folder_fail(t) ==
    /\ At(t, "open") /\ thread[t].name # VTrash
    /\ Go(t, "abort")
    /\ UNCHANGED <<bagVars, calls, folderLock, disk, subs, missed, strayed>>

\* mutant: the trash is not waited for
PeeksAtTrash(t) ==
    /\ At(t, "trash")
    /\ \/ camel_object_bag_peek(t, VTrash)
       \/ objectTable[VTrash] = NoObject /\ UNCHANGED bagVars
    /\ Become(t, [thread[t] EXCEPT !.vfolder = objectTable[VTrash],
                                   !.pc = After(VTrash, "addSub", "add", "add")])
    /\ UNCHANGED <<calls, folderLock, disk, subs, missed, strayed>>

get_folder_trash(t) == At(t, "trash") /\ GetTrash(t, "addSub", "add", "trashWait")

get_folder_trash_woken(t) == At(t, "trashWait") /\ GetTrashWoken(t, "addSub", "add")

\* camel_vee_folder_add_folder takes a reference to the folder.
get_folder_add_sub(t) ==
    /\ At(t, "addSub")
    /\ camel_object_ref(thread[t].folder)
    /\ subs' = [subs EXCEPT ![thread[t].vfolder] = @ \cup {thread[t].folder}]
    /\ Go(t, "unrefTrash")
    /\ UNCHANGED <<calls, folderLock, disk, missed, strayed>>

get_folder_unref_trash(t) == At(t, "unrefTrash") /\ UnrefVFolder(t, "add")

get_folder_add(t) ==
    /\ At(t, "add")
    /\ camel_object_bag_add(t, thread[t].name, thread[t].folder)
    /\ Become(t, Returned(thread[t], thread[t].folder))
    /\ UNCHANGED <<calls, folderLock, disk, subs, missed, strayed>>

get_folder_abort(t) ==
    /\ At(t, "abort")
    /\ camel_object_bag_abort(t, thread[t].name)
    /\ Become(t, Failed(thread[t]))
    /\ UNCHANGED <<calls, folderLock, disk, subs, missed, strayed>>

\* The caller of get_folder has used the folder and lets it go.
release_folder(t) ==
    /\ At(t, "keeps")
    /\ Unref(thread[t].folder)
    /\ Become(t, Idle)
    /\ UNCHANGED <<calls, folderLock, disk, subs>>

(* get_special: the trash is made from the folders that are in the bag.    *)

get_special_new(t) ==
    /\ At(t, "open") /\ thread[t].name = VTrash
    /\ NewFolder(t, "list")
    /\ UNCHANGED disk

\* A folder whose thread has looked for the trash, and has not added it to the
\* bag, is missed by both.
get_special_list(t) ==
    /\ At(t, "list")
    /\ camel_object_bag_list(t)
    /\ Become(t, [thread[t] EXCEPT !.list = Filed, !.pc = "fill"])
    /\ missed' = missed \cup {thread[u].folder : u \in {w \in Threads : thread[w].pc = "add"}}
    /\ UNCHANGED <<calls, folderLock, disk, subs, strayed>>

\* The reference of the list becomes that of the virtual folder.
get_special_fill(t) ==
    /\ At(t, "fill")
    /\ \/ thread[t].list = {} /\ Go(t, "add") /\ UNCHANGED subs
       \/ \E f \in thread[t].list :
             /\ subs' = [subs EXCEPT ![thread[t].folder] = @ \cup {f}]
             /\ Become(t, [thread[t] EXCEPT !.list = @ \ {f}])
    /\ UNCHANGED <<bagVars, calls, folderLock, disk, missed, strayed>>

\* camel_vee_folder_finalise: a virtual folder whose count has reached 0 lets
\* its folders go one by one.
vee_folder_finalise(v) ==
    /\ refCount[v] = 0
    /\ \E f \in subs[v] : /\ Unref(f)
                          /\ subs' = [subs EXCEPT ![v] = @ \ {f}]
    /\ UNCHANGED <<calls, thread, folderLock, disk>>

-----------------------------------------------------------------------------
(* camel_store_delete_folder with delete_folder of the maildir provider,   *)
(* which removes the directories, and of the local provider, which removes *)
(* the files that go with them.                                            *)

delete_folder(t, k) ==
    /\ Call(t)
    /\ Become(t, [Idle EXCEPT !.pc = "delLock", !.name = k])
    /\ UNCHANGED <<bagVars, folderLock, disk, subs, missed, strayed>>

\* folder_lock is locked.  Where there is no maildir, or it is not empty, the
\* directories are made again and the call is over.
delete_folder_dir(t) ==
    LET k == thread[t].name IN
    /\ At(t, "delLock")
    /\ folderLock = NoThread
    /\ \/ Become(t, Idle) /\ UNCHANGED <<folderLock, disk>>
       \/ /\ k \in disk /\ disk' = disk \ {k}
          /\ folderLock' = t
          /\ Go(t, "delMeta")
    /\ UNCHANGED <<bagVars, calls, subs, missed, strayed>>

\* The objects of k, in the bag or on their way into it
OpenAs(k) == {objectTable[k]} \cup
             {thread[u].folder : u \in {w \in Threads : thread[w].name = k /\
                 thread[w].pc \in {"trash", "trashWait", "addSub", "unrefTrash", "add"}}}

\* A file of the folder cannot be removed: the call fails, without a look at
\* the folder in the bag.
delete_folder_fail(t) ==
    LET k == thread[t].name IN
    /\ At(t, "delMeta") \/ At(t, "delGet")
    /\ Become(t, Idle)
    /\ folderLock' = NoThread
    /\ strayed' = IF k \in disk THEN strayed ELSE strayed \cup (OpenAs(k) \ {NoObject})
    /\ UNCHANGED <<bagVars, calls, disk, subs, missed>>

\* camel_store_get_folder(name, 0), for the name of the state file
delete_folder_state(t) ==
    /\ At(t, "delMeta")
    /\ camel_object_bag_reserve(t, thread[t].name)
    /\ Reserved(t, [thread[t] EXCEPT !.deleting = TRUE], "reserving")
    /\ UNCHANGED <<calls, folderLock, disk, subs, missed, strayed>>

delete_folder_state_unref(t) ==
    /\ At(t, "delState")
    /\ Unref(thread[t].folder)
    /\ Become(t, [thread[t] EXCEPT !.pc = "delGet", !.folder = NoObject])
    /\ UNCHANGED <<calls, folderLock, disk, subs>>

\* The folder that is in the bag, if any; else the call is over.
Deleting(t, wait) ==
    LET k == thread[t].name
        next == After(k, "delTrash", "idle", wait) IN
    /\ Become(t, IF next = "idle" THEN Idle
                 ELSE [thread[t] EXCEPT !.folder = objectTable[k], !.pc = next])
    /\ folderLock' = IF next = "idle" THEN NoThread ELSE folderLock
    /\ UNCHANGED <<calls, disk, subs, missed, strayed>>

delete_folder_get(t) ==
    /\ At(t, "delGet")
    /\ camel_object_bag_get(t, thread[t].name)
    /\ Deleting(t, "delWait")

delete_folder_woken(t) ==
    /\ At(t, "delWait")
    /\ get_woken(t, thread[t].name)
    /\ Deleting(t, "idle")

delete_folder_trash(t) == At(t, "delTrash") /\ GetTrash(t, "delSub", "delMark", "delTrashWait")

delete_folder_trash_woken(t) == At(t, "delTrashWait") /\ GetTrashWoken(t, "delSub", "delMark")

\* camel_vee_folder_remove_folder(v, f): nothing if the folder is not in it.
RemoveSub(t, v, f, then) ==
    /\ IF f \in subs[v] THEN Unref(f) ELSE Untouched
    /\ subs' = [subs EXCEPT ![v] = @ \ {f}]
    /\ Go(t, then)
    /\ UNCHANGED <<calls, folderLock, disk>>

delete_folder_sub(t) ==
    At(t, "delSub") /\ RemoveSub(t, thread[t].vfolder, thread[t].folder, "delUnrefTrash")

delete_folder_unref_trash(t) == At(t, "delUnrefTrash") /\ UnrefVFolder(t, "delMark")

\* camel_folder_delete: a virtual folder that has the folder is told of the
\* "deleted" event and removes it.
camel_folder_delete(t) ==
    LET f == thread[t].folder
        told == {v \in Objects : refCount[v] > 0 /\ f \in subs[v]} IN
    /\ At(t, "delMark")
    /\ \/ \E v \in told : RemoveSub(t, v, f, "delBag")
       \/ told = {} /\ Go(t, "delBag")
          /\ Untouched /\ UNCHANGED <<calls, folderLock, disk, subs>>

\* mutant: a deleted folder stays in the bag
DeleteKeepsCached(t) ==
    /\ At(t, "delBag")
    /\ Go(t, "unlock")
    /\ UNCHANGED <<bagVars, calls, folderLock, disk, subs, missed, strayed>>

delete_folder_bag(t) ==
    /\ At(t, "delBag")
    /\ camel_object_bag_remove(thread[t].folder)
    /\ Go(t, "unlock")
    /\ UNCHANGED <<calls, folderLock, disk, subs, missed, strayed>>

-----------------------------------------------------------------------------
(* camel_store_rename_folder                                               *)

rename_folder(t, old, new) ==
    /\ Call(t)
    /\ Become(t, [Idle EXCEPT !.pc = "renLock", !.name = old, !.new = new])
    /\ UNCHANGED <<bagVars, folderLock, disk, subs, missed, strayed>>

\* folder_lock is locked, and the bag listed without the folders of other
\* names, which are let go.
rename_folder_list(t) ==
    LET f == objectTable[thread[t].name] IN
    /\ At(t, "renLock")
    /\ folderLock = NoThread /\ folderLock' = t
    /\ IF f = NoObject THEN UNCHANGED bagVars ELSE camel_object_ref(f)
    /\ Become(t, [thread[t] EXCEPT !.pc = "renGet", !.folder = f])
    /\ UNCHANGED <<calls, disk, subs, missed, strayed>>

Renaming(t, wait) ==
    /\ Become(t, [thread[t] EXCEPT !.vfolder = objectTable[thread[t].name],
                                   !.pc = After(thread[t].name, "renMove", "renMove", wait)])
    /\ UNCHANGED <<calls, folderLock, disk, subs, missed, strayed>>

\* rename_folder of the local provider looks the folder up for its index.
rename_folder_get(t) ==
    /\ At(t, "renGet")
    /\ camel_object_bag_get(t, thread[t].name)
    /\ Renaming(t, "renWait")

rename_folder_woken(t) ==
    /\ At(t, "renWait")
    /\ get_woken(t, thread[t].name)
    /\ Renaming(t, "renMove")

\* The provider lets its folder go; then an open folder gets its new key.
Renamed(t, vf, ok) == IF vf # NoObject THEN "renUnref"
                      ELSE IF ok /\ thread[t].folder # NoObject THEN "rekey" ELSE "unlock"

\* xrename of a directory: a rename onto a maildir that is there fails, but
\* counts as done because the new name exists.
rename_folder_move(t) ==
    LET old == thread[t].name
        new == thread[t].new IN
    /\ At(t, "renMove")
    /\ \E ok \in BOOLEAN :
          /\ ok => old \in disk
          /\ disk' = IF ok /\ new \notin disk THEN (disk \ {old}) \cup {new} ELSE disk
          /\ strayed' = IF ok THEN strayed \cup (OpenAs(old) \ {thread[t].folder, NoObject})
                        ELSE strayed
          /\ Become(t, [thread[t] EXCEPT !.ok = ok, !.pc = Renamed(t, thread[t].vfolder, ok)])
    /\ UNCHANGED <<bagVars, calls, folderLock, subs, missed>>

rename_folder_unref(t) ==
    /\ At(t, "renUnref")
    /\ UnrefVFolder(t, Renamed(t, NoObject, thread[t].ok))

rename_folder_rekey(t) ==
    /\ At(t, "rekey")
    /\ camel_object_bag_rekey(thread[t].folder, thread[t].new)
    /\ Go(t, "unlock")
    /\ UNCHANGED <<calls, folderLock, disk, subs, missed, strayed>>

\* The end of delete_folder and rename_folder: the folder is let go and
\* folder_lock is unlocked.
unlock_folders(t) ==
    /\ At(t, "unlock")
    /\ IF thread[t].folder = NoObject THEN Untouched ELSE Unref(thread[t].folder)
    /\ Become(t, Idle)
    /\ folderLock' = NoThread
    /\ UNCHANGED <<calls, disk, subs>>

-----------------------------------------------------------------------------
(* A thread inside a call goes on; callers start calls as they like and    *)
(* keep folders as long as they like.                                      *)

Goes(t) ==
    \/ get_folder_reserved(t)
    \/ get_folder_excl(t)
    \/ get_folder_open(t)
    \/ get_folder_fail(t)
    \/ get_folder_trash(t)
    \/ get_folder_trash_woken(t)
    \/ get_folder_add_sub(t)
    \/ get_folder_unref_trash(t)
    \/ get_folder_add(t)
    \/ get_folder_abort(t)
    \/ get_special_new(t)
    \/ get_special_list(t)
    \/ get_special_fill(t)
    \/ delete_folder_dir(t)
    \/ delete_folder_fail(t)
    \/ delete_folder_state(t)
    \/ delete_folder_state_unref(t)
    \/ delete_folder_get(t)
    \/ delete_folder_woken(t)
    \/ delete_folder_trash(t)
    \/ delete_folder_trash_woken(t)
    \/ delete_folder_sub(t)
    \/ delete_folder_unref_trash(t)
    \/ camel_folder_delete(t)
    \/ delete_folder_bag(t)
    \/ rename_folder_list(t)
    \/ rename_folder_get(t)
    \/ rename_folder_woken(t)
    \/ rename_folder_move(t)
    \/ rename_folder_unref(t)
    \/ rename_folder_rekey(t)
    \/ unlock_folders(t)

Next ==
    \/ \E t \in Threads :
          \/ Goes(t)
          \/ release_folder(t)
          \/ \E k \in Names, create, excl \in BOOLEAN : get_folder(t, k, create, excl)
          \/ get_folder(t, VTrash, FALSE, FALSE)
          \/ \E k \in Names : delete_folder(t, k)
          \/ \E old \in Names : \E new \in Names \ {old} : rename_folder(t, old, new)
    \/ \E v \in Objects : vee_folder_finalise(v)

Spec == Init /\ [][Next]_vars

Fairness == /\ \A t \in Threads : WF_vars(Goes(t))
            /\ \A v \in Objects : WF_vars(vee_folder_finalise(v))

FairSpec == Spec /\ Fairness

-----------------------------------------------------------------------------
(* Properties.                                                             *)

TypeOK ==
    /\ BagTypeOK
    /\ thread \in [Threads -> Thread]
    /\ folderLock \in Threads \cup {NoThread}
    /\ disk \in SUBSET Names
    /\ subs \in [Objects -> SUBSET Objects]
    /\ calls \in 0..MaxCalls
    /\ missed \in SUBSET Objects
    /\ strayed \in SUBSET Objects

\* ref_count of every folder is the number of references that local variables,
\* callers, lists and virtual folders own, through every path of get_folder,
\* delete_folder and rename_folder: none is leaked, and none dropped twice.
RefsAreOwned ==
    ~aborted => \A o \in Objects :
       refCount[o] = Cardinality({t \in Threads : thread[t].folder = o})
                   + Cardinality({t \in Threads : thread[t].vfolder = o})
                   + Cardinality({t \in Threads : o \in thread[t].list})
                   + Cardinality({v \in Objects : o \in subs[v]})

InDelete(t) == thread[t].pc \in {"delTrash", "delTrashWait", "delSub", "delUnrefTrash",
                                 "delMark", "delBag"}

\* When trash and folder are both in the bag, the trash has the folder: either
\* get_folder found the trash or get_special found the folder.  Exempt are a
\* folder that is being deleted and one that was on its way into the bag when
\* get_special listed the bag; a clash of two folders, after which the bag may
\* forget a folder for a while, ends the claim.
TrashHasOpenFolders ==
    \A k \in Names :
       LET v == objectTable[VTrash]
           f == objectTable[k] IN
       clashed = {} /\ v # NoObject /\ f # NoObject /\ f \notin missed =>
          f \in subs[v] \/ \E t \in Threads : InDelete(t) /\ thread[t].folder = f

\* A folder in the bag is one on disk, unless the call that deletes or renames
\* it is still on its way.  Exempt are folders that were opened while a rename
\* of their name was running, which camel_store_rename_folder does not list;
\* folders whose deletion failed after their maildir was gone, which
\* camel_store_delete_folder leaves in the bag; and names at which two folders
\* clashed.
OpenFoldersExist ==
    \A k \in Names \ clashed :
       LET f == objectTable[k] IN
       f # NoObject /\ f \notin strayed =>
          \/ k \in disk
          \/ \E t \in Threads : folderLock = t /\ thread[t].name = k

\* Every call of get_folder, delete_folder and rename_folder returns, whoever
\* it waits for: a thread that waits for folder_lock waits for one that may,
\* with the lock, wait for the creator of a folder, a creator waits at most for
\* the creator of the trash, and that one for nobody.  A failed assertion ends
\* the process.
CallsReturn ==
    \A t \in Threads :
       thread[t].pc \notin {"idle", "keeps"} ~> aborted \/ thread[t].pc \in {"idle", "keeps"}
=============================================================================
