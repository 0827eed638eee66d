# A TLA+ model of evolution-data-server

evolution-data-server keeps address books, calendars and mail for the programs of
the GNOME desktop. Clients talk to it over CORBA; it keeps the data in local files
or on remote servers, and tells every client that watches a query what changes.
This directory models the concurrent core of its three parts: of the address book the
views that feed the clients, the file backend that serves requests and populates views
in threads of their own, and the summary it keeps beside its database, in memory and
on disk; of the server process the factories of books and calendars, which start and
drop backends as clients come and go; of the mail library the cache of open folders,
and services that threads connect, disconnect and cancel.

## Inventory

| Part | State | Operations | Hard behaviour | What makes it correct |
|---|---|---|---|---|
| `EDataBookView` (`addressbook/libedata-book/e-data-book-view.c`) | buffers of adds, changes and removals not yet sent, thresholds, table of the ids in the view | `notify_update`, `notify_update_vcard`, `notify_update_prefiltered_vcard`, `notify_remove`, `notify_complete`, `set_thresholds` | several backend threads notify one view; three buffers and one connection | batching loses, duplicates and reorders nothing; a batch adds what the listener lacks and changes or removes what it has; the buffer is large enough |
| `EBookBackendFile` (`addressbook/backends/file/e-book-backend-file.c`) | Berkeley DB of vCards, summary, a closure per view (thread and flag) | `create_contact`, `modify_contact`, `remove_contacts`, `get_contact(_list)`, `get_changes`, `start_book_view`, `stop_book_view`, `load_source`, `remove`, `dispose` | no lock over database, summary and views; the thread of a view reads while requests write; errors of the database between two steps; broken connections | summary and views follow the database; a stop is final; start and stop return |
| `EBookBackendSummary` (`e-book-backend-summary.c`) | items, table of ids, dirty flag, flush timeout; the files `x.summary` and `x.summary.new` | `add_contact`, `remove_contact`, `search`, `touch`, flush timeout, `save`, `open`, `load`, `is_up_to_date`, dispose | the process may be killed anywhere in a save; the main loop saves while requests change the items | what is loaded is a summary of the database; a saved summary is not lost; what is dirty is flushed |
| `EFlag` (`libedataserver/e-flag.c`) | a Boolean, a mutex and a condition | `set`, `clear`, `is_set`, `wait` | clear before the waiter has seen the flag set | a wait returns once the flag stays set |
| `EBookBackend`, `EBookBackendSync`, `EDataBook` | lists of clients and views | dispatch of a request, its answer, `foreach_view` | the list of views is iterated without its mutex | every view is told once, before the request is answered |
| `EDataBookFactory`, `EDataCalFactory` with the client lists of `EBookBackend` and `ECalBackend` | table of running backends; clients and mode of each | `getBook`, `getCal`, `add_client`, `remove_client`, loss of the last client, switch of the mode | lookup, registration and removal take several locks one after the other | who is connected is served by the backend the table knows; a backend in use is not dropped; modes agree |
| The server process (`src/server.c`, `src/offline-listener.c`) | a timeout, the last mode | `last_book_gone`, `last_calendar_gone`, termination, `online_status_changed` | the timeout against new clients | ends when unused, and only then |
| `libebook` | a queue per listener, pending operations of a book | open, requests, start and stop of views | messages dropped while stopped; idle callback against the ORB thread | the client sees what the server sent |
| LDAP, VCF, GroupWise backends | a connection, operations in flight | the same interface | remote servers | |
| Calendar (`calendar/`) | views, client library, CalDAV slave thread | parallel to the address book | the CalDAV slave and its commands, caches | |
| Object bags (`camel/camel-object.c`) | two tables, reservations with owner and waiters, reference counts | `reserve`, `add`, `abort`, `get`, `peek`, `list`, `rekey`, `remove`; `ref`, `unref` | threads that wait for a key and wake when it was taken, given up or freed | one object per key, one creator, no lost wakeup, nothing dead in the bag |
| Stores (`camel-store.c`, `camel-vee-folder.c`, the maildir provider) | the bag of open folders, `folder_lock`, the virtual trash and its folders, directories | `get_folder`, `delete_folder`, `rename_folder`, release of a folder, finalisation of the trash | two locks and a cache that is updated before or after the disk | references balance; open folders exist; the trash shows every open folder; every call returns |
| Services and operations (`camel-service.c`, `camel-operation.c`, `camel-file-utils.c`, POP3) | status, current operation, connection; flag, queue, pipe and count of an operation | `connect`, `disconnect`, `cancel_connect`, `cancel`, `uncancel`, `cancel_check`, cancellable reads | cancellation by another thread at any point; disconnect from within connect | a cancelled call ends, a cancelled connect fails; an operation in use is not freed; the status is true |
| Message ports (`libedataserver/e-msgport.c`) | a queue and a pipe | put, get, fd | the pipe is made after messages were put | a byte for each message that has one |
| Other parts of Camel and `libedataserver` | events, folders, summaries, providers, lists, sources | | hooks removed during an event | |
| Libraries for servers, user interface, vendored Berkeley DB | | | | |

How they interact: the ORB gives each request on a book a thread of its own (the POA
of `EDataBook` is `PER_REQUEST`). `EBookBackendSync` calls the backend, which writes the
database and the summary, and hands the result to `e_data_book_respond_*`, which
notifies every view in the backend's list, completes the views and answers the
client. The POA of a view is `PER_OBJECT`: start and stop of one view do not overlap.
`start_book_view` creates a thread that searches and notifies the view; both it and the requests end in
the `notify_*` functions of the view, which hold `pending_mutex`. The main loop runs
the flush timeout of the summary. ORBit runs `view_listener_died_cb` when a listener's connection breaks.

The factories run in the same process. Requests for a book or calendar have threads of
their own; broken connections of clients, the termination timeout and the notifications of
GConf come one after the other in the main loop. A book backend is kept alive by its
books, a calendar backend by the table alone. In a mail program, any thread calls a store;
the store asks its bag for a folder, opens it through the provider if it is the one that
reserved it, and puts it into the trash, which is itself a folder of the bag. A thread that
does I/O tests and waits for the operation it is registered with, which other threads cancel.

`PROJECT.json` lists every part with its status, and under `hazards` what in this
code is hard to test.

## Modules

| Module | What it is |
|---|---|
| `EDataBookViewOps` | the state of a view as a record and the functions of `e-data-book-view.c` as operators on it |
| `EDataBookView` | one view driven by several threads |
| `BookView` | the abstract specification: what a listener may rely on |
| `EDataBookViewOps_proofs` | lemmas about those functions, for one view record: what each keeps and what the listener believes after it |
| `EDataBookView_proofs` | the theorems about `EDataBookView` |
| `EBookBackendFile` | database, summary in memory, requests, view threads, start, stop and broken connections; it composes the view's operators (`EXTENDS EDataBookViewOps`), one record per view |
| `EBookBackendFile_proofs` | the theorems about `EBookBackendFile`, from the lemmas about the view's functions |
| `EBookBackendSummary` | the summary on disk over several lives of the process |
| `CamelObjectBag` | an object bag: tables, reservations, references |
| `ObjectCache` | the abstract specification of a bag: a cache in which one thread at a time creates the object of a key |
| `CamelStore` | folders, trash and disk of a store; it composes the bag (`EXTENDS CamelObjectBag`), each step making one call of it |
| `EBookBackendSummary_proofs` | the theorems about `EBookBackendSummary` |
| `CamelObjectBag_proofs`, `CamelStore_proofs` | the theorems about both |
| `CamelOperation` | operations and their message ports, as operators on a record |
| `CamelService` | a service that threads connect, disconnect and cancel, with the POP3 provider and cancellable I/O |
| `CamelService_proofs` | the theorems about both |
| `EDataFactory` | what both factories share: table, backends, clients, main loop |
| `EDataBookFactory`, `EDataCalFactory` | the two factories with the client lists of their backends |
| `DataServer` | the process: both factories, termination, switch of the mode |
| `DataServer_proofs` | the theorems about the process with its factories |
| `MC...` | instances for TLC |

### State and actions

*EDataBookView.* A card is a record of UID and contents, and the query is the set
`Matching` of the contents it accepts. `adds`, `changes`, `removes`, `addsMax` (`_maximum` of the sequence of adds),
`nextThreshold`, `thresholdMin`, `thresholdMax`, `ids` are the fields of
`EDataBookViewPrivate`; `held` is what the listener believes when it has handled every
message sent (ORBit keeps the messages of a connection in order). The `notify_*` functions hold `pending_mutex` over all their
accesses, so each is one step; `notify_complete` has a second step, the message it sends
after it has unlocked. `set_thresholds` takes no lock: its two assignments are one step here. A call between the two
would see the new minimum with the old maximum; the properties hold for all positive thresholds, so that they do not depend on it. `notified` is a history variable: the contents last given
to the view for each contact.

*EBookBackendFile.* One step is one call of Berkeley DB, of the summary, of an `EFlag`
or of a `notify_*` function; between two of them the backend holds no lock. `req[r].pc` says
which call a request makes next (`del`: `db->del` of the next contact; `unsummary`,
`summary`: removal from and addition to the summary; `notify`, `complete`: one view of
`foreach_view`). `db->put` with `db->sync` is the arrival of the request, with its three outcomes:
put fails, sync fails after the put, both succeed. `thread[v]` is `book_view_thread`: `begin` (before `e_flag_set`),
`search`, `check` (`e_flag_is_set`), `get` (`db->get` or `c_get`), `notify`, `finish`, `complete`,
`done`. Views whose query the summary can answer and views answered by a cursor take
the two branches of the thread; the choice is free for each view. `ctl[v]` and `died[v]` are the steps of `start_book_view`,
`stop_book_view` and `view_listener_died_cb`, which calls stop from a thread of the ORB. An item of the summary is kept as the sequence of items of
an id, since `add_contact` "does not check if the contact already has a summary".

The errors of the database are modelled where the thread of a view meets them: `db->get` that fails skips its contact, a cursor that cannot be opened or
`c_get` that fails ends the population, and in each case the view completes with Success. `DB_RUNRECOVERY` aborts the process, which here is the end of the behaviour.

Five history variables name what the properties do not claim. `raced[v]`: contacts that a request
notified while the thread of the view had found them and not yet notified them, so that the thread may send what the request has replaced, or what the query does not accept.
`unread[v]`: contacts of the database that the thread of the view passed over because of an error; a request that notifies one of them takes it out again.
`unsynced`: contacts whose request got an error of `db->sync` after `db->put` had written them. `contended`: contacts for which two requests
were served at once. `used`: ids given out, for `create_unique_id` never gives one twice.
That clients start a view only when it is new or stopped, and stop one only when it is started, is an assumption of the model: neither the backend nor
`e_book_view_start` of `libebook` tests it, and a second start would free the closure under the first thread. The conversion of ids that begin with
`file:///` in `modify_contact` is left out: an id is a model value.

*EBookBackendSummary.* `file` and `new` are the two files with their contents, whether
they are torn, and their time in seconds. The steps of `e_book_backend_summary_save` at which a kill or another thread makes a difference are
separate: open and header, items and close, unlink, rename, reset of `dirty`. `sources` counts the
timeouts the main loop will run, `timer` is whether `flush_timeout` is set. A kill
(`Crash`) leaves the files as they are; a loss of power, which may also lose or reorder what was written, is not modelled.
`memDoubt` and `fileDoubt` record, as causes, why the summary in memory or the saved one may differ from the
database: `unsynced` (as above), `overlap` (a contact added during a save: the header's
count and the items may differ, and `dirty` is reset at the end), `unread` (a rebuild whose cursor failed before the last contact, which `build_summary` only logs), `late` (a save between the write of
the database and that of the summary), `second` (the database written in the second of the save, which `>=` accepts), `emptied` (see
the findings). Neither `fclose` nor `g_rename` is tested by the save: `FinishWrite` may leave a torn file without noticing, and `Rename` may leave the file where it is; both go on to
reset `dirty`. The history variable `lost` says that this has happened since the summary was last opened or written well. The length of a string is written as a
`guint16`; strings, and with them lengths that do not fit, are not modelled.

*CamelObjectBag.* Every function holds `ref_lock`, so that it is one step, or two where it waits. A
reservation has an owner, the threads that sleep on its condition and those that were signalled and
do not hold `ref_lock` yet; `waiters` of the code counts both. `creating[t]` are the keys for which
`reserve` has returned `NULL` to a thread, `fresh[t]` is an object it has made and not added.
An assertion that fails sets `aborted`, after which nothing happens. `clashed` is a history
variable: keys onto which `rekey` moved an object while they were taken or reserved.

*CamelStore.* `thread[t].pc` names the next call: in `get_folder` `reserving`, `open` (the
provider), `trash`, `trashWait` (`camel_object_bag_get` of the trash), `addSub`, `unrefTrash`, `add`, `abort`, `exclAbort`;
`list` and `fill` when the folder is the trash itself; in `delete_folder` `delLock` (waits for `folder_lock`), `delMeta` (the maildir is gone, the files beside it are next), the places of the `get_folder` that the local
provider makes for the name of the state file (with `deleting` set), `delState`, then `delGet` to `delBag`; in `rename_folder` `renLock`, then `renGet` to `rekey`;
`unlock` ends the last two. The local provider may fail at each file it removes, before or after its `get_folder` (`delete_folder_fail`); then `camel_store_delete_folder` does not look at the folder in the bag. A thread that is in no call may keep a folder (`keeps`). The finaliser
of a trash that nobody uses drops its folders one by one. `missed` and `strayed` are history variables: folders that were on their way into the bag
when the trash was filled from it, and folders in the bag without a maildir: opened while their name was renamed, or left there by a delete that failed after it had removed the directories.
What the steps merge or leave out: a maildir that cannot be removed is removed in part and made again in one step; `camel_object_bag_list` and the release of the folders of other names in `rename_folder` are one step;
a rename onto the name of the trash, which `camel_store_rename_folder` does not reject, is not a call of the model. `camel_folder_delete` returns early for a folder that is already deleted; that cannot happen here, since
a deleted folder has left the bag and `folder_lock` keeps deletes and renames apart. A trash that is being finalised is not told of the deleted folder, as its hooks are gone. The recursive locks of folders are not modelled:
`rename_folder` takes that of a folder it has found in the bag, whose lookup in the provider then does not wait.

*CamelOperation and CamelService.* An operation is a record of count, flag, queue and pipe; a message is
whether a byte was written for it. `connect_lock` is held from step to step (and is recursive: `nested`), `connect_op_lock`
within one. I/O is `check` (test of the flag), `fd` (the pipe is made), `select`, or `read` if no pipe can be made: a blocking read that no cancellation wakes. The peer may answer yes or no, break the connection, or never answer.
At `prompt` the thread waits in `camel_session_get_password` for the user, who may give a password, give up, or never answer; a password the server rejects is asked for again, any other error ends the connect.
`CancelFails` and `CancelStops` divide what `camel-service.c:462` promises ("this causes it to stop and fail"): a connect that is cancelled before the server has accepted it fails, if the user answers the prompts; every cancelled call that waits for no user ends. What
the promise does not get: a cancellation during the last exchange, which asks for the capabilities, stops that exchange, and the connect succeeds; a disconnect ends, but reports no failure; and a cancellation that finds no pipe (`late`) wakes nobody.
History variables: `late`, operations cancelled between `check` and `fd` or during a `read`; `lost`, references that `connect` leaves behind after a disconnect from within
it; `clobbered`, whether `disconnect` has overwritten the status of a newer connection after its unlock.

*EDataFactory, EDataBookFactory, EDataCalFactory, DataServer.* A backend is named after the client it was launched for. `client[c].pc`
is where the request of a client is (`add`, `mode`, `set`, then `connected`), `main` what the main loop does for which backend (`bookGone`, `bookCheck`, `calTest`, `calGone`, `calMode`, `bookMode`, `countBooks`).
`map_mutex` is never held from one step to the next; `clients_mutex` of a book backend is held by the main loop in `bookGone` and `bookCheck`; `backendsMutex` is `backends_mutex`,
which `getCal` holds until it returns. A finalized calendar backend is free memory: its use is a crash. `termination_handler` counts the calendars under `backends_mutex` and `termination_books` the books under `map_mutex`; after `bonobo_main_quit` the process is `quitting`: threads of requests go on,
the main loop ends what it has begun, and `main_returns` is the end. A request to open a book is not stopped by the removal of its client. That the callback of a calendar's client tests for a broken connection (`e-cal-backend.c:387`) is part of what
`cal_listener_died` stands for, since connections change their state in no other way here.

`raced` records a step into a gap of the locks, each of which is a hazard in `PROJECT.json`: a client is added to a book that has left the table since it was looked up; a client is added to a calendar between the test for its last client and the callback; a connection breaks before its client is added;
the mutex of another request is unlocked; a request for a book has read the mode before a switch; a calendar is asked for after the calendars were counted, or a client is added to a book after `bonobo_main_quit`. `stranded` are the backends in which no client is left that could leave: a book without a source when its last client went,
and a calendar launched for a client for which `e_data_cal_new` failed. A client that is added takes its backend out again.

## Runs

| Run | Instance | Shows |
|---|---|---|
| `view` | 3 contacts, 3 contents of which 2 match, 2 callers, thresholds 2 and 3, or 1 and 2 once set, at most 2 changes pending | `OneKindPending`, `ListenerCatchesUp`, `IdsMatchNotified`, `PendingIsLegal`, `AddsFitBuffer`, `FlushSendsAll`, and that the view implements `BookView` (`ListenerProtocol`) |
| `view_ldap` | as `view`, from the state the LDAP backend leaves | violation of `FirstCardsNotHeldBack` |
| `file` | 2 contacts, 2 request threads and 2 requests, 1 view | `SummaryFollowsDb`, `PopulatedInSync`, `NothingHeldBack` |
| `file_live` | 1 contact, 1 request, 1 view started twice, broken connection | `StartReturnsIfAlive`, `StopReturns` under fairness, `StopIsFinal` |
| `file_race` | 2 contacts, 1 request | violation of `CompleteMeansInSync` |
| `file_died` | no request, broken connection | violation of `StartReturns` under fairness |
| `summary` | 2 contacts, 3 writes, 3 seconds, 2 kills | `SummaryIsCurrent`, `ChangesAreDirty`, `DirtyHasTimeout`, `SavedStaysSaved`, `DirtyIsFlushed` under fairness |
| `summary_emptied` | as `summary` | violation of `LoadedIsNotOutOfDate` |
| `store` | 3 threads, 2 names and the trash, 3 folder objects, 3 calls | `CreatorOwns`, `SomeoneWillUnreserve`, `TablesAgree`, `RefsAreOwned`, `TrashHasOpenFolders`, `OpenFoldersExist`, `CallsReturn` under fairness, and that the bag implements `ObjectCache` (`ImplementsCache`) |
| `service` | 2 threads, one with an operation of its own, 3 calls, 2 cancellations | `PortMatchesFlag`, `OperationsOwned`, `StatusIsTrue`, `CancelFails` and `CancelStops` under fairness |
| `server` | 3 clients, one of which asks for an unknown kind of calendar, 1 book, 1 calendar, 1 switch of the mode | `ClientsServed`, `ModeAgrees`, `QuitsWhenUnused` under fairness |
| `server_race` | 3 clients, 1 book, 1 calendar | violation of `LiveClientsKeepCalendar` |

The bounds. With three contacts and a first threshold of two, the buffer of adds fills, is sent and grows, and the
three buffers alternate; a contact has two matching contents, so that a change differs from an add. Two requests are enough for
every pair of operations to interleave, with each other and with the thread of a view; two contacts are needed for a
removal of several, for a cursor to have something before and behind it, and for a request on one contact to run beside one on the other. Two starts
show a view populated again over what its listener still holds. In the summary, three writes and two kills allow a
summary to be saved, to go out of date, to be recovered or rebuilt and to go out of date again. Symmetry is used where the
elements are interchangeable and no liveness is checked: contacts and callers of a view; request threads
of the backend (not the contacts, which the hash order distinguishes).
Three threads of a store are a creator, a waiter and one that comes in between; three calls allow an open,
the trash and a delete or rename of one another's folders; three objects suffice, since memory is used again. Two threads and three calls of a service let
one disconnect between the other's connects, and two cancellations hit one operation twice or two operations.
Three clients are one that leaves, one that comes and one that finds what they left; one switch of the mode is enough
to meet each step of a request.
The runs of the backend, the summary, the store, the service and the server do not check for deadlock, since clients may make no further request and the bounds are reached.

Fairness. The threads that serve requests, populate views, or run start, stop or the callback are threads of the operating system: each is weakly fair.
The main loop runs its timeouts (weak fairness of `summary_flush_func`), and a save goes on. `FinishWrite` is strongly fair: a save
that fails is tried again with the next timeout, and the disk is assumed not to fail every time. A thread in a call of a store or service goes on, a finaliser ends, the main loop of the server goes on and runs its timeout, and a request for a book or calendar that has begun is served: all weakly fair, as threads of
the operating system. That a call of a store is not overtaken for ever while it waits for `folder_lock` follows from the bound on the calls, not from the mutex.
Nothing is assumed of the peer of a service (`io_done` has no fairness), of the user who is asked for a password (`get_password`; the claims about cancelled calls say "if the prompts are answered" where they need it), of callers who keep folders, or of clients. No client is obliged to make a request, and no process to crash.

### What the runs found

- `view_ldap`: `set_thresholds` does not touch `next_threshold`, so the minimum of 1 the LDAP backend sets
  "so the user sees stuff as it appears" has no effect on the first batch.
- `file_race`: a request changes a contact in the database so that the query of a view no longer accepts it; before it updates the summary, the view starts and finds the contact there. The request's
  notification finds the contact neither matching nor in the view and sends nothing; the thread of the view then reads the new contents and sends them without matching them. The view completes with a listener that holds a contact the query does not accept.
- `file_died`: if a listener's connection breaks between `e_flag_set` and the moment the waiter looks at the flag again, `start_book_view` waits for ever.
- `summary_emptied`: an out-of-date summary over an empty book is not replaced, because nothing touches
  the summary; `dispose` marks it as current, and it is loaded the next time.
- `server_race`: `e_cal_backend_remove_client` tests the list of clients without a lock; a client that `getCal` adds before `backend_last_client_gone_cb` has the lock finds its calendar finalized,
  the race that the comment in `getCal` says the lock is held against.

Met while modelling, without a run of their own: `get_folder` with `CAMEL_STORE_FOLDER_EXCL` on an open folder aborts a reservation
it does not have, and the assertion of `co_bag_unreserve` ends the process (`camel-store.c:254`); `connect` leaks a reference and leaves its thread registered when
the provider disconnects within it (`camel-pop3-store.c:624`); `getCal` unlocks a mutex it has not locked (`e-data-cal-factory.c:195`). The models contain these
paths, the properties name them as exceptions, and the hazards list has their lines.

## Theorems

`EDataBookView_proofs` proves about `EDataBookView`, for every set of contacts, contents, callers and thresholds,
from the named assumptions `ViewAssumption` (the matching contents are contents, `NoCard` is not one, the default thresholds are positive)
and `CallerAssumption` (the thresholds a backend sets are positive): `TypeCorrect`, `BatchingIsFaithful` (`ListenerCatchesUp`), `KindsDoNotMix` (`OneKindPending`),
`IdsAreOfListener` (`IdsMatchNotified`), `BatchesAreLegal` (`PendingIsLegal`), `BufferIsLargeEnough` (`AddsFitBuffer`), `FlushIsComplete` (`FlushSendsAll`) and `ImplementsBookView` (`ListenerProtocol`).

They rest on one inductive invariant, `IInv`. None of the properties is inductive alone: that what is sent and what is pending together are what was notified
depends on only one kind being pending, else the order of sending would matter; that a batch is legal depends on `ids` being the contacts notified, for `ids` decides between add and change;
and that depends on the listener's belief, with what is pending, being what was notified. The argument goes in three layers: lemmas about `Upsert` and `Drop`
on a sequence with one more element; one lemma for each sending function (it keeps the invariant and the belief after everything is sent) and for each queueing function; one step for each action.
`ImplementsBookView` uses that a single call sends at most one non-empty buffer (`OneKind`), so that a call is one message or none for the listener.

`EBookBackendSummary_proofs` proves about `EBookBackendSummary`, for any contacts and any number of seconds, writes and crashes (`SummaryAssumption`: the contacts are finitely many, the bounds are naturals):
`SummaryTypeCorrect`, `RestartIsSafe` (`SummaryIsCurrent`), `NothingUnmarked` (`ChangesAreDirty`), `DirtyWillBeSaved` (`DirtyHasTimeout`) and `SaveReplacesFile` (`SavedStaysSaved`). That memory follows the database is not inductive, since a restart takes
memory from a file; so the invariant says of the files too, for each place at which `e_book_backend_summary_save` may be cut off, what they hold. Its parts: `MemFollowsDb` (memory lacks only what a request is about to add), `SaveFollowsMem` (the file being written is of what is in memory, unless a contact
changed meanwhile), `FilesFollowDb` (a file newer than the database is of the database; both the file and, where a restart would fall back on it, the new one), `NewIsSpare` (outside a save the new file is never the only one), `PastTimes` (a write makes every file out of date),
`LostIsGone` (after an error that the save did not notice there is no whole file under the summary's name, which `dispose` could mark as current), `TimerHasSource` and `ChangesAreDirty` itself, for `dispose` marks a clean summary as current without looking at it. The doubts kept in the history variables are the hypotheses of these claims.

`CamelObjectBag_proofs` proves about any number of threads, keys and objects, from `BagAssumption` (`NoThread`, `NoKey`, `NoObject` are none of them): under `BagSpec`,
in which threads use a bag as its documentation asks (what `reserve` has given out is added or aborted, nobody waits for a key of its own; an abort without a reservation, references, removals and `rekey` are
free), `BagTypeCorrect`, `CreatorAlwaysOwns`, `NoLostWakeup`, `TablesAlwaysAgree` and `BagImplementsCache`. The inductive invariant `BagInv` adds three facts to the properties: `FreshIsNew` (an object not yet added is alive, in no table, and known to
one thread; so `add` files it), `FreeIsUnfiled` (free memory is in no table; so a new object is not found) and `CreatedIsAbsent` (nothing is filed under a key while its object is created, but by a `rekey`). `CreatorOwns` and `SomeoneWillUnreserve` need each other: a woken thread may take a reservation over because nobody owns it, and nobody owns it because the owner is the creator.
The lemmas are in two groups, reservations and tables, which the steps of the bag change nearly independently. For the refinement, `reserve` that returns `NULL` is `Begin`, `add` is `Commit`, `abort` is `GiveUp`,
a removal or last `unref` is `Drop` and `rekey` is `Move`; everything else changes nothing in the cache.

`CamelStore_proofs` proves `StoreUsesBag`: the specification of the store implies that of the bag, in which an abort without a reservation is possible and fails the assertion, as `get_folder` with `EXCL` does, for any threads, names and bound on the calls (`StoreAssumption`). With it every theorem about the bag holds of the store as the run checks
it: `StoreCreatorsOwn`, `StoreWakesWaiters`, `StoreTablesAgree`, `StoreImplementsCache`; and `StoreTypeCorrect`. The invariant (`StoreInv`) says for each place in the code what its thread has reserved and created (`Fits`): that is what a reader of `camel_store_get_folder` has to know at every
line, and what makes each call of the bag a legal one.

Three more invariants, each inductive together with `StoreInv`, give the properties of the store itself, for finitely many threads and objects (`FiniteAssumption`, without which references cannot be counted). All three proofs go over the effects of the steps (`DoesAdd`, `DoesUnrefVFolder` and so on: what happens to the local variables, the references and the tables),
so that the actions themselves are taken apart once.
`StoreRefsAreOwned`: `RefsInv` counts the references exactly (`RefsFit`) and says at which places a local variable may have one (`RecordFits`), who holds `folder_lock` (`LockFits`), that a folder not yet in the bag is known to nobody else (`FreshIsPrivate`), and that the trash is given each folder once (`FillFits`): otherwise a set of folders would hide a second reference.
`StoreOpenFoldersExist`: `DiskInv` has to speak of the folders on their way into the bag as well (`FoldersExist`), since the directory may be deleted or renamed before they are added, and to name the call that is still to deal with the folder (`Excuses`), which holds `folder_lock` from the removal of the directories on, through its nested `get_folder`; a rename that is about to give a folder its new key has a directory of that name (`MovedExist`).
`StoreTrashHasOpenFolders`: `TrashInv` says that no rename and no delete touches the trash (`TrashStays`), that a folder about to be added is in the trash if there is one (`ComingShown`), and that a trash that is being made has, or has still in its list, what the bag has (`FillShows`). The argument uses the counts: the last reference to the trash cannot be dropped by one thread while another is about to add its folder to it.

`EBookBackendFile_proofs` proves `FileTypeOK`, `FileSummaryFollowsDb`, `FilePopulatedInSync`, `FileNothingHeldBack` and `FileStopIsFinal`, for any contacts, contents, views, request threads, thresholds and any number of requests and starts
(`BackendAssumption`: there is a view, the buckets of the hash order the contacts, `NoCard` is not a card; and `ViewAssumption`). The code holds no lock between two calls, so the invariant has to say what each thread has done and still owes. Of requests: what they have written is in the
database until another request touches the contact, and two requests on one contact are known to `contended` (`WrittenIsThere`, `OverlapIsKnown`). Of the summary: an item differs from the database only while a request has still to change it (`SummaryInv`). Of a view: what its listener
will hold (`Told`) is what the database shows of a contact, once no request owes it a notification and the thread of the view has passed the contact (`InSync` with `Settled` and `NotYet`); before that, it is that or nothing. This is where a stale read would break the proof, and `raced` is exactly the hypothesis
it needs; of a contact that could not be read (`unread`) the listener holds nothing or what the database shows. `PendingIsFlushed` names, for what is pending in a view, the thread that will send it; `ControlFits` relates start, stop and thread. The steps of a view reuse the lemmas of `EDataBookViewOps_proofs`: each function of the view keeps `ViewInv` and changes what the listener will believe in the one contact it names.

`DataServer_proofs` proves `ServerTypeOK`, `ServerClientsServed` and `ServerModeAgrees`, for any clients, URIs and number of switches (`FactoryAssumption`: no URI is of a book and of a calendar, they are finitely many, `None` is neither a client nor a URI; `ServerAssumption`). The invariant has two
layers. `Structure` holds whatever the threads do: an entry of a table is alive and of its URI, a client's backend is of the client's URI, the modes of the factories are the one told last. `Undisturbed` holds until a step falls into one of the gaps of the locks (`raced`): a client whose connection is up is among the clients of the backend
the table knows; a request that holds `backends_mutex` finds its entry unchanged; the backend the main loop is about to drop has no clients and is the one in the table; once the handler has counted the calendars no client has one or is about to (`NotOverlooked`, `InCalendar`), and once it has counted the books nobody is connected (`Ending`). The two theorems about clients and modes need the second layer, and it needs the first.

`CamelService_proofs` proves `ServiceTypeOK`, `ServicePortMatchesFlag`, `ServiceOperationsOwned` and `ServiceStatusIsTrue`, for any threads, operations and number of calls and cancellations (`ServiceAssumption`, `OperationAssumption`: `NoThread` and `NoOp` are none, a thread's own operation is an operation or none). `OperationFits` says of each operation that a byte is in its
pipe for each message that has one and that only a cancelled operation has messages. References are counted exactly (`RefsFit`: an operation has one for its owner, one for each call that uses it and those that `connect` has lost), which needs to know what each thread has registered at each place of `connect` and `disconnect`, the nested call included (`ThreadFits`, `RegistrationFits`), and that two
threads share only operations somebody owns (`SharedAreOwned`), else one would free what the other waits for. `ConnectionFits` says what the thread with `connect_lock` knows of status and connection at each place, unless the status was overwritten after the unlock (`clobbered`).

Every invariant that a passing run checks is stated by a theorem. Only model-checked is all liveness (`StartReturnsIfAlive`, `StopReturns`, `DirtyIsFlushed`, `CallsReturn`, `CancelFails`, `CancelStops`, `QuitsWhenUnused`), which is out of the prover's reach. What the violations show is by its nature a behaviour of an instance.

## Not modelled

Access to memory that was freed or is shared without a lock is undefined and not modelled: a search whose result points into an item another thread frees, a second join
of one thread, a view started twice without a stop, which frees the closure its first thread uses, an orphaned timeout that runs after the summary is gone. Text (vCards, queries, formats) is abstracted
to the sets that the properties tell apart. Of the file backend: reading requests, `get_changes`, removal of the book and upgrades of old files.
Of bags and stores: wakeups without a signal, which POSIX allows and `g_cond_wait` outside a loop does not survive; destruction of a bag; subfolders; the junk folder, which is treated like the trash; `create_folder`; the locks of folders.
Of services: `camel_operation_cancel_block`, the status stack, the NSPR pipe that `e_msgport_put` also writes to, a write to a pipe that fails, name lookups. Of the server: calendar views, which may hold a backend after its clients have gone; clients in the process of the server.
`EThread` of `e-msgport.c` is marked as deprecated and has no users. The repository has about 494000 lines, among them a vendored Berkeley DB, providers for remote servers, MIME and recurrence code, tables of character sets and user interface: sequential code,
protocols whose other side is not in the repository, or data. The models cover the parts in which threads, callbacks and failures meet, a small share of the lines.
The remaining components are listed in `PROJECT.json` with the reason.

## Plan

1. `EList` and `foreach_view` with views that come and go during the iteration, against "Notifies all of @backend's book views": the list is iterated without `views_mutex` (`e-book-backend.c:874`), so that a view may be skipped or notified twice.
2. `EBookViewListener` of the client, composed with `EDataBookView`: what a stopped listener drops (`e-book-view-listener.c:90`) while the server counts it as sent, the queue and its idle callback.
3. The slave thread of CalDAV (`dispose` returns: `e-cal-backend-caldav.c:2553` waits without a test that there is a thread still to end); hooks of Camel objects that are removed during an event.
4. `get_changes` of the file backend and its change database; the shared database environment, whose count `dispose` decrements even if `load_source` failed before it was incremented (`e-book-backend-file.c:1405`).
5. Proofs: of the components above, once they are modelled.

An abstract specification worth stating: a book as a set of contacts with atomic requests, for the quiet case of `EBookBackendFile`.
