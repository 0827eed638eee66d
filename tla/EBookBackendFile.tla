-------------------------- MODULE EBookBackendFile --------------------------
(***************************************************************************)
(* The file backend of the address book: the database, the in-memory       *)
(* summary it keeps beside it, the requests of clients (each served by a   *)
(* thread of its own: the POA of EDataBook is PER_REQUEST), and the book   *)
(* views, each with the thread that populates it.                          *)
(*                                                                         *)
(* A call of Berkeley DB, of the summary, of an EFlag or of a view's       *)
(* notify_* function is one step; everything between two such calls of one *)
(* thread is open to the other threads, for the backend holds no lock.     *)
(***************************************************************************)
EXTENDS EDataBookViewOps, Functions

CONSTANTS
  Requests,     \* the threads that serve requests
  Views,        \* the book views, all in the backend's list
  MayDie,       \* the views whose listener's connection may break
  Bucket,       \* where each contact lies in the database's hash order
  MaxRequests,  \* bound: requests made
  MaxStarts     \* bound: times a client starts one view

ASSUME BackendAssumption ==
  /\ Views # {} /\ MayDie \subseteq Views
  /\ NoCard \notin Card
  /\ Bucket \in [ContactIds -> Nat]
  /\ \A i, j \in ContactIds : Bucket[i] = Bucket[j] => i = j
  /\ MaxRequests \in Nat /\ MaxStarts \in Nat

VARIABLES
  db,         \* file_db: the contents of each contact
  summary,    \* the items of each contact, and whether id_to_item knows the last
  views,      \* the private state of each EDataBookView
  mode,       \* how the thread of each view answers its query
  running,    \* closure->running, an EFlag
  thread,     \* book_view_thread of each view
  ctl,        \* start and stop of each view (its POA is PER_OBJECT: one at a time)
  died,       \* view_listener_died_cb of each view
  req,        \* the request each thread of Requests serves
  used,       \* history: the ids of contacts that exist or existed
  made,       \* number of requests made
  starts,     \* number of starts of each view
  raced,      \* history, see Exposed
  unread,     \* history, see PassedOver
  unsynced,   \* history: contacts whose last write returned an error of db->sync
  contended   \* history: contacts two requests were served for at once

vars == <<db, summary, views, mode, running, thread, ctl, died, req, used,
          made, starts, raced, unread, unsynced, contended>>
viewVars == <<views, mode, running, thread, ctl, died, starts, raced, unread>>

(* e_book_backend_summary_is_summary_query: a query over fields the        *)
(* summary keeps is answered from it, any other by a cursor on the         *)
(* database.                                                               *)
QueryModes == {"summary", "cursor"}

NoThread == [pc |-> "none", todo |-> {}, got |-> NoCard]
Idle == [pc |-> "idle", op |-> "none", ids |-> <<>>, card |-> NoCard,
         todo |-> <<>>, removed |-> <<>>, left |-> {}]

TypeOK ==
  /\ db \in Belief
  /\ summary \in [ContactIds -> [items : Seq(VCards), hashed : BOOLEAN]]
  /\ views \in [Views -> View]
  /\ mode \in [Views -> QueryModes]
  /\ running \in [Views -> BOOLEAN]
  /\ thread \in [Views -> [pc : {"none", "begin", "search", "check", "get", "notify",
                                 "finish", "complete", "done"},
                           todo : SUBSET ContactIds, got : Card \cup {NoCard}]]
  /\ ctl \in [Views -> {"new", "starting", "up", "clear_join", "clear", "join",
                       "unjoined", "down"}]
  /\ died \in [Views -> {"alive", "clear_join", "clear", "join", "unjoined", "gone"}]
  /\ req \in [Requests -> [pc : {"idle", "del", "unsummary", "summary", "notify", "complete"},
                           op : {"none", "create", "modify", "remove"},
                           ids : Seq(ContactIds), card : VCards \cup {NoCard},
                           todo : Seq(ContactIds), removed : Seq(ContactIds),
                           left : SUBSET Views]]
  /\ used \subseteq ContactIds
  /\ made \in 0..MaxRequests
  /\ starts \in [Views -> 0..MaxStarts]
  /\ raced \in [Views -> SUBSET ContactIds]
  /\ unread \in [Views -> SUBSET ContactIds]
  /\ unsynced \subseteq ContactIds
  /\ contended \subseteq ContactIds

Item(vc) == [items |-> IF vc = NoCard THEN <<>> ELSE <<vc>>, hashed |-> vc # NoCard]

Init ==
  /\ db \in Belief
  /\ summary = [i \in ContactIds |-> Item(db[i])]
  /\ views = [v \in Views |-> e_data_book_view_init]
  /\ mode \in [Views -> QueryModes]
  /\ running = [v \in Views |-> FALSE]
  /\ thread = [v \in Views |-> NoThread]
  /\ ctl = [v \in Views |-> "new"]
  /\ died = [v \in Views |-> "alive"]
  /\ req = [r \in Requests |-> Idle]
  /\ used = Present(db)
  /\ made = 0
  /\ starts = [v \in Views |-> 0]
  /\ raced = [v \in Views |-> {}]
  /\ unread = [v \in Views |-> {}]
  /\ unsynced = {}
  /\ contended = {}

----------------------------------------------------------------------------
(* The summary in memory. *)

\* appends the item and points id_to_item at it, whether or not there is one
summary_add_contact(s, vc) == [items |-> Append(s.items, vc), hashed |-> TRUE]

\* removes the item id_to_item points at; an older one of the same id stays
summary_remove_contact(s) ==
  IF s.hashed
  THEN [items |-> SubSeq(s.items, 1, Len(s.items) - 1), hashed |-> FALSE]
  ELSE s

summary_search ==
  {i \in ContactIds : \E k \in DOMAIN summary[i].items : summary[i].items[k] \in Matching}

----------------------------------------------------------------------------
(* Requests *)

Busy(r) == req[r].pc # "idle"
Touches(r) == IF Busy(r) THEN {req[r].ids[k] : k \in DOMAIN req[r].ids} ELSE {}
InFlight(i) == \E r \in Requests : i \in Touches(r)

\* a thread r is given a request on the contacts S
Arrives(r, S) ==
  /\ ~Busy(r) /\ made < MaxRequests
  /\ made' = made + 1
  /\ contended' = contended \cup {i \in S : InFlight(i)}

(* db->put and, if it succeeds, db->sync.  An error of either is the       *)
(* request's answer: nothing else is done.  An error of sync leaves the    *)
(* contact written.                                                        *)
Write(r, op, i, vc, next) ==
  \/ /\ UNCHANGED <<db, req, unsynced>>
  \/ /\ db' = [db EXCEPT ![i] = vc]
     /\ unsynced' = unsynced \cup {i}
     /\ UNCHANGED req
  \/ /\ db' = [db EXCEPT ![i] = vc]
     /\ unsynced' = unsynced \ {i}
     /\ req' = [req EXCEPT ![r] = [Idle EXCEPT !.pc = next, !.op = op,
                                               !.ids = <<i>>, !.todo = <<i>>,
                                               !.card = vc]]

\* create_unique_id gives an id no contact has or had
create_contact(r) ==
  /\ \E i \in ContactIds \ used, vc \in VCards :
       /\ Arrives(r, {i}) /\ Write(r, "create", i, vc, "summary")
       /\ used' = used \cup {i}
  /\ UNCHANGED <<summary, viewVars>>

\* the contact need not exist: a modify of one removed meanwhile brings it back
modify_contact(r) ==
  /\ \E i \in used, vc \in VCards :
       Arrives(r, {i}) /\ Write(r, "modify", i, vc, "unsummary")
  /\ UNCHANGED <<summary, used, viewVars>>

\* a remove names one contact or several, and may name one that is gone
remove_contacts(r) ==
  /\ \E ids \in {<<i>> : i \in used} \cup {p \in used \X used : p[1] # p[2]} :
       /\ Arrives(r, Range(ids))
       /\ req' = [req EXCEPT ![r] = [Idle EXCEPT !.pc = "del", !.op = "remove",
                                                 !.ids = ids, !.todo = ids]]
  /\ UNCHANGED <<db, summary, used, unsynced, viewVars>>

(* db->del of each contact in turn: one that fails (it is not there, or    *)
(* the file gives an error) is passed over.  After the last, db->sync,     *)
(* whose error is only logged.  removed is removed_cards; if it is empty   *)
(* the request is answered at once.                                        *)
\* mutant: the summary is not updated
DelKeepsSummary(q) ==
  IF q.todo # <<>> THEN q
  ELSE IF q.removed = <<>> THEN Idle
  ELSE [q EXCEPT !.pc = "notify", !.todo = q.removed, !.left = Views]

AfterDel(q) ==
  IF q.todo # <<>> THEN q
  ELSE IF q.removed = <<>> THEN Idle
  ELSE [q EXCEPT !.pc = "unsummary", !.todo = q.removed]

delete_next(r) ==
  LET q == req[r]
      i == Head(q.todo)
      rest == [q EXCEPT !.todo = Tail(q.todo)]
  IN /\ q.pc = "del"
     /\ \/ /\ db[i] # NoCard
           /\ db' = [db EXCEPT ![i] = NoCard]
           /\ unsynced' = unsynced \ {i}
           /\ req' = [req EXCEPT ![r] = AfterDel([rest EXCEPT !.removed = <<i>> \o q.removed])]
        \/ /\ req' = [req EXCEPT ![r] = AfterDel(rest)]
           /\ UNCHANGED <<db, unsynced>>
     /\ UNCHANGED <<summary, used, made, contended, viewVars>>

\* a request that has changed the summary tells the views
ToNotify(q, ids) == [q EXCEPT !.pc = "notify", !.todo = ids, !.left = Views]

(* e_book_backend_summary_remove_contact, called by a modify and, for each *)
(* contact removed, by a remove.                                           *)
summary_remove(r) ==
  LET q == req[r]
      i == Head(q.todo)
  IN /\ q.pc = "unsummary"
     /\ summary' = [summary EXCEPT ![i] = summary_remove_contact(@)]
     /\ req' = [req EXCEPT ![r] =
                  CASE q.op = "modify" -> [q EXCEPT !.pc = "summary"]
                    [] q.op = "remove" /\ Len(q.todo) > 1 -> [q EXCEPT !.todo = Tail(q.todo)]
                    [] OTHER -> ToNotify(q, q.removed)]
     /\ UNCHANGED <<db, used, made, unsynced, contended, viewVars>>

\* mutant: the views are not told of the contact
AddWithoutNotify(r) ==
  LET q == req[r] IN
  /\ q.pc = "summary"
  /\ summary' = [summary EXCEPT ![q.ids[1]] = summary_add_contact(@, q.card)]
  /\ req' = [req EXCEPT ![r] = [q EXCEPT !.pc = "complete", !.left = Views]]
  /\ UNCHANGED <<db, used, made, unsynced, contended, viewVars>>

\* e_book_backend_summary_add_contact, called by a create and by a modify
summary_add(r) ==
  LET q == req[r] IN
  /\ q.pc = "summary"
  /\ summary' = [summary EXCEPT ![q.ids[1]] = summary_add_contact(@, q.card)]
  /\ req' = [req EXCEPT ![r] = ToNotify(q, q.ids)]
  /\ UNCHANGED <<db, used, made, unsynced, contended, viewVars>>

(* The contacts the thread of a view has found but not yet notified: a     *)
(* notification of one of them by a request is followed by the thread's,   *)
(* whose contents may be older, or may have ceased to match since the      *)
(* summary was searched.  raced[v] are the contacts this happened to,      *)
(* until a later notification.                                             *)
Exposed(v) ==
  IF mode[v] = "summary" THEN thread[v].todo
  ELSE IF thread[v].got = NoCard THEN {} ELSE {thread[v].got.id}

\* mutant: no notify_complete
NotifyWithoutComplete(q, v) ==
  IF q.left # {v} THEN [q EXCEPT !.left = @ \ {v}]
  ELSE IF Len(q.todo) > 1 THEN ToNotify(q, Tail(q.todo)) ELSE Idle

\* the next view, the next contact, or notify_complete for every view
AfterNotify(q, v) ==
  IF q.left # {v} THEN [q EXCEPT !.left = @ \ {v}]
  ELSE IF Len(q.todo) > 1 THEN ToNotify(q, Tail(q.todo))
  ELSE [q EXCEPT !.pc = "complete", !.left = Views]

(* e_book_backend_notify_update and _notify_remove: one contact, one view. *)
respond_notify(r, v) ==
  LET q == req[r]
      i == Head(q.todo)
  IN /\ q.pc = "notify" /\ v \in q.left
     /\ views' = [views EXCEPT ![v] =
                    IF q.op = "remove" THEN view_notify_remove(@, i)
                    ELSE view_notify_update(@, [id |-> i, vcard |-> q.card])]
     /\ raced' = [raced EXCEPT ![v] = IF i \in Exposed(v) THEN @ \cup {i} ELSE @ \ {i}]
     /\ unread' = [unread EXCEPT ![v] = @ \ {i}]
     /\ req' = [req EXCEPT ![r] = AfterNotify(q, v)]
     /\ UNCHANGED <<db, summary, used, made, unsynced, contended,
                    mode, running, thread, ctl, died, starts>>

\* e_book_backend_notify_complete: one view; after the last, the answer is sent
respond_complete(r, v) ==
  LET q == req[r] IN
  /\ q.pc = "complete" /\ v \in q.left
  /\ views' = [views EXCEPT ![v] = view_flush(@)]
  /\ req' = [req EXCEPT ![r] = IF q.left = {v} THEN Idle ELSE [q EXCEPT !.left = @ \ {v}]]
  /\ UNCHANGED <<db, summary, used, made, unsynced, contended,
                 mode, running, thread, ctl, died, starts, raced, unread>>

----------------------------------------------------------------------------
(* The thread that populates a view: book_view_thread *)

backVars == <<db, summary, used, req, made, unsynced, contended>>

ThreadStep(v, from, t) ==
  /\ thread[v].pc = from
  /\ thread' = [thread EXCEPT ![v] = t]
  /\ UNCHANGED <<backVars, mode, ctl, died, starts, raced>>

At(v, pc) == [thread[v] EXCEPT !.pc = pc]

\* mutant: the flag is not set
NeverSignals(v) ==
  ThreadStep(v, "begin", At(v, "search")) /\ UNCHANGED <<views, running, unread>>

\* e_flag_set: "signalling parent thread"
thread_signal(v) ==
  /\ ThreadStep(v, "begin", At(v, "search"))
  /\ running' = [running EXCEPT ![v] = TRUE]
  /\ UNCHANGED <<views, unread>>

Finished == [pc |-> "finish", todo |-> {}, got |-> NoCard]

(* The contacts of S that the thread will not read, for the database gave  *)
(* an error: they are logged, the thread goes on and completes with        *)
(* Success.  Those that are not there are no loss.  unread[v] are the      *)
(* contacts this happened to since the last start of the view, until a     *)
(* request notifies them.                                                  *)
PassedOver(v, S) == unread' = [unread EXCEPT ![v] = @ \cup {i \in S : db[i] # NoCard}]

(* The contacts the summary finds, or a cursor before the first contact.   *)
(* Without a cursor nothing is read (with DB_RUNRECOVERY the process       *)
(* aborts instead: the behaviour ends there).                              *)
thread_search(v) ==
  /\ \/ /\ ThreadStep(v, "search",
             IF mode[v] = "summary"
             THEN [pc |-> "check", todo |-> summary_search, got |-> NoCard]
             ELSE [pc |-> "get", todo |-> ContactIds, got |-> NoCard])
        /\ UNCHANGED unread
     \/ /\ mode[v] = "cursor"
        /\ ThreadStep(v, "search", Finished)
        /\ PassedOver(v, ContactIds)
  /\ UNCHANGED <<views, running>>

\* mutant: the end of what the summary found is not tested
ChecksNoEnd(v) ==
  /\ ThreadStep(v, "check",
       IF ~running[v] THEN Finished
       ELSE At(v, IF mode[v] = "summary" THEN "get" ELSE "notify"))
  /\ UNCHANGED <<views, running, unread>>

(* e_flag_is_set: before db->get in the loop over what the summary found,  *)
(* after c_get in the loop of the cursor.                                  *)
thread_check(v) ==
  /\ ThreadStep(v, "check",
       IF ~running[v] \/ (mode[v] = "summary" /\ thread[v].todo = {})
       THEN Finished
       ELSE At(v, IF mode[v] = "summary" THEN "get" ELSE "notify"))
  /\ UNCHANGED <<views, running, unread>>

\* mutant: the error of db->get is ignored
GetIgnoresError(v) ==
  /\ mode[v] = "summary"
  /\ \E i \in thread[v].todo :
       ThreadStep(v, "get", [pc |-> "notify", todo |-> thread[v].todo,
                             got |-> [id |-> i, vcard |-> db[i]]])
  /\ UNCHANGED <<views, running, unread>>

(* db->get of a contact the summary found: if it gives an error, because   *)
(* the contact is gone or for another reason, the contact is skipped.      *)
thread_get(v) ==
  /\ mode[v] = "summary"
  /\ \E i \in thread[v].todo :
       \/ /\ db[i] # NoCard
          /\ ThreadStep(v, "get", [pc |-> "notify", todo |-> thread[v].todo,
                                   got |-> [id |-> i, vcard |-> db[i]]])
          /\ UNCHANGED unread
       \/ /\ ThreadStep(v, "get", [pc |-> "check", todo |-> thread[v].todo \ {i},
                                   got |-> NoCard])
          /\ PassedOver(v, {i})
  /\ UNCHANGED <<views, running>>

(* c_get: the next contact present.  At the end (DB_NOTFOUND), and at an   *)
(* error, the loop ends.                                                   *)
thread_c_get(v) ==
  LET ahead == {i \in thread[v].todo : db[i] # NoCard} IN
  /\ mode[v] = "cursor"
  /\ \/ /\ ThreadStep(v, "get", Finished)
        /\ PassedOver(v, thread[v].todo)
     \/ \E i \in ahead :
          /\ \A j \in ahead : Bucket[i] <= Bucket[j]
          /\ ThreadStep(v, "get",
               [pc |-> "check", got |-> [id |-> i, vcard |-> db[i]],
                todo |-> {j \in ContactIds : Bucket[j] > Bucket[i]}])
          /\ UNCHANGED unread
  /\ UNCHANGED <<views, running>>

(* What the summary found is sent unseen; what the cursor found is matched *)
(* against the query (a query for all contacts matches them all).          *)
thread_notify(v) ==
  LET card == thread[v].got IN
  /\ ThreadStep(v, "notify",
       IF mode[v] = "summary"
       THEN [pc |-> "check", todo |-> thread[v].todo \ {card.id}, got |-> NoCard]
       ELSE [pc |-> "get", todo |-> thread[v].todo, got |-> NoCard])
  /\ views' = [views EXCEPT ![v] = IF mode[v] = "summary"
                                   THEN view_notify_update_prefiltered_vcard(@, card)
                                   ELSE view_notify_update(@, card)]
  /\ UNCHANGED <<running, unread>>

\* the sequence is complete unless the view was stopped
thread_finish(v) ==
  /\ ThreadStep(v, "finish", At(v, IF running[v] THEN "complete" ELSE "done"))
  /\ UNCHANGED <<views, running, unread>>

thread_complete(v) ==
  /\ ThreadStep(v, "complete", At(v, "done"))
  /\ views' = [views EXCEPT ![v] = view_flush(@)]
  /\ UNCHANGED <<running, unread>>

----------------------------------------------------------------------------
(* Start and stop, called by the client through the view's POA, and the    *)
(* callback ORBit runs when the connection to the listener breaks.         *)

(* init_closure and g_thread_create.  The model supposes a client that     *)
(* stops a view before it starts it again: nothing in the code asks for    *)
(* it, but a second start would free the closure the first thread uses.    *)
start_book_view(v) ==
  /\ ctl[v] \in {"new", "down"} /\ starts[v] < MaxStarts /\ died[v] = "alive"
  /\ ctl' = [ctl EXCEPT ![v] = "starting"]
  /\ running' = [running EXCEPT ![v] = FALSE]
  /\ thread' = [thread EXCEPT ![v] = [NoThread EXCEPT !.pc = "begin"]]
  /\ starts' = [starts EXCEPT ![v] = @ + 1]
  /\ unread' = [unread EXCEPT ![v] = {}]
  /\ UNCHANGED <<backVars, views, mode, died, raced>>

\* e_flag_wait returns: it has seen the flag set
start_returns(v) ==
  /\ ctl[v] = "starting" /\ running[v]
  /\ ctl' = [ctl EXCEPT ![v] = "up"]
  /\ UNCHANGED <<backVars, views, mode, running, thread, died, starts, raced, unread>>

\* mutant: the flag is read after it was cleared
JoinReadLate(v) == "clear"

\* need_join is read, then the flag is cleared, then the thread is joined
NeedJoin(v) == IF running[v] THEN "clear_join" ELSE "clear"
Cleared(pc) == IF pc = "clear_join" THEN "join" ELSE "unjoined"

stop_book_view(v) ==
  /\ ctl[v] = "up"
  /\ ctl' = [ctl EXCEPT ![v] = NeedJoin(v)]
  /\ UNCHANGED <<backVars, views, mode, running, thread, died, starts, raced, unread>>

stop_clear(v) ==
  /\ ctl[v] \in {"clear_join", "clear"}
  /\ running' = [running EXCEPT ![v] = FALSE]
  /\ ctl' = [ctl EXCEPT ![v] = Cleared(@)]
  /\ UNCHANGED <<backVars, views, mode, thread, died, starts, raced, unread>>

stop_returns(v) ==
  /\ \/ ctl[v] = "join" /\ thread[v].pc = "done"
     \/ ctl[v] = "unjoined"
  /\ ctl' = [ctl EXCEPT ![v] = "down"]
  /\ UNCHANGED <<backVars, views, mode, running, thread, died, starts, raced, unread>>

\* without a closure, before the first start, the callback returns at once
listener_died(v) ==
  /\ v \in MayDie /\ died[v] = "alive"
  /\ died' = [died EXCEPT ![v] = IF ctl[v] = "new" THEN "gone" ELSE NeedJoin(v)]
  /\ UNCHANGED <<backVars, views, mode, running, thread, ctl, starts, raced, unread>>

died_clear(v) ==
  /\ died[v] \in {"clear_join", "clear"}
  /\ running' = [running EXCEPT ![v] = FALSE]
  /\ died' = [died EXCEPT ![v] = Cleared(@)]
  /\ UNCHANGED <<backVars, views, mode, thread, ctl, starts, raced, unread>>

died_returns(v) ==
  /\ \/ died[v] = "join" /\ thread[v].pc = "done"
     \/ died[v] = "unjoined"
  /\ died' = [died EXCEPT ![v] = "gone"]
  /\ UNCHANGED <<backVars, views, mode, running, thread, ctl, starts, raced, unread>>

----------------------------------------------------------------------------
RequestStep(r) ==
  \/ delete_next(r) \/ summary_remove(r) \/ summary_add(r)
  \/ \E v \in Views : respond_notify(r, v) \/ respond_complete(r, v)

PopulateStep(v) ==
  \/ thread_signal(v) \/ thread_search(v) \/ thread_check(v) \/ thread_get(v)
  \/ thread_c_get(v) \/ thread_notify(v) \/ thread_finish(v) \/ thread_complete(v)

ControlStep(v) == start_returns(v) \/ stop_clear(v) \/ stop_returns(v)

DiedStep(v) == died_clear(v) \/ died_returns(v)

Next ==
  \/ \E r \in Requests :
       create_contact(r) \/ modify_contact(r) \/ remove_contacts(r) \/ RequestStep(r)
  \/ \E v \in Views :
       \/ start_book_view(v) \/ stop_book_view(v) \/ ControlStep(v)
       \/ listener_died(v) \/ DiedStep(v)
       \/ PopulateStep(v)

Spec == Init /\ [][Next]_vars

(* Every thread that can take a step takes it in the end; no client is     *)
(* obliged to make a request.                                              *)
Fairness ==
  /\ \A r \in Requests : WF_vars(RequestStep(r))
  /\ \A v \in Views : WF_vars(PopulateStep(v)) /\ WF_vars(ControlStep(v))
                      /\ WF_vars(DiedStep(v))

FairSpec == Spec /\ Fairness

----------------------------------------------------------------------------
(* Properties *)

Quiet(i) == ~InFlight(i) /\ i \notin unsynced \cup contended

(* The summary has one item for each contact of the database and none      *)
(* else, as the code of every request leaves it: whatever the requests on  *)
(* other contacts do meanwhile.  Not claimed for a contact while a request *)
(* on it is served, after a sync error, or after two requests on the same  *)
(* contact were served at once.                                            *)
SummaryFollowsDb == \A i \in ContactIds : Quiet(i) => summary[i] = Item(db[i])

Shown(i) == IF db[i] \in Matching THEN db[i] ELSE NoCard

(* Once its thread has run to the end, what the listener of a view holds   *)
(* of a contact is what the database holds, if the query accepts it, and   *)
(* it holds no other contact.  A contact that the thread could not read    *)
(* may be missing, but what is held of it is not out of date.  Not claimed *)
(* while a request on the contact is served, after a sync error or two     *)
(* requests on it at once, or when a request notified the contact between  *)
(* the thread's finding it and notifying it.                               *)
PopulatedInSync ==
  \A v \in Views, i \in ContactIds :
    /\ thread[v].pc = "done" /\ running[v]
    /\ Quiet(i) /\ i \notin raced[v]
    => \/ CaughtUp(views[v])[i] = Shown(i)
       \/ i \in unread[v] /\ CaughtUp(views[v])[i] = NoCard

(* When a request has been answered, its views have been sent what it      *)
(* notified: unless the thread of a view is at work, nothing waits in the  *)
(* buffers of a view while no request is served.                           *)
NothingHeldBack ==
  (\A r \in Requests : ~Busy(r)) =>
    \A v \in Views :
      thread[v].pc \in {"none", "done"} /\ died[v] = "alive" /\ (thread[v].pc = "done" => running[v])
        => /\ views[v].adds = <<>> /\ views[v].changes = <<>> /\ views[v].removes = <<>>

(* When stop_book_view returns to a client whose connection is up, the     *)
(* thread of the view has ended: it sends nothing after the stop.          *)
StopIsFinal ==
  \A v \in Views : ctl[v] = "down" /\ died[v] = "alive" => thread[v].pc = "done"

(* start_book_view, called by a client whose connection stays up, is not   *)
(* left waiting for the flag its thread raises.                            *)
StartReturnsIfAlive ==
  \A v \in Views : (ctl[v] = "starting") ~> (ctl[v] # "starting" \/ died[v] # "alive")

(* A stop returns, and so does the stop the broken connection causes,      *)
(* whatever the thread they join was doing and whichever came first.       *)
StopReturns ==
  \A v \in Views : /\ (ctl[v] \in {"clear_join", "clear"}) ~> (ctl[v] = "down")
                   /\ (died[v] # "alive") ~> (died[v] = "gone")

(* The documentation of e_flag_set, "All threads waiting on @flag are      *)
(* woken up", and the comment in start_book_view, "at this point we know   *)
(* the book view thread is actually running": once the thread has raised   *)
(* the flag, start_book_view returns.                                      *)
StartReturns == \A v \in Views : (ctl[v] = "starting") ~> (ctl[v] # "starting")

(* The documentation of e_data_book_view_notify_complete: all pending      *)
(* updates have been sent, "the listener's information should now be in    *)
(* sync with the backend's".  Stated for the moment when no request is     *)
(* served, none failed, none overlapped another and the database gave the  *)
(* thread no error.                                                        *)
CompleteMeansInSync ==
  \A v \in Views :
    /\ thread[v].pc = "done" /\ running[v]
    /\ \A i \in ContactIds : Quiet(i) /\ i \notin unread[v]
    => \A i \in ContactIds : views[v].held[i] = Shown(i)
=============================================================================
