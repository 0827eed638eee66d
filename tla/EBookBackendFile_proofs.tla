------------------------ MODULE EBookBackendFile_proofs ------------------------
(***************************************************************************)
(* Proofs about EBookBackendFile, for any contacts, contents, views,       *)
(* request threads and thresholds, and any number of requests and starts.  *)
(*                                                                         *)
(* The invariant has one part for each thing the code relies on without a  *)
(* lock: what a request has written and has still to do (Requests), what   *)
(* the summary holds meanwhile (Summary), what the listener of a view      *)
(* holds or will be told (Views), and how starts, stops and threads fit    *)
(* together (Control).                                                     *)
(***************************************************************************)
EXTENDS EBookBackendFile, EDataBookViewOps_proofs

Elements(s) == {s[k] : k \in DOMAIN s}

----------------------------------------------------------------------------
(* Requests *)

(* The contacts a request is about, and those it has written to the        *)
(* database.                                                               *)
Touch(q) == IF q.pc = "idle" THEN {} ELSE Elements(q.ids)

Written(q) ==
  IF q.pc = "idle" THEN {}
  ELSE IF q.op = "remove" THEN Elements(q.removed) ELSE Elements(q.ids)

(* A request at work names contacts that exist or existed, and the lists   *)
(* it goes through are not empty.                                          *)
RequestFits(q, known) ==
  \/ q.pc = "idle"
  \/ /\ Elements(q.ids) \subseteq known
     /\ q.ids # <<>>
     /\ Elements(q.removed) \subseteq Elements(q.ids)
     /\ \/ /\ q.op \in {"create", "modify"}
           /\ q.pc \in {"unsummary", "summary", "notify", "complete"}
           /\ q.pc = "unsummary" => q.op = "modify"
           /\ q.card \in VCards /\ q.todo = q.ids /\ Len(q.ids) = 1
        \/ /\ q.op = "remove"
           /\ q.pc \in {"del", "unsummary", "notify", "complete"}
           /\ q.todo # <<>>
           /\ q.pc # "del" => Elements(q.todo) \subseteq Elements(q.removed)
           /\ q.pc = "del" => Elements(q.todo) \subseteq Elements(q.ids)

RequestsFit == \A r \in Requests : RequestFits(req[r], used)

(* Two requests on one contact are noticed. *)
OverlapIsKnown ==
  \A r, s \in Requests : r # s => Touch(req[r]) \cap Touch(req[s]) \subseteq contended

(* Contacts that never existed are nowhere. *)
UnusedIsAbsent ==
  \A i \in ContactIds \ used : db[i] = NoCard /\ summary[i] = Item(NoCard)

(* What a request wrote is there until another request touches it.  *)
WrittenIsThere ==
  \A r \in Requests : \A i \in Written(req[r]) \ contended :
    db[i] = IF req[r].op = "remove" THEN NoCard ELSE req[r].card

----------------------------------------------------------------------------
(* Summary *)

(* The contacts whose summary a request has still to change. *)
Unsummed(q) ==
  CASE q.pc = "del" -> Elements(q.removed)
    [] q.pc = "unsummary" -> Elements(q.todo)
    [] q.pc = "summary" -> Elements(q.ids)
    [] OTHER -> {}

SummaryInv ==
  /\ \A i \in ContactIds \ contended : \E x \in VCards \cup {NoCard} : summary[i] = Item(x)
  /\ \A i \in ContactIds \ (contended \cup unsynced) :
       (\A r \in Requests : i \notin Unsummed(req[r])) => summary[i] = Item(db[i])
  /\ \A r \in Requests : req[r].pc = "summary" =>
       \A i \in Elements(req[r].ids) \ contended : summary[i] = Item(NoCard)

----------------------------------------------------------------------------
(* Views *)

Told(v) == CaughtUp(views[v])

ViewFits(v) == ViewInv(views[v], Told(v))

(* The contacts a request has still to notify to the view v. *)
Owed(q, v) ==
  CASE q.pc \in {"del", "unsummary", "summary"} -> Written(q)
    [] q.pc = "notify" -> Elements(Tail(q.todo)) \cup (IF v \in q.left THEN {Head(q.todo)} ELSE {})
    [] OTHER -> {}

Settled(v, i) ==
  /\ i \notin contended \cup unsynced \cup raced[v]
  /\ \A r \in Requests : i \notin Owed(req[r], v)

Got(v, i) == thread[v].got # NoCard /\ thread[v].got.id = i

(* The thread of the view has still to look at the contact, or will not,   *)
(* or could not read it.                                                   *)
NotYet(v, i) ==
  \/ thread[v].pc \in {"none", "begin", "search"}
  \/ i \in thread[v].todo
  \/ Got(v, i)
  \/ i \in unread[v]
  \/ ~running[v]

ThreadFits(v) ==
  LET t == thread[v] IN
  /\ t.got # NoCard => t.got \in Card
  /\ t.pc = "notify" => t.got # NoCard
  /\ mode[v] = "summary" =>
       (t.got # NoCard => t.pc = "notify" /\ t.got.id \in t.todo)
  /\ mode[v] = "cursor" => (t.got # NoCard => t.pc \in {"check", "notify"})
  /\ mode[v] = "cursor" /\ t.pc = "check" => t.got # NoCard
  /\ t.pc \in {"none", "begin", "search", "finish", "complete", "done"} => t.todo = {} /\ t.got = NoCard

InSync(v, i) ==
  /\ Told(v)[i] \in {NoCard, Shown(i)}
  /\ ~NotYet(v, i) => Told(v)[i] = Shown(i)
  /\ mode[v] = "summary" /\ i \in thread[v].todo => db[i] \in Matching
  /\ Got(v, i) => thread[v].got.vcard = db[i]

ViewInSync(v) == \A i \in ContactIds : Settled(v, i) => InSync(v, i)

(* What is pending in a view will be flushed: by a request, by its thread, *)
(* or not at all if the view was stopped.                                  *)
Flushed(v) == views[v].adds = <<>> /\ views[v].changes = <<>> /\ views[v].removes = <<>>

WillFlush(q, v) == q.pc = "notify" \/ (q.pc = "complete" /\ v \in q.left)

PendingIsFlushed(v) ==
  \/ Flushed(v)
  \/ \E r \in Requests : WillFlush(req[r], v)
  \/ thread[v].pc \notin {"none", "done"}
  \/ thread[v].pc = "done" /\ ~running[v]
  \/ died[v] # "alive"

----------------------------------------------------------------------------
(* Control *)

ControlFits(v) ==
  /\ ctl[v] = "new" => thread[v].pc = "none"
  /\ died[v] = "alive" =>
       /\ ctl[v] \notin {"clear", "unjoined"}
       /\ ctl[v] = "up" => running[v]
       /\ ctl[v] = "down" => thread[v].pc = "done"

----------------------------------------------------------------------------
(* The invariant: of what requests change, and of the views. *)

Items == [items : Seq(VCards), hashed : BOOLEAN]

Serving ==
  [pc : {"idle", "del", "unsummary", "summary", "notify", "complete"},
   op : {"none", "create", "modify", "remove"},
   ids : Seq(ContactIds), card : VCards \cup {NoCard},
   todo : Seq(ContactIds), removed : Seq(ContactIds), left : SUBSET Views]

Populating ==
  [pc : {"none", "begin", "search", "check", "get", "notify", "finish", "complete", "done"},
   todo : SUBSET ContactIds, got : Card \cup {NoCard}]

BackType ==
  /\ db \in Belief
  /\ summary \in [ContactIds -> Items]
  /\ req \in [Requests -> Serving]
  /\ used \subseteq ContactIds
  /\ made \in 0..MaxRequests
  /\ unsynced \subseteq ContactIds
  /\ contended \subseteq ContactIds

ViewType ==
  /\ views \in [Views -> View]
  /\ mode \in [Views -> QueryModes]
  /\ running \in [Views -> BOOLEAN]
  /\ thread \in [Views -> Populating]
  /\ ctl \in [Views -> {"new", "starting", "up", "clear_join", "clear", "join",
                       "unjoined", "down"}]
  /\ died \in [Views -> {"alive", "clear_join", "clear", "join", "unjoined", "gone"}]
  /\ starts \in [Views -> 0..MaxStarts]
  /\ raced \in [Views -> SUBSET ContactIds]
  /\ unread \in [Views -> SUBSET ContactIds]

BackInv ==
  BackType /\ RequestsFit /\ OverlapIsKnown /\ UnusedIsAbsent /\ WrittenIsThere /\ SummaryInv

ViewOK(v) ==
  ViewFits(v) /\ ThreadFits(v) /\ ViewInSync(v) /\ PendingIsFlushed(v) /\ ControlFits(v)

FrontInv == ViewType /\ \A v \in Views : ViewOK(v)

IInv == BackInv /\ FrontInv

----------------------------------------------------------------------------
(* Sequences *)

LEMMA ElementsOf ==
  ASSUME NEW S, NEW s \in Seq(S)
  PROVE  /\ Elements(s) \subseteq S
         /\ s # <<>> => /\ Head(s) \in S /\ Tail(s) \in Seq(S)
                        /\ Elements(s) = {Head(s)} \cup Elements(Tail(s))
<1>1. Elements(s) \subseteq S
  BY DEF Elements
<1>2. ASSUME s # <<>>
      PROVE  /\ Head(s) \in S /\ Tail(s) \in Seq(S)
             /\ Elements(s) = {Head(s)} \cup Elements(Tail(s))
  <2> DEFINE t == Tail(s)
  <2>1. /\ Head(s) = s[1] /\ t \in Seq(S) /\ Len(s) \in Nat /\ Len(s) >= 1
        /\ Len(t) = Len(s) - 1 /\ \A k \in 1..Len(t) : t[k] = s[k + 1]
    BY <1>2
  <2>2. DOMAIN s = 1..Len(s) /\ DOMAIN t = 1..Len(t)
    BY <2>1
  <2> HIDE DEF t
  <2>3. \A k \in DOMAIN s : k = 1 \/ (k - 1 \in DOMAIN t /\ t[k - 1] = s[k])
    BY <2>1, <2>2
  <2>4. \A k \in DOMAIN t : k + 1 \in DOMAIN s /\ t[k] = s[k + 1]
    BY <2>1, <2>2
  <2>5. 1 \in DOMAIN s /\ s[1] \in S
    BY <2>1, <2>2
  <2>6. Elements(s) \subseteq {Head(s)} \cup Elements(t)
    BY <2>1, <2>3 DEF Elements
  <2>7. {Head(s)} \cup Elements(t) \subseteq Elements(s)
    BY <2>1, <2>4, <2>5 DEF Elements
  <2> QED BY <2>1, <2>5, <2>6, <2>7 DEF t
<1> QED BY <1>1, <1>2

LEMMA ElementsOfOne ==
  ASSUME NEW S, NEW i \in S
  PROVE  <<i>> \in Seq(S) /\ Elements(<<i>>) = {i} /\ <<i>> # <<>> /\ Len(<<i>>) = 1
         /\ Head(<<i>>) = i /\ <<i>>[1] = i
BY DEF Elements

LEMMA ElementsOfPair ==
  ASSUME NEW S, NEW p \in S \X S
  PROVE  p \in Seq(S) /\ Elements(p) = {p[1], p[2]} /\ p # <<>> /\ Elements(p) \subseteq S
<1>1. PICK a \in S, b \in S : p = <<a, b>>
  OBVIOUS
<1>2. <<a, b>> \in Seq(S) /\ Len(<<a, b>>) = 2 /\ <<a, b>>[1] = a /\ <<a, b>>[2] = b
  OBVIOUS
<1>3. p \in Seq(S) /\ Len(p) = 2
  BY <1>1, <1>2
<1>4. DOMAIN p = 1..2 /\ p # <<>>
  BY <1>3
<1> QED BY <1>1, <1>2, <1>3, <1>4 DEF Elements

LEMMA ElementsOfCons ==
  ASSUME NEW S, NEW i \in S, NEW s \in Seq(S)
  PROVE  /\ <<i>> \o s \in Seq(S) /\ <<i>> \o s # <<>>
         /\ Elements(<<i>> \o s) = {i} \cup Elements(s)
<1> DEFINE t == <<i>> \o s
<1>1. /\ t \in Seq(S) /\ Len(s) \in Nat /\ Len(t) = Len(s) + 1 /\ t[1] = i
      /\ \A k \in 1..Len(s) : t[k + 1] = s[k]
  OBVIOUS
<1>2. DOMAIN s = 1..Len(s) /\ DOMAIN t = 1..Len(t) /\ t # <<>>
  BY <1>1
<1> HIDE DEF t
<1>3. \A k \in DOMAIN t : k = 1 \/ (k - 1 \in DOMAIN s /\ t[k] = s[k - 1])
  <2> TAKE k \in DOMAIN t
  <2>1. CASE k = 1
    BY <2>1
  <2>2. CASE k # 1
    <3>1. k - 1 \in 1..Len(s) /\ (k - 1) + 1 = k
      BY <1>1, <1>2, <2>2
    <3> QED BY <1>1, <1>2, <3>1
  <2> QED BY <2>1, <2>2
<1>4. \A k \in DOMAIN s : k + 1 \in DOMAIN t /\ t[k + 1] = s[k]
  BY <1>1, <1>2
<1>5. 1 \in DOMAIN t
  BY <1>1, <1>2
<1>6. Elements(t) \subseteq {i} \cup Elements(s)
  BY <1>1, <1>3 DEF Elements
<1>7. {i} \cup Elements(s) \subseteq Elements(t)
  BY <1>1, <1>4, <1>5 DEF Elements
<1> QED BY <1>1, <1>2, <1>6, <1>7 DEF t

LEMMA Types == BackType /\ ViewType <=> TypeOK
BY DEF BackType, ViewType, TypeOK, Items, Serving, Populating

----------------------------------------------------------------------------
(* The summary of one contact *)

LEMMA ItemOps ==
  /\ \A x \in VCards \cup {NoCard} :
       /\ Item(x) \in Items
       /\ summary_remove_contact(Item(x)) = Item(NoCard)
       /\ (\E k \in DOMAIN Item(x).items : Item(x).items[k] \in Matching) <=> x \in Matching
  /\ \A vc \in VCards : summary_add_contact(Item(NoCard), vc) = Item(vc)
<1>0. NoCard \notin VCards /\ Matching \subseteq VCards
  BY ViewAssumption
<1> DEFINE e == <<>>
<1>1. e \in Seq(VCards) /\ Len(e) = 0 /\ DOMAIN e = {}
  OBVIOUS
<1>2. Item(NoCard) = [items |-> e, hashed |-> FALSE]
  BY DEF Item
<1>3. \A vc \in VCards : Item(vc) = [items |-> <<vc>>, hashed |-> TRUE]
  BY <1>0 DEF Item
<1>4. \A vc \in VCards : Append(e, vc) = <<vc>>
  OBVIOUS
<1>5. \A vc \in VCards : SubSeq(<<vc>>, 1, Len(<<vc>>) - 1) = e
  OBVIOUS
<1>6. \A vc \in VCards : <<vc>> \in Seq(VCards) /\ DOMAIN <<vc>> = {1} /\ <<vc>>[1] = vc
  OBVIOUS
<1> HIDE DEF e
<1>7. summary_remove_contact(Item(NoCard)) = Item(NoCard) /\ Item(NoCard) \in Items
      /\ Item(NoCard).items = e
  BY <1>1, <1>2 DEF summary_remove_contact, Items
<1>8. ASSUME NEW vc \in VCards
      PROVE  /\ summary_remove_contact(Item(vc)) = Item(NoCard)
             /\ Item(vc) \in Items /\ Item(vc).items = <<vc>>
             /\ summary_add_contact(Item(NoCard), vc) = Item(vc)
  <2> DEFINE o == <<vc>>
  <2>1. o \in Seq(VCards) /\ Append(e, vc) = o /\ SubSeq(o, 1, Len(o) - 1) = e
    BY <1>4, <1>5, <1>6
  <2>2. Item(vc) = [items |-> o, hashed |-> TRUE]
    BY <1>3
  <2> HIDE DEF o
  <2>3. Item(vc) \in Items /\ Item(vc).items = o /\ Item(vc).hashed = TRUE
    BY <2>1, <2>2 DEF Items
  <2>4. summary_remove_contact(Item(vc)) = Item(NoCard)
    BY <1>2, <2>1, <2>3 DEF summary_remove_contact
  <2>5. summary_add_contact(Item(NoCard), vc) = Item(vc)
    BY <1>7, <2>1, <2>2 DEF summary_add_contact
  <2> QED BY <2>3, <2>4, <2>5 DEF o
<1> QED BY <1>0, <1>1, <1>6, <1>7, <1>8

LEMMA ItemTypes ==
  ASSUME NEW s \in Items
  PROVE  /\ summary_remove_contact(s) \in Items
         /\ \A vc \in VCards : summary_add_contact(s, vc) \in Items
<1>1. SubSeq(s.items, 1, Len(s.items) - 1) \in Seq(VCards)
  <2>1. s.items \in Seq(VCards) /\ Len(s.items) \in Nat
    BY DEF Items
  <2> QED BY <2>1
<1>2. \A vc \in VCards : Append(s.items, vc) \in Seq(VCards)
  BY DEF Items
<1> QED BY <1>1, <1>2 DEF Items, summary_remove_contact, summary_add_contact

----------------------------------------------------------------------------
(* Steps of requests: what they do with database, summary and requests *)

(* An idle request claims nothing. *)
LEMMA IdleClaimsNothing ==
  /\ Idle \in Serving /\ Idle.pc = "idle" /\ \A S : RequestFits(Idle, S)
  /\ Touch(Idle) = {} /\ Written(Idle) = {} /\ Unsummed(Idle) = {} /\ \A v : Owed(Idle, v) = {} /\ ~WillFlush(Idle, v)
<1> DEFINE e == <<>>
<1>1. e \in Seq(ContactIds)
  OBVIOUS
<1> HIDE DEF e
<1>2. Idle = [pc |-> "idle", op |-> "none", ids |-> e, card |-> NoCard,
              todo |-> e, removed |-> e, left |-> {}]
  BY DEF Idle, e
<1>3. Idle \in Serving /\ Idle.pc = "idle"
  BY <1>1, <1>2 DEF Serving
<1> QED BY <1>3 DEF RequestFits, Touch, Written, Unsummed, Owed, WillFlush

(* A request that has written the contact i and has all else to do. *)
Writer(op, i, vc, next) ==
  [Idle EXCEPT !.pc = next, !.op = op, !.ids = <<i>>, !.todo = <<i>>, !.card = vc]

LEMMA WriterIs ==
  ASSUME NEW op \in {"create", "modify"}, NEW next \in {"unsummary", "summary"},
         op = "create" <=> next = "summary",
         NEW i \in ContactIds, NEW vc \in VCards, NEW S, i \in S
  PROVE  LET q == Writer(op, i, vc, next)
         IN  /\ q \in Serving /\ q.pc = next /\ q.op = op /\ q.card = vc
             /\ RequestFits(q, S) /\ Elements(q.ids) = {i} /\ Touch(q) = {i}
             /\ Written(q) = {i} /\ Unsummed(q) = {i} /\ \A v : Owed(q, v) = {i} /\ ~WillFlush(q, v)
<1> DEFINE e == <<>>
           o == <<i>>
           q == [Idle EXCEPT !.pc = next, !.op = op, !.ids = o, !.todo = o, !.card = vc]
<1>1. e \in Seq(ContactIds) /\ o \in Seq(ContactIds) /\ Elements(o) = {i} /\ Elements(e) = {}
      /\ o # <<>> /\ Len(o) = 1
  BY ElementsOfOne DEF Elements
<1> HIDE DEF e, o
<1>i. Idle = [pc |-> "idle", op |-> "none", ids |-> e, card |-> NoCard,
              todo |-> e, removed |-> e, left |-> {}]
  BY DEF Idle, e
<1>j. Idle \in Serving /\ Idle.removed = e
  BY <1>1, <1>i DEF Serving
<1>3. /\ q \in Serving /\ q.pc = next /\ q.op = op /\ q.card = vc
      /\ q.ids = o /\ q.todo = o /\ q.removed = e
  BY <1>1, <1>j DEF Serving
<1> HIDE DEF q
<1>4. /\ Written(q) = {i} /\ Unsummed(q) = {i} /\ \A v : Owed(q, v) = {i} /\ ~WillFlush(q, v)
  BY <1>1, <1>3 DEF Written, Unsummed, Owed, WillFlush
<1>5. RequestFits(q, S) /\ Touch(q) = {i}
  BY <1>1, <1>3 DEF RequestFits, Touch
<1> QED BY <1>1, <1>3, <1>4, <1>5 DEF q, o, Writer

(* What a request owes or has written is among the contacts it is about. *)
LEMMA ClaimsAreTouched ==
  ASSUME NEW q \in Serving, NEW S, RequestFits(q, S)
  PROVE  /\ Written(q) \subseteq Touch(q) /\ Unsummed(q) \subseteq Touch(q)
         /\ Touch(q) \subseteq S
         /\ \A v : Owed(q, v) \subseteq Touch(q) /\ Unsummed(q) \subseteq Owed(q, v)
<1>1. q.todo \in Seq(ContactIds) /\ q.ids \in Seq(ContactIds)
  BY DEF Serving
<1>2. q.pc # "idle" => q.todo # <<>>
  BY DEF RequestFits
<1>3. q.pc # "idle" => Elements(q.todo) = {Head(q.todo)} \cup Elements(Tail(q.todo))
  BY <1>1, <1>2, ElementsOf
<1>4. q.pc \notin {"idle", "del"} => Elements(q.todo) \subseteq Written(q)
  BY DEF RequestFits, Written
<1>5. Written(q) \subseteq Touch(q) /\ Touch(q) \subseteq S
  BY DEF RequestFits, Written, Touch
<1>6. CASE q.pc = "idle"
  BY <1>6, <1>5 DEF Unsummed, Owed, Touch
<1>7. CASE q.pc = "del"
  BY <1>7, <1>5 DEF Unsummed, Owed, Touch, RequestFits, Written
<1>8. CASE q.pc = "unsummary"
  BY <1>8, <1>4, <1>5 DEF Unsummed, Owed
<1>9. CASE q.pc = "summary"
  BY <1>9, <1>4, <1>5 DEF Unsummed, Owed, RequestFits, Written
<1>10. CASE q.pc \in {"notify", "complete"}
  BY <1>10, <1>3, <1>4, <1>5 DEF Unsummed, Owed
<1> QED BY <1>5, <1>6, <1>7, <1>8, <1>9, <1>10 DEF Serving

----------------------------------------------------------------------------
(* Frames *)

(* A step of the request r keeps what is known of database, summary and    *)
(* requests, if it changes only contacts that no other request is about,   *)
(* or that are now known as contended, and if what r has written, and what *)
(* it will do with the summary, are accounted for.                         *)
LEMMA BackStep ==
  ASSUME BackInv, BackType', NEW r \in Requests, NEW q \in Serving,
         req' = [req EXCEPT ![r] = q],
         used \subseteq used', contended \subseteq contended',
         RequestFits(q, used'),
         \A i \in Touch(q) : i \in Touch(req[r]) \/ i \in contended'
                             \/ \A s \in Requests : i \notin Touch(req[s]),
         \A i \in ContactIds, s \in Requests :
           /\ db'[i] # db[i] \/ summary'[i] # summary[i]
           /\ s # r /\ i \in Touch(req[s])
           => i \in contended',
         \A i \in Written(q) \ contended' :
           db'[i] = IF q.op = "remove" THEN NoCard ELSE q.card,
         \A i \in ContactIds \ used' : db'[i] = db[i] /\ summary'[i] = summary[i],
         \A i \in ContactIds \ contended' :
           summary'[i] = summary[i] \/ \E x \in VCards \cup {NoCard} : summary'[i] = Item(x),
         \A i \in ContactIds \ (contended' \cup unsynced' \cup Unsummed(q)) :
           \/ summary'[i] = Item(db'[i])
           \/ /\ summary'[i] = summary[i] /\ db'[i] = db[i]
              /\ i \notin unsynced \cup Unsummed(req[r]),
         q.pc = "summary" =>
           \A i \in Elements(q.ids) \ contended' : summary'[i] = Item(NoCard)
  PROVE  BackInv'
<1>0. /\ req \in [Requests -> Serving] /\ req' \in [Requests -> Serving]
      /\ req'[r] = q /\ \A s \in Requests : s # r => req'[s] = req[s]
  BY DEF BackInv, BackType
<1>1. RequestsFit'
  <2>1. \A s \in Requests : RequestFits(req'[s], used')
    <3> SUFFICES ASSUME NEW s \in Requests, s # r PROVE RequestFits(req[s], used')
      BY <1>0
    <3> QED BY DEF BackInv, RequestsFit, RequestFits
  <2> QED BY <2>1 DEF RequestsFit
<1>2. OverlapIsKnown'
  <2>1. \A s \in Requests \ {r} : Touch(q) \cap Touch(req[s]) \subseteq contended'
    BY DEF BackInv, OverlapIsKnown
  <2>2. \A s, t \in Requests : s # t => Touch(req'[s]) \cap Touch(req'[t]) \subseteq contended'
    BY <1>0, <2>1 DEF BackInv, OverlapIsKnown
  <2> QED BY <2>2 DEF OverlapIsKnown
<1>3. UnusedIsAbsent'
  BY DEF BackInv, UnusedIsAbsent
<1>t. \A s \in Requests : /\ Written(req[s]) \subseteq Touch(req[s])
                          /\ Unsummed(req[s]) \subseteq Touch(req[s])
                          /\ Touch(req[s]) \subseteq ContactIds
  <2> SUFFICES ASSUME NEW s \in Requests
               PROVE  /\ Written(req[s]) \subseteq Touch(req[s])
                      /\ Unsummed(req[s]) \subseteq Touch(req[s])
                      /\ Touch(req[s]) \subseteq ContactIds
    OBVIOUS
  <2>1. req[s] \in Serving /\ RequestFits(req[s], used) /\ used \subseteq ContactIds
    BY DEF BackInv, BackType, RequestsFit
  <2> QED BY <2>1, ClaimsAreTouched
<1>4. WrittenIsThere'
  <2>1. ASSUME NEW s \in Requests, s # r, NEW i \in Written(req[s]) \ contended'
        PROVE  db'[i] = IF req[s].op = "remove" THEN NoCard ELSE req[s].card
    <3>1. db'[i] = db[i]
      BY <2>1, <1>t
    <3> QED BY <2>1, <3>1 DEF BackInv, WrittenIsThere
  <2>2. \A s \in Requests : \A i \in Written(req'[s]) \ contended' :
          db'[i] = IF req'[s].op = "remove" THEN NoCard ELSE req'[s].card
    BY <1>0, <2>1
  <2> QED BY <2>2 DEF WrittenIsThere
<1>5. SummaryInv'
  <2>1. \A i \in ContactIds \ contended' :
          \E x \in VCards \cup {NoCard} : summary'[i] = Item(x)
    BY DEF BackInv, SummaryInv
  <2>2. ASSUME NEW i \in ContactIds \ (contended' \cup unsynced'),
               \A s \in Requests : i \notin Unsummed(req'[s])
        PROVE  summary'[i] = Item(db'[i])
    <3>1. i \notin Unsummed(q)
      BY <1>0, <2>2
    <3>2. CASE /\ summary'[i] = summary[i] /\ db'[i] = db[i]
               /\ i \notin unsynced \cup Unsummed(req[r])
      <4>1. \A s \in Requests : i \notin Unsummed(req[s])
        BY <1>0, <2>2, <3>2
      <4> QED BY <3>2, <4>1 DEF BackInv, SummaryInv
    <3> QED BY <3>1, <3>2
  <2>3. ASSUME NEW s \in Requests, req'[s].pc = "summary", NEW i \in Elements(req'[s].ids) \ contended'
        PROVE  summary'[i] = Item(NoCard)
    <3>1. CASE s = r
      BY <1>0, <2>3, <3>1
    <3>2. CASE s # r
      <4>1. req[s].pc = "summary" /\ i \in Touch(req[s]) /\ i \notin contended
        BY <1>0, <2>3, <3>2 DEF Touch
      <4>2. summary'[i] = summary[i]
        BY <4>1, <3>2, <2>3, <1>t
      <4> QED BY <1>0, <2>3, <3>2, <4>1, <4>2 DEF BackInv, SummaryInv
    <3> QED BY <3>1, <3>2
  <2> QED BY <2>1, <2>2, <2>3 DEF SummaryInv
<1> QED BY <1>1, <1>2, <1>3, <1>4, <1>5 DEF BackInv

(* A step keeps what is known of a view whose own state it does not        *)
(* change, if no contact becomes settled by it and no flush is called off. *)
LEMMA SameView ==
  ASSUME NEW v, ViewOK(v),
         views'[v] = views[v], mode'[v] = mode[v], running'[v] = running[v],
         thread'[v] = thread[v], ctl'[v] = ctl[v], died'[v] = died[v],
         unread'[v] = unread[v],
         \A i \in ContactIds : Settled(v, i)' => Settled(v, i) /\ db'[i] = db[i],
         (\E r \in Requests : WillFlush(req[r], v)) => \E r \in Requests : WillFlush(req'[r], v)
  PROVE  ViewOK(v)'
<1>1. Told(v)' = Told(v)
  BY DEF Told
<1>2. ViewFits(v)'
  BY <1>1 DEF ViewOK, ViewFits
<1>3. ThreadFits(v)'
  BY DEF ViewOK, ThreadFits
<1>4. ViewInSync(v)'
  <2> SUFFICES ASSUME NEW i \in ContactIds, Settled(v, i)' PROVE InSync(v, i)'
    BY DEF ViewInSync
  <2>1. InSync(v, i) /\ db'[i] = db[i]
    BY DEF ViewOK, ViewInSync
  <2>2. Shown(i)' = Shown(i) /\ NotYet(v, i)' = NotYet(v, i) /\ Got(v, i)' = Got(v, i)
    BY <2>1 DEF Shown, NotYet, Got
  <2> QED BY <2>1, <2>2, <1>1 DEF InSync
<1>5. PendingIsFlushed(v)'
  BY DEF ViewOK, PendingIsFlushed, Flushed
<1>6. ControlFits(v)'
  BY DEF ViewOK, ControlFits
<1> QED BY <1>2, <1>3, <1>4, <1>5, <1>6 DEF ViewOK

(* A step of the request r that leaves the views alone keeps what is known *)
(* of them.                                                                *)
LEMMA ViewsUntold ==
  ASSUME BackInv, FrontInv, UNCHANGED viewVars, NEW r \in Requests, NEW q,
         req' = [req EXCEPT ![r] = q], contended \subseteq contended',
         \A v \in Views : \A i \in ContactIds \ (contended' \cup unsynced' \cup Owed(q, v)) :
           /\ db'[i] = db[i] /\ i \notin unsynced \cup Owed(req[r], v),
         \A v \in Views : ~WillFlush(req[r], v)
  PROVE  FrontInv'
<1>0. /\ req'[r] = q /\ \A s \in Requests : s # r => req'[s] = req[s]
      /\ UNCHANGED <<views, mode, running, thread, ctl, died, starts, raced, unread>>
  BY DEF BackInv, BackType, viewVars
<1>1. ViewType'
  BY <1>0 DEF FrontInv, ViewType
<1>2. ASSUME NEW v \in Views PROVE ViewOK(v)'
  <2>1. ASSUME NEW i \in ContactIds, Settled(v, i)'
        PROVE  Settled(v, i) /\ db'[i] = db[i]
    <3>1. /\ i \notin contended' \cup unsynced' \cup raced[v]
          /\ \A s \in Requests : i \notin Owed(req'[s], v)
      BY <1>0, <2>1 DEF Settled
    <3>2. db'[i] = db[i] /\ i \notin unsynced \cup Owed(req[r], v) /\ i \notin contended
      BY <1>0, <3>1
    <3>3. \A s \in Requests : i \notin Owed(req[s], v)
      BY <1>0, <3>1, <3>2
    <3> QED BY <3>1, <3>2, <3>3 DEF Settled
  <2>2. ASSUME NEW s \in Requests, WillFlush(req[s], v)
        PROVE  WillFlush(req'[s], v)
    BY <1>0, <2>2
  <2>3. ViewOK(v)
    BY DEF FrontInv
  <2> QED BY <1>0, <2>1, <2>2, <2>3, SameView
<1> QED BY <1>1, <1>2 DEF FrontInv

----------------------------------------------------------------------------
(* Steps of requests *)

(* Arrives, in the terms of the invariant. *)
LEMMA ArrivalIsNoticed ==
  ASSUME BackInv, NEW r \in Requests, NEW S \in SUBSET ContactIds, Arrives(r, S)
  PROVE  /\ req[r].pc = "idle" /\ made' \in 0..MaxRequests
         /\ contended \subseteq contended' /\ contended' \subseteq ContactIds
         /\ \A i \in S, s \in Requests : i \in Touch(req[s]) => i \in contended'
<1>1. \A s \in Requests : Touches(s) = Touch(req[s])
  BY DEF Touches, Touch, Busy, Elements
<1>2. made' \in 0..MaxRequests
  BY BackendAssumption DEF BackInv, BackType, Arrives
<1> QED BY <1>1, <1>2 DEF Arrives, Busy, InFlight, BackInv, BackType

(* A write keeps the invariant: its contact is owed to summary and views   *)
(* until the request is done with it, or is known as not synced.           *)
LEMMA WriteKeeps ==
  ASSUME IInv, NEW r \in Requests, NEW i \in ContactIds, NEW vc \in VCards,
         NEW op \in {"create", "modify"}, NEW next \in {"unsummary", "summary"},
         op = "create" <=> next = "summary",
         op = "create" => i \notin used,
         Arrives(r, {i}), Write(r, op, i, vc, next),
         used' = used \cup {i}, UNCHANGED <<summary, viewVars>>
  PROVE  IInv'
<1>0. /\ BackInv /\ FrontInv /\ BackType
      /\ req \in [Requests -> Serving] /\ db \in Belief
  BY DEF IInv, BackInv, BackType
<1>1. /\ req[r].pc = "idle" /\ made' \in 0..MaxRequests
      /\ contended \subseteq contended' /\ contended' \subseteq ContactIds
      /\ \A s \in Requests : i \in Touch(req[s]) => i \in contended'
  BY <1>0, ArrivalIsNoticed
<1>2. /\ Touch(req[r]) = {} /\ Written(req[r]) = {} /\ Unsummed(req[r]) = {}
      /\ \A v : Owed(req[r], v) = {} /\ ~WillFlush(req[r], v)
      /\ \A S : RequestFits(req[r], S)
  BY <1>1 DEF Touch, Written, Unsummed, Owed, WillFlush, RequestFits
<1>3. req = [req EXCEPT ![r] = req[r]] /\ req[r] \in Serving
  BY <1>0
<1>4. [db EXCEPT ![i] = vc] \in Belief
  BY <1>0 DEF Belief
<1>5. /\ used' \subseteq ContactIds /\ i \in used' /\ used \subseteq used'
      /\ summary' \in [ContactIds -> Items] /\ summary' = summary
      /\ unsynced \subseteq ContactIds
  BY <1>0 DEF BackType
<1>6. CASE UNCHANGED <<db, req, unsynced>>
  <2>1. BackType'
    BY <1>0, <1>1, <1>5, <1>6 DEF BackType
  <2> DEFINE q == req[r]
  <2>2. \A j \in ContactIds : db'[j] = db[j] /\ summary'[j] = summary[j]
    BY <1>5, <1>6
  <2>3. req' = [req EXCEPT ![r] = q] /\ q \in Serving /\ RequestFits(q, used')
    BY <1>2, <1>3, <1>6
  <2>4. Touch(q) = {} /\ Written(q) = {} /\ q.pc # "summary"
    BY <1>1, <1>2
  <2>5. BackInv'
    <3> HIDE DEF q
    <3> QED BY <1>0, <1>1, <1>2, <1>5, <1>6, <2>1, <2>2, <2>3, <2>4, BackStep
  <2>6. FrontInv'
    <3> HIDE DEF q
    <3> QED BY <1>0, <1>1, <1>2, <1>6, <2>2, <2>3, ViewsUntold
  <2> QED BY <2>5, <2>6 DEF IInv
<1>7. CASE db' = [db EXCEPT ![i] = vc] /\ unsynced' = unsynced \cup {i} /\ UNCHANGED req
  <2>1. BackType'
    BY <1>0, <1>1, <1>4, <1>5, <1>7 DEF BackType
  <2> DEFINE q == req[r]
  <2>2. \A j \in ContactIds : (j # i => db'[j] = db[j]) /\ summary'[j] = summary[j]
    BY <1>0, <1>5, <1>7 DEF Belief
  <2>3. req' = [req EXCEPT ![r] = q] /\ q \in Serving /\ RequestFits(q, used')
    BY <1>2, <1>3, <1>7
  <2>4. Touch(q) = {} /\ Written(q) = {} /\ q.pc # "summary"
    BY <1>1, <1>2
  <2>5. BackInv'
    <3> HIDE DEF q
    <3>1. \A j \in ContactIds \ used' : db'[j] = db[j] /\ summary'[j] = summary[j]
      BY <1>5, <2>2
    <3>2. \A j \in ContactIds \ (contended' \cup unsynced' \cup Unsummed(q)) :
            /\ summary'[j] = summary[j] /\ db'[j] = db[j] /\ j \notin unsynced \cup Unsummed(req[r])
      BY <1>2, <1>7, <2>2
    <3>3. \A j \in ContactIds, s \in Requests :
            /\ db'[j] # db[j] \/ summary'[j] # summary[j]
            /\ s # r /\ j \in Touch(req[s])
            => j \in contended'
      BY <1>1, <2>2
    <3> QED BY <1>0, <1>1, <1>5, <2>1, <2>2, <2>3, <2>4, <3>1, <3>2, <3>3, BackStep
  <2>6. FrontInv'
    <3> HIDE DEF q
    <3> QED BY <1>0, <1>1, <1>2, <1>7, <2>2, <2>3, ViewsUntold
  <2> QED BY <2>5, <2>6 DEF IInv
<1>8. CASE /\ db' = [db EXCEPT ![i] = vc] /\ unsynced' = unsynced \ {i}
           /\ req' = [req EXCEPT ![r] = [Idle EXCEPT !.pc = next, !.op = op,
                                                     !.ids = <<i>>, !.todo = <<i>>,
                                                     !.card = vc]]
  <2> DEFINE q == Writer(op, i, vc, next)
  <2>1. /\ q \in Serving /\ q.pc = next /\ q.op = op /\ q.card = vc
        /\ RequestFits(q, used') /\ Elements(q.ids) = {i} /\ Touch(q) = {i}
        /\ Written(q) = {i} /\ Unsummed(q) = {i} /\ \A v : Owed(q, v) = {i} /\ ~WillFlush(q, v)
    BY <1>5, WriterIs
  <2>2. req' = [req EXCEPT ![r] = q]
    BY <1>8 DEF Writer
  <2> HIDE DEF q
  <2>3. BackType'
    <3>1. req' \in [Requests -> Serving]
      BY <1>0, <2>1, <2>2
    <3>2. unsynced' \subseteq ContactIds
      BY <1>5, <1>8
    <3> QED BY <1>0, <1>1, <1>4, <1>5, <1>8, <3>1, <3>2 DEF BackType
  <2>4. \A j \in ContactIds : (j # i => db'[j] = db[j]) /\ summary'[j] = summary[j]
    BY <1>0, <1>5, <1>8 DEF Belief
  <2>5. db'[i] = vc
    BY <1>0, <1>8 DEF Belief
  <2>6. next = "summary" => summary'[i] = Item(NoCard)
    BY <1>0, <1>5 DEF BackInv, UnusedIsAbsent
  <2>7. q.op # "remove"
    BY <2>1
  <2>8. BackInv'
    <3>1. \A j \in ContactIds \ used' : db'[j] = db[j] /\ summary'[j] = summary[j]
      BY <1>5, <2>4
    <3>2. \A j \in ContactIds \ (contended' \cup unsynced' \cup Unsummed(q)) :
            /\ summary'[j] = summary[j] /\ db'[j] = db[j] /\ j \notin unsynced \cup Unsummed(req[r])
      BY <1>2, <1>8, <2>1, <2>4
    <3>3. \A j \in Written(q) \ contended' :
            db'[j] = IF q.op = "remove" THEN NoCard ELSE q.card
      BY <2>1, <2>5, <2>7
    <3>4. q.pc = "summary" =>
            \A j \in Elements(q.ids) \ contended' : summary'[j] = Item(NoCard)
      BY <2>1, <2>6
    <3>5. \A j \in ContactIds, s \in Requests :
            /\ db'[j] # db[j] \/ summary'[j] # summary[j]
            /\ s # r /\ j \in Touch(req[s])
            => j \in contended'
      BY <1>1, <2>4
    <3>6. \A j \in Touch(q) : j \in contended' \/ \A s \in Requests : j \notin Touch(req[s])
      BY <1>1, <2>1
    <3>7. q \in Serving /\ RequestFits(q, used')
      BY <2>1
    <3> QED BY <1>0, <1>1, <1>5, <2>2, <2>3, <2>4, <3>1, <3>2, <3>3, <3>4, <3>5, <3>6, <3>7, BackStep
  <2>9. FrontInv'
    <3>1. \A v \in Views : \A j \in ContactIds \ (contended' \cup unsynced' \cup Owed(q, v)) :
            /\ db'[j] = db[j] /\ j \notin unsynced \cup Owed(req[r], v)
      BY <1>2, <1>8, <2>1, <2>4
    <3> QED BY <1>0, <1>1, <1>2, <2>2, <3>1, ViewsUntold
  <2> QED BY <2>8, <2>9 DEF IInv
<1> QED BY <1>6, <1>7, <1>8 DEF Write

LEMMA CreateKeeps ==
  ASSUME IInv, NEW r \in Requests, create_contact(r)
  PROVE  IInv'
<1>1. PICK i \in ContactIds \ used, vc \in VCards :
        /\ Arrives(r, {i}) /\ Write(r, "create", i, vc, "summary")
        /\ used' = used \cup {i}
  BY DEF create_contact
<1>2. UNCHANGED <<summary, viewVars>>
  BY DEF create_contact
<1> QED BY <1>1, <1>2, WriteKeeps

LEMMA ModifyKeeps ==
  ASSUME IInv, NEW r \in Requests, modify_contact(r)
  PROVE  IInv'
<1>1. PICK i \in used, vc \in VCards :
        Arrives(r, {i}) /\ Write(r, "modify", i, vc, "unsummary")
  BY DEF modify_contact
<1>2. UNCHANGED <<summary, viewVars>> /\ used' = used \cup {i}
  BY DEF modify_contact
<1>3. i \in ContactIds
  BY DEF IInv, BackInv, BackType
<1> QED BY <1>1, <1>2, <1>3, WriteKeeps

(* A request that leaves database and summary alone, and changes nothing   *)
(* it has written or has still to do with them, keeps the invariant.       *)
LEMMA QuietBackStep ==
  ASSUME BackInv, BackType', NEW r \in Requests, NEW q \in Serving,
         req' = [req EXCEPT ![r] = q], UNCHANGED <<db, summary, used, unsynced>>,
         contended \subseteq contended',
         RequestFits(q, used),
         \A i \in Touch(q) : i \in Touch(req[r]) \/ i \in contended'
                             \/ \A s \in Requests : i \notin Touch(req[s]),
         Written(q) \subseteq Written(req[r]),
         Written(q) # {} => q.op = req[r].op /\ q.card = req[r].card,
         Unsummed(req[r]) \subseteq Unsummed(q),
         q.pc # "summary"
  PROVE  BackInv'
<1>1. \A i \in Written(q) \ contended' : db'[i] = IF q.op = "remove" THEN NoCard ELSE q.card
  <2> SUFFICES ASSUME NEW i \in Written(q) \ contended'
               PROVE  db'[i] = IF q.op = "remove" THEN NoCard ELSE q.card
    OBVIOUS
  <2>1. q.op = req[r].op /\ q.card = req[r].card
    OBVIOUS
  <2>2. i \in Written(req[r]) \ contended
    OBVIOUS
  <2> QED BY <2>1, <2>2 DEF BackInv, WrittenIsThere
<1>2. \A i \in ContactIds \ (contended' \cup unsynced' \cup Unsummed(q)) :
         /\ summary'[i] = summary[i] /\ db'[i] = db[i]
         /\ i \notin unsynced \cup Unsummed(req[r])
  OBVIOUS
<1>3. /\ \A i \in ContactIds : db'[i] = db[i] /\ summary'[i] = summary[i]
      /\ used' = used
  OBVIOUS
<1>4. RequestFits(q, used') /\ used \subseteq used'
  BY <1>3
<1>5. \A i \in ContactIds, s \in Requests :
           /\ db'[i] # db[i] \/ summary'[i] # summary[i]
           /\ s # r /\ i \in Touch(req[s])
           => i \in contended'
  BY <1>3
<1>6. \A i \in ContactIds \ used' : db'[i] = db[i] /\ summary'[i] = summary[i]
  BY <1>3
<1>7. \A i \in ContactIds \ contended' :
           summary'[i] = summary[i] \/ \E x \in VCards \cup {NoCard} : summary'[i] = Item(x)
  BY <1>3
<1> QED BY <1>1, <1>2, <1>4, <1>5, <1>6, <1>7, BackStep

(* remove_contacts: the request has all of its contacts to delete. *)
Remover(ids) == [Idle EXCEPT !.pc = "del", !.op = "remove", !.ids = ids, !.todo = ids]

LEMMA RemoverIs ==
  ASSUME NEW ids \in Seq(ContactIds), ids # <<>>, NEW S, Elements(ids) \subseteq S
  PROVE  LET q == Remover(ids)
         IN  /\ q \in Serving /\ q.pc = "del" /\ RequestFits(q, S)
             /\ Touch(q) = Elements(ids) /\ Written(q) = {} /\ Unsummed(q) = {}
             /\ \A v : Owed(q, v) = {} /\ ~WillFlush(q, v)
<1> DEFINE e == <<>>
           q == [Idle EXCEPT !.pc = "del", !.op = "remove", !.ids = ids, !.todo = ids]
<1>1. e \in Seq(ContactIds) /\ Elements(e) = {}
  BY DEF Elements
<1> HIDE DEF e
<1>2. Idle = [pc |-> "idle", op |-> "none", ids |-> e, card |-> NoCard,
              todo |-> e, removed |-> e, left |-> {}]
  BY DEF Idle, e
<1>3. Idle \in Serving /\ Idle.removed = e
  BY <1>1, <1>2 DEF Serving
<1>4. /\ q \in Serving /\ q.pc = "del" /\ q.op = "remove"
      /\ q.ids = ids /\ q.todo = ids /\ q.removed = e
  BY <1>3 DEF Serving
<1> HIDE DEF q
<1>5. /\ Touch(q) = Elements(ids) /\ Written(q) = {} /\ Unsummed(q) = {}
      /\ \A v : Owed(q, v) = {} /\ ~WillFlush(q, v)
  BY <1>1, <1>4 DEF Touch, Written, Unsummed, Owed, WillFlush
<1>6. RequestFits(q, S)
  BY <1>1, <1>4 DEF RequestFits
<1> QED BY <1>4, <1>5, <1>6 DEF q, Remover

LEMMA RemoveRequestKeeps ==
  ASSUME IInv, NEW r \in Requests, remove_contacts(r)
  PROVE  IInv'
<1>0. /\ BackInv /\ FrontInv /\ BackType /\ used \subseteq ContactIds
      /\ req \in [Requests -> Serving]
  BY DEF IInv, BackInv, BackType
<1>1. PICK ids \in {<<i>> : i \in used} \cup {p \in used \X used : p[1] # p[2]} :
        Arrives(r, Range(ids)) /\ req' = [req EXCEPT ![r] = Remover(ids)]
  BY DEF remove_contacts, Remover
<1>2. ids \in Seq(ContactIds) /\ ids # <<>> /\ Elements(ids) \subseteq used
  <2>1. CASE ids \in {<<i>> : i \in used}
    <3>1. PICK i \in used : ids = <<i>>
      BY <2>1
    <3>2. /\ <<i>> \in Seq(used) /\ Elements(<<i>>) = {i} /\ <<i>> # <<>>
      BY ElementsOfOne
    <3>3. ids \in Seq(used)
      BY <3>1, <3>2
    <3>4. ids \in Seq(ContactIds)
      BY <3>3, <1>0
    <3> QED BY <3>1, <3>2, <3>4
  <2>2. CASE ids \in {p \in used \X used : p[1] # p[2]}
    <3>1. ids \in used \X used
      BY <2>2
    <3>2. ids \in Seq(used) /\ ids # <<>> /\ Elements(ids) \subseteq used
      BY <3>1, ElementsOfPair
    <3>3. ids \in Seq(ContactIds)
      BY <3>2, <1>0
    <3> QED BY <3>2, <3>3
  <2> QED BY <1>1, <2>1, <2>2
<1>3. Range(ids) = Elements(ids) /\ Range(ids) \in SUBSET ContactIds
  BY <1>0, <1>2 DEF Range, Elements
<1>4. /\ req[r].pc = "idle" /\ made' \in 0..MaxRequests
      /\ contended \subseteq contended' /\ contended' \subseteq ContactIds
      /\ \A i \in Elements(ids), s \in Requests : i \in Touch(req[s]) => i \in contended'
  <2>1. Arrives(r, Elements(ids)) /\ Elements(ids) \in SUBSET ContactIds
    BY <1>1, <1>3
  <2> QED BY <1>0, <2>1, ArrivalIsNoticed
<1>5. /\ Touch(req[r]) = {} /\ Written(req[r]) = {} /\ Unsummed(req[r]) = {}
      /\ \A v : Owed(req[r], v) = {} /\ ~WillFlush(req[r], v)
  BY <1>4 DEF Touch, Written, Unsummed, Owed, WillFlush
<1> DEFINE q == Remover(ids)
<1>6. /\ q \in Serving /\ q.pc = "del" /\ RequestFits(q, used)
      /\ Touch(q) = Elements(ids) /\ Written(q) = {} /\ Unsummed(q) = {}
      /\ \A v : Owed(q, v) = {} /\ ~WillFlush(q, v)
  BY <1>2, RemoverIs
<1>7. req' = [req EXCEPT ![r] = q] /\ UNCHANGED <<db, summary, used, unsynced, viewVars>>
  BY <1>1 DEF remove_contacts
<1> HIDE DEF q
<1>8. BackType'
  <2>1. req' \in [Requests -> Serving]
    BY <1>0, <1>6, <1>7
  <2> QED BY <1>0, <1>4, <1>7, <2>1 DEF BackType
<1>9. BackInv'
  <2>1. q.pc # "summary"
    BY <1>6
  <2> QED BY <1>0, <1>4, <1>5, <1>6, <1>7, <1>8, <2>1, QuietBackStep
<1>10. FrontInv'
  <2>1. \A v \in Views : \A i \in ContactIds \ (contended' \cup unsynced' \cup Owed(q, v)) :
          /\ db'[i] = db[i] /\ i \notin unsynced \cup Owed(req[r], v)
    BY <1>5, <1>7
  <2> QED BY <1>0, <1>4, <1>5, <1>7, <2>1, ViewsUntold
<1> QED BY <1>9, <1>10 DEF IInv

(* One turn of the loop over the contacts to delete: the rest is still to  *)
(* be deleted, or all that was deleted is to leave the summary.            *)
LEMMA DelLoop ==
  ASSUME NEW q \in Serving, q.pc = "del", NEW S, RequestFits(q, S),
         NEW gone \in Seq(ContactIds), Elements(gone) \subseteq Elements(q.ids)
  PROVE  LET p == AfterDel([q EXCEPT !.todo = Tail(q.todo), !.removed = gone])
         IN  /\ p \in Serving /\ RequestFits(p, S) /\ Touch(p) \subseteq Touch(q)
             /\ Written(p) = Elements(gone) /\ Unsummed(p) = Elements(gone)
             /\ (Elements(gone) # {} => p.op = "remove" /\ p.card = q.card)
             /\ p.pc # "summary"
             /\ \A v : Owed(p, v) = Elements(gone)
<1> DEFINE t == Tail(q.todo)
           x == [q EXCEPT !.todo = t, !.removed = gone]
           p == AfterDel(x)
<1>1. /\ q.todo \in Seq(ContactIds) /\ q.todo # <<>> /\ q.op = "remove"
      /\ Elements(q.todo) \subseteq Elements(q.ids)
      /\ Elements(q.ids) \subseteq S /\ q.ids # <<>> /\ q.pc = "del"
  BY DEF RequestFits, Serving
<1>2. t \in Seq(ContactIds) /\ Elements(t) \subseteq Elements(q.ids)
  BY <1>1, ElementsOf
<1> HIDE DEF t
<1>3. /\ x \in Serving /\ x.pc = "del" /\ x.op = "remove" /\ x.ids = q.ids /\ x.card = q.card
      /\ x.todo = t /\ x.removed = gone
  BY <1>1, <1>2 DEF Serving
<1>4. Elements(gone) = {} <=> gone = <<>>
  <2>1. gone # <<>> => Elements(gone) = {Head(gone)} \cup Elements(Tail(gone))
    BY ElementsOf
  <2>2. gone = <<>> => Elements(gone) = {}
    BY DEF Elements
  <2> QED BY <2>1, <2>2
<1> HIDE DEF x
<1>5. CASE t # <<>>
  <2>1. p = x
    BY <1>3, <1>5 DEF AfterDel
  <2>2. RequestFits(x, S)
    BY <1>1, <1>2, <1>3, <1>5 DEF RequestFits
  <2>3. Touch(x) = Touch(q) /\ Written(x) = Elements(gone) /\ Unsummed(x) = Elements(gone)
        /\ \A v : Owed(x, v) = Elements(gone)
    BY <1>1, <1>3 DEF Touch, Written, Unsummed, Owed
  <2> QED BY <1>3, <2>1, <2>2, <2>3 DEF x, t
<1>6. CASE t = <<>> /\ gone = <<>>
  <2>1. p = Idle
    BY <1>3, <1>6 DEF AfterDel
  <2> QED BY <2>1, <1>4, <1>6, IdleClaimsNothing DEF x, t
<1>7. CASE t = <<>> /\ gone # <<>>
  <2>1. p = [x EXCEPT !.pc = "unsummary", !.todo = gone]
    BY <1>3, <1>7 DEF AfterDel
  <2> HIDE DEF p
  <2>2. /\ p \in Serving /\ p.pc = "unsummary" /\ p.op = "remove" /\ p.ids = q.ids
        /\ p.card = q.card /\ p.todo = gone /\ p.removed = gone
    BY <1>3, <2>1 DEF Serving
  <2>3. RequestFits(p, S)
    BY <1>1, <1>7, <2>2 DEF RequestFits
  <2>4. Touch(p) = Touch(q) /\ Written(p) = Elements(gone) /\ Unsummed(p) = Elements(gone)
        /\ \A v : Owed(p, v) = Elements(gone)
    BY <1>1, <2>2 DEF Touch, Written, Unsummed, Owed
  <2> QED BY <2>2, <2>3, <2>4 DEF p, x, t
<1> QED BY <1>5, <1>6, <1>7

LEMMA DeleteKeeps ==
  ASSUME IInv, NEW r \in Requests, delete_next(r)
  PROVE  IInv'
<1> DEFINE q == req[r]
           i == Head(q.todo)
<1>0. /\ BackInv /\ FrontInv /\ BackType /\ used \subseteq ContactIds /\ db \in Belief
      /\ req \in [Requests -> Serving] /\ q \in Serving /\ RequestFits(q, used)
  BY DEF IInv, BackInv, BackType, RequestsFit
<1>1. /\ q.pc = "del" /\ q.op = "remove" /\ q.todo # <<>> /\ q.removed \in Seq(ContactIds)
      /\ q.todo \in Seq(ContactIds)
      /\ Elements(q.todo) \subseteq Elements(q.ids) /\ Elements(q.removed) \subseteq Elements(q.ids)
      /\ UNCHANGED <<summary, used, made, contended, viewVars>>
  BY <1>0 DEF delete_next, RequestFits, Serving
<1>2. i \in ContactIds /\ i \in Elements(q.ids)
  BY <1>1, ElementsOf
<1>3. /\ Touch(q) = Elements(q.ids) /\ Written(q) = Elements(q.removed)
      /\ Unsummed(q) = Elements(q.removed)
      /\ \A v : Owed(q, v) = Elements(q.removed) /\ ~WillFlush(q, v)
  BY <1>1 DEF Touch, Written, Unsummed, Owed, WillFlush
<1>4. ASSUME NEW p \in Serving, req' = [req EXCEPT ![r] = p], db' \in Belief,
             unsynced' \subseteq ContactIds
      PROVE  BackType'
  <2>1. req' \in [Requests -> Serving]
    BY <1>0, <1>4
  <2> QED BY <1>0, <1>1, <1>4, <2>1 DEF BackType
<1>5. CASE /\ db' = [db EXCEPT ![i] = NoCard]
           /\ unsynced' = unsynced \ {i}
           /\ req' = [req EXCEPT ![r] = AfterDel([q EXCEPT !.todo = Tail(q.todo),
                                                           !.removed = <<i>> \o q.removed])]
  <2> DEFINE gone == <<i>> \o q.removed
             p == AfterDel([q EXCEPT !.todo = Tail(q.todo), !.removed = gone])
  <2>1. gone \in Seq(ContactIds) /\ Elements(gone) = {i} \cup Elements(q.removed)
    BY <1>1, <1>2, ElementsOfCons
  <2>2. Elements(gone) \subseteq Elements(q.ids)
    BY <1>1, <1>2, <2>1
  <2>3. req' = [req EXCEPT ![r] = p]
    BY <1>5
  <2> HIDE DEF gone, i
  <2>4. /\ p \in Serving /\ RequestFits(p, used) /\ Touch(p) \subseteq Touch(q)
        /\ Written(p) = Elements(gone) /\ Unsummed(p) = Elements(gone)
        /\ (Elements(gone) # {} => p.op = "remove" /\ p.card = q.card)
        /\ p.pc # "summary"
        /\ \A v : Owed(p, v) = Elements(gone)
    <3> HIDE DEF q
    <3> QED BY <1>0, <1>1, <2>1, <2>2, DelLoop
  <2> HIDE DEF p, q
  <2>5. db' \in Belief /\ db'[i] = NoCard /\ \A j \in ContactIds : j # i => db'[j] = db[j]
    BY <1>0, <1>2, <1>5 DEF Belief
  <2>6. BackType' /\ unsynced \subseteq ContactIds
    BY <1>0, <1>4, <1>5, <2>3, <2>4, <2>5 DEF BackType
  <2>7. \A s \in Requests : s # r /\ i \in Touch(req[s]) => i \in contended'
    BY <1>0, <1>1, <1>2, <1>3 DEF BackInv, OverlapIsKnown, q
  <2>8. \A j \in Written(p) \ contended' :
          db'[j] = IF p.op = "remove" THEN NoCard ELSE p.card
    <3> SUFFICES ASSUME NEW j \in Elements(gone) \ contended' PROVE db'[j] = NoCard
      BY <2>4
    <3>1. CASE j = i
      BY <3>1, <2>5
    <3>2. CASE j # i
      <4>1. j \in Written(q) \ contended /\ j \in ContactIds
        BY <3>2, <2>1, <1>1, <1>3, <1>0, ElementsOf
      <4>2. db[j] = NoCard
        BY <4>1, <1>0, <1>1 DEF BackInv, WrittenIsThere, q
      <4> QED BY <3>2, <2>5, <4>1, <4>2
    <3> QED BY <3>1, <3>2
  <2>9. BackInv'
    <3>1. \A j \in ContactIds \ used' : db'[j] = db[j] /\ summary'[j] = summary[j]
      BY <1>0, <1>1, <1>2, <2>5 DEF RequestFits
    <3>2. \A j \in ContactIds \ (contended' \cup unsynced' \cup Unsummed(p)) :
            /\ summary'[j] = summary[j] /\ db'[j] = db[j] /\ j \notin unsynced \cup Unsummed(q)
      BY <1>1, <1>3, <1>5, <2>1, <2>4, <2>5
    <3>3. \A j \in ContactIds, s \in Requests :
            /\ db'[j] # db[j] \/ summary'[j] # summary[j]
            /\ s # r /\ j \in Touch(req[s])
            => j \in contended'
      BY <1>1, <2>5, <2>7
    <3>4. used \subseteq used' /\ contended \subseteq contended' /\ RequestFits(p, used')
          /\ \A j \in Touch(p) : j \in Touch(q)
      BY <1>1, <2>4
    <3>5. \A j \in ContactIds : summary'[j] = summary[j]
      BY <1>1
    <3> QED BY <1>0, <2>3, <2>4, <2>6, <2>8, <3>1, <3>2, <3>3, <3>4, <3>5, BackStep DEF q
  <2>10. FrontInv'
    <3>1. \A v \in Views : \A j \in ContactIds \ (contended' \cup unsynced' \cup Owed(p, v)) :
            /\ db'[j] = db[j] /\ j \notin unsynced \cup Owed(q, v)
      BY <1>3, <1>5, <2>1, <2>4, <2>5
    <3>2. contended \subseteq contended' /\ UNCHANGED viewVars
      BY <1>1
    <3> QED BY <1>0, <1>3, <2>3, <3>1, <3>2, ViewsUntold DEF q
  <2> QED BY <2>9, <2>10 DEF IInv
<1>6. CASE /\ req' = [req EXCEPT ![r] = AfterDel([q EXCEPT !.todo = Tail(q.todo)])]
           /\ UNCHANGED <<db, unsynced>>
  <2> DEFINE p == AfterDel([q EXCEPT !.todo = Tail(q.todo), !.removed = q.removed])
  <2>1. [q EXCEPT !.todo = Tail(q.todo)]
          = [q EXCEPT !.todo = Tail(q.todo), !.removed = q.removed]
    BY <1>0 DEF Serving
  <2>2. req' = [req EXCEPT ![r] = p]
    BY <1>6, <2>1
  <2>3. /\ p \in Serving /\ RequestFits(p, used) /\ Touch(p) \subseteq Touch(q)
        /\ Written(p) = Elements(q.removed) /\ Unsummed(p) = Elements(q.removed)
        /\ (Elements(q.removed) # {} => p.op = "remove" /\ p.card = q.card)
        /\ p.pc # "summary"
        /\ \A v : Owed(p, v) = Elements(q.removed)
    <3> HIDE DEF q
    <3> QED BY <1>0, <1>1, DelLoop
  <2> HIDE DEF p, q
  <2>4. BackType'
    <3>1. db' \in Belief /\ unsynced' \subseteq ContactIds
      BY <1>0, <1>6 DEF BackType
    <3> QED BY <1>4, <2>2, <2>3, <3>1
  <2>5. BackInv'
    <3>1. contended \subseteq contended' /\ UNCHANGED <<db, summary, used, unsynced>>
      BY <1>1, <1>6
    <3> QED BY <1>0, <1>1, <1>3, <2>2, <2>3, <2>4, <3>1, QuietBackStep DEF q
  <2>6. FrontInv'
    <3>1. \A v \in Views : \A j \in ContactIds \ (contended' \cup unsynced' \cup Owed(p, v)) :
            /\ db'[j] = db[j] /\ j \notin unsynced \cup Owed(q, v)
      BY <1>3, <1>6, <2>3
    <3>2. contended \subseteq contended' /\ UNCHANGED viewVars
      BY <1>1
    <3> QED BY <1>0, <1>3, <2>2, <3>1, <3>2, ViewsUntold DEF q
  <2> QED BY <2>5, <2>6 DEF IInv
<1>7. [[q EXCEPT !.todo = Tail(q.todo)] EXCEPT !.removed = <<i>> \o q.removed]
        = [q EXCEPT !.todo = Tail(q.todo), !.removed = <<i>> \o q.removed]
  OBVIOUS
<1> QED BY <1>5, <1>6, <1>7 DEF delete_next

(* A request that starts to notify the contacts ids owes them to all views. *)
LEMMA NotifierIs ==
  ASSUME NEW q \in Serving, NEW ids \in Seq(ContactIds), ids # <<>>
  PROVE  LET p == ToNotify(q, ids)
         IN  /\ p \in Serving /\ p.pc = "notify" /\ p.op = q.op /\ p.ids = q.ids
             /\ p.card = q.card /\ p.todo = ids /\ p.removed = q.removed /\ p.left = Views
             /\ Unsummed(p) = {}
             /\ (q.pc # "idle" => Touch(p) = Touch(q) /\ Written(p) = Written(q))
             /\ \A v \in Views : Owed(p, v) = Elements(ids) /\ WillFlush(p, v)
<1> DEFINE p == ToNotify(q, ids)
<1>1. /\ p \in Serving /\ p.pc = "notify" /\ p.op = q.op /\ p.ids = q.ids
      /\ p.card = q.card /\ p.todo = ids /\ p.removed = q.removed /\ p.left = Views
  BY DEF ToNotify, Serving
<1>2. Elements(ids) = {Head(ids)} \cup Elements(Tail(ids))
  BY ElementsOf
<1> HIDE DEF p
<1>3. \A v \in Views : Owed(p, v) = Elements(ids) /\ WillFlush(p, v)
  BY <1>1, <1>2 DEF Owed, WillFlush
<1>4. /\ Unsummed(p) = {}
      /\ (q.pc # "idle" => Touch(p) = Touch(q) /\ Written(p) = Written(q))
  BY <1>1 DEF Unsummed, Touch, Written
<1> QED BY <1>1, <1>3, <1>4 DEF p

(* A step on the summary, of a request that has written what it is about.  *)
LEMMA SummaryStepKeeps ==
  ASSUME IInv, NEW r \in Requests, NEW p \in Serving, NEW i \in ContactIds,
         NEW item \in Items, req[r].pc \in {"unsummary", "summary"},
         i \in Written(req[r]),
         summary' = [summary EXCEPT ![i] = item], req' = [req EXCEPT ![r] = p],
         UNCHANGED <<db, used, made, unsynced, contended, viewVars>>,
         RequestFits(p, used), Touch(p) = Touch(req[r]), Written(p) = Written(req[r]),
         p.op = req[r].op, p.card = req[r].card,
         i \notin contended => \E x \in VCards \cup {NoCard} : item = Item(x),
         i \notin contended \cup Unsummed(p) => item = Item(db[i]),
         Unsummed(req[r]) \subseteq Unsummed(p) \cup {i},
         p.pc = "summary" => \A j \in Elements(p.ids) : j = i /\ (i \notin contended => item = Item(NoCard)),
         \A v \in Views : Owed(req[r], v) \subseteq Owed(p, v)
  PROVE  IInv'
<1>0. /\ BackInv /\ FrontInv /\ BackType /\ used \subseteq ContactIds
      /\ req \in [Requests -> Serving] /\ req[r] \in Serving /\ RequestFits(req[r], used)
      /\ summary \in [ContactIds -> Items]
  BY DEF IInv, BackInv, BackType, RequestsFit
<1>1. /\ summary' \in [ContactIds -> Items] /\ summary'[i] = item
      /\ \A j \in ContactIds : j # i => summary'[j] = summary[j]
  BY <1>0
<1>2. BackType'
  <2>1. req' \in [Requests -> Serving]
    BY <1>0
  <2> QED BY <1>0, <1>1, <2>1 DEF BackType
<1>3. i \in Touch(req[r]) /\ i \in used
  BY <1>0, ClaimsAreTouched
<1>4. BackInv'
  <2>1. used \subseteq used' /\ contended \subseteq contended' /\ RequestFits(p, used')
    OBVIOUS
  <2>2. \A j \in ContactIds, s \in Requests :
          /\ db'[j] # db[j] \/ summary'[j] # summary[j]
          /\ s # r /\ j \in Touch(req[s])
          => j \in contended'
    BY <1>0, <1>1, <1>3 DEF BackInv, OverlapIsKnown
  <2>3. \A j \in Written(p) \ contended' :
          db'[j] = IF p.op = "remove" THEN NoCard ELSE p.card
    BY <1>0 DEF BackInv, WrittenIsThere
  <2>4. \A j \in ContactIds \ used' : db'[j] = db[j] /\ summary'[j] = summary[j]
    BY <1>1, <1>3
  <2>5. \A j \in ContactIds \ contended' :
          summary'[j] = summary[j] \/ \E x \in VCards \cup {NoCard} : summary'[j] = Item(x)
    BY <1>1
  <2>6. \A j \in ContactIds \ (contended' \cup unsynced' \cup Unsummed(p)) :
           \/ summary'[j] = Item(db'[j])
           \/ /\ summary'[j] = summary[j] /\ db'[j] = db[j]
              /\ j \notin unsynced \cup Unsummed(req[r])
    <3> SUFFICES ASSUME NEW j \in ContactIds \ (contended \cup unsynced \cup Unsummed(p))
                 PROVE  \/ summary'[j] = Item(db[j])
                        \/ /\ summary'[j] = summary[j]
                           /\ j \notin unsynced \cup Unsummed(req[r])
      OBVIOUS
    <3>1. CASE j = i
      BY <3>1, <1>1
    <3>2. CASE j # i
      BY <3>2, <1>1
    <3> QED BY <3>1, <3>2
  <2>7. p.pc = "summary" =>
          \A j \in Elements(p.ids) \ contended' : summary'[j] = Item(NoCard)
    BY <1>1
  <2>8. \A j \in Touch(p) : j \in Touch(req[r])
    OBVIOUS
  <2> QED BY <1>0, <1>2, <2>1, <2>2, <2>3, <2>4, <2>5, <2>6, <2>7, <2>8, BackStep
<1>5. FrontInv'
  <2>1. \A v \in Views : \A j \in ContactIds \ (contended' \cup unsynced' \cup Owed(p, v)) :
          /\ db'[j] = db[j] /\ j \notin unsynced \cup Owed(req[r], v)
    OBVIOUS
  <2>2. \A v \in Views : ~WillFlush(req[r], v)
    BY DEF WillFlush
  <2>3. contended \subseteq contended'
    OBVIOUS
  <2> QED BY <1>0, <2>1, <2>2, <2>3, ViewsUntold
<1> QED BY <1>4, <1>5 DEF IInv

LEMMA SummaryAddKeeps ==
  ASSUME IInv, NEW r \in Requests, summary_add(r)
  PROVE  IInv'
<1> DEFINE q == req[r]
           i == q.ids[1]
           item == summary_add_contact(summary[i], q.card)
           p == ToNotify(q, q.ids)
<1>0. /\ BackInv /\ BackType /\ req \in [Requests -> Serving] /\ q \in Serving
      /\ RequestFits(q, used) /\ used \subseteq ContactIds
      /\ summary \in [ContactIds -> Items] /\ q.pc = "summary"
  BY DEF IInv, BackInv, BackType, RequestsFit, summary_add
<1>1. /\ q.op \in {"create", "modify"} /\ q.card \in VCards /\ q.todo = q.ids
      /\ Len(q.ids) = 1 /\ q.ids \in Seq(ContactIds) /\ q.ids # <<>>
      /\ Elements(q.ids) \subseteq used /\ Elements(q.removed) \subseteq Elements(q.ids)
  BY <1>0 DEF RequestFits, Serving
<1>2. Elements(q.ids) = {i} /\ i \in ContactIds
  BY <1>1 DEF Elements
<1>3. /\ Written(q) = {i} /\ Unsummed(q) = {i} /\ Touch(q) = {i}
      /\ \A v : Owed(q, v) = {i}
  BY <1>0, <1>1, <1>2 DEF Written, Unsummed, Touch, Owed
<1>4. /\ p \in Serving /\ p.pc = "notify" /\ p.op = q.op /\ p.ids = q.ids
      /\ p.card = q.card /\ p.todo = q.ids /\ p.removed = q.removed /\ p.left = Views
      /\ Unsummed(p) = {}
      /\ Touch(p) = Touch(q) /\ Written(p) = Written(q)
      /\ \A v \in Views : Owed(p, v) = Elements(q.ids)
  <2> HIDE DEF q
  <2> QED BY <1>0, <1>1, NotifierIs
<1>5. RequestFits(p, used)
  <2> HIDE DEF p, q
  <2> QED BY <1>1, <1>4 DEF RequestFits
<1>6. item \in Items
  BY <1>0, <1>1, <1>2, ItemTypes
<1>7. i \notin contended => item = Item(q.card) /\ db[i] = q.card
  <2> SUFFICES ASSUME i \notin contended PROVE item = Item(q.card) /\ db[i] = q.card
    OBVIOUS
  <2>1. summary[i] = Item(NoCard)
    BY <1>0, <1>2 DEF BackInv, SummaryInv
  <2>2. db[i] = q.card
    BY <1>0, <1>1, <1>3 DEF BackInv, WrittenIsThere
  <2> QED BY <1>1, <2>1, <2>2, ItemOps
<1>8. /\ summary' = [summary EXCEPT ![i] = item] /\ req' = [req EXCEPT ![r] = p]
      /\ UNCHANGED <<db, used, made, unsynced, contended, viewVars>>
  BY DEF summary_add
<1> HIDE DEF p, item, i
<1>9. /\ i \notin contended => \E x \in VCards \cup {NoCard} : item = Item(x)
      /\ i \notin contended \cup Unsummed(p) => item = Item(db[i])
  BY <1>1, <1>7
<1>10. /\ req[r].pc \in {"unsummary", "summary"} /\ i \in Written(req[r])
       /\ Unsummed(req[r]) \subseteq Unsummed(p) \cup {i} /\ p.pc # "summary"
       /\ \A v \in Views : Owed(req[r], v) \subseteq Owed(p, v)
  BY <1>0, <1>2, <1>3, <1>4
<1> QED BY <1>2, <1>4, <1>5, <1>6, <1>8, <1>9, <1>10, SummaryStepKeeps

(* What a request has to do after it has taken a contact out of the        *)
(* summary.                                                                *)
AfterUnsummary(q) ==
  CASE q.op = "modify" -> [q EXCEPT !.pc = "summary"]
    [] q.op = "remove" /\ Len(q.todo) > 1 -> [q EXCEPT !.todo = Tail(q.todo)]
    [] OTHER -> ToNotify(q, q.removed)

LEMMA UnsummaryLoop ==
  ASSUME NEW q \in Serving, q.pc = "unsummary", NEW S, RequestFits(q, S)
  PROVE  LET p == AfterUnsummary(q)
         IN  /\ p \in Serving /\ RequestFits(p, S) /\ Touch(p) = Touch(q)
             /\ Written(p) = Written(q) /\ p.op = q.op /\ p.card = q.card
             /\ Unsummed(q) \subseteq Unsummed(p) \cup {Head(q.todo)}
             /\ (p.pc = "summary" <=> q.op = "modify")
             /\ (q.op = "modify" => Elements(p.ids) = {Head(q.todo)} /\ Unsummed(p) = {Head(q.todo)})
             /\ \A v \in Views : Owed(q, v) \subseteq Owed(p, v)
<1> DEFINE p == AfterUnsummary(q)
<1>0. /\ q.todo \in Seq(ContactIds) /\ q.todo # <<>> /\ q.removed \in Seq(ContactIds)
      /\ Elements(q.ids) \subseteq S /\ q.ids # <<>>
      /\ Elements(q.removed) \subseteq Elements(q.ids)
      /\ Unsummed(q) = Elements(q.todo) /\ \A v : Owed(q, v) = Written(q)
  BY DEF RequestFits, Serving, Unsummed, Owed
<1>1. /\ Elements(q.todo) = {Head(q.todo)} \cup Elements(Tail(q.todo))
      /\ Tail(q.todo) \in Seq(ContactIds)
  BY <1>0, ElementsOf
<1>2. Len(q.todo) <= 1 => Elements(Tail(q.todo)) = {}
  BY <1>0 DEF Elements
<1>3. Len(q.todo) > 1 => Tail(q.todo) # <<>>
  <2>1. Len(Tail(q.todo)) = Len(q.todo) - 1 /\ Len(q.todo) \in Nat
    BY <1>0
  <2>2. Len(<<>>) = 0
    OBVIOUS
  <2> QED BY <2>1, <2>2
<1>4. CASE q.op = "modify"
  <2>1. p = [q EXCEPT !.pc = "summary"]
    BY <1>4 DEF AfterUnsummary
  <2> HIDE DEF p
  <2>2. /\ p \in Serving /\ p.pc = "summary" /\ p.op = q.op /\ p.card = q.card
        /\ p.ids = q.ids /\ p.todo = q.todo /\ p.removed = q.removed
    BY <2>1 DEF Serving
  <2>3. q.card \in VCards /\ q.todo = q.ids /\ Len(q.ids) = 1
    BY <1>4 DEF RequestFits
  <2>4. RequestFits(p, S)
    BY <1>0, <1>4, <2>2, <2>3 DEF RequestFits
  <2>5. Touch(p) = Touch(q) /\ Written(p) = Written(q) /\ Unsummed(p) = Elements(q.ids)
        /\ \A v : Owed(p, v) = Written(p)
    BY <1>4, <2>2 DEF Touch, Written, Unsummed, Owed
  <2>6. Elements(q.ids) = {Head(q.todo)}
    BY <1>1, <1>2, <2>3
  <2>7. \A v \in Views : Owed(q, v) \subseteq Owed(p, v)
    BY <1>0, <2>5
  <2>8. Unsummed(q) \subseteq Unsummed(p) \cup {Head(q.todo)}
    BY <1>0, <2>3, <2>6
  <2> QED BY <1>4, <2>2, <2>4, <2>5, <2>6, <2>7, <2>8 DEF p
<1>5. CASE q.op = "remove" /\ Len(q.todo) > 1
  <2> DEFINE t == Tail(q.todo)
  <2>1. p = [q EXCEPT !.todo = t]
    BY <1>5 DEF AfterUnsummary
  <2>t. t \in Seq(ContactIds) /\ t # <<>> /\ Elements(q.todo) = {Head(q.todo)} \cup Elements(t)
    BY <1>1, <1>3, <1>5
  <2> HIDE DEF p, t
  <2>2. /\ p \in Serving /\ p.pc = "unsummary" /\ p.op = q.op /\ p.card = q.card
        /\ p.ids = q.ids /\ p.todo = t /\ p.removed = q.removed
    BY <2>1, <2>t DEF Serving
  <2>3. RequestFits(p, S)
    BY <1>0, <1>5, <2>2, <2>t DEF RequestFits
  <2>4. Touch(p) = Touch(q) /\ Written(p) = Written(q) /\ Unsummed(p) = Elements(t)
        /\ \A v : Owed(p, v) = Written(p)
    BY <1>5, <2>2 DEF Touch, Written, Unsummed, Owed
  <2> QED BY <1>0, <1>5, <2>2, <2>3, <2>4, <2>t DEF p
<1>6. CASE q.op = "remove" /\ ~(Len(q.todo) > 1)
  <2>1. p = ToNotify(q, q.removed)
    BY <1>6 DEF AfterUnsummary
  <2>2. Elements(q.todo) \subseteq Elements(q.removed)
    BY <1>6 DEF RequestFits
  <2>3. q.removed # <<>>
    <3>1. Elements(<<>>) = {}
      BY DEF Elements
    <3> QED BY <1>1, <2>2, <3>1
  <2> HIDE DEF p
  <2>4. /\ p \in Serving /\ p.pc = "notify" /\ p.op = q.op /\ p.ids = q.ids
        /\ p.card = q.card /\ p.todo = q.removed /\ p.removed = q.removed
        /\ Unsummed(p) = {} /\ Touch(p) = Touch(q) /\ Written(p) = Written(q)
        /\ \A v \in Views : Owed(p, v) = Elements(q.removed)
    BY <1>0, <2>1, <2>3, NotifierIs
  <2>5. RequestFits(p, S)
    BY <1>0, <1>6, <2>3, <2>4 DEF RequestFits
  <2>6. Unsummed(q) \subseteq {Head(q.todo)}
    <3>1. Len(q.todo) \in Nat
      BY <1>0
    <3> QED BY <1>0, <1>1, <1>2, <1>6, <3>1
  <2>7. Written(q) = Elements(q.removed)
    BY <1>6 DEF Written
  <2> QED BY <1>0, <1>6, <2>4, <2>5, <2>6, <2>7 DEF p
<1> QED BY <1>4, <1>5, <1>6 DEF RequestFits

LEMMA SummaryRemoveKeeps ==
  ASSUME IInv, NEW r \in Requests, summary_remove(r)
  PROVE  IInv'
<1> DEFINE q == req[r]
           i == Head(q.todo)
           item == summary_remove_contact(summary[i])
           p == AfterUnsummary(q)
<1>0. /\ BackInv /\ BackType /\ req \in [Requests -> Serving] /\ q \in Serving
      /\ RequestFits(q, used) /\ used \subseteq ContactIds
      /\ summary \in [ContactIds -> Items] /\ q.pc = "unsummary"
  BY DEF IInv, BackInv, BackType, RequestsFit, summary_remove
<1>1. /\ p \in Serving /\ RequestFits(p, used) /\ Touch(p) = Touch(q)
      /\ Written(p) = Written(q) /\ p.op = q.op /\ p.card = q.card
      /\ Unsummed(q) \subseteq Unsummed(p) \cup {i}
      /\ (p.pc = "summary" <=> q.op = "modify")
      /\ (q.op = "modify" => Elements(p.ids) = {i} /\ Unsummed(p) = {i})
      /\ \A v \in Views : Owed(q, v) \subseteq Owed(p, v)
  <2> HIDE DEF q
  <2> QED BY <1>0, UnsummaryLoop DEF i
<1>2. i \in ContactIds /\ i \in Written(q)
  <2>1. q.todo \in Seq(ContactIds) /\ q.todo # <<>>
    BY <1>0 DEF RequestFits, Serving
  <2>2. i \in ContactIds /\ i \in Elements(q.todo)
    BY <2>1, ElementsOf
  <2>3. Elements(q.todo) \subseteq Written(q)
    BY <1>0 DEF RequestFits, Written
  <2> QED BY <2>2, <2>3
<1>3. item \in Items
  BY <1>0, <1>2, ItemTypes
<1>4. i \notin contended => item = Item(NoCard)
  BY <1>0, <1>2, ItemOps DEF BackInv, SummaryInv
<1>5. i \notin contended /\ q.op = "remove" => db[i] = NoCard
  BY <1>0, <1>2 DEF BackInv, WrittenIsThere
<1>6. q.op \in {"modify", "remove"}
  BY <1>0 DEF RequestFits
<1>7. /\ summary' = [summary EXCEPT ![i] = item] /\ req' = [req EXCEPT ![r] = p]
      /\ UNCHANGED <<db, used, made, unsynced, contended, viewVars>>
  BY DEF summary_remove, AfterUnsummary
<1> HIDE DEF p, item, i
<1>8. /\ i \notin contended => \E x \in VCards \cup {NoCard} : item = Item(x)
      /\ i \notin contended \cup Unsummed(p) => item = Item(db[i])
      /\ p.pc = "summary" => \A j \in Elements(p.ids) : j = i /\ (i \notin contended => item = Item(NoCard))
  BY <1>1, <1>4, <1>5, <1>6
<1> QED BY <1>0, <1>1, <1>2, <1>3, <1>7, <1>8, SummaryStepKeeps

----------------------------------------------------------------------------
(* What a request tells the views *)

(* e_data_book_view_notify_update: the view was told the contact as its    *)
(* query shows it.                                                         *)
LEMMA UpdateTells ==
  ASSUME NEW w, NEW n, ViewInv(w, n), NEW c \in Card
  PROVE  ViewInv(view_notify_update(w, c),
                 [n EXCEPT ![c.id] = IF c.vcard \in Matching THEN c.vcard ELSE NoCard])
<1>0. c.id \in ContactIds
  BY DEF Card
<1>1. CASE c.vcard \in Matching
  <2>1. view_notify_update(w, c) = view_notify_update_prefiltered_vcard(w, c)
    BY <1>1 DEF view_notify_update
  <2>2. ViewInv(view_notify_update_prefiltered_vcard(w, c), [n EXCEPT ![c.id] = c.vcard])
    BY PrefilteredKeeps
  <2> QED BY <1>1, <2>1, <2>2
<1>2. CASE c.vcard \notin Matching
  <2>1. view_notify_update(w, c) = view_notify_remove(w, c.id)
    BY <1>2 DEF view_notify_update
  <2>2. ViewInv(view_notify_remove(w, c.id), [n EXCEPT ![c.id] = NoCard])
    BY <1>0, RemoveKeeps
  <2> QED BY <1>2, <2>1, <2>2
<1> QED BY <1>1, <1>2

(* After a contact was notified to the view v, it is owed to v no more,    *)
(* what is owed to others still is, and every view will be flushed.        *)
LEMMA NotifyLoop ==
  ASSUME NEW q \in Serving, q.pc = "notify", NEW S, RequestFits(q, S),
         NEW v \in Views, v \in q.left
  PROVE  LET p == AfterNotify(q, v)
         IN  /\ p \in Serving /\ RequestFits(p, S) /\ Touch(p) = Touch(q)
             /\ Written(p) = Written(q) /\ p.op = q.op /\ p.card = q.card
             /\ Unsummed(p) = {} /\ p.pc # "summary"
             /\ Owed(q, v) \subseteq Owed(p, v) \cup {Head(q.todo)}
             /\ \A w \in Views : WillFlush(p, w) /\ (w # v => Owed(q, w) \subseteq Owed(p, w))
<1> DEFINE p == AfterNotify(q, v)
           t == Tail(q.todo)
<1>0. /\ q.todo \in Seq(ContactIds) /\ q.todo # <<>> /\ q.removed \in Seq(ContactIds)
      /\ q.left \subseteq Views
  BY DEF RequestFits, Serving
<1>1. /\ Elements(q.todo) = {Head(q.todo)} \cup Elements(t) /\ t \in Seq(ContactIds)
      /\ Head(q.todo) \in ContactIds
  BY <1>0, ElementsOf
<1>2. Len(q.todo) \in Nat /\ Len(t) = Len(q.todo) - 1
  BY <1>0
<1>3. Len(q.todo) > 1 <=> t # <<>>
  <2> HIDE DEF t
  <2>1. Len(<<>>) = 0
    OBVIOUS
  <2>2. Len(q.todo) # 0
    BY <1>0
  <2>3. t # <<>> => Len(t) # 0
    BY <1>1
  <2>4. Len(t) \in Nat
    BY <1>1
  <2> QED BY <1>2, <2>1, <2>2, <2>3, <2>4
<1>4. Elements(<<>>) = {}
  BY DEF Elements
<1>5. \A w \in Views : Owed(q, w) = Elements(t) \cup (IF w \in q.left THEN {Head(q.todo)} ELSE {})
  BY DEF Owed
<1>6. CASE q.left # {v}
  <2>1. p = [q EXCEPT !.left = q.left \ {v}]
    BY <1>6 DEF AfterNotify
  <2> HIDE DEF p, t
  <2>2. /\ p \in Serving /\ p.pc = "notify" /\ p.op = q.op /\ p.ids = q.ids /\ p.card = q.card
        /\ p.todo = q.todo /\ p.removed = q.removed /\ p.left = q.left \ {v}
    BY <1>0, <2>1 DEF Serving
  <2>3. RequestFits(p, S)
    BY <2>2 DEF RequestFits
  <2>4. /\ Touch(p) = Touch(q) /\ Written(p) = Written(q) /\ Unsummed(p) = {}
        /\ \A w \in Views : WillFlush(p, w)
    BY <2>2 DEF Touch, Written, Unsummed, WillFlush
  <2>5. \A w \in Views : Owed(p, w) = Elements(t) \cup (IF w \in p.left THEN {Head(q.todo)} ELSE {})
    BY <2>2 DEF Owed, t
  <2>6. /\ Owed(q, v) \subseteq Owed(p, v) \cup {Head(q.todo)}
        /\ \A w \in Views : w # v => Owed(q, w) \subseteq Owed(p, w)
    BY <1>5, <2>2, <2>5
  <2> QED BY <2>2, <2>3, <2>4, <2>6 DEF p
<1>7. CASE q.left = {v} /\ Len(q.todo) > 1
  <2>1. p = ToNotify(q, t)
    BY <1>7 DEF AfterNotify
  <2>2. t # <<>> /\ t \in Seq(ContactIds)
    BY <1>1, <1>3, <1>7
  <2> HIDE DEF p, t
  <2>3. /\ p \in Serving /\ p.pc = "notify" /\ p.op = q.op /\ p.ids = q.ids /\ p.card = q.card
        /\ p.todo = t /\ p.removed = q.removed /\ p.left = Views
        /\ Unsummed(p) = {} /\ Touch(p) = Touch(q) /\ Written(p) = Written(q)
        /\ \A w \in Views : Owed(p, w) = Elements(t) /\ WillFlush(p, w)
    BY <2>1, <2>2, NotifierIs
  <2>4. q.op = "remove"
    <3>1. q.op # "remove" => Len(q.todo) = 1
      BY DEF RequestFits
    <3>2. \A k \in Nat : k > 1 => k # 1
      OBVIOUS
    <3>3. Len(q.todo) # 1
      <4> HIDE DEF t
      <4> QED BY <1>2, <1>7, <3>2, Zenon
    <3> QED BY <3>1, <3>3
  <2>5. RequestFits(p, S)
    BY <1>1, <2>2, <2>3, <2>4 DEF RequestFits
  <2>6. /\ Owed(q, v) \subseteq Owed(p, v) \cup {Head(q.todo)}
        /\ \A w \in Views : w # v => Owed(q, w) \subseteq Owed(p, w)
    BY <1>5, <1>7, <2>3
  <2> QED BY <2>3, <2>5, <2>6 DEF p
<1>8. CASE q.left = {v} /\ ~(Len(q.todo) > 1)
  <2>1. p = [q EXCEPT !.pc = "complete", !.left = Views]
    BY <1>8 DEF AfterNotify
  <2>2. Elements(t) = {}
    BY <1>3, <1>4, <1>8
  <2> HIDE DEF p, t
  <2>3. /\ p \in Serving /\ p.pc = "complete" /\ p.op = q.op /\ p.ids = q.ids /\ p.card = q.card
        /\ p.todo = q.todo /\ p.removed = q.removed /\ p.left = Views
    BY <2>1 DEF Serving
  <2>4. RequestFits(p, S)
    BY <2>3 DEF RequestFits
  <2>5. /\ Touch(p) = Touch(q) /\ Written(p) = Written(q) /\ Unsummed(p) = {}
        /\ \A w \in Views : WillFlush(p, w)
    BY <2>3 DEF Touch, Written, Unsummed, WillFlush
  <2>6. /\ Owed(q, v) \subseteq Owed(p, v) \cup {Head(q.todo)}
        /\ \A w \in Views : w # v => Owed(q, w) \subseteq Owed(p, w)
    BY <1>5, <1>8, <2>2
  <2> QED BY <2>3, <2>4, <2>5, <2>6 DEF p
<1> QED BY <1>6, <1>7, <1>8

LEMMA NotifyKeeps ==
  ASSUME IInv, NEW r \in Requests, NEW v \in Views, respond_notify(r, v)
  PROVE  IInv'
<1> DEFINE q == req[r]
           i == Head(q.todo)
           p == AfterNotify(q, v)
           x == IF q.op = "remove" THEN NoCard
                ELSE IF q.card \in Matching THEN q.card ELSE NoCard
           n == Told(v)
           m == [n EXCEPT ![i] = x]
           w == IF q.op = "remove" THEN view_notify_remove(views[v], i)
                ELSE view_notify_update(views[v], [id |-> i, vcard |-> q.card])
<1>0. /\ BackInv /\ FrontInv /\ BackType /\ ViewType
      /\ req \in [Requests -> Serving] /\ q \in Serving
      /\ RequestFits(q, used) /\ used \subseteq ContactIds /\ q.pc = "notify" /\ v \in q.left
      /\ ViewOK(v) /\ views \in [Views -> View] /\ raced \in [Views -> SUBSET ContactIds]
  BY DEF IInv, BackInv, BackType, FrontInv, ViewType, RequestsFit, respond_notify
<1>1. /\ p \in Serving /\ RequestFits(p, used) /\ Touch(p) = Touch(q)
      /\ Written(p) = Written(q) /\ p.op = q.op /\ p.card = q.card
      /\ Unsummed(p) = {} /\ p.pc # "summary"
      /\ Owed(q, v) \subseteq Owed(p, v) \cup {i}
      /\ \A u \in Views : WillFlush(p, u) /\ (u # v => Owed(q, u) \subseteq Owed(p, u))
  <2> HIDE DEF q
  <2> QED BY <1>0, NotifyLoop DEF i
<1>2. i \in ContactIds /\ i \in Written(q)
  <2>1. q.todo \in Seq(ContactIds) /\ q.todo # <<>>
    BY <1>0 DEF RequestFits, Serving
  <2>2. i \in ContactIds /\ i \in Elements(q.todo)
    BY <2>1, ElementsOf
  <2>3. Elements(q.todo) \subseteq Written(q)
    BY <1>0 DEF RequestFits, Written
  <2> QED BY <2>2, <2>3
<1>3. ViewInv(w, m)
  <2>1. ViewInv(views[v], n)
    BY <1>0 DEF ViewOK, ViewFits
  <2>2. CASE q.op = "remove"
    <3> HIDE DEF i, n
    <3>1. ViewInv(view_notify_remove(views[v], i), [n EXCEPT ![i] = NoCard])
      BY <1>2, <2>1, RemoveKeeps
    <3> QED BY <2>2, <3>1
  <2>3. CASE q.op # "remove"
    <3> DEFINE c == [id |-> i, vcard |-> q.card]
    <3>1. q.card \in VCards
      BY <1>0, <2>3 DEF RequestFits
    <3>2. c \in Card /\ c.id = i /\ c.vcard = q.card
      BY <1>2, <3>1 DEF Card
    <3> HIDE DEF c, i, n
    <3>3. ViewInv(view_notify_update(views[v], c),
                  [n EXCEPT ![c.id] = IF c.vcard \in Matching THEN c.vcard ELSE NoCard])
      BY <2>1, <3>2, UpdateTells
    <3> QED BY <2>3, <3>2, <3>3 DEF c
  <2> QED BY <2>2, <2>3
<1>4. w \in View /\ CaughtUp(w) = m /\ n \in Belief
  BY <1>0, <1>3 DEF ViewInv, ViewOK, ViewFits
<1>5. m[i] = x /\ \A j \in ContactIds : j # i => m[j] = n[j]
  BY <1>2, <1>4 DEF Belief
<1>6. i \notin contended => x = Shown(i)
  <2> SUFFICES ASSUME i \notin contended PROVE x = Shown(i)
    OBVIOUS
  <2>1. db[i] = IF q.op = "remove" THEN NoCard ELSE q.card
    BY <1>0, <1>2 DEF BackInv, WrittenIsThere
  <2>2. NoCard \notin Matching
    BY ViewAssumption
  <2> QED BY <2>1, <2>2 DEF Shown
<1> DEFINE R == IF i \in Exposed(v) THEN raced[v] \cup {i} ELSE raced[v] \ {i}
<1>7. /\ views' = [views EXCEPT ![v] = w] /\ req' = [req EXCEPT ![r] = p]
      /\ raced' = [raced EXCEPT ![v] = R] /\ unread' = [unread EXCEPT ![v] = @ \ {i}]
      /\ UNCHANGED <<db, summary, used, made, unsynced, contended>>
      /\ UNCHANGED <<mode, running, thread, ctl, died, starts>>
  BY DEF respond_notify
<1>8. R \in SUBSET ContactIds /\ (i \notin R => i \notin Exposed(v))
      /\ \A j \in ContactIds : j # i => (j \in R <=> j \in raced[v])
  BY <1>0, <1>2
<1> HIDE DEF w, m, x, n, R, p, i, q
<1>9. BackInv'
  <2>1. BackType'
    <3>1. req' \in [Requests -> Serving]
      BY <1>0, <1>1, <1>7
    <3> QED BY <1>0, <1>7, <3>1 DEF BackType
  <2>2. Unsummed(q) = {}
    BY <1>0 DEF Unsummed
  <2> QED BY <1>0, <1>1, <1>7, <2>1, <2>2, QuietBackStep DEF q
<1>u. /\ unread \in [Views -> SUBSET ContactIds] /\ unread' \in [Views -> SUBSET ContactIds]
      /\ unread'[v] = unread[v] \ {i}
      /\ \A u \in Views : u # v => unread'[u] = unread[u]
  BY <1>0, <1>7 DEF ViewType
<1>10. ViewType'
  BY <1>0, <1>4, <1>7, <1>8, <1>u DEF ViewType
<1>11. /\ req'[r] = p /\ \A s \in Requests : s # r => req'[s] = req[s]
       /\ views'[v] = w /\ raced'[v] = R
       /\ \A u \in Views : u # v => views'[u] = views[u] /\ raced'[u] = raced[u]
  BY <1>0, <1>7
<1>12. ASSUME NEW u \in Views, NEW j \in ContactIds, u # v \/ j # i, Settled(u, j)'
       PROVE  Settled(u, j)
  <2>1. /\ j \notin contended \cup unsynced /\ j \notin raced'[u]
        /\ \A s \in Requests : j \notin Owed(req'[s], u)
    BY <1>7, <1>12 DEF Settled
  <2>2. j \notin raced[u]
    BY <1>8, <1>11, <1>12, <2>1
  <2>3. j \notin Owed(q, u)
    BY <1>1, <1>11, <1>12, <2>1
  <2>4. \A s \in Requests : j \notin Owed(req[s], u)
    BY <1>11, <2>1, <2>3 DEF q
  <2> QED BY <2>1, <2>2, <2>4 DEF Settled
<1>13. ASSUME NEW u \in Views, u # v PROVE ViewOK(u)'
  <2>1. ViewOK(u)
    BY <1>0 DEF FrontInv
  <2>2. \E s \in Requests : WillFlush(req'[s], u)
    BY <1>1, <1>11
  <2>3. \A j \in ContactIds : Settled(u, j)' => Settled(u, j) /\ db'[j] = db[j]
    BY <1>7, <1>12, <1>13
  <2> QED BY <1>7, <1>u, <1>11, <1>13, <2>1, <2>2, <2>3, SameView
<1>14. ViewOK(v)'
  <2>1. Told(v)' = m
    BY <1>4, <1>11 DEF Told
  <2>2. ViewFits(v)'
    BY <1>3, <1>11, <2>1 DEF ViewFits
  <2>3. ThreadFits(v)' /\ ThreadFits(v)
    BY <1>0, <1>7 DEF ViewOK, ThreadFits
  <2>4. PendingIsFlushed(v)'
    BY <1>1, <1>11 DEF PendingIsFlushed
  <2>5. ControlFits(v)'
    BY <1>0, <1>7 DEF ViewOK, ControlFits
  <2>6. ASSUME NEW j \in ContactIds, j # i, Settled(v, j)' PROVE InSync(v, j)'
    <3>1. InSync(v, j)
      BY <1>0, <1>12, <2>6 DEF ViewOK, ViewInSync
    <3>2. Told(v)'[j] = Told(v)[j]
      BY <1>5, <2>1, <2>6 DEF n
    <3>3. Shown(j)' = Shown(j) /\ (NotYet(v, j) => NotYet(v, j)') /\ Got(v, j)' = Got(v, j)
      BY <1>7, <1>u, <2>6 DEF Shown, NotYet, Got
    <3> QED BY <1>7, <3>1, <3>2, <3>3 DEF InSync
  <2>7. ASSUME NEW j \in ContactIds, j = i, Settled(v, j)' PROVE InSync(v, j)'
    <3>1. j \notin contended /\ j \notin Exposed(v)
      BY <1>7, <1>8, <1>11, <2>7 DEF Settled
    <3>2. Told(v)'[j] = Shown(j) /\ Shown(j)' = Shown(j)
      BY <1>5, <1>6, <1>7, <2>1, <2>7, <3>1 DEF Shown
    <3>3. ~Got(v, j)
      <4>1. mode[v] \in {"summary", "cursor"}
        BY <1>0 DEF ViewType, QueryModes
      <4> QED BY <4>1, <2>3, <3>1 DEF Got, Exposed, ThreadFits
    <3>4. mode[v] = "summary" => j \notin thread[v].todo
      BY <3>1 DEF Exposed
    <3>5. Got(v, j)' = Got(v, j) /\ mode' = mode /\ thread' = thread
      BY <1>7 DEF Got
    <3> QED BY <3>2, <3>3, <3>4, <3>5 DEF InSync
  <2>8. ViewInSync(v)'
    BY <2>6, <2>7 DEF ViewInSync
  <2> QED BY <2>2, <2>3, <2>4, <2>5, <2>8 DEF ViewOK
<1> QED BY <1>9, <1>10, <1>13, <1>14 DEF IInv, FrontInv

LEMMA CompleteKeeps ==
  ASSUME IInv, NEW r \in Requests, NEW v \in Views, respond_complete(r, v)
  PROVE  IInv'
<1> DEFINE q == req[r]
           p == IF q.left = {v} THEN Idle ELSE [q EXCEPT !.left = q.left \ {v}]
           w == view_flush(views[v])
<1>0. /\ BackInv /\ FrontInv /\ BackType /\ ViewType
      /\ req \in [Requests -> Serving] /\ q \in Serving
      /\ RequestFits(q, used) /\ q.pc = "complete" /\ v \in q.left
      /\ ViewOK(v) /\ views \in [Views -> View]
  BY DEF IInv, BackInv, BackType, FrontInv, ViewType, RequestsFit, respond_complete
<1>1. /\ Unsummed(q) = {} /\ \A u : Owed(q, u) = {}
  BY <1>0 DEF Unsummed, Owed
<1>2. /\ p \in Serving /\ RequestFits(p, used) /\ Touch(p) \subseteq Touch(q)
      /\ Written(p) \subseteq Written(q)
      /\ (Written(p) # {} => p.op = q.op /\ p.card = q.card)
      /\ p.pc # "summary"
      /\ \A u \in Views : Owed(p, u) = {} /\ (u # v /\ WillFlush(q, u) => WillFlush(p, u))
  <2>1. CASE q.left = {v}
    <3>1. p = Idle /\ \A u \in Views : u # v => ~WillFlush(q, u)
      BY <1>0, <2>1 DEF WillFlush
    <3>2. p.pc # "summary"
      BY <3>1, IdleClaimsNothing
    <3> HIDE DEF p
    <3> QED BY <3>1, <3>2, IdleClaimsNothing
  <2>2. CASE q.left # {v}
    <3>1. p = [q EXCEPT !.left = q.left \ {v}]
      BY <2>2
    <3> HIDE DEF p
    <3>2. /\ p \in Serving /\ p.pc = "complete" /\ p.op = q.op /\ p.ids = q.ids /\ p.card = q.card
          /\ p.todo = q.todo /\ p.removed = q.removed /\ p.left = q.left \ {v}
      BY <1>0, <3>1 DEF Serving
    <3>3. RequestFits(p, used)
      <4> HIDE DEF q
      <4> QED BY <1>0, <3>2 DEF RequestFits
    <3>4. /\ Touch(p) = Touch(q) /\ Written(p) = Written(q)
          /\ \A u \in Views : Owed(p, u) = {} /\ (u # v /\ WillFlush(q, u) => WillFlush(p, u))
      <4> HIDE DEF q
      <4> QED BY <1>0, <3>2 DEF Touch, Written, Owed, WillFlush
    <3> QED BY <3>2, <3>3, <3>4
  <2> QED BY <2>1, <2>2
<1>3. /\ ViewInv(w, Told(v)) /\ w.adds = <<>> /\ w.changes = <<>> /\ w.removes = <<>>
  BY <1>0, FlushKeeps DEF ViewOK, ViewFits
<1>4. w \in View /\ CaughtUp(w) = Told(v)
  BY <1>3 DEF ViewInv
<1>5. /\ views' = [views EXCEPT ![v] = w] /\ req' = [req EXCEPT ![r] = p]
      /\ UNCHANGED <<db, summary, used, made, unsynced, contended>>
      /\ UNCHANGED <<mode, running, thread, ctl, died, starts, raced, unread>>
  BY DEF respond_complete
<1> HIDE DEF p, q, w
<1>6. BackInv'
  <2>1. BackType'
    <3>1. req' \in [Requests -> Serving]
      BY <1>0, <1>2, <1>5
    <3> QED BY <1>0, <1>5, <3>1 DEF BackType
  <2> QED BY <1>0, <1>1, <1>2, <1>5, <2>1, QuietBackStep DEF q
<1>7. ViewType'
  BY <1>0, <1>4, <1>5 DEF ViewType
<1>8. /\ req'[r] = p /\ \A s \in Requests : s # r => req'[s] = req[s]
      /\ views'[v] = w /\ \A u \in Views : u # v => views'[u] = views[u]
  BY <1>0, <1>5
<1>9. ASSUME NEW u \in Views, NEW j \in ContactIds, Settled(u, j)' PROVE Settled(u, j)
  <2>1. \A s \in Requests : j \notin Owed(req[s], u)
    BY <1>1, <1>8, <1>9 DEF Settled, q
  <2> QED BY <1>5, <1>9, <2>1 DEF Settled
<1>10. ASSUME NEW u \in Views, u # v PROVE ViewOK(u)'
  <2>1. ViewOK(u)
    BY <1>0 DEF FrontInv
  <2>2. (\E s \in Requests : WillFlush(req[s], u)) => \E s \in Requests : WillFlush(req'[s], u)
    BY <1>2, <1>8, <1>10 DEF q
  <2>3. \A j \in ContactIds : Settled(u, j)' => Settled(u, j) /\ db'[j] = db[j]
    BY <1>5, <1>9
  <2> QED BY <1>5, <1>8, <1>10, <2>1, <2>2, <2>3, SameView
<1>11. ViewOK(v)'
  <2>1. Told(v)' = Told(v)
    BY <1>4, <1>8 DEF Told
  <2>2. ViewFits(v)'
    BY <1>3, <1>8, <2>1 DEF ViewFits
  <2>3. ThreadFits(v)'
    BY <1>0, <1>5 DEF ViewOK, ThreadFits
  <2>4. PendingIsFlushed(v)'
    BY <1>3, <1>8 DEF PendingIsFlushed, Flushed
  <2>5. ControlFits(v)'
    BY <1>0, <1>5 DEF ViewOK, ControlFits
  <2>6. ViewInSync(v)'
    <3> SUFFICES ASSUME NEW j \in ContactIds, Settled(v, j)' PROVE InSync(v, j)'
      BY DEF ViewInSync
    <3>1. InSync(v, j)
      BY <1>0, <1>9 DEF ViewOK, ViewInSync
    <3>2. Shown(j)' = Shown(j) /\ NotYet(v, j)' = NotYet(v, j) /\ Got(v, j)' = Got(v, j)
      BY <1>5 DEF Shown, NotYet, Got
    <3> QED BY <1>5, <2>1, <3>1, <3>2 DEF InSync
  <2> QED BY <2>2, <2>3, <2>4, <2>5, <2>6 DEF ViewOK
<1> QED BY <1>6, <1>7, <1>10, <1>11 DEF IInv, FrontInv

----------------------------------------------------------------------------
(* Steps of the views: threads, starts and stops *)

(* A step of the view v leaves what requests do, and the other views, as   *)
(* they are; what is left to show is what is known of v.                   *)
LEMMA ViewStep ==
  ASSUME IInv, NEW v \in Views, UNCHANGED <<backVars, mode, raced>>, ViewType',
         \A u \in Views \ {v} :
           /\ views'[u] = views[u] /\ running'[u] = running[u] /\ thread'[u] = thread[u]
           /\ ctl'[u] = ctl[u] /\ died'[u] = died[u] /\ unread'[u] = unread[u],
         ViewFits(v)', ThreadFits(v)', PendingIsFlushed(v)', ControlFits(v)',
         \A i \in ContactIds : Settled(v, i) => InSync(v, i)'
  PROVE  IInv'
<1>0. BackInv /\ FrontInv /\ UNCHANGED <<db, summary, used, req, made, unsynced, contended>>
  BY DEF IInv, backVars
<1>1. BackInv'
  BY <1>0 DEF BackInv, BackType, RequestsFit, OverlapIsKnown, UnusedIsAbsent, WrittenIsThere,
              SummaryInv
<1>2. \A u, i : Settled(u, i)' = Settled(u, i)
  BY <1>0 DEF Settled
<1>3. ASSUME NEW u \in Views \ {v} PROVE ViewOK(u)'
  BY <1>0, <1>2, SameView DEF FrontInv
<1>4. ViewInSync(v)'
  BY <1>2 DEF ViewInSync
<1>5. ViewOK(v)'
  BY <1>4 DEF ViewOK
<1> QED BY <1>1, <1>3, <1>5 DEF IInv, FrontInv

(* A step of the thread of v that does not touch the view's buffers. *)
LEMMA SilentThreadStep ==
  ASSUME IInv, NEW v \in Views, NEW from, NEW t \in Populating, ThreadStep(v, from, t),
         UNCHANGED <<views, running>>, unread' \in [Views -> SUBSET ContactIds],
         \A u \in Views \ {v} : unread'[u] = unread[u],
         from \notin {"none", "done"},
         t.pc \in {"search", "check", "get", "notify", "finish", "complete"}
           \/ (t.pc = "done" /\ ~running[v]),
         ThreadFits(v)',
         \A i \in ContactIds : Settled(v, i) => InSync(v, i)'
  PROVE  IInv'
<1>0. /\ ViewType /\ thread \in [Views -> Populating] /\ ViewOK(v)
      /\ thread[v].pc = from /\ thread' = [thread EXCEPT ![v] = t]
      /\ UNCHANGED <<backVars, mode, ctl, died, starts, raced, views, running>>
  BY DEF IInv, FrontInv, ViewType, ThreadStep
<1>1. thread' \in [Views -> Populating] /\ thread'[v] = t
      /\ \A u \in Views \ {v} : thread'[u] = thread[u]
  BY <1>0
<1>2. ViewType'
  BY <1>0, <1>1 DEF ViewType
<1>3. ViewFits(v)'
  BY <1>0 DEF ViewOK, ViewFits, Told
<1>4. PendingIsFlushed(v)'
  BY <1>0, <1>1 DEF PendingIsFlushed
<1>5. ControlFits(v)'
  BY <1>0, <1>1 DEF ViewOK, ControlFits
<1>6. \A u \in Views \ {v} :
           /\ views'[u] = views[u] /\ running'[u] = running[u] /\ thread'[u] = thread[u]
           /\ ctl'[u] = ctl[u] /\ died'[u] = died[u] /\ unread'[u] = unread[u]
  BY <1>0, <1>1
<1> QED BY <1>0, <1>2, <1>3, <1>4, <1>5, <1>6, ViewStep

(* What a read error does to the history. *)
LEMMA PassedOverFacts ==
  ASSUME NEW v \in Views, NEW S \in SUBSET ContactIds, PassedOver(v, S),
         unread \in [Views -> SUBSET ContactIds]
  PROVE  /\ unread' \in [Views -> SUBSET ContactIds]
         /\ \A u \in Views \ {v} : unread'[u] = unread[u]
         /\ unread[v] \subseteq unread'[v]
         /\ \A i \in S : db[i] # NoCard => i \in unread'[v]
<1> DEFINE L == {i \in S : db[i] # NoCard}
<1>1. L \in SUBSET ContactIds /\ \A i \in S : db[i] # NoCard => i \in L
  OBVIOUS
<1>2. unread' = [unread EXCEPT ![v] = @ \cup L]
  BY DEF PassedOver
<1> HIDE DEF L
<1> QED BY <1>1, <1>2

(* What is known of the thread of v. *)
LEMMA ThreadFacts ==
  ASSUME IInv, NEW v \in Views
  PROVE  /\ thread \in [Views -> Populating] /\ thread[v] \in Populating
         /\ mode[v] \in {"summary", "cursor"} /\ running[v] \in BOOLEAN
         /\ unread \in [Views -> SUBSET ContactIds]
         /\ ViewOK(v) /\ ThreadFits(v) /\ ViewInv(views[v], Told(v)) /\ Told(v) \in Belief
         /\ \A i \in ContactIds : Settled(v, i) => InSync(v, i)
<1>1. /\ thread \in [Views -> Populating] /\ thread[v] \in Populating
      /\ mode[v] \in {"summary", "cursor"} /\ running[v] \in BOOLEAN /\ ViewOK(v)
      /\ unread \in [Views -> SUBSET ContactIds]
  BY DEF IInv, FrontInv, ViewType, QueryModes
<1>2. ThreadFits(v) /\ ViewInv(views[v], Told(v)) /\ ViewInSync(v)
  BY <1>1 DEF ViewOK, ViewFits
<1>3. Told(v) \in Belief
  BY <1>2 DEF ViewInv
<1> QED BY <1>1, <1>2, <1>3 DEF ViewInSync

(* The loop of the cursor ends, at its end or at an error: the contacts it *)
(* has not read were told to the view, are not there or are passed over.   *)
LEMMA CursorEnds ==
  ASSUME IInv, NEW v \in Views, NEW from \in {"search", "get"}, NEW S \in SUBSET ContactIds,
         ThreadStep(v, from, Finished), UNCHANGED <<views, running>>, PassedOver(v, S),
         \A i \in ContactIds : Settled(v, i) /\ (i \notin S \/ db[i] = NoCard) /\ running[v]
           => i \in unread[v] \/ Told(v)[i] = Shown(i)
  PROVE  IInv'
<1> DEFINE t == Finished
<1>0. /\ thread \in [Views -> Populating] /\ unread \in [Views -> SUBSET ContactIds]
      /\ ThreadFits(v) /\ \A i \in ContactIds : Settled(v, i) => InSync(v, i)
  BY ThreadFacts
<1>1. /\ unread' \in [Views -> SUBSET ContactIds] /\ unread[v] \subseteq unread'[v]
      /\ \A u \in Views \ {v} : unread'[u] = unread[u]
      /\ \A i \in S : db[i] # NoCard => i \in unread'[v]
  BY <1>0, PassedOverFacts
<1>2. t \in Populating /\ t.pc = "finish" /\ t.todo = {} /\ t.got = NoCard
  BY DEF Populating, Finished
<1> HIDE DEF t
<1>3. /\ thread'[v] = t /\ mode' = mode /\ running' = running /\ db' = db /\ views' = views
  BY <1>0 DEF ThreadStep, backVars, t
<1>4. ThreadFits(v)'
  BY <1>0, <1>2, <1>3 DEF ThreadFits
<1>5. ASSUME NEW i \in ContactIds, Settled(v, i) PROVE InSync(v, i)'
  <2>0. InSync(v, i)
    BY <1>0, <1>5
  <2>1. Told(v)' = Told(v) /\ Shown(i)' = Shown(i)
    BY <1>3 DEF Told, Shown
  <2>2. ~Got(v, i)' /\ i \notin thread'[v].todo
        /\ (NotYet(v, i)' <=> ~running[v] \/ i \in unread'[v])
    BY <1>2, <1>3 DEF Got, NotYet
  <2>3. running[v] /\ i \notin unread'[v] => Told(v)[i] = Shown(i)
    BY <1>1, <1>5
  <2> QED BY <1>3, <2>0, <2>1, <2>2, <2>3 DEF InSync
<1> QED BY <1>1, <1>2, <1>4, <1>5, SilentThreadStep DEF t

LEMMA SearchKeeps ==
  ASSUME IInv, NEW v \in Views, thread_search(v)
  PROVE  IInv'
<1>e. CASE /\ mode[v] = "cursor" /\ ThreadStep(v, "search", Finished)
           /\ PassedOver(v, ContactIds) /\ UNCHANGED <<views, running>>
  <2>0. \A i \in ContactIds : Settled(v, i) => InSync(v, i)
    BY ThreadFacts
  <2>1. ASSUME NEW i \in ContactIds, Settled(v, i), db[i] = NoCard
        PROVE  Told(v)[i] = Shown(i)
    BY <2>0, <2>1 DEF InSync, Shown
  <2> QED BY <1>e, <2>1, CursorEnds
<1>n. CASE /\ ThreadStep(v, "search",
                IF mode[v] = "summary"
                THEN [pc |-> "check", todo |-> summary_search, got |-> NoCard]
                ELSE [pc |-> "get", todo |-> ContactIds, got |-> NoCard])
           /\ UNCHANGED <<views, running, unread>>
  <2> DEFINE t == IF mode[v] = "summary"
                  THEN [pc |-> "check", todo |-> summary_search, got |-> NoCard]
                  ELSE [pc |-> "get", todo |-> ContactIds, got |-> NoCard]
  <2>0. /\ thread \in [Views -> Populating] /\ thread[v] \in Populating
        /\ mode[v] \in {"summary", "cursor"} /\ ThreadFits(v)
        /\ unread \in [Views -> SUBSET ContactIds]
        /\ \A i \in ContactIds : Settled(v, i) => InSync(v, i)
    BY ThreadFacts
  <2>1. ThreadStep(v, "search", t) /\ UNCHANGED <<views, running, unread>>
    BY <1>n
  <2>2. /\ t \in Populating /\ t.got = NoCard
        /\ mode[v] = "summary" => t.pc = "check" /\ t.todo = summary_search
        /\ mode[v] = "cursor" => t.pc = "get" /\ t.todo = ContactIds
    <3>1. summary_search \in SUBSET ContactIds
      BY DEF summary_search
    <3> DEFINE s == summary_search
    <3> HIDE DEF s
    <3>2. CASE mode[v] = "summary"
      <4>1. t = [pc |-> "check", todo |-> s, got |-> NoCard]
        BY <3>2 DEF s
      <4> QED BY <3>1, <3>2, <4>1 DEF s, Populating
    <3>3. CASE mode[v] = "cursor"
      <4>1. t = [pc |-> "get", todo |-> ContactIds, got |-> NoCard]
        BY <3>3
      <4> QED BY <3>3, <4>1 DEF Populating
    <3> QED BY <2>0, <3>2, <3>3
  <2> HIDE DEF t
  <2>3. /\ thread'[v] = t /\ mode' = mode /\ running' = running /\ db' = db /\ views' = views
        /\ thread[v].pc = "search"
    BY <2>0, <2>1 DEF ThreadStep, backVars
  <2>4. ThreadFits(v)'
    BY <2>0, <2>2, <2>3 DEF ThreadFits
  <2>5. ASSUME NEW i \in ContactIds, Settled(v, i) PROVE InSync(v, i)'
    <3>0. InSync(v, i)
      BY <2>0, <2>5
    <3>1. Told(v)' = Told(v) /\ Shown(i)' = Shown(i)
      BY <2>3 DEF Told, Shown
    <3>2. ~Got(v, i)'
      BY <2>2, <2>3 DEF Got
    <3>3. mode[v] = "summary" => (i \in summary_search <=> db[i] \in Matching)
      <4>1. \A r \in Requests : i \notin Unsummed(req[r])
        <5> SUFFICES ASSUME NEW r \in Requests PROVE i \notin Unsummed(req[r])
          OBVIOUS
        <5>1. req[r] \in Serving /\ RequestFits(req[r], used) /\ i \notin Owed(req[r], v)
          BY <2>5 DEF IInv, BackInv, BackType, RequestsFit, Settled
        <5> QED BY <5>1, ClaimsAreTouched
      <4>2. i \notin contended \cup unsynced
        BY <2>5 DEF Settled
      <4>3. summary[i] = Item(db[i]) /\ db[i] \in VCards \cup {NoCard}
        BY <4>1, <4>2 DEF IInv, BackInv, BackType, SummaryInv, Belief
      <4> QED BY <4>3, ItemOps DEF summary_search
    <3>4. mode[v] = "summary" /\ i \notin t.todo => Told(v)[i] = Shown(i)
      BY <2>2, <3>0, <3>3 DEF InSync, Shown
    <3>5. mode[v] = "cursor" => i \in t.todo
      BY <2>2
    <3> QED BY <2>0, <2>2, <2>3, <3>0, <3>1, <3>2, <3>3, <3>4, <3>5 DEF InSync, NotYet
  <2> QED BY <2>1, <2>2, <2>4, <2>5, <2>0, SilentThreadStep
<1> QED BY <1>e, <1>n DEF thread_search

LEMMA CheckKeeps ==
  ASSUME IInv, NEW v \in Views, thread_check(v)
  PROVE  IInv'
<1>0. /\ thread \in [Views -> Populating] /\ thread[v] \in Populating
      /\ mode[v] \in {"summary", "cursor"} /\ ThreadFits(v) /\ running[v] \in BOOLEAN
      /\ unread \in [Views -> SUBSET ContactIds]
      /\ \A i \in ContactIds : Settled(v, i) => InSync(v, i)
  BY ThreadFacts
<1>1. CASE ~running[v] \/ (mode[v] = "summary" /\ thread[v].todo = {})
  <2> DEFINE t == Finished
  <2>1. ThreadStep(v, "check", t) /\ UNCHANGED <<views, running, unread>>
    BY <1>1 DEF thread_check
  <2>2. t \in Populating /\ t.pc = "finish" /\ t.todo = {} /\ t.got = NoCard
    BY DEF Populating, Finished
  <2> HIDE DEF t
  <2>3. /\ thread'[v] = t /\ mode' = mode /\ running' = running /\ db' = db /\ views' = views
        /\ unread' = unread
        /\ thread[v].pc = "check"
    BY <1>0, <2>1 DEF ThreadStep, backVars
  <2>4. ThreadFits(v)'
    BY <1>0, <2>2, <2>3 DEF ThreadFits
  <2>5. ASSUME NEW i \in ContactIds, Settled(v, i) PROVE InSync(v, i)'
    <3>0. InSync(v, i)
      BY <1>0, <2>5
    <3>1. Told(v)' = Told(v) /\ Shown(i)' = Shown(i)
      BY <2>3 DEF Told, Shown
    <3>2. NotYet(v, i) => NotYet(v, i)'
      BY <1>0, <1>1, <2>3 DEF NotYet, Got, ThreadFits
    <3>3. ~Got(v, i)' /\ i \notin thread'[v].todo
      BY <2>2, <2>3 DEF Got
    <3> QED BY <3>0, <3>1, <3>2, <3>3 DEF InSync
  <2> QED BY <1>0, <2>1, <2>2, <2>4, <2>5, SilentThreadStep
<1>2. CASE running[v] /\ ~(mode[v] = "summary" /\ thread[v].todo = {})
  <2> DEFINE pc == IF mode[v] = "summary" THEN "get" ELSE "notify"
             t == At(v, pc)
  <2>1. ThreadStep(v, "check", t) /\ UNCHANGED <<views, running, unread>>
    BY <1>2 DEF thread_check
  <2>2. t \in Populating /\ t.pc = pc /\ t.todo = thread[v].todo /\ t.got = thread[v].got
    BY <1>0 DEF Populating, At
  <2> HIDE DEF t
  <2>3. /\ thread'[v] = t /\ mode' = mode /\ running' = running /\ db' = db /\ views' = views
        /\ unread' = unread
        /\ thread[v].pc = "check"
    BY <1>0, <2>1 DEF ThreadStep, backVars
  <2>4. ThreadFits(v)'
    BY <1>0, <2>2, <2>3 DEF ThreadFits
  <2>5. ASSUME NEW i \in ContactIds, Settled(v, i) PROVE InSync(v, i)'
    <3>0. InSync(v, i)
      BY <1>0, <2>5
    <3>1. Told(v)' = Told(v) /\ Shown(i)' = Shown(i) /\ Got(v, i)' = Got(v, i)
      BY <2>2, <2>3 DEF Told, Shown, Got
    <3>2. NotYet(v, i) => NotYet(v, i)'
      BY <2>2, <2>3, <3>1 DEF NotYet
    <3> QED BY <2>2, <2>3, <3>0, <3>1, <3>2 DEF InSync
  <2>6. t.pc \in {"get", "notify"}
    BY <2>2
  <2> QED BY <1>0, <2>1, <2>2, <2>4, <2>5, <2>6, SilentThreadStep
<1> QED BY <1>0, <1>1, <1>2

LEMMA GetKeeps ==
  ASSUME IInv, NEW v \in Views, thread_get(v)
  PROVE  IInv'
<1>0. /\ thread \in [Views -> Populating] /\ thread[v] \in Populating
      /\ mode[v] = "summary" /\ ThreadFits(v) /\ db \in Belief
      /\ unread \in [Views -> SUBSET ContactIds]
      /\ \A i \in ContactIds : Settled(v, i) => InSync(v, i)
  BY ThreadFacts DEF thread_get, IInv, BackInv, BackType
<1>1. PICK k \in thread[v].todo :
        \/ /\ db[k] # NoCard
           /\ ThreadStep(v, "get", [pc |-> "notify", todo |-> thread[v].todo,
                                    got |-> [id |-> k, vcard |-> db[k]]])
           /\ UNCHANGED unread
        \/ /\ ThreadStep(v, "get", [pc |-> "check", todo |-> thread[v].todo \ {k},
                                    got |-> NoCard])
           /\ PassedOver(v, {k})
  BY DEF thread_get
<1>u. UNCHANGED <<views, running>>
  BY DEF thread_get
<1>k. k \in ContactIds /\ thread[v].todo \in SUBSET ContactIds /\ thread[v].got = NoCard
      /\ thread[v].pc = "get"
  BY <1>0, <1>1 DEF Populating, ThreadFits, ThreadStep
<1>2. CASE /\ ThreadStep(v, "get", [pc |-> "check", todo |-> thread[v].todo \ {k},
                                    got |-> NoCard])
           /\ PassedOver(v, {k})
  <2> DEFINE s == thread[v].todo \ {k}
             t == [pc |-> "check", todo |-> s, got |-> NoCard]
  <2>1. ThreadStep(v, "get", t)
    BY <1>2
  <2>p. /\ unread' \in [Views -> SUBSET ContactIds] /\ unread[v] \subseteq unread'[v]
        /\ \A u \in Views \ {v} : unread'[u] = unread[u]
        /\ db[k] # NoCard => k \in unread'[v]
    BY <1>0, <1>2, <1>k, PassedOverFacts
  <2>s. s \in SUBSET ContactIds
    BY <1>k
  <2> HIDE DEF s
  <2>2. t \in Populating /\ t.pc = "check" /\ t.todo = s /\ t.got = NoCard
    BY <2>s DEF Populating
  <2> HIDE DEF t
  <2>3. /\ thread'[v] = t /\ mode' = mode /\ running' = running /\ db' = db /\ views' = views
    BY <1>0, <1>u, <2>1 DEF ThreadStep, backVars
  <2>4. ThreadFits(v)'
    BY <1>0, <2>2, <2>3 DEF ThreadFits
  <2>5. ASSUME NEW i \in ContactIds, Settled(v, i) PROVE InSync(v, i)'
    <3>0. InSync(v, i)
      BY <1>0, <2>5
    <3>1. Told(v)' = Told(v) /\ Shown(i)' = Shown(i)
      BY <2>3 DEF Told, Shown
    <3>2. ~Got(v, i)' /\ ~Got(v, i) /\ (i \in thread'[v].todo => i \in thread[v].todo)
          /\ (i # k /\ i \in thread[v].todo => i \in thread'[v].todo)
      BY <1>k, <2>2, <2>3 DEF Got, s
    <3>3. i = k => db[k] # NoCard
      BY <1>0, <1>1, <3>0, ViewAssumption DEF InSync
    <3>4. NotYet(v, i) => NotYet(v, i)'
      BY <1>k, <2>p, <2>3, <3>2, <3>3 DEF NotYet
    <3> QED BY <2>3, <3>0, <3>1, <3>2, <3>4 DEF InSync
  <2> QED BY <1>u, <2>p, <2>1, <2>2, <2>4, <2>5, SilentThreadStep
<1>3. CASE /\ db[k] # NoCard
           /\ ThreadStep(v, "get", [pc |-> "notify", todo |-> thread[v].todo,
                                    got |-> [id |-> k, vcard |-> db[k]]])
           /\ UNCHANGED unread
  <2> DEFINE c == [id |-> k, vcard |-> db[k]]
             t == [pc |-> "notify", todo |-> thread[v].todo, got |-> c]
  <2>1. ThreadStep(v, "get", t)
    BY <1>3
  <2>c. c \in Card /\ c.id = k /\ c.vcard = db[k]
    BY <1>0, <1>k, <1>3 DEF Card, Belief
  <2> HIDE DEF c
  <2>2. t \in Populating /\ t.pc = "notify" /\ t.todo = thread[v].todo /\ t.got = c
    BY <1>k, <2>c DEF Populating
  <2> HIDE DEF t
  <2>3. /\ thread'[v] = t /\ mode' = mode /\ running' = running /\ db' = db /\ views' = views
    BY <1>0, <1>u, <2>1 DEF ThreadStep, backVars
  <2>n. c # NoCard
    BY <2>c, BackendAssumption
  <2>4. ThreadFits(v)'
    BY <1>0, <1>1, <2>c, <2>n, <2>2, <2>3 DEF ThreadFits
  <2>5. ASSUME NEW i \in ContactIds, Settled(v, i) PROVE InSync(v, i)'
    <3>0. InSync(v, i)
      BY <1>0, <2>5
    <3>1. Told(v)' = Told(v) /\ Shown(i)' = Shown(i)
      BY <2>3 DEF Told, Shown
    <3>2. Got(v, i)' => thread'[v].got.vcard = db[i]
      BY <2>c, <2>2, <2>3 DEF Got
    <3>3. NotYet(v, i) => NotYet(v, i)'
      BY <1>k, <1>3, <2>2, <2>3 DEF NotYet, Got
    <3> QED BY <2>2, <2>3, <3>0, <3>1, <3>2, <3>3 DEF InSync
  <2> QED BY <1>0, <1>3, <1>u, <2>1, <2>2, <2>4, <2>5, SilentThreadStep
<1> QED BY <1>1, <1>2, <1>3

LEMMA CursorGetKeeps ==
  ASSUME IInv, NEW v \in Views, thread_c_get(v)
  PROVE  IInv'
<1> DEFINE ahead == {i \in thread[v].todo : db[i] # NoCard}
<1>0. /\ thread \in [Views -> Populating] /\ thread[v] \in Populating
      /\ mode[v] = "cursor" /\ ThreadFits(v) /\ db \in Belief
      /\ unread \in [Views -> SUBSET ContactIds]
      /\ \A i \in ContactIds : Settled(v, i) => InSync(v, i)
  BY ThreadFacts DEF thread_c_get, IInv, BackInv, BackType
<1>u. UNCHANGED <<views, running>> /\ thread[v].pc = "get"
  BY DEF thread_c_get, ThreadStep
<1>g. thread[v].got = NoCard /\ thread[v].todo \in SUBSET ContactIds
  BY <1>0, <1>u DEF ThreadFits, Populating
<1>a. ASSUME NEW i \in ContactIds, Settled(v, i), i \notin ahead, running[v], i \notin unread[v]
      PROVE  Told(v)[i] = Shown(i)
  <2>1. InSync(v, i)
    BY <1>0, <1>a
  <2>2. CASE i \in thread[v].todo
    <3>1. db[i] = NoCard
      BY <1>a, <2>2
    <3>2. Shown(i) = NoCard
      BY <3>1 DEF Shown
    <3> QED BY <2>1, <3>2 DEF InSync
  <2>3. CASE i \notin thread[v].todo
    <3>1. ~NotYet(v, i)
      BY <1>u, <1>g, <1>a, <2>3 DEF NotYet, Got
    <3> QED BY <2>1, <3>1 DEF InSync
  <2> QED BY <2>2, <2>3
<1>1. CASE ThreadStep(v, "get", Finished) /\ PassedOver(v, thread[v].todo)
  <2>1. \A i \in ContactIds :
          Settled(v, i) /\ (i \notin thread[v].todo \/ db[i] = NoCard) /\ running[v]
            => i \in unread[v] \/ Told(v)[i] = Shown(i)
    BY <1>a
  <2> QED BY <1>1, <1>u, <1>g, <2>1, CursorEnds
<1>2. ASSUME NEW k \in ahead, \A j \in ahead : Bucket[k] <= Bucket[j],
             ThreadStep(v, "get",
               [pc |-> "check", got |-> [id |-> k, vcard |-> db[k]],
                todo |-> {j \in ContactIds : Bucket[j] > Bucket[k]}]),
             UNCHANGED unread
      PROVE  IInv'
  <2> DEFINE c == [id |-> k, vcard |-> db[k]]
             s == {j \in ContactIds : Bucket[j] > Bucket[k]}
             t == [pc |-> "check", got |-> c, todo |-> s]
  <2>1. ThreadStep(v, "get", t)
    BY <1>2
  <2>k. k \in ContactIds /\ db[k] # NoCard
    BY <1>g, <1>2
  <2>c. c \in Card /\ c.id = k /\ c.vcard = db[k]
    BY <1>0, <2>k DEF Card, Belief
  <2>s. s \in SUBSET ContactIds /\ \A i \in ahead : i = k \/ i \in s
    <3> SUFFICES ASSUME NEW i \in ahead, i # k PROVE i \in s
      OBVIOUS
    <3>1. i \in ContactIds
      BY <1>g
    <3>2. Bucket[i] \in Nat /\ Bucket[k] \in Nat /\ Bucket[i] # Bucket[k]
      BY <2>k, <3>1, BackendAssumption
    <3> QED BY <1>2, <3>1, <3>2
  <2>n. c # NoCard
    BY <2>c, BackendAssumption
  <2> HIDE DEF c, s, ahead
  <2>2. t \in Populating /\ t.pc = "check" /\ t.todo = s /\ t.got = c
    BY <2>c, <2>s DEF Populating
  <2> HIDE DEF t
  <2>3. /\ thread'[v] = t /\ mode' = mode /\ running' = running /\ db' = db /\ views' = views
    BY <1>0, <1>u, <2>1 DEF ThreadStep, backVars
  <2>4. ThreadFits(v)'
    BY <1>0, <2>c, <2>n, <2>2, <2>3 DEF ThreadFits
  <2>5. ASSUME NEW i \in ContactIds, Settled(v, i) PROVE InSync(v, i)'
    <3>0. InSync(v, i)
      BY <1>0, <2>5
    <3>1. Told(v)' = Told(v) /\ Shown(i)' = Shown(i)
      BY <2>3 DEF Told, Shown
    <3>2. (Got(v, i)' <=> i = k) /\ (Got(v, i)' => thread'[v].got.vcard = db[i])
      BY <2>c, <2>n, <2>2, <2>3 DEF Got
    <3>3. i \in ahead => NotYet(v, i)'
      BY <2>s, <2>2, <2>3, <3>2 DEF NotYet
    <3>4. ~NotYet(v, i)' => running[v] /\ i \notin unread[v]
      BY <1>2, <2>3 DEF NotYet
    <3>5. ~NotYet(v, i)' => Told(v)[i] = Shown(i)
      BY <1>a, <2>5, <3>3, <3>4
    <3> QED BY <1>0, <2>3, <3>0, <3>1, <3>2, <3>5 DEF InSync
  <2> QED BY <1>0, <1>2, <1>u, <2>1, <2>2, <2>4, <2>5, SilentThreadStep
<1> QED BY <1>1, <1>2 DEF thread_c_get

LEMMA FinishKeeps ==
  ASSUME IInv, NEW v \in Views, thread_finish(v)
  PROVE  IInv'
<1> DEFINE pc == IF running[v] THEN "complete" ELSE "done"
           t == At(v, pc)
<1>0. /\ thread \in [Views -> Populating] /\ thread[v] \in Populating
      /\ ThreadFits(v) /\ running[v] \in BOOLEAN /\ unread \in [Views -> SUBSET ContactIds]
      /\ \A i \in ContactIds : Settled(v, i) => InSync(v, i)
  BY ThreadFacts
<1>1. ThreadStep(v, "finish", t) /\ UNCHANGED <<views, running, unread>>
  BY DEF thread_finish
<1>2. t \in Populating /\ t.pc = pc /\ t.todo = thread[v].todo /\ t.got = thread[v].got
  BY <1>0 DEF Populating, At
<1>3. pc = "complete" \/ (pc = "done" /\ ~running[v])
  OBVIOUS
<1> HIDE DEF t, pc
<1>4. /\ thread'[v] = t /\ mode' = mode /\ running' = running /\ db' = db /\ views' = views
      /\ thread[v].pc = "finish"
  BY <1>0, <1>1 DEF ThreadStep, backVars
<1>5. thread[v].todo = {} /\ thread[v].got = NoCard
  BY <1>0, <1>4 DEF ThreadFits
<1>6. ThreadFits(v)'
  BY <1>0, <1>2, <1>3, <1>4, <1>5 DEF ThreadFits
<1>7. ASSUME NEW i \in ContactIds, Settled(v, i) PROVE InSync(v, i)'
  <2>0. InSync(v, i)
    BY <1>0, <1>7
  <2>1. Told(v)' = Told(v) /\ Shown(i)' = Shown(i) /\ Got(v, i)' = Got(v, i)
    BY <1>2, <1>4 DEF Told, Shown, Got
  <2>2. NotYet(v, i) => NotYet(v, i)'
    BY <1>1, <1>2, <1>4, <2>1 DEF NotYet
  <2> QED BY <1>2, <1>4, <2>0, <2>1, <2>2 DEF InSync
<1> QED BY <1>0, <1>1, <1>2, <1>3, <1>6, <1>7, SilentThreadStep

LEMMA SignalKeeps ==
  ASSUME IInv, NEW v \in Views, thread_signal(v)
  PROVE  IInv'
<1> DEFINE t == At(v, "search")
<1>0. /\ thread \in [Views -> Populating] /\ thread[v] \in Populating
      /\ ThreadFits(v) /\ ViewOK(v) /\ running \in [Views -> BOOLEAN] /\ ViewType
      /\ \A i \in ContactIds : Settled(v, i) => InSync(v, i)
  BY ThreadFacts DEF IInv, FrontInv, ViewType
<1>1. /\ thread[v].pc = "begin" /\ thread' = [thread EXCEPT ![v] = t]
      /\ running' = [running EXCEPT ![v] = TRUE]
      /\ UNCHANGED <<backVars, mode, ctl, died, starts, raced, unread, views>>
  BY DEF thread_signal, ThreadStep
<1>2. t \in Populating /\ t.pc = "search" /\ t.todo = thread[v].todo /\ t.got = thread[v].got
  BY <1>0 DEF Populating, At
<1>3. thread[v].todo = {} /\ thread[v].got = NoCard
  BY <1>0, <1>1 DEF ThreadFits
<1> HIDE DEF t
<1>4. /\ thread' \in [Views -> Populating] /\ running' \in [Views -> BOOLEAN]
      /\ thread'[v] = t /\ running'[v] = TRUE
      /\ \A u \in Views \ {v} : thread'[u] = thread[u] /\ running'[u] = running[u]
  BY <1>0, <1>1, <1>2
<1>5. ViewType'
  BY <1>0, <1>1, <1>4 DEF ViewType
<1>6. ViewFits(v)'
  BY <1>0, <1>1 DEF ViewOK, ViewFits, Told
<1>7. ThreadFits(v)' /\ PendingIsFlushed(v)'
  BY <1>1, <1>2, <1>3, <1>4 DEF ThreadFits, PendingIsFlushed
<1>8. ControlFits(v)'
  BY <1>0, <1>1, <1>2, <1>4 DEF ViewOK, ControlFits
<1>9. ASSUME NEW i \in ContactIds, Settled(v, i) PROVE InSync(v, i)'
  <2>0. InSync(v, i)
    BY <1>0, <1>9
  <2>1. Told(v)' = Told(v) /\ Shown(i)' = Shown(i) /\ ~Got(v, i)' /\ NotYet(v, i)'
    BY <1>1, <1>2, <1>3, <1>4 DEF Told, Shown, Got, NotYet, backVars
  <2> QED BY <1>2, <1>3, <1>4, <2>0, <2>1 DEF InSync
<1> QED BY <1>1, <1>4, <1>5, <1>6, <1>7, <1>8, <1>9, ViewStep

LEMMA ThreadNotifyKeeps ==
  ASSUME IInv, NEW v \in Views, thread_notify(v)
  PROVE  IInv'
<1> DEFINE c == thread[v].got
           n == Told(v)
           x == IF mode[v] = "summary" \/ c.vcard \in Matching THEN c.vcard ELSE NoCard
           m == [n EXCEPT ![c.id] = x]
           w == IF mode[v] = "summary" THEN view_notify_update_prefiltered_vcard(views[v], c)
                ELSE view_notify_update(views[v], c)
           s == IF mode[v] = "summary" THEN thread[v].todo \ {c.id} ELSE thread[v].todo
           pc == IF mode[v] = "summary" THEN "check" ELSE "get"
           t == [pc |-> pc, todo |-> s, got |-> NoCard]
<1>0. /\ thread \in [Views -> Populating] /\ thread[v] \in Populating
      /\ mode[v] \in {"summary", "cursor"}
      /\ ThreadFits(v) /\ ViewOK(v) /\ views \in [Views -> View] /\ ViewType
      /\ ViewInv(views[v], n) /\ n \in Belief
      /\ \A i \in ContactIds : Settled(v, i) => InSync(v, i)
  BY ThreadFacts DEF IInv, FrontInv, ViewType
<1>1. /\ thread[v].pc = "notify" /\ thread' = [thread EXCEPT ![v] = t]
      /\ views' = [views EXCEPT ![v] = w]
      /\ UNCHANGED <<backVars, mode, ctl, died, starts, raced, unread, running>>
  <2>1. thread' = [thread EXCEPT ![v] =
                     IF mode[v] = "summary"
                     THEN [pc |-> "check", todo |-> thread[v].todo \ {c.id}, got |-> NoCard]
                     ELSE [pc |-> "get", todo |-> thread[v].todo, got |-> NoCard]]
    BY DEF thread_notify, ThreadStep
  <2>2. thread' = [thread EXCEPT ![v] = t]
    BY <2>1
  <2> QED BY <2>2 DEF thread_notify, ThreadStep
<1>2. c \in Card /\ c # NoCard /\ c.id \in ContactIds
  BY <1>0, <1>1 DEF ThreadFits, Card
<1>3. ViewInv(w, m)
  <2> HIDE DEF n
  <2>1. CASE mode[v] = "summary"
    <3>1. ViewInv(view_notify_update_prefiltered_vcard(views[v], c), [n EXCEPT ![c.id] = c.vcard])
      BY <1>0, <1>2, PrefilteredKeeps
    <3> QED BY <2>1, <3>1
  <2>2. CASE mode[v] # "summary"
    <3>1. ViewInv(view_notify_update(views[v], c),
                  [n EXCEPT ![c.id] = IF c.vcard \in Matching THEN c.vcard ELSE NoCard])
      BY <1>0, <1>2, UpdateTells
    <3> QED BY <2>2, <3>1
  <2> QED BY <2>1, <2>2
<1>4. w \in View /\ CaughtUp(w) = m
  BY <1>3 DEF ViewInv
<1>5. m[c.id] = x /\ \A j \in ContactIds : j # c.id => m[j] = n[j]
  BY <1>0, <1>2 DEF Belief
<1>s. s \in SUBSET ContactIds /\ s \subseteq thread[v].todo
      /\ (mode[v] = "summary" => c.id \notin s)
      /\ \A j \in thread[v].todo : j # c.id => j \in s
  BY <1>0 DEF Populating
<1>p. pc = "check" \/ pc = "get"
  OBVIOUS
<1>q. mode[v] = "cursor" => pc = "get"
  OBVIOUS
<1> HIDE DEF s, pc, w, m, x, n
<1>6. t \in Populating /\ t.pc = pc /\ t.todo = s /\ t.got = NoCard
  BY <1>s, <1>p DEF Populating
<1> HIDE DEF t
<1>7. /\ thread' \in [Views -> Populating] /\ views' \in [Views -> View]
      /\ thread'[v] = t /\ views'[v] = w
      /\ \A u \in Views \ {v} : thread'[u] = thread[u] /\ views'[u] = views[u]
  BY <1>0, <1>1, <1>4, <1>6
<1>8. ViewType'
  BY <1>0, <1>1, <1>7 DEF ViewType
<1>9. Told(v)' = m /\ ViewFits(v)'
  BY <1>3, <1>4, <1>7 DEF ViewFits, Told
<1>10. ThreadFits(v)' /\ PendingIsFlushed(v)'
  BY <1>0, <1>1, <1>6, <1>7, <1>p, <1>q DEF ThreadFits, PendingIsFlushed
<1>11. ControlFits(v)'
  BY <1>0, <1>1, <1>6, <1>7, <1>p DEF ViewOK, ControlFits
<1>12. ASSUME NEW i \in ContactIds, Settled(v, i) PROVE InSync(v, i)'
  <2>0. InSync(v, i)
    BY <1>0, <1>12
  <2>1. Shown(i)' = Shown(i) /\ ~Got(v, i)' /\ mode' = mode /\ running' = running /\ db' = db
    BY <1>1, <1>6, <1>7 DEF Shown, Got, backVars
  <2>2. CASE i = c.id
    <3>1. Got(v, i) /\ c.vcard = db[i]
      BY <1>2, <2>0, <2>2 DEF Got, InSync
    <3>2. mode[v] = "summary" => db[i] \in Matching
      BY <1>0, <1>2, <2>0, <2>2 DEF ThreadFits, InSync
    <3>3. x = Shown(i)
      BY <3>1, <3>2 DEF x, Shown
    <3>4. Told(v)'[i] = Shown(i)
      BY <1>5, <1>9, <2>2, <3>3
    <3>5. mode[v] = "summary" => i \notin thread'[v].todo
      BY <1>s, <1>6, <1>7, <2>2
    <3> QED BY <2>1, <3>4, <3>5 DEF InSync
  <2>3. CASE i # c.id
    <3>1. Told(v)'[i] = Told(v)[i]
      BY <1>5, <1>9, <2>3 DEF n
    <3>2. i \in thread[v].todo <=> i \in thread'[v].todo
      BY <1>s, <1>6, <1>7, <2>3
    <3>3. NotYet(v, i) => NotYet(v, i)'
      BY <1>1, <2>1, <2>3, <3>2 DEF NotYet, Got
    <3> QED BY <2>0, <2>1, <3>1, <3>2, <3>3 DEF InSync
  <2> QED BY <2>2, <2>3
<1> QED BY <1>1, <1>7, <1>8, <1>9, <1>10, <1>11, <1>12, ViewStep

LEMMA ThreadCompleteKeeps ==
  ASSUME IInv, NEW v \in Views, thread_complete(v)
  PROVE  IInv'
<1> DEFINE t == At(v, "done")
           w == view_flush(views[v])
<1>0. /\ thread \in [Views -> Populating] /\ thread[v] \in Populating
      /\ ThreadFits(v) /\ ViewOK(v) /\ views \in [Views -> View] /\ ViewType
      /\ ViewInv(views[v], Told(v))
      /\ \A i \in ContactIds : Settled(v, i) => InSync(v, i)
  BY ThreadFacts DEF IInv, FrontInv, ViewType
<1>1. /\ thread[v].pc = "complete" /\ thread' = [thread EXCEPT ![v] = t]
      /\ views' = [views EXCEPT ![v] = w]
      /\ UNCHANGED <<backVars, mode, ctl, died, starts, raced, unread, running>>
  BY DEF thread_complete, ThreadStep
<1>2. t \in Populating /\ t.pc = "done" /\ t.todo = thread[v].todo /\ t.got = thread[v].got
  BY <1>0 DEF Populating, At
<1>3. thread[v].todo = {} /\ thread[v].got = NoCard
  BY <1>0, <1>1 DEF ThreadFits
<1>4. /\ ViewInv(w, Told(v)) /\ w.adds = <<>> /\ w.changes = <<>> /\ w.removes = <<>>
  BY <1>0, FlushKeeps
<1>5. w \in View /\ CaughtUp(w) = Told(v)
  BY <1>4 DEF ViewInv
<1> HIDE DEF t, w
<1>6. /\ thread' \in [Views -> Populating] /\ views' \in [Views -> View]
      /\ thread'[v] = t /\ views'[v] = w
      /\ \A u \in Views \ {v} : thread'[u] = thread[u] /\ views'[u] = views[u]
  BY <1>0, <1>1, <1>2, <1>5
<1>7. ViewType'
  BY <1>0, <1>1, <1>6 DEF ViewType
<1>8. Told(v)' = Told(v) /\ ViewFits(v)'
  BY <1>4, <1>5, <1>6 DEF ViewFits, Told
<1>9. ThreadFits(v)' /\ PendingIsFlushed(v)'
  BY <1>1, <1>2, <1>3, <1>4, <1>6 DEF ThreadFits, PendingIsFlushed, Flushed
<1>10. ControlFits(v)'
  BY <1>0, <1>1, <1>2, <1>6 DEF ViewOK, ControlFits
<1>11. ASSUME NEW i \in ContactIds, Settled(v, i) PROVE InSync(v, i)'
  <2>0. InSync(v, i)
    BY <1>0, <1>11
  <2>1. Shown(i)' = Shown(i) /\ ~Got(v, i)' /\ thread'[v].todo = {}
    BY <1>1, <1>2, <1>3, <1>6 DEF Shown, Got, backVars
  <2>2. NotYet(v, i) => NotYet(v, i)'
    BY <1>1, <1>3 DEF NotYet, Got
  <2> QED BY <1>8, <2>0, <2>1, <2>2 DEF InSync
<1> QED BY <1>1, <1>6, <1>7, <1>8, <1>9, <1>10, <1>11, ViewStep

LEMMA StartKeeps ==
  ASSUME IInv, NEW v \in Views, start_book_view(v)
  PROVE  IInv'
<1> DEFINE t == [NoThread EXCEPT !.pc = "begin"]
<1>0. /\ thread \in [Views -> Populating] /\ ViewOK(v) /\ ViewType
      /\ \A i \in ContactIds : Settled(v, i) => InSync(v, i)
  BY ThreadFacts DEF IInv, FrontInv
<1>1. /\ thread' = [thread EXCEPT ![v] = t] /\ running' = [running EXCEPT ![v] = FALSE]
      /\ ctl' = [ctl EXCEPT ![v] = "starting"] /\ starts' = [starts EXCEPT ![v] = @ + 1]
      /\ starts[v] < MaxStarts /\ unread' = [unread EXCEPT ![v] = {}]
      /\ UNCHANGED <<backVars, views, mode, died, raced>>
  BY DEF start_book_view
<1>2. t \in Populating /\ t.pc = "begin" /\ t.todo = {} /\ t.got = NoCard
  BY DEF Populating, NoThread
<1> HIDE DEF t
<1>3. /\ thread' \in [Views -> Populating] /\ thread'[v] = t /\ running'[v] = FALSE
      /\ ctl'[v] = "starting"
      /\ \A u \in Views \ {v} : /\ thread'[u] = thread[u] /\ running'[u] = running[u]
                                /\ ctl'[u] = ctl[u]
  BY <1>0, <1>1, <1>2 DEF ViewType
<1>4. starts' \in [Views -> 0..MaxStarts]
  BY <1>0, <1>1, BackendAssumption DEF ViewType
<1>u. /\ unread' \in [Views -> SUBSET ContactIds]
      /\ \A u \in Views \ {v} : unread'[u] = unread[u]
  <2> DEFINE none == {}
  <2>1. none \in SUBSET ContactIds /\ unread' = [unread EXCEPT ![v] = none]
    BY <1>1
  <2> HIDE DEF none
  <2> QED BY <1>0, <2>1 DEF ViewType
<1>5. ViewType'
  BY <1>0, <1>1, <1>3, <1>4, <1>u DEF ViewType
<1>6. Told(v)' = Told(v) /\ ViewFits(v)'
  BY <1>0, <1>1 DEF ViewOK, ViewFits, Told
<1>7. ThreadFits(v)' /\ PendingIsFlushed(v)' /\ ControlFits(v)'
  BY <1>2, <1>3 DEF ThreadFits, PendingIsFlushed, ControlFits
<1>8. ASSUME NEW i \in ContactIds, Settled(v, i) PROVE InSync(v, i)'
  <2>0. InSync(v, i)
    BY <1>0, <1>8
  <2>1. Shown(i)' = Shown(i) /\ ~Got(v, i)' /\ thread'[v].todo = {} /\ NotYet(v, i)'
    BY <1>1, <1>2, <1>3 DEF Shown, Got, NotYet, backVars
  <2> QED BY <1>6, <2>0, <2>1 DEF InSync
<1> QED BY <1>1, <1>3, <1>u, <1>5, <1>6, <1>7, <1>8, ViewStep

(* Steps of the callers of start and stop, that leave the thread alone and *)
(* at most clear the flag.                                                 *)
LEMMA ControlKeeps ==
  ASSUME IInv, NEW v \in Views,
         UNCHANGED <<backVars, views, mode, thread, starts, raced, unread>>, ViewType',
         \A u \in Views \ {v} : running'[u] = running[u] /\ ctl'[u] = ctl[u] /\ died'[u] = died[u],
         running'[v] => running[v], died'[v] = "alive" => died[v] = "alive",
         ControlFits(v)'
  PROVE  IInv'
<1>0. ViewOK(v) /\ \A i \in ContactIds : Settled(v, i) => InSync(v, i)
  BY ThreadFacts
<1>1. Told(v)' = Told(v) /\ ViewFits(v)' /\ ThreadFits(v)'
  BY <1>0 DEF ViewOK, ViewFits, Told, ThreadFits
<1>2. PendingIsFlushed(v)'
  BY <1>0 DEF ViewOK, PendingIsFlushed, Flushed, backVars
<1>3. ASSUME NEW i \in ContactIds, Settled(v, i) PROVE InSync(v, i)'
  <2>0. InSync(v, i)
    BY <1>0, <1>3
  <2>1. Shown(i)' = Shown(i) /\ Got(v, i)' = Got(v, i) /\ (NotYet(v, i) => NotYet(v, i)')
        /\ db' = db
    BY DEF Shown, Got, NotYet, backVars
  <2> QED BY <1>1, <2>0, <2>1 DEF InSync
<1> QED BY <1>1, <1>2, <1>3, ViewStep

LEMMA StopsKeep ==
  ASSUME IInv, NEW v \in Views,
         \/ start_returns(v) \/ stop_book_view(v) \/ stop_clear(v) \/ stop_returns(v)
         \/ listener_died(v) \/ died_clear(v) \/ died_returns(v)
  PROVE  IInv'
<1>0. /\ ViewType /\ ControlFits(v) /\ running \in [Views -> BOOLEAN]
      /\ ctl \in [Views -> {"new", "starting", "up", "clear_join", "clear", "join",
                            "unjoined", "down"}]
      /\ died \in [Views -> {"alive", "clear_join", "clear", "join", "unjoined", "gone"}]
  BY ThreadFacts DEF IInv, FrontInv, ViewType, ViewOK
<1>1. CASE start_returns(v)
  <2>1. ControlFits(v)' /\ ViewType'
    BY <1>0, <1>1 DEF start_returns, ControlFits, ViewType
  <2> QED BY <1>0, <1>1, <2>1, ControlKeeps DEF start_returns
<1>2. CASE stop_book_view(v)
  <2>1. ControlFits(v)' /\ ViewType'
    BY <1>0, <1>2 DEF stop_book_view, NeedJoin, ControlFits, ViewType
  <2> QED BY <1>0, <1>2, <2>1, ControlKeeps DEF stop_book_view
<1>3. CASE stop_clear(v)
  <2>1. ControlFits(v)' /\ ViewType'
    BY <1>0, <1>3 DEF stop_clear, Cleared, ControlFits, ViewType
  <2> QED BY <1>0, <1>3, <2>1, ControlKeeps DEF stop_clear
<1>4. CASE stop_returns(v)
  <2>1. ControlFits(v)' /\ ViewType'
    BY <1>0, <1>4 DEF stop_returns, ControlFits, ViewType
  <2> QED BY <1>0, <1>4, <2>1, ControlKeeps DEF stop_returns
<1>5. CASE listener_died(v)
  <2>1. ControlFits(v)' /\ ViewType'
    BY <1>0, <1>5 DEF listener_died, NeedJoin, ControlFits, ViewType
  <2> QED BY <1>0, <1>5, <2>1, ControlKeeps DEF listener_died
<1>6. CASE died_clear(v)
  <2>1. ControlFits(v)' /\ ViewType'
    BY <1>0, <1>6 DEF died_clear, Cleared, ControlFits, ViewType
  <2> QED BY <1>0, <1>6, <2>1, ControlKeeps DEF died_clear, Cleared
<1>7. CASE died_returns(v)
  <2>1. ControlFits(v)' /\ ViewType'
    BY <1>0, <1>7 DEF died_returns, ControlFits, ViewType
  <2> QED BY <1>0, <1>7, <2>1, ControlKeeps DEF died_returns
<1> QED BY <1>1, <1>2, <1>3, <1>4, <1>5, <1>6, <1>7

----------------------------------------------------------------------------
(* The invariant *)

LEMMA InitHolds == Init => IInv
<1> SUFFICES ASSUME Init PROVE IInv
  OBVIOUS
<1>0. /\ db \in Belief /\ summary = [i \in ContactIds |-> Item(db[i])]
      /\ used = Present(db) /\ unsynced = {} /\ contended = {} /\ made = 0
      /\ req = [r \in Requests |-> Idle]
  BY DEF Init
<1>1. \A i \in ContactIds : summary[i] = Item(db[i]) /\ db[i] \in VCards \cup {NoCard}
  BY <1>0 DEF Belief
<1>2. \A r \in Requests : req[r] = Idle
  BY <1>0
<1>3. BackType
  <2>1. summary \in [ContactIds -> Items]
    BY <1>0, <1>1, ItemOps
  <2>2. req \in [Requests -> Serving]
    BY <1>0, IdleClaimsNothing
  <2>3. used \subseteq ContactIds /\ made \in 0..MaxRequests
    BY <1>0, BackendAssumption DEF Present
  <2> QED BY <1>0, <2>1, <2>2, <2>3 DEF BackType
<1>4. RequestsFit /\ OverlapIsKnown /\ WrittenIsThere
  BY <1>2, IdleClaimsNothing DEF RequestsFit, OverlapIsKnown, WrittenIsThere
<1>5. UnusedIsAbsent
  BY <1>0, <1>1 DEF UnusedIsAbsent, Present
<1>6. SummaryInv
  BY <1>1, <1>2, IdleClaimsNothing DEF SummaryInv
<1>7. /\ views = [v \in Views |-> e_data_book_view_init] /\ mode \in [Views -> QueryModes]
      /\ running = [v \in Views |-> FALSE] /\ thread = [v \in Views |-> NoThread]
      /\ ctl = [v \in Views |-> "new"] /\ died = [v \in Views |-> "alive"]
      /\ starts = [v \in Views |-> 0] /\ raced = [v \in Views |-> {}]
      /\ unread = [v \in Views |-> {}]
  BY DEF Init
<1>8. NoThread \in Populating /\ NoThread.pc = "none" /\ NoThread.todo = {} /\ NoThread.got = NoCard
  BY DEF Populating, NoThread
<1>9. /\ ViewInv(e_data_book_view_init, NothingHeld)
      /\ e_data_book_view_init \in View /\ CaughtUp(e_data_book_view_init) = NothingHeld
      /\ e_data_book_view_init.adds = <<>> /\ e_data_book_view_init.changes = <<>>
      /\ e_data_book_view_init.removes = <<>>
  <2>1. e_data_book_view_init.adds = <<>> /\ e_data_book_view_init.changes = <<>>
        /\ e_data_book_view_init.removes = <<>>
    BY DEF e_data_book_view_init
  <2> QED BY <2>1, NewView DEF ViewInv
<1>10. ViewType
  BY <1>7, <1>8, <1>9, BackendAssumption DEF ViewType
<1>11. ASSUME NEW v \in Views PROVE ViewOK(v)
  <2>1. /\ views[v] = e_data_book_view_init /\ thread[v] = NoThread /\ ctl[v] = "new"
        /\ Told(v) = NothingHeld
    BY <1>7, <1>9 DEF Told
  <2>2. ViewFits(v)
    BY <1>9, <2>1 DEF ViewFits
  <2>3. ThreadFits(v)
    BY <1>8, <2>1 DEF ThreadFits
  <2>4. ASSUME NEW i \in ContactIds PROVE InSync(v, i)
    <3>1. Told(v)[i] = NoCard
      BY <2>1 DEF NothingHeld
    <3>2. NotYet(v, i) /\ ~Got(v, i) /\ i \notin thread[v].todo
      BY <1>8, <2>1 DEF NotYet, Got
    <3> QED BY <3>1, <3>2 DEF InSync
  <2>5. PendingIsFlushed(v)
    BY <1>9, <2>1 DEF PendingIsFlushed, Flushed
  <2>6. ControlFits(v)
    BY <1>8, <2>1 DEF ControlFits
  <2> QED BY <2>2, <2>3, <2>4, <2>5, <2>6 DEF ViewOK, ViewInSync
<1> QED BY <1>3, <1>4, <1>5, <1>6, <1>10, <1>11 DEF IInv, BackInv, FrontInv

LEMMA StepKeeps == IInv /\ [Next]_vars => IInv'
<1> SUFFICES ASSUME IInv, [Next]_vars PROVE IInv'
  OBVIOUS
<1>1. ASSUME NEW r \in Requests,
             create_contact(r) \/ modify_contact(r) \/ remove_contacts(r) \/ RequestStep(r)
      PROVE  IInv'
  <2>1. CASE create_contact(r)
    BY <2>1, CreateKeeps
  <2>2. CASE modify_contact(r)
    BY <2>2, ModifyKeeps
  <2>3. CASE remove_contacts(r)
    BY <2>3, RemoveRequestKeeps
  <2>4. CASE delete_next(r)
    BY <2>4, DeleteKeeps
  <2>5. CASE summary_remove(r)
    BY <2>5, SummaryRemoveKeeps
  <2>6. CASE summary_add(r)
    BY <2>6, SummaryAddKeeps
  <2>7. ASSUME NEW v \in Views, respond_notify(r, v) PROVE IInv'
    BY <2>7, NotifyKeeps
  <2>8. ASSUME NEW v \in Views, respond_complete(r, v) PROVE IInv'
    BY <2>8, CompleteKeeps
  <2> QED BY <1>1, <2>1, <2>2, <2>3, <2>4, <2>5, <2>6, <2>7, <2>8 DEF RequestStep
<1>2. ASSUME NEW v \in Views, PopulateStep(v) PROVE IInv'
  <2>1. CASE thread_signal(v)
    BY <2>1, SignalKeeps
  <2>2. CASE thread_search(v)
    BY <2>2, SearchKeeps
  <2>3. CASE thread_check(v)
    BY <2>3, CheckKeeps
  <2>4. CASE thread_get(v)
    BY <2>4, GetKeeps
  <2>5. CASE thread_c_get(v)
    BY <2>5, CursorGetKeeps
  <2>6. CASE thread_notify(v)
    BY <2>6, ThreadNotifyKeeps
  <2>7. CASE thread_finish(v)
    BY <2>7, FinishKeeps
  <2>8. CASE thread_complete(v)
    BY <2>8, ThreadCompleteKeeps
  <2> QED BY <1>2, <2>1, <2>2, <2>3, <2>4, <2>5, <2>6, <2>7, <2>8 DEF PopulateStep
<1>3. ASSUME NEW v \in Views,
             \/ start_book_view(v) \/ stop_book_view(v) \/ ControlStep(v)
             \/ listener_died(v) \/ DiedStep(v)
      PROVE  IInv'
  <2>1. CASE start_book_view(v)
    BY <2>1, StartKeeps
  <2>2. CASE \/ start_returns(v) \/ stop_book_view(v) \/ stop_clear(v) \/ stop_returns(v)
             \/ listener_died(v) \/ died_clear(v) \/ died_returns(v)
    BY <2>2, StopsKeep
  <2> QED BY <1>3, <2>1, <2>2 DEF ControlStep, DiedStep
<1>4. CASE UNCHANGED vars
  <2>1. UNCHANGED <<db, summary, views, mode, running, thread, ctl, died, req, used,
                    made, starts, raced, unread, unsynced, contended>>
    BY <1>4 DEF vars
  <2>2. BackInv'
    BY <2>1 DEF IInv, BackInv, BackType, RequestsFit, OverlapIsKnown, UnusedIsAbsent,
                WrittenIsThere, SummaryInv
  <2>3. ViewType'
    BY <2>1 DEF IInv, FrontInv, ViewType
  <2>4. ASSUME NEW v \in Views PROVE ViewOK(v)'
    <3>1. ViewOK(v) /\ \A i \in ContactIds : Settled(v, i)' => Settled(v, i) /\ db'[i] = db[i]
      BY <2>1 DEF IInv, FrontInv, Settled
    <3> QED BY <2>1, <3>1, SameView
  <2> QED BY <2>2, <2>3, <2>4 DEF IInv, FrontInv
<1> QED BY <1>1, <1>2, <1>3, <1>4 DEF Next

(* The inductive invariant of the file backend holds in every state it     *)
(* can reach: what each request has written and still owes to the summary  *)
(* and to each view (e_book_backend_file_create_contact, _modify_contact,  *)
(* _remove_contacts and the respond functions of e-book-backend-sync.c),   *)
(* what each view was told, and how book_view_thread, start_book_view and  *)
(* stop_book_view fit together.                                            *)
THEOREM FileInvariant == Spec => []IInv
BY InitHolds, StepKeeps, PTL DEF Spec

(* Type correctness of the file backend. *)
THEOREM FileTypeOK == Spec => []TypeOK
<1>1. IInv => TypeOK
  BY Types DEF IInv, BackInv, FrontInv
<1> QED BY <1>1, FileInvariant, PTL

(* The summary has exactly the contacts of the database: what a create, a  *)
(* modify or a remove does to it, with any other requests served between   *)
(* their calls, leaves one item for each contact and none for others; a    *)
(* contact is excepted while a request on it is served, after an error of  *)
(* db->sync, and after two requests on it overlapped.                      *)
THEOREM FileSummaryFollowsDb == Spec => []SummaryFollowsDb
<1>1. IInv => SummaryFollowsDb
  <2> SUFFICES ASSUME IInv, NEW i \in ContactIds, Quiet(i) PROVE summary[i] = Item(db[i])
    BY DEF SummaryFollowsDb
  <2>1. \A r \in Requests : i \notin Unsummed(req[r])
    <3> SUFFICES ASSUME NEW r \in Requests PROVE i \notin Unsummed(req[r])
      OBVIOUS
    <3>1. req[r] \in Serving /\ RequestFits(req[r], used)
      BY DEF IInv, BackInv, BackType, RequestsFit
    <3>2. i \notin Touch(req[r])
      BY DEF Quiet, InFlight, Touches, Touch, Busy, Elements
    <3> QED BY <3>1, <3>2, ClaimsAreTouched
  <2> QED BY <2>1 DEF IInv, BackInv, SummaryInv, Quiet
<1> QED BY <1>1, FileInvariant, PTL

(* A view whose thread has run to its end was told what the database       *)
(* holds, in any interleaving of book_view_thread with the requests that   *)
(* notify the view and with any errors of db->get, db->cursor and c_get: a *)
(* contact the thread could not read may be missing, none is out of date.  *)
(* Excepted are contacts that a request notified between the thread's      *)
(* finding them and notifying them.                                        *)
THEOREM FilePopulatedInSync == Spec => []PopulatedInSync
<1>1. IInv => PopulatedInSync
  <2> SUFFICES ASSUME IInv, NEW v \in Views, NEW i \in ContactIds,
                      thread[v].pc = "done", running[v], Quiet(i), i \notin raced[v]
               PROVE  \/ CaughtUp(views[v])[i] = Shown(i)
                      \/ i \in unread[v] /\ CaughtUp(views[v])[i] = NoCard
    BY DEF PopulatedInSync
  <2>1. \A r \in Requests : i \notin Owed(req[r], v)
    <3> SUFFICES ASSUME NEW r \in Requests PROVE i \notin Owed(req[r], v)
      OBVIOUS
    <3>1. req[r] \in Serving /\ RequestFits(req[r], used)
      BY DEF IInv, BackInv, BackType, RequestsFit
    <3>2. i \notin Touch(req[r])
      BY DEF Quiet, InFlight, Touches, Touch, Busy, Elements
    <3> QED BY <3>1, <3>2, ClaimsAreTouched
  <2>2. Settled(v, i)
    BY <2>1 DEF Settled, Quiet
  <2>3. InSync(v, i) /\ ThreadFits(v)
    BY <2>2, ThreadFacts
  <2>4. NotYet(v, i) => i \in unread[v]
    BY <2>3 DEF ThreadFits, NotYet, Got
  <2> QED BY <2>3, <2>4 DEF InSync, Told
<1> QED BY <1>1, FileInvariant, PTL

(* When no request is served, nothing waits in the buffers of a view whose *)
(* thread is not at work: e_book_backend_notify_complete follows every     *)
(* notification of a request.                                              *)
THEOREM FileNothingHeldBack == Spec => []NothingHeldBack
<1>1. IInv => NothingHeldBack
  <2> SUFFICES ASSUME IInv, \A r \in Requests : ~Busy(r), NEW v \in Views,
                      thread[v].pc \in {"none", "done"}, died[v] = "alive",
                      thread[v].pc = "done" => running[v]
               PROVE  Flushed(v)
    BY DEF NothingHeldBack, Flushed
  <2>1. PendingIsFlushed(v)
    BY ThreadFacts DEF ViewOK
  <2>2. \A r \in Requests : ~WillFlush(req[r], v)
    BY DEF Busy, WillFlush
  <2> QED BY <2>1, <2>2 DEF PendingIsFlushed
<1> QED BY <1>1, FileInvariant, PTL

(* stop_book_view returns to a client whose connection is up only when the *)
(* thread of the view has ended, for need_join was read before the flag    *)
(* was cleared.                                                            *)
THEOREM FileStopIsFinal == Spec => []StopIsFinal
<1>1. IInv => StopIsFinal
  <2> SUFFICES ASSUME IInv, NEW v \in Views, ctl[v] = "down", died[v] = "alive"
               PROVE  thread[v].pc = "done"
    BY DEF StopIsFinal
  <2> QED BY ThreadFacts DEF ViewOK, ControlFits
<1> QED BY <1>1, FileInvariant, PTL
=============================================================================
