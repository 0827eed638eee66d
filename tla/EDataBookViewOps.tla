-------------------------- MODULE EDataBookViewOps --------------------------
(***************************************************************************)
(* The state of one EDataBookView and the functions of e-data-book-view.c  *)
(* that change it, as operators on a record.  Every public notify_*        *)
(* function runs with pending_mutex held from its first to its last access *)
(* of that state, so each is one operator.                                 *)
(*                                                                         *)
(* A card is a record [id, vcard]: its UID and its contents.  The query of *)
(* the view (card_sexp) is the set Matching of the contents it accepts.    *)
(***************************************************************************)
EXTENDS Integers, Sequences

CONSTANTS
  ContactIds,        \* the UIDs of contacts
  VCards,            \* the contents a contact can have
  Matching,          \* the contents the view's query accepts
  NoCard,            \* "no contact": not one of VCards
  InitialThreshold,  \* DEFAULT_INITIAL_THRESHOLD
  ThresholdMax       \* DEFAULT_THRESHOLD_MAX

ASSUME ViewAssumption ==
  /\ Matching \subseteq VCards
  /\ NoCard \notin VCards
  /\ InitialThreshold \in Nat \ {0}
  /\ ThresholdMax \in Nat \ {0}

Card == [id : ContactIds, vcard : VCards]

(* What a listener believes: the contents of each contact it was told of.  *)
Belief == [ContactIds -> VCards \cup {NoCard}]

NothingHeld == [i \in ContactIds |-> NoCard]

(***************************************************************************)
(* How a listener handles a batch: the cards of an "added" or a "changed"  *)
(* batch in their order, so that the last card of an id is the one kept,   *)
(* and the ids of a "removed" batch.                                       *)
(***************************************************************************)
Mentions(cards, i) == {k \in DOMAIN cards : cards[k].id = i}

Latest(cards, i) ==
  cards[CHOOSE k \in Mentions(cards, i) : \A m \in Mentions(cards, i) : m <= k].vcard

Upsert(belief, cards) ==
  [i \in ContactIds |->
     IF Mentions(cards, i) = {} THEN belief[i] ELSE Latest(cards, i)]

Drop(belief, removed) ==
  [i \in ContactIds |->
     IF \E k \in DOMAIN removed : removed[k] = i THEN NoCard ELSE belief[i]]

(***************************************************************************)
(* EDataBookViewPrivate.  adds, changes and removes are the buffers of     *)
(* notifications not yet sent, addsMax is adds._maximum; ids is the hash   *)
(* table of the contacts in the view.  held is not a field of the program: *)
(* it is what the listener believes once it has handled every batch sent   *)
(* (the connection keeps them in order).                                   *)
(***************************************************************************)
View ==
  [adds : Seq(Card), addsMax : Nat, changes : Seq(Card), removes : Seq(ContactIds),
   nextThreshold : Nat, thresholdMin : Nat, thresholdMax : Nat,
   ids : SUBSET ContactIds, held : Belief]

e_data_book_view_init ==
  [adds |-> <<>>, addsMax |-> 0, changes |-> <<>>, removes |-> <<>>,
   nextThreshold |-> InitialThreshold,
   thresholdMin |-> InitialThreshold, thresholdMax |-> ThresholdMax,
   ids |-> {}, held |-> NothingHeld]

----------------------------------------------------------------------------
(* Sending a buffer empties it; an empty buffer is not sent, and then the  *)
(* threshold is not reset either.                                          *)

send_pending_adds(v, reset) ==
  IF v.adds = <<>> THEN v
  ELSE [v EXCEPT !.held = Upsert(v.held, v.adds),
                 !.adds = <<>>,
                 !.addsMax = 0,
                 !.nextThreshold = IF reset THEN v.thresholdMin ELSE @]

send_pending_changes(v) ==
  IF v.changes = <<>> THEN v
  ELSE [v EXCEPT !.held = Upsert(v.held, v.changes), !.changes = <<>>]

send_pending_removes(v) ==
  IF v.removes = <<>> THEN v
  ELSE [v EXCEPT !.held = Drop(v.held, v.removes), !.removes = <<>>]

----------------------------------------------------------------------------
(* Queueing a notification first sends the buffers of the other kinds.     *)

\* mutants: the id is queued for the vCard; pending removals are not sent first
ChangeQueuesId(v, card) ==
  LET w == send_pending_removes(send_pending_adds(v, TRUE))
  IN  [w EXCEPT !.changes = Append(w.changes, card.id)]

ChangeKeepsRemoves(v, card) ==
  LET w == send_pending_adds(v, TRUE)
  IN  [w EXCEPT !.changes = Append(w.changes, card)]

notify_change(v, card) ==
  LET w == send_pending_removes(send_pending_adds(v, TRUE))
  IN  [w EXCEPT !.changes = Append(w.changes, card)]

\* mutant: the id stays in the table
RemoveKeepsId(v, id) ==
  LET w == send_pending_changes(send_pending_adds(v, TRUE))
  IN  [w EXCEPT !.removes = Append(w.removes, id)]

notify_remove(v, id) ==
  LET w == send_pending_changes(send_pending_adds(v, TRUE))
  IN  [w EXCEPT !.removes = Append(w.removes, id), !.ids = w.ids \ {id}]

(* A full buffer of adds is sent and replaced by one of next_threshold     *)
(* entries, and next_threshold is doubled up to threshold_max.             *)
Doubled(v) ==
  IF v.nextThreshold >= v.thresholdMax THEN v.nextThreshold
  ELSE IF 2 * v.nextThreshold < v.thresholdMax THEN 2 * v.nextThreshold
  ELSE v.thresholdMax

\* mutant: the comparison is off by one
RoomBeyondEnd(v) ==
  IF Len(v.adds) <= v.addsMax THEN v
  ELSE [send_pending_adds(v, FALSE) EXCEPT !.addsMax = v.nextThreshold,
                                           !.nextThreshold = Doubled(v)]

MakeRoom(v) ==
  IF Len(v.adds) # v.addsMax THEN v
  ELSE [send_pending_adds(v, FALSE) EXCEPT !.addsMax = v.nextThreshold,
                                           !.nextThreshold = Doubled(v)]

\* mutant: the id is not put into the table
AddForgetsId(v, card) ==
  LET w == MakeRoom(send_pending_removes(send_pending_changes(v)))
  IN  [w EXCEPT !.adds = Append(w.adds, card)]

notify_add(v, card) ==
  LET w == MakeRoom(send_pending_removes(send_pending_changes(v)))
  IN  [w EXCEPT !.adds = Append(w.adds, card), !.ids = w.ids \cup {card.id}]

----------------------------------------------------------------------------
(* The public functions. *)

\* e_data_book_view_notify_update_prefiltered_vcard, and what
\* e_data_book_view_notify_update does with a card that matches
view_notify_update_prefiltered_vcard(v, card) ==
  IF card.id \in v.ids THEN notify_change(v, card) ELSE notify_add(v, card)

view_notify_remove(v, id) ==
  IF id \in v.ids THEN notify_remove(v, id) ELSE v

\* mutant: a contact that no longer matches is ignored
IgnoresNonMatching(v, card) ==
  IF card.vcard \in Matching THEN view_notify_update_prefiltered_vcard(v, card) ELSE v

\* e_data_book_view_notify_update and e_data_book_view_notify_update_vcard
view_notify_update(v, card) ==
  IF card.vcard \in Matching
  THEN view_notify_update_prefiltered_vcard(v, card)
  ELSE view_notify_remove(v, card.id)

\* mutant: changes are left pending
FlushForgetsChanges(v) == send_pending_removes(send_pending_adds(v, TRUE))

\* what e_data_book_view_notify_complete does before it unlocks
view_flush(v) ==
  send_pending_removes(send_pending_changes(send_pending_adds(v, TRUE)))

view_set_thresholds(v, min, max) ==
  [v EXCEPT !.thresholdMin = min, !.thresholdMax = max]

----------------------------------------------------------------------------
(* What is true of a view v whose backend last notified the contents n.    *)

OneKind(v) ==
  /\ v.adds # <<>> => v.changes = <<>> /\ v.removes = <<>>
  /\ v.changes # <<>> => v.removes = <<>>

(* The belief of a listener that was also sent all that is pending. *)
CaughtUp(v) == Drop(Upsert(Upsert(v.held, v.adds), v.changes), v.removes)

Present(n) == {i \in ContactIds : n[i] # NoCard}

LegalAdds(v) ==
  \A k \in DOMAIN v.adds :
    /\ v.held[v.adds[k].id] = NoCard
    /\ \A m \in DOMAIN v.adds : v.adds[m].id = v.adds[k].id => m = k

LegalChanges(v) ==
  \A k \in DOMAIN v.changes : v.held[v.changes[k].id] # NoCard

LegalRemoves(v) ==
  \A k \in DOMAIN v.removes :
    /\ v.held[v.removes[k]] # NoCard
    /\ \A m \in DOMAIN v.removes : v.removes[m] = v.removes[k] => m = k

FitsBuffer(v) ==
  /\ Len(v.adds) <= v.addsMax
  /\ v.addsMax = 0 <=> v.adds = <<>>
  /\ v.nextThreshold >= 1 /\ v.thresholdMin >= 1 /\ v.thresholdMax >= 1
=============================================================================
