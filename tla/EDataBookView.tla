--------------------------- MODULE EDataBookView ---------------------------
(***************************************************************************)
(* One EDataBookView driven by the threads of its backend: the thread that *)
(* populates the view, the threads that serve create, modify and remove    *)
(* requests, all calling the notify_* functions in any order.              *)
(***************************************************************************)
EXTENDS EDataBookViewOps

CONSTANTS
  Callers,     \* the backend threads that notify the view
  Thresholds,  \* the pairs <<min, max>> a backend may pass to set_thresholds
  MaxPending   \* bound: notifications of one kind that may be pending

ASSUME CallerAssumption ==
  /\ Thresholds \subseteq (Nat \ {0}) \X (Nat \ {0})
  /\ MaxPending \in Nat

VARIABLES
  view,        \* the view's private state, a record of View
  notified,    \* history: the contents of each contact the backend last gave the view
  completing   \* callers between the unlock of notify_complete and its message

vars == <<view, notified, completing>>

TypeOK ==
  /\ view \in View
  /\ notified \in Belief
  /\ completing \in SUBSET Callers

Init ==
  /\ view = e_data_book_view_init
  /\ notified = NothingHeld
  /\ completing = {}

(* A caller is in one function at a time. *)
Free(t) == t \notin completing

NotifyUpdate(t, card) ==
  /\ Free(t) /\ Len(view.changes) < MaxPending
  /\ view' = view_notify_update(view, card)
  /\ notified' = [notified EXCEPT ![card.id] =
                    IF card.vcard \in Matching THEN card.vcard ELSE NoCard]
  /\ UNCHANGED completing

NotifyPrefiltered(t, card) ==
  /\ Free(t) /\ Len(view.changes) < MaxPending
  /\ view' = view_notify_update_prefiltered_vcard(view, card)
  /\ notified' = [notified EXCEPT ![card.id] = card.vcard]
  /\ UNCHANGED completing

NotifyRemove(t, id) ==
  /\ Free(t)
  /\ view' = view_notify_remove(view, id)
  /\ notified' = [notified EXCEPT ![id] = NoCard]
  /\ UNCHANGED completing

(* notify_complete sends what is pending, unlocks pending_mutex, and then  *)
(* sends notifySequenceComplete.                                           *)
NotifyComplete(t) ==
  /\ Free(t)
  /\ view' = view_flush(view)
  /\ completing' = completing \cup {t}
  /\ UNCHANGED notified

SequenceComplete(t) ==
  /\ t \in completing
  /\ completing' = completing \ {t}
  /\ UNCHANGED <<view, notified>>

SetThresholds(t) ==
  /\ Free(t)
  /\ \E p \in Thresholds : view' = view_set_thresholds(view, p[1], p[2])
  /\ UNCHANGED <<notified, completing>>

Next ==
  \E t \in Callers :
    \/ \E card \in Card : NotifyUpdate(t, card)
    \/ \E card \in Card : NotifyPrefiltered(t, card)
    \/ \E id \in ContactIds : NotifyRemove(t, id)
    \/ NotifyComplete(t)
    \/ SequenceComplete(t)
    \/ SetThresholds(t)

Spec == Init /\ [][Next]_vars

----------------------------------------------------------------------------
(* Properties *)

(* The three pending buffers are never mixed: queueing a notification of   *)
(* one kind sends the buffers of the others first (notify_add,             *)
(* notify_change, notify_remove).  Two kinds pending at once could only be *)
(* sent in an order that is not the order of the calls.                    *)
OneKindPending == OneKind(view)

(* What the listener was sent, followed by what is still pending, is what  *)
(* the backend notified: batching loses, duplicates and reorders nothing.  *)
ListenerCatchesUp == CaughtUp(view) = notified

(* The table ids, from which notify_update decides between an add, a       *)
(* change and a removal, is the set of contacts last notified as present.  *)
IdsMatchNotified == view.ids = Present(notified)

(* A pending add is of a contact the listener does not hold, and of each   *)
(* contact at most one; a pending change or removal is of a contact it     *)
(* holds, and of each contact at most one removal.                         *)
PendingIsLegal == LegalAdds(view) /\ LegalChanges(view) /\ LegalRemoves(view)

(* adds._buffer is allocated for adds._maximum entries: an append never    *)
(* writes past it, whatever thresholds are set between two adds.           *)
AddsFitBuffer == FitsBuffer(view)

(* When notify_complete unlocks, the listener has been sent all that was   *)
(* notified to the view.                                                   *)
FlushSendsAll ==
  [][\A t \in Callers : NotifyComplete(t) => view'.held = notified']_vars

(* The view implements the protocol its listener relies on. *)
Listener == INSTANCE BookView WITH held <- view.held

ListenerProtocol == Listener!Spec

(* The LDAP backend sets a minimum of 1 in start_book_view "so the user    *)
(* sees stuff as it appears and we aren't left waiting for more cards to   *)
(* show up": until the listener has been sent something, no more than the  *)
(* minimum waits.                                                          *)
FirstCardsNotHeldBack ==
  view.held = NothingHeld => Len(view.adds) <= view.thresholdMin
=============================================================================
