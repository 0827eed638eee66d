------------------------ MODULE EDataBookView_proofs ------------------------
(***************************************************************************)
(* Proofs about EDataBookView for any sets of contacts, contents and       *)
(* callers and any thresholds.  What a single function does with a view is *)
(* in EDataBookViewOps_proofs.                                             *)
(***************************************************************************)
EXTENDS EDataBookView, EDataBookViewOps_proofs

(* Setting positive thresholds keeps the invariant: the buffer in use is   *)
(* not resized.                                                            *)
LEMMA ThresholdsKeep ==
  ASSUME NEW v, NEW n, ViewInv(v, n), NEW p \in Thresholds
  PROVE  LET w == view_set_thresholds(v, p[1], p[2])
         IN  ViewInv(w, n) /\ Sends(v, w.held)
<1> DEFINE x == p[1]
           y == p[2]
           w == [v EXCEPT !.thresholdMin = x, !.thresholdMax = y]
<1>1. x \in Nat /\ y \in Nat /\ x >= 1 /\ y >= 1
  BY CallerAssumption
<1>2. v \in View
  BY DEF ViewInv
<1> HIDE DEF x, y
<1>3. /\ w \in View /\ w.thresholdMin = x /\ w.thresholdMax = y
      /\ w.adds = v.adds /\ w.addsMax = v.addsMax /\ w.changes = v.changes
      /\ w.removes = v.removes /\ w.nextThreshold = v.nextThreshold
      /\ w.ids = v.ids /\ w.held = v.held
  BY <1>1, <1>2 DEF View
<1> HIDE DEF w
<1>4. OneKind(w) /\ CaughtUp(w) = CaughtUp(v) /\ FitsBuffer(w)
      /\ LegalAdds(w) /\ LegalChanges(w) /\ LegalRemoves(w)
  BY <1>1, <1>3 DEF ViewInv, OneKind, CaughtUp, FitsBuffer, LegalAdds, LegalChanges, LegalRemoves
<1>5. ViewInv(w, n) /\ Sends(v, w.held)
  BY <1>3, <1>4 DEF ViewInv, Sends
<1> QED BY <1>5 DEF view_set_thresholds, w, x, y

----------------------------------------------------------------------------
(* The specification *)

IInv == ViewInv(view, notified) /\ completing \in SUBSET Callers

(* A new view satisfies the invariant. *)
LEMMA InitHolds == Init => IInv
BY NewView DEF Init, IInv

(* Every step keeps the invariant and sends at most the pending batch. *)
LEMMA StepKeeps ==
  ASSUME IInv, [Next]_vars
  PROVE  IInv' /\ Sends(view, view'.held)
<1>0. ViewInv(view, notified)
  BY DEF IInv
<1>1. ASSUME NEW t \in Callers, NEW c \in Card, NotifyUpdate(t, c)
      PROVE  IInv' /\ Sends(view, view'.held)
  <2>0. c.id \in ContactIds /\ completing' = completing
    BY <1>1 DEF Card, NotifyUpdate
  <2>1. CASE c.vcard \in Matching
    <3>1. view' = view_notify_update_prefiltered_vcard(view, c)
          /\ notified' = [notified EXCEPT ![c.id] = c.vcard]
      BY <1>1, <2>1 DEF NotifyUpdate, view_notify_update
    <3> QED BY <1>0, <2>0, <3>1, PrefilteredKeeps DEF IInv
  <2>2. CASE c.vcard \notin Matching
    <3>1. view' = view_notify_remove(view, c.id)
          /\ notified' = [notified EXCEPT ![c.id] = NoCard]
      BY <1>1, <2>2 DEF NotifyUpdate, view_notify_update
    <3> QED BY <1>0, <2>0, <3>1, RemoveKeeps DEF IInv
  <2> QED BY <2>1, <2>2
<1>2. ASSUME NEW t \in Callers, NEW c \in Card, NotifyPrefiltered(t, c)
      PROVE  IInv' /\ Sends(view, view'.held)
  BY <1>0, <1>2, PrefilteredKeeps DEF NotifyPrefiltered, IInv
<1>3. ASSUME NEW t \in Callers, NEW i \in ContactIds, NotifyRemove(t, i)
      PROVE  IInv' /\ Sends(view, view'.held)
  BY <1>0, <1>3, RemoveKeeps DEF NotifyRemove, IInv
<1>4. ASSUME NEW t \in Callers, NotifyComplete(t)
      PROVE  IInv' /\ Sends(view, view'.held)
  BY <1>0, <1>4, FlushKeeps DEF NotifyComplete, IInv
<1>5. ASSUME NEW t \in Callers, SequenceComplete(t)
      PROVE  IInv' /\ Sends(view, view'.held)
  BY <1>0, <1>5 DEF SequenceComplete, IInv, Sends
<1>6. ASSUME NEW t \in Callers, SetThresholds(t)
      PROVE  IInv' /\ Sends(view, view'.held)
  BY <1>0, <1>6, ThresholdsKeep DEF SetThresholds, IInv
<1>7. ASSUME UNCHANGED vars
      PROVE  IInv' /\ Sends(view, view'.held)
  BY <1>0, <1>7 DEF vars, IInv, Sends
<1> QED BY <1>1, <1>2, <1>3, <1>4, <1>5, <1>6, <1>7 DEF Next

(* The invariant holds in every state: whatever the threads of a backend   *)
(* notify and however the batches are cut.                                 *)
THEOREM Invariance == Spec => []IInv
<1>1. IInv /\ [Next]_vars => IInv'
  BY StepKeeps
<1> QED BY InitHolds, <1>1, PTL DEF Spec

(* Types: the state of the view is always a record of View. *)
THEOREM TypeCorrect == Spec => []TypeOK
<1>1. IInv => TypeOK
  BY DEF IInv, ViewInv, TypeOK
<1> QED BY Invariance, <1>1, PTL

(* Batching in e-data-book-view.c loses, duplicates and reorders nothing:  *)
(* what was sent followed by what is pending is what was notified.         *)
THEOREM BatchingIsFaithful == Spec => []ListenerCatchesUp
<1>1. IInv => ListenerCatchesUp
  BY DEF IInv, ViewInv, ListenerCatchesUp
<1> QED BY Invariance, <1>1, PTL

(* Changes of one kind are pending at a time: a notification of another    *)
(* kind sends what is pending first, so that the order is kept.            *)
THEOREM KindsDoNotMix == Spec => []OneKindPending
<1>1. IInv => OneKindPending
  BY DEF IInv, ViewInv, OneKindPending
<1> QED BY Invariance, <1>1, PTL

(* The table ids of a view is of the contacts its listener was told of,    *)
(* from which the next notification is chosen.                             *)
THEOREM IdsAreOfListener == Spec => []IdsMatchNotified
<1>1. IInv => IdsMatchNotified
  BY DEF IInv, ViewInv, IdsMatchNotified
<1> QED BY Invariance, <1>1, PTL

(* Every batch of e-data-book-view.c is legal for its listener.            *)
THEOREM BatchesAreLegal == Spec => []PendingIsLegal
<1>1. IInv => PendingIsLegal
  BY DEF IInv, ViewInv, PendingIsLegal
<1> QED BY Invariance, <1>1, PTL

(* The adds pending never overrun their buffer, for all positive           *)
(* thresholds and however they are changed.                                *)
THEOREM BufferIsLargeEnough == Spec => []AddsFitBuffer
<1>1. IInv => AddsFitBuffer
  BY DEF IInv, ViewInv, AddsFitBuffer
<1> QED BY Invariance, <1>1, PTL

(* e_data_book_view_notify_complete has sent everything notified when it   *)
(* releases pending_mutex.                                                 *)
THEOREM FlushIsComplete == Spec => FlushSendsAll
<1>1. ASSUME IInv, NEW t \in Callers, NotifyComplete(t)
      PROVE  view'.held = notified'
  BY <1>1, FlushKeeps DEF NotifyComplete, IInv
<1>2. IInv => [\A t \in Callers : NotifyComplete(t) => view'.held = notified']_vars
  BY <1>1
<1> QED BY Invariance, <1>2, PTL DEF FlushSendsAll

----------------------------------------------------------------------------
(* Refinement *)

(* Sending the pending batch of a view is one message of BookView. *)
LEMMA BatchIsMessage ==
  ASSUME IInv, IInv', Sends(view, view'.held)
  PROVE  [Listener!Next]_(view.held)
<1> DEFINE v == view
<1>0. /\ v \in View /\ v.held \in Belief /\ view'.held \in Belief /\ NoCard \notin VCards
      /\ v.adds \in Seq(Card) /\ v.changes \in Seq(Card) /\ v.removes \in Seq(ContactIds)
      /\ LegalAdds(v) /\ LegalChanges(v) /\ LegalRemoves(v)
  BY ViewAssumption DEF IInv, ViewInv, View
<1>t. Listener!IsBelief(view'.held)
  BY <1>0 DEF Listener!IsBelief, Belief
<1>1. CASE view'.held = v.held
  BY <1>1
<1>2. CASE view'.held = Upsert(v.held, v.adds)
  <2> DEFINE S == {i \in ContactIds : Mentions(v.adds, i) # {}}
  <2>1. \A i \in S : v.held[i] = NoCard
    BY <1>0 DEF LegalAdds, Mentions
  <2>2. /\ \A i \in S : view'.held[i] \in VCards
        /\ \A i \in ContactIds \ S : view'.held[i] = v.held[i]
    BY <1>0, <1>2, UpsertHolds
  <2>3. Listener!ContactsAdded(S)
    BY <2>1, <2>2 DEF Listener!ContactsAdded, Listener!Has, Listener!Untouched
  <2>4. S \in SUBSET ContactIds
    OBVIOUS
  <2> QED BY <1>t, <2>3, <2>4 DEF Listener!Next
<1>3. CASE view'.held = Upsert(v.held, v.changes)
  <2> DEFINE S == {i \in ContactIds : Mentions(v.changes, i) # {}}
  <2>1. \A i \in S : v.held[i] # NoCard
    BY <1>0 DEF LegalChanges, Mentions
  <2>2. /\ \A i \in S : view'.held[i] \in VCards
        /\ \A i \in ContactIds \ S : view'.held[i] = v.held[i]
    BY <1>0, <1>3, UpsertHolds
  <2>3. Listener!ContactsChanged(S)
    BY <2>1, <2>2 DEF Listener!ContactsChanged, Listener!Has, Listener!Untouched
  <2>4. S \in SUBSET ContactIds
    OBVIOUS
  <2> QED BY <1>t, <2>3, <2>4 DEF Listener!Next
<1>4. CASE view'.held = Drop(v.held, v.removes)
  <2> DEFINE S == {i \in ContactIds : \E k \in DOMAIN v.removes : v.removes[k] = i}
  <2>1. \A i \in S : v.held[i] # NoCard
    BY <1>0 DEF LegalRemoves
  <2>2. /\ \A i \in S : view'.held[i] = NoCard
        /\ \A i \in ContactIds \ S : view'.held[i] = v.held[i]
    BY <1>0, <1>4, DropHolds
  <2>3. Listener!ContactsRemoved(S)
    BY <2>1, <2>2 DEF Listener!ContactsRemoved, Listener!Has, Listener!Untouched
  <2>4. S \in SUBSET ContactIds
    OBVIOUS
  <2> QED BY <1>t, <2>3, <2>4 DEF Listener!Next
<1> QED BY <1>1, <1>2, <1>3, <1>4 DEF Sends

(* EDataBookView implements BookView: each step sends at most one message, *)
(* and the message is legal for what the listener holds.                   *)
THEOREM ImplementsBookView == Spec => ListenerProtocol
<1>1. Init => Listener!Init
  BY DEF Init, Listener!Init, e_data_book_view_init, NothingHeld
<1>2. IInv /\ [Next]_vars => IInv' /\ [Listener!Next]_(view.held)
  BY StepKeeps, BatchIsMessage
<1> QED BY Invariance, <1>1, <1>2, PTL DEF Spec, ListenerProtocol, Listener!Spec
=============================================================================
