---------------------- MODULE EDataBookViewOps_proofs ----------------------
(***************************************************************************)
(* What the functions of e-data-book-view.c do with the state of a view,   *)
(* for any sets of contacts and contents and any thresholds: the lemmas    *)
(* that the proofs about EDataBookView and about EBookBackendFile share.   *)
(* They follow the layers of the code: what a listener does with a batch,  *)
(* sending a buffer, queueing one notification, the public functions.      *)
(***************************************************************************)
EXTENDS EDataBookViewOps, TLAPS, WellFoundedInduction

(* The inductive invariant of a view v whose backend last notified n. *)
ViewInv(v, n) ==
  /\ v \in View
  /\ n \in Belief
  /\ OneKind(v)
  /\ CaughtUp(v) = n
  /\ v.ids = Present(n)
  /\ LegalAdds(v) /\ LegalChanges(v) /\ LegalRemoves(v)
  /\ FitsBuffer(v)

----------------------------------------------------------------------------
(* Batches *)

(* Handling an empty batch changes nothing. *)
LEMMA EmptyBatch ==
  ASSUME NEW h \in Belief
  PROVE  Upsert(h, <<>>) = h /\ Drop(h, <<>>) = h
BY DEF Upsert, Drop, Mentions, Belief

(* A non-empty set of positions of a sequence has a last one. *)
LEMMA LargestIndex ==
  ASSUME NEW n \in Nat, NEW S \in SUBSET (1..n), S # {}
  PROVE  \E k \in S : \A m \in S : m <= k
<1> DEFINE T == {j \in Nat : (n - j) \in S}
<1>1. T \subseteq Nat /\ T # {}
  <2>1. PICK s \in S : TRUE
    OBVIOUS
  <2>2. (n - s) \in T
    BY n - (n - s) = s
  <2> QED BY <2>2
<1> DEFINE R == OpToRel(<, Nat)
<1>2. IsWellFoundedOn(R, Nat)
  BY NatLessThanWellFounded
<1> HIDE DEF T, R
<1>3. PICK x \in T : \A y \in T : ~ (<<y, x>> \in R)
  BY <1>1, <1>2, WFMin
<1>4. \A y \in T : ~ (y < x)
  BY <1>1, <1>3 DEF R, OpToRel
<1>5. ASSUME NEW m \in S PROVE m <= n - x
  <2>1. (n - m) \in T
    BY n - (n - m) = m DEF T
  <2> QED BY <2>1, <1>4 DEF T
<1> QED
  BY <1>5 DEF T

(* The last card of a contact in a batch is one of the batch's cards, and  *)
(* is the one at the last position that mentions the contact.              *)
LEMMA LatestIsLast ==
  ASSUME NEW s \in Seq(Card), NEW i \in ContactIds,
         NEW k \in Mentions(s, i), \A m \in Mentions(s, i) : m <= k
  PROVE  Latest(s, i) = s[k].vcard
<1>1. \A x, y \in Mentions(s, i) : x \in Int /\ y \in Int
  BY DEF Mentions
<1>2. \A x \in Mentions(s, i) :
        (\A m \in Mentions(s, i) : m <= x) => x = k
  BY <1>1
<1>3. (CHOOSE x \in Mentions(s, i) : \A m \in Mentions(s, i) : m <= x) = k
  BY <1>2
<1> QED BY <1>3 DEF Latest

(* A batch with one more card leaves the listener with that card. *)
LEMMA UpsertAppend ==
  ASSUME NEW h \in Belief, NEW s \in Seq(Card), NEW c \in Card
  PROVE  Upsert(h, Append(s, c)) = [Upsert(h, s) EXCEPT ![c.id] = c.vcard]
<1> DEFINE t == Append(s, c)
           n == Len(s) + 1
<1>1. /\ Len(s) \in Nat /\ DOMAIN s = 1..Len(s) /\ DOMAIN t = 1..n /\ t[n] = c
      /\ t \in Seq(Card)
      /\ \A k \in DOMAIN s : t[k] = s[k]
  OBVIOUS
<1>2. c.id \in ContactIds
  BY DEF Card
<1> HIDE DEF t, n
<1>3. ASSUME NEW i \in ContactIds, i # c.id
      PROVE  Upsert(h, t)[i] = Upsert(h, s)[i]
  <2>1. Mentions(t, i) = Mentions(s, i)
    BY <1>1, <1>3 DEF Mentions, n
  <2>2. CASE Mentions(s, i) = {}
    BY <2>1, <2>2 DEF Upsert
  <2>3. CASE Mentions(s, i) # {}
    <3>1. Mentions(s, i) \in SUBSET (1..Len(s))
      BY <1>1 DEF Mentions
    <3>2. PICK k \in Mentions(s, i) : \A m \in Mentions(s, i) : m <= k
      BY <3>1, <2>3, <1>1, LargestIndex
    <3>3. Latest(s, i) = s[k].vcard
      BY <3>2, LatestIsLast
    <3>4. Latest(t, i) = t[k].vcard
      BY <3>2, <2>1, <1>1, LatestIsLast
    <3>5. t[k] = s[k]
      BY <1>1 DEF Mentions
    <3> QED BY <2>1, <2>3, <3>3, <3>4, <3>5 DEF Upsert
  <2> QED BY <2>2, <2>3
<1>4. Upsert(h, t)[c.id] = c.vcard
  <2>1. n \in Mentions(t, c.id) /\ \A m \in Mentions(t, c.id) : m <= n
    BY <1>1 DEF Mentions, n
  <2>2. Latest(t, c.id) = t[n].vcard
    BY <2>1, <1>1, <1>2, LatestIsLast
  <2> QED BY <2>1, <2>2, <1>1, <1>2 DEF Upsert
<1> QED BY <1>2, <1>3, <1>4 DEF Upsert, t

(* A batch with one more removal leaves the listener without the contact. *)
LEMMA DropAppend ==
  ASSUME NEW h \in Belief, NEW s \in Seq(ContactIds), NEW i \in ContactIds
  PROVE  Drop(h, Append(s, i)) = [Drop(h, s) EXCEPT ![i] = NoCard]
<1> DEFINE t == Append(s, i)
<1>1. /\ Len(s) \in Nat /\ DOMAIN s = 1..Len(s) /\ DOMAIN t = 1..(Len(s) + 1)
      /\ t[Len(s) + 1] = i
      /\ \A k \in DOMAIN s : t[k] = s[k]
  OBVIOUS
<1> HIDE DEF t
<1>2. ASSUME NEW j \in ContactIds, j # i
      PROVE  (\E k \in DOMAIN t : t[k] = j) <=> (\E k \in DOMAIN s : s[k] = j)
  BY <1>1, <1>2
<1>3. \E k \in DOMAIN t : t[k] = i
  BY <1>1
<1> QED BY <1>2, <1>3 DEF Drop, t

(* The listener holds contents of VCards for what a batch mentions, and    *)
(* what it held for the rest.                                              *)
LEMMA UpsertHolds ==
  ASSUME NEW h \in Belief, NEW s \in Seq(Card)
  PROVE  /\ Upsert(h, s) \in Belief
         /\ \A i \in ContactIds :
              /\ Mentions(s, i) # {} => Upsert(h, s)[i] \in VCards
              /\ Mentions(s, i) = {} => Upsert(h, s)[i] = h[i]
<1>1. ASSUME NEW j \in ContactIds, Mentions(s, j) # {}
      PROVE  Upsert(h, s)[j] \in VCards
  <2>1. Mentions(s, j) \in SUBSET (1..Len(s)) /\ Len(s) \in Nat
    BY DEF Mentions
  <2>2. PICK k \in Mentions(s, j) : \A m \in Mentions(s, j) : m <= k
    BY <1>1, <2>1, LargestIndex
  <2>3. Latest(s, j) = s[k].vcard
    BY <2>2, LatestIsLast
  <2>4. s[k] \in Card
    BY DEF Mentions
  <2> QED BY <1>1, <2>3, <2>4 DEF Upsert, Card
<1>2. ASSUME NEW j \in ContactIds, Mentions(s, j) = {}
      PROVE  Upsert(h, s)[j] = h[j]
  BY <1>2 DEF Upsert
<1>3. Upsert(h, s) \in Belief
  BY <1>1, <1>2 DEF Upsert, Belief
<1> QED BY <1>1, <1>2, <1>3

(* A removed contact is gone, another is untouched. *)
LEMMA DropHolds ==
  ASSUME NEW h \in Belief, NEW s \in Seq(ContactIds), NEW i \in ContactIds
  PROVE  /\ Drop(h, s) \in Belief
         /\ (\E k \in DOMAIN s : s[k] = i) => Drop(h, s)[i] = NoCard
         /\ (\A k \in DOMAIN s : s[k] # i) => Drop(h, s)[i] = h[i]
BY DEF Drop, Belief

----------------------------------------------------------------------------
(* Sending a buffer keeps the invariant, empties the buffer and leaves the *)
(* other buffers and the table of ids alone.                               *)

(* send_pending_adds: what the buffer of adds held is now held. *)
LEMMA SendAdds ==
  ASSUME NEW v, NEW n, ViewInv(v, n), NEW reset \in BOOLEAN
  PROVE  LET w == send_pending_adds(v, reset)
         IN  /\ ViewInv(w, n)
             /\ w.adds = <<>> /\ w.addsMax = 0
             /\ w.changes = v.changes /\ w.removes = v.removes
             /\ w.held = Upsert(v.held, v.adds)
<1> DEFINE w == send_pending_adds(v, reset)
<1>0. v \in View /\ n \in Belief /\ v.held \in Belief /\ v.adds \in Seq(Card)
  BY DEF ViewInv, View
<1>1. CASE v.adds = <<>>
  <2>1. w = v
    BY <1>1 DEF send_pending_adds
  <2>2. v.addsMax = 0
    BY <1>1 DEF ViewInv, FitsBuffer
  <2>3. Upsert(v.held, v.adds) = v.held
    BY <1>0, <1>1, EmptyBatch
  <2> QED BY <1>1, <2>1, <2>2, <2>3
<1>2. CASE v.adds # <<>>
  <2>1. w = [v EXCEPT !.held = Upsert(v.held, v.adds), !.adds = <<>>, !.addsMax = 0,
                      !.nextThreshold = IF reset THEN v.thresholdMin ELSE @]
    BY <1>2 DEF send_pending_adds
  <2> DEFINE e == <<>>
             r == IF reset THEN v.thresholdMin ELSE v.nextThreshold
             u == Upsert(v.held, v.adds)
  <2>2. u \in Belief
    BY <1>0, UpsertHolds
  <2>e. e \in Seq(Card) /\ e = <<>>
    OBVIOUS
  <2>r. r \in Nat /\ (r = v.nextThreshold \/ r = v.thresholdMin)
    BY <1>0 DEF View
  <2> HIDE DEF u, e, r
  <2>w. w = [v EXCEPT !.held = u, !.adds = e, !.addsMax = 0, !.nextThreshold = r]
    BY <2>1 DEF u, e, r
  <2>3. /\ w \in View
        /\ w.held = u /\ w.adds = <<>> /\ w.addsMax = 0
        /\ w.changes = v.changes /\ w.removes = v.removes /\ w.ids = v.ids
        /\ w.thresholdMin = v.thresholdMin /\ w.thresholdMax = v.thresholdMax
        /\ w.nextThreshold = v.nextThreshold \/ w.nextThreshold = v.thresholdMin
    <3> HIDE DEF w
    <3>1. w \in View
      BY <1>0, <2>w, <2>e, <2>r, <2>2 DEF View
    <3>2. /\ w.held = u /\ w.adds = e /\ w.addsMax = 0 /\ w.nextThreshold = r
          /\ w.changes = v.changes /\ w.removes = v.removes /\ w.ids = v.ids
          /\ w.thresholdMin = v.thresholdMin /\ w.thresholdMax = v.thresholdMax
      BY <1>0, <2>w DEF View
    <3> QED BY <3>1, <3>2, <2>e, <2>r
  <2>4. v.changes = <<>> /\ v.removes = <<>>
    BY <1>2 DEF ViewInv, OneKind
  <2>5. CaughtUp(w) = u /\ CaughtUp(v) = u
    BY <2>2, <2>3, <2>4, EmptyBatch DEF CaughtUp, u
  <2>6. LegalAdds(w) /\ LegalChanges(w) /\ LegalRemoves(w) /\ OneKind(w)
    BY <2>3, <2>4 DEF LegalAdds, LegalChanges, LegalRemoves, OneKind
  <2>7. FitsBuffer(w)
    BY <1>0, <2>3 DEF ViewInv, FitsBuffer, View
  <2> QED BY <1>0, <2>3, <2>5, <2>6, <2>7 DEF ViewInv, u
<1> QED BY <1>1, <1>2

(* send_pending_changes: what the buffer of changes held is now held. *)
LEMMA SendChanges ==
  ASSUME NEW v, NEW n, ViewInv(v, n)
  PROVE  LET w == send_pending_changes(v)
         IN  /\ ViewInv(w, n)
             /\ w.changes = <<>>
             /\ w.adds = v.adds /\ w.addsMax = v.addsMax /\ w.removes = v.removes
             /\ w.held = Upsert(v.held, v.changes)
<1> DEFINE w == send_pending_changes(v)
<1>0. v \in View /\ n \in Belief /\ v.held \in Belief /\ v.changes \in Seq(Card)
  BY DEF ViewInv, View
<1>1. CASE v.changes = <<>>
  <2>1. w = v
    BY <1>1 DEF send_pending_changes
  <2>2. Upsert(v.held, v.changes) = v.held
    BY <1>0, <1>1, EmptyBatch
  <2> QED BY <1>1, <2>1, <2>2
<1>2. CASE v.changes # <<>>
  <2>1. w = [v EXCEPT !.held = Upsert(v.held, v.changes), !.changes = <<>>]
    BY <1>2 DEF send_pending_changes
  <2> DEFINE e == <<>>
             u == Upsert(v.held, v.changes)
  <2>2. u \in Belief
    BY <1>0, UpsertHolds
  <2>e. e \in Seq(Card) /\ e = <<>>
    OBVIOUS
  <2> HIDE DEF u, e
  <2>w. w = [v EXCEPT !.held = u, !.changes = e]
    BY <2>1 DEF u, e
  <2>3. /\ w \in View
        /\ w.held = u /\ w.changes = <<>>
        /\ w.adds = v.adds /\ w.addsMax = v.addsMax /\ w.removes = v.removes
        /\ w.ids = v.ids /\ w.thresholdMin = v.thresholdMin
        /\ w.thresholdMax = v.thresholdMax /\ w.nextThreshold = v.nextThreshold
    BY <1>0, <2>w, <2>e, <2>2 DEF View
  <2>4. v.adds = <<>> /\ v.removes = <<>>
    BY <1>2 DEF ViewInv, OneKind
  <2>5. CaughtUp(w) = u /\ CaughtUp(v) = u
    BY <1>0, <2>2, <2>3, <2>4, EmptyBatch DEF CaughtUp, u
  <2>6. LegalAdds(w) /\ LegalChanges(w) /\ LegalRemoves(w) /\ OneKind(w)
    BY <2>3, <2>4 DEF LegalAdds, LegalChanges, LegalRemoves, OneKind
  <2>7. FitsBuffer(w)
    BY <1>0, <2>3 DEF ViewInv, FitsBuffer, View
  <2> QED BY <1>0, <2>3, <2>5, <2>6, <2>7 DEF ViewInv, u
<1> QED BY <1>1, <1>2

(* send_pending_removes: what the buffer of removals named is now dropped. *)
LEMMA SendRemoves ==
  ASSUME NEW v, NEW n, ViewInv(v, n)
  PROVE  LET w == send_pending_removes(v)
         IN  /\ ViewInv(w, n)
             /\ w.removes = <<>>
             /\ w.adds = v.adds /\ w.addsMax = v.addsMax /\ w.changes = v.changes
             /\ w.held = Drop(v.held, v.removes)
<1> DEFINE w == send_pending_removes(v)
<1>0. v \in View /\ n \in Belief /\ v.held \in Belief /\ v.removes \in Seq(ContactIds)
  BY DEF ViewInv, View
<1>1. CASE v.removes = <<>>
  <2>1. w = v
    BY <1>1 DEF send_pending_removes
  <2>2. Drop(v.held, v.removes) = v.held
    BY <1>0, <1>1, EmptyBatch
  <2> QED BY <1>1, <2>1, <2>2
<1>2. CASE v.removes # <<>>
  <2>1. w = [v EXCEPT !.held = Drop(v.held, v.removes), !.removes = <<>>]
    BY <1>2 DEF send_pending_removes
  <2> DEFINE e == <<>>
             u == Drop(v.held, v.removes)
  <2>2. u \in Belief
    BY <1>0 DEF Belief, Drop
  <2>e. e \in Seq(ContactIds) /\ e = <<>>
    OBVIOUS
  <2> HIDE DEF u, e
  <2>w. w = [v EXCEPT !.held = u, !.removes = e]
    BY <2>1 DEF u, e
  <2>3. /\ w \in View
        /\ w.held = u /\ w.removes = <<>>
        /\ w.adds = v.adds /\ w.addsMax = v.addsMax /\ w.changes = v.changes
        /\ w.ids = v.ids /\ w.thresholdMin = v.thresholdMin
        /\ w.thresholdMax = v.thresholdMax /\ w.nextThreshold = v.nextThreshold
    BY <1>0, <2>w, <2>e, <2>2 DEF View
  <2>4. v.adds = <<>> /\ v.changes = <<>>
    BY <1>2 DEF ViewInv, OneKind
  <2>5. CaughtUp(w) = u /\ CaughtUp(v) = u
    BY <1>0, <2>2, <2>3, <2>4, EmptyBatch DEF CaughtUp, u
  <2>6. LegalAdds(w) /\ LegalChanges(w) /\ LegalRemoves(w) /\ OneKind(w)
    BY <2>3, <2>4 DEF LegalAdds, LegalChanges, LegalRemoves, OneKind
  <2>7. FitsBuffer(w)
    BY <1>0, <2>3 DEF ViewInv, FitsBuffer, View
  <2> QED BY <1>0, <2>3, <2>5, <2>6, <2>7 DEF ViewInv, u
<1> QED BY <1>1, <1>2

----------------------------------------------------------------------------
(* Queueing one notification in a view whose other buffers are empty. *)

(* The append of notify_change, for a contact in the view. *)
LEMMA QueueChange ==
  ASSUME NEW v, NEW n, ViewInv(v, n), NEW c \in Card,
         v.adds = <<>>, v.removes = <<>>, c.id \in v.ids
  PROVE  ViewInv([v EXCEPT !.changes = Append(v.changes, c)],
                 [n EXCEPT ![c.id] = c.vcard])
<1> DEFINE s == Append(v.changes, c)
           w == [v EXCEPT !.changes = s]
           nn == [n EXCEPT ![c.id] = c.vcard]
<1>0. /\ v \in View /\ n \in Belief /\ v.held \in Belief /\ v.changes \in Seq(Card)
      /\ c.id \in ContactIds /\ c.vcard \in VCards
      /\ NoCard \notin VCards
  BY ViewAssumption DEF ViewInv, View, Card
<1>1. Upsert(v.held, v.changes) = n /\ n[c.id] # NoCard
  <2>1. CaughtUp(v) = Upsert(v.held, v.changes)
    BY <1>0, EmptyBatch, UpsertHolds DEF CaughtUp
  <2> QED BY <2>1 DEF ViewInv, Present
<1>2. nn \in Belief /\ Present(nn) = Present(n)
  BY <1>0, <1>1 DEF Belief, Present
<1>3. s \in Seq(Card) /\ s # <<>> /\ DOMAIN s = 1..(Len(v.changes) + 1)
      /\ s[Len(v.changes) + 1] = c /\ Len(v.changes) \in Nat
      /\ \A k \in 1..Len(v.changes) : k \in DOMAIN v.changes /\ s[k] = v.changes[k]
  BY <1>0
<1>4. Upsert(v.held, s) = nn
  BY <1>0, <1>1, UpsertAppend
<1>5. v.held[c.id] # NoCard
  <2>1. CASE Mentions(v.changes, c.id) = {}
    BY <2>1, <1>0, <1>1, UpsertHolds
  <2>2. CASE Mentions(v.changes, c.id) # {}
    BY <2>2 DEF Mentions, ViewInv, LegalChanges
  <2> QED BY <2>1, <2>2
<1> HIDE DEF s, nn
<1>6. /\ w \in View /\ w.changes = s
      /\ w.adds = <<>> /\ w.removes = <<>> /\ w.held = v.held /\ w.ids = v.ids
      /\ w.addsMax = v.addsMax /\ w.nextThreshold = v.nextThreshold
      /\ w.thresholdMin = v.thresholdMin /\ w.thresholdMax = v.thresholdMax
  BY <1>0, <1>3 DEF View
<1> HIDE DEF w
<1>7. CaughtUp(w) = nn
  BY <1>0, <1>2, <1>4, <1>6, EmptyBatch DEF CaughtUp
<1>8. LegalChanges(w)
  <2> SUFFICES ASSUME NEW k \in DOMAIN s PROVE v.held[s[k].id] # NoCard
    BY <1>6 DEF LegalChanges
  <2>1. CASE k = Len(v.changes) + 1
    BY <2>1, <1>3, <1>5
  <2>2. CASE k \in 1..Len(v.changes)
    BY <2>2, <1>3 DEF ViewInv, LegalChanges
  <2> QED BY <2>1, <2>2, <1>3
<1>9. LegalAdds(w) /\ LegalRemoves(w) /\ OneKind(w) /\ FitsBuffer(w)
  BY <1>6 DEF LegalAdds, LegalRemoves, OneKind, FitsBuffer, ViewInv
<1> QED BY <1>2, <1>6, <1>7, <1>8, <1>9 DEF ViewInv, w, s, nn

(* The append of notify_remove, for a contact in the view. *)
LEMMA QueueRemove ==
  ASSUME NEW v, NEW n, ViewInv(v, n), NEW i \in ContactIds,
         v.adds = <<>>, v.changes = <<>>, i \in v.ids
  PROVE  ViewInv([v EXCEPT !.removes = Append(v.removes, i), !.ids = v.ids \ {i}],
                 [n EXCEPT ![i] = NoCard])
<1> DEFINE s == Append(v.removes, i)
           d == v.ids \ {i}
           w == [v EXCEPT !.removes = s, !.ids = d]
           nn == [n EXCEPT ![i] = NoCard]
<1>0. /\ v \in View /\ n \in Belief /\ v.held \in Belief /\ v.removes \in Seq(ContactIds)
      /\ v.ids \in SUBSET ContactIds
  BY DEF ViewInv, View
<1>1. Drop(v.held, v.removes) = n /\ n[i] # NoCard
  <2>1. CaughtUp(v) = Drop(v.held, v.removes)
    BY <1>0, EmptyBatch DEF CaughtUp
  <2> QED BY <2>1 DEF ViewInv, Present
<1>2. nn \in Belief /\ Present(nn) = d
  BY <1>0 DEF Belief, Present, ViewInv
<1>3. s \in Seq(ContactIds) /\ s # <<>> /\ DOMAIN s = 1..(Len(v.removes) + 1)
      /\ s[Len(v.removes) + 1] = i /\ Len(v.removes) \in Nat
      /\ \A k \in 1..Len(v.removes) : k \in DOMAIN v.removes /\ s[k] = v.removes[k]
  BY <1>0
<1>4. Drop(v.held, s) = nn
  BY <1>0, <1>1, DropAppend
<1>5. v.held[i] # NoCard /\ \A k \in DOMAIN v.removes : v.removes[k] # i
  BY <1>0, <1>1, DropHolds
<1>d. d \in SUBSET ContactIds
  BY <1>0
<1> HIDE DEF s, nn, d
<1>6. /\ w \in View /\ w.removes = s /\ w.ids = d
      /\ w.adds = <<>> /\ w.changes = <<>> /\ w.held = v.held
      /\ w.addsMax = v.addsMax /\ w.nextThreshold = v.nextThreshold
      /\ w.thresholdMin = v.thresholdMin /\ w.thresholdMax = v.thresholdMax
  BY <1>0, <1>3, <1>d DEF View
<1> HIDE DEF w
<1>7. CaughtUp(w) = nn
  BY <1>0, <1>4, <1>6, EmptyBatch DEF CaughtUp
<1>8. LegalRemoves(w)
  <2> SUFFICES ASSUME NEW k \in DOMAIN s
               PROVE  /\ v.held[s[k]] # NoCard
                      /\ \A m \in DOMAIN s : s[m] = s[k] => m = k
    BY <1>6 DEF LegalRemoves
  <2>1. CASE k = Len(v.removes) + 1
    BY <2>1, <1>3, <1>5
  <2>2. CASE k \in 1..Len(v.removes)
    BY <2>2, <1>3, <1>5 DEF ViewInv, LegalRemoves
  <2> QED BY <2>1, <2>2, <1>3
<1>9. LegalAdds(w) /\ LegalChanges(w) /\ OneKind(w) /\ FitsBuffer(w)
  BY <1>6 DEF LegalAdds, LegalChanges, OneKind, FitsBuffer, ViewInv
<1> QED BY <1>2, <1>6, <1>7, <1>8, <1>9 DEF ViewInv, w, s, nn, d

(* Making room for an add leaves a buffer with a free entry. *)
LEMMA RoomForOne ==
  ASSUME NEW v, NEW n, ViewInv(v, n), v.changes = <<>>, v.removes = <<>>
  PROVE  LET w == MakeRoom(v)
         IN  /\ w \in View
             /\ w.changes = <<>> /\ w.removes = <<>> /\ w.ids = v.ids
             /\ Upsert(w.held, w.adds) = n
             /\ LegalAdds(w)
             /\ Len(w.adds) < w.addsMax
             /\ w.nextThreshold >= 1 /\ w.thresholdMin >= 1 /\ w.thresholdMax >= 1
<1> DEFINE w == MakeRoom(v)
<1>0. /\ v \in View /\ n \in Belief /\ v.held \in Belief /\ v.adds \in Seq(Card)
      /\ v.addsMax \in Nat /\ v.nextThreshold \in Nat /\ v.thresholdMax \in Nat
      /\ v.nextThreshold >= 1 /\ v.thresholdMin >= 1 /\ v.thresholdMax >= 1
      /\ Len(v.adds) <= v.addsMax /\ LegalAdds(v)
  BY DEF ViewInv, View, FitsBuffer
<1>1. CASE Len(v.adds) # v.addsMax
  <2>1. w = v
    BY <1>1 DEF MakeRoom
  <2>2. CaughtUp(v) = Upsert(v.held, v.adds)
    BY <1>0, UpsertHolds, EmptyBatch DEF CaughtUp
  <2>3. Len(v.adds) < v.addsMax
    BY <1>0, <1>1
  <2> QED BY <1>0, <2>1, <2>2, <2>3 DEF ViewInv
<1>2. CASE Len(v.adds) = v.addsMax
  <2> DEFINE u == send_pending_adds(v, FALSE)
             d == Doubled(v)
  <2>1. w = [u EXCEPT !.addsMax = v.nextThreshold, !.nextThreshold = d]
    BY <1>2 DEF MakeRoom
  <2>2. ViewInv(u, n) /\ u.adds = <<>> /\ u.changes = <<>> /\ u.removes = <<>>
    BY SendAdds
  <2>3. d \in Nat /\ d >= 1
    BY <1>0 DEF Doubled
  <2>3a. u.ids = v.ids
    BY <2>2 DEF ViewInv
  <2> HIDE DEF u, d
  <2>4. u \in View
    BY <2>2 DEF ViewInv
  <2> HIDE DEF w
  <2>5. /\ w \in View /\ w.addsMax = v.nextThreshold /\ w.nextThreshold = d
        /\ w.adds = u.adds /\ w.changes = u.changes /\ w.removes = u.removes
        /\ w.held = u.held /\ w.ids = u.ids
        /\ w.thresholdMin = u.thresholdMin /\ w.thresholdMax = u.thresholdMax
    BY <1>0, <2>1, <2>3, <2>4 DEF View
  <2>6. Upsert(w.held, w.adds) = n
    <3>1. CaughtUp(u) = u.held
      BY <2>2, <2>4, EmptyBatch DEF CaughtUp, View
    <3>2. Upsert(u.held, u.adds) = u.held
      BY <2>2, <2>4, EmptyBatch DEF View
    <3> QED BY <3>1, <3>2, <2>2, <2>5 DEF ViewInv
  <2>7. LegalAdds(w) /\ Len(w.adds) < w.addsMax
    BY <1>0, <2>2, <2>5 DEF LegalAdds
  <2>8. w.thresholdMin >= 1 /\ w.thresholdMax >= 1
    BY <2>2, <2>5 DEF ViewInv, FitsBuffer
  <2> QED BY <2>2, <2>3, <2>3a, <2>5, <2>6, <2>7, <2>8 DEF w
<1> QED BY <1>1, <1>2

(* The append of notify_add, for a contact that is not in the view. *)
LEMMA QueueAdd ==
  ASSUME NEW v, NEW n, ViewInv(v, n), NEW c \in Card,
         v.changes = <<>>, v.removes = <<>>, c.id \notin v.ids
  PROVE  LET u == MakeRoom(v)
         IN  ViewInv([u EXCEPT !.adds = Append(u.adds, c), !.ids = u.ids \cup {c.id}],
                     [n EXCEPT ![c.id] = c.vcard])
<1> DEFINE u == MakeRoom(v)
           s == Append(u.adds, c)
           d == u.ids \cup {c.id}
           w == [u EXCEPT !.adds = s, !.ids = d]
           nn == [n EXCEPT ![c.id] = c.vcard]
<1>0. /\ n \in Belief /\ c.id \in ContactIds /\ c.vcard \in VCards
      /\ NoCard \notin VCards
      /\ v.ids = Present(n)
  BY ViewAssumption DEF ViewInv, Card
<1>1. /\ u \in View
      /\ u.changes = <<>> /\ u.removes = <<>> /\ u.ids = v.ids
      /\ Upsert(u.held, u.adds) = n
      /\ LegalAdds(u)
      /\ Len(u.adds) < u.addsMax
      /\ u.nextThreshold >= 1 /\ u.thresholdMin >= 1 /\ u.thresholdMax >= 1
  BY RoomForOne
<1> HIDE DEF u
<1>2. /\ u.held \in Belief /\ u.adds \in Seq(Card) /\ u.ids \in SUBSET ContactIds
      /\ u.addsMax \in Nat
  BY <1>1 DEF View
<1>3. nn \in Belief /\ Present(nn) = d
  BY <1>0, <1>1 DEF Belief, Present
<1>4. s \in Seq(Card) /\ s # <<>> /\ DOMAIN s = 1..(Len(u.adds) + 1)
      /\ Len(s) = Len(u.adds) + 1
      /\ s[Len(u.adds) + 1] = c /\ Len(u.adds) \in Nat
      /\ \A k \in 1..Len(u.adds) : k \in DOMAIN u.adds /\ s[k] = u.adds[k]
  BY <1>2
<1>5. Upsert(u.held, s) = nn
  BY <1>1, <1>2, UpsertAppend
<1>6. u.held[c.id] = NoCard /\ \A k \in DOMAIN u.adds : u.adds[k].id # c.id
  <2>1. n[c.id] = NoCard
    BY <1>0 DEF Present
  <2>2. Mentions(u.adds, c.id) = {}
    BY <1>0, <1>1, <1>2, <2>1, UpsertHolds
  <2> QED BY <1>0, <1>1, <1>2, <2>1, <2>2, UpsertHolds DEF Mentions
<1>d. d \in SUBSET ContactIds
  BY <1>0, <1>2
<1> HIDE DEF s, nn, d
<1>7. /\ w \in View /\ w.adds = s /\ w.ids = d
      /\ w.changes = <<>> /\ w.removes = <<>> /\ w.held = u.held
      /\ w.addsMax = u.addsMax /\ w.nextThreshold = u.nextThreshold
      /\ w.thresholdMin = u.thresholdMin /\ w.thresholdMax = u.thresholdMax
  BY <1>1, <1>4, <1>d DEF View
<1> HIDE DEF w
<1>8. CaughtUp(w) = nn
  BY <1>3, <1>5, <1>7, EmptyBatch DEF CaughtUp
<1>9. LegalAdds(w)
  <2> SUFFICES ASSUME NEW k \in DOMAIN s
               PROVE  /\ u.held[s[k].id] = NoCard
                      /\ \A m \in DOMAIN s : s[m].id = s[k].id => m = k
    BY <1>7 DEF LegalAdds
  <2>1. CASE k = Len(u.adds) + 1
    BY <2>1, <1>4, <1>6
  <2>2. CASE k \in 1..Len(u.adds)
    <3>1. s[k] = u.adds[k] /\ k \in DOMAIN u.adds /\ s[k].id # c.id
      BY <2>2, <1>4, <1>6
    <3>2. /\ u.held[u.adds[k].id] = NoCard
          /\ \A m \in DOMAIN u.adds : u.adds[m].id = u.adds[k].id => m = k
      BY <3>1, <1>1 DEF LegalAdds
    <3>3. ASSUME NEW m \in DOMAIN s, s[m].id = s[k].id PROVE m = k
      <4>1. m # Len(u.adds) + 1
        BY <3>1, <3>3, <1>4
      <4>2. m \in 1..Len(u.adds)
        BY <4>1, <1>4
      <4> QED BY <4>2, <3>1, <3>2, <3>3, <1>4
    <3> QED BY <3>1, <3>2, <3>3
  <2> QED BY <2>1, <2>2, <1>4
<1>10. LegalChanges(w) /\ LegalRemoves(w) /\ OneKind(w)
  BY <1>7 DEF LegalChanges, LegalRemoves, OneKind
<1>11. FitsBuffer(w)
  BY <1>1, <1>2, <1>4, <1>7 DEF FitsBuffer
<1> QED BY <1>3, <1>7, <1>8, <1>9, <1>10, <1>11 DEF ViewInv, w, s, nn, d, u

----------------------------------------------------------------------------
(* The public functions.  Sends(v, h) says that the listener's belief h    *)
(* after a call on v comes from at most one batch, the one that was        *)
(* pending.                                                                *)

Sends(v, h) ==
  \/ h = v.held
  \/ h = Upsert(v.held, v.adds)
  \/ h = Upsert(v.held, v.changes)
  \/ h = Drop(v.held, v.removes)

(* A contact notified as present keeps the invariant, and at most one      *)
(* batch is sent.                                                          *)
LEMMA PrefilteredKeeps ==
  ASSUME NEW v, NEW n, ViewInv(v, n), NEW c \in Card
  PROVE  LET w == view_notify_update_prefiltered_vcard(v, c)
         IN  ViewInv(w, [n EXCEPT ![c.id] = c.vcard]) /\ Sends(v, w.held)
<1> DEFINE w == view_notify_update_prefiltered_vcard(v, c)
<1>0. v \in View /\ v.held \in Belief /\ OneKind(v) /\ v.ids = Present(n)
  BY DEF ViewInv, View
<1>1. CASE c.id \in v.ids
  <2> DEFINE a == send_pending_adds(v, TRUE)
             b == send_pending_removes(a)
  <2>1. ViewInv(a, n) /\ a.adds = <<>> /\ a.removes = v.removes
        /\ a.held = Upsert(v.held, v.adds)
    BY SendAdds
  <2>2. ViewInv(b, n) /\ b.removes = <<>> /\ b.adds = <<>>
        /\ b.held = Drop(a.held, a.removes)
    BY <2>1, SendRemoves
  <2>3. b \in View /\ b.ids = v.ids
    BY <1>0, <2>2 DEF ViewInv
  <2>4. w = [b EXCEPT !.changes = Append(b.changes, c)]
    BY <1>1 DEF view_notify_update_prefiltered_vcard, notify_change
  <2>5. Sends(v, b.held)
    <3>1. CASE v.adds = <<>>
      BY <3>1, <2>1, <2>2, <1>0, EmptyBatch DEF Sends
    <3>2. CASE v.adds # <<>>
      <4>1. v.removes = <<>>
        BY <3>2, <1>0 DEF OneKind
      <4>2. a.held \in Belief
        BY <2>1 DEF ViewInv, View
      <4> QED BY <4>1, <4>2, <2>1, <2>2, EmptyBatch DEF Sends
    <3> QED BY <3>1, <3>2
  <2> HIDE DEF b, w
  <2>6. w.held = b.held
    BY <2>3, <2>4 DEF View
  <2>7. ViewInv([b EXCEPT !.changes = Append(b.changes, c)], [n EXCEPT ![c.id] = c.vcard])
    BY <1>1, <2>2, <2>3, QueueChange
  <2>8. ViewInv(w, [n EXCEPT ![c.id] = c.vcard])
    BY <2>4, <2>7
  <2> QED BY <2>5, <2>6, <2>8 DEF w
<1>2. CASE c.id \notin v.ids
  <2> DEFINE a == send_pending_changes(v)
             b == send_pending_removes(a)
             u == MakeRoom(b)
  <2>1. ViewInv(a, n) /\ a.changes = <<>> /\ a.adds = v.adds /\ a.removes = v.removes
        /\ a.held = Upsert(v.held, v.changes)
    BY SendChanges
  <2>2. ViewInv(b, n) /\ b.removes = <<>> /\ b.changes = <<>> /\ b.adds = v.adds
        /\ b.held = Drop(a.held, a.removes)
    BY <2>1, SendRemoves
  <2>3. b \in View /\ b.ids = v.ids
    BY <1>0, <2>2 DEF ViewInv
  <2>4. w = [u EXCEPT !.adds = Append(u.adds, c), !.ids = u.ids \cup {c.id}]
    BY <1>2 DEF view_notify_update_prefiltered_vcard, notify_add
  <2>5. ViewInv(w, [n EXCEPT ![c.id] = c.vcard])
    <3>1. ViewInv([u EXCEPT !.adds = Append(u.adds, c), !.ids = u.ids \cup {c.id}],
                  [n EXCEPT ![c.id] = c.vcard])
      <4>1. c.id \notin b.ids
        BY <1>2, <2>3
      <4> HIDE DEF b
      <4> QED BY <2>2, <4>1, QueueAdd
    <3> HIDE DEF u, w
    <3> QED BY <2>4, <3>1
  <2>6. u \in View /\ (u.held = b.held \/ u.held = Upsert(b.held, b.adds))
    <3>1. u \in View
      BY <2>2, RoomForOne
    <3>2. CASE Len(b.adds) # b.addsMax
      BY <3>1, <3>2 DEF MakeRoom
    <3>3. CASE Len(b.adds) = b.addsMax
      <4> DEFINE x == send_pending_adds(b, FALSE)
      <4>1. x \in View /\ x.held = Upsert(b.held, b.adds)
        BY <2>2, SendAdds DEF ViewInv
      <4>2. u = [x EXCEPT !.addsMax = b.nextThreshold, !.nextThreshold = Doubled(b)]
        BY <3>3 DEF MakeRoom
      <4> HIDE DEF x, u
      <4>3. u.held = x.held
        BY <4>1, <4>2 DEF View
      <4> QED BY <3>1, <4>1, <4>3
    <3> QED BY <3>2, <3>3
  <2>7. Sends(v, u.held)
    <3>1. a.held \in Belief /\ b.held \in Belief
      BY <2>1, <2>2 DEF ViewInv, View
    <3>2. CASE v.adds # <<>>
      <4>1. v.removes = <<>> /\ v.changes = <<>>
        BY <3>2, <1>0 DEF OneKind
      <4>2. b.held = v.held
        BY <1>0, <3>1, <4>1, <2>1, <2>2, EmptyBatch
      <4> QED BY <4>2, <2>2, <2>6 DEF Sends
    <3>3. CASE v.adds = <<>>
      <4>1. u.held = b.held
        BY <3>1, <3>3, <2>2, <2>6, EmptyBatch
      <4>2. v.changes = <<>> \/ v.removes = <<>>
        BY <1>0 DEF OneKind
      <4>3. b.held = Upsert(v.held, v.changes) \/ b.held = Drop(v.held, v.removes)
        BY <1>0, <3>1, <4>2, <2>1, <2>2, EmptyBatch
      <4> QED BY <4>1, <4>3 DEF Sends
    <3> QED BY <3>2, <3>3
  <2> HIDE DEF u, w
  <2>8. w.held = u.held
    BY <2>4, <2>6 DEF View
  <2> QED BY <2>5, <2>7, <2>8 DEF w
<1> QED BY <1>1, <1>2

(* A contact notified as absent keeps the invariant, and at most one batch *)
(* is sent.                                                                *)
LEMMA RemoveKeeps ==
  ASSUME NEW v, NEW n, ViewInv(v, n), NEW i \in ContactIds
  PROVE  LET w == view_notify_remove(v, i)
         IN  ViewInv(w, [n EXCEPT ![i] = NoCard]) /\ Sends(v, w.held)
<1> DEFINE w == view_notify_remove(v, i)
<1>0. v \in View /\ v.held \in Belief /\ OneKind(v) /\ v.ids = Present(n) /\ n \in Belief
  BY DEF ViewInv, View
<1>1. CASE i \notin v.ids
  <2>1. w = v
    BY <1>1 DEF view_notify_remove
  <2>2. [n EXCEPT ![i] = NoCard] = n
    BY <1>0, <1>1 DEF Present, Belief
  <2> QED BY <2>1, <2>2 DEF Sends
<1>2. CASE i \in v.ids
  <2> DEFINE a == send_pending_adds(v, TRUE)
             b == send_pending_changes(a)
  <2>1. ViewInv(a, n) /\ a.adds = <<>> /\ a.changes = v.changes
        /\ a.held = Upsert(v.held, v.adds)
    BY SendAdds
  <2>2. ViewInv(b, n) /\ b.changes = <<>> /\ b.adds = <<>>
        /\ b.held = Upsert(a.held, a.changes)
    BY <2>1, SendChanges
  <2>3. b \in View /\ b.ids = v.ids
    BY <1>0, <2>2 DEF ViewInv
  <2>4. w = [b EXCEPT !.removes = Append(b.removes, i), !.ids = b.ids \ {i}]
    BY <1>2 DEF view_notify_remove, notify_remove
  <2>5. Sends(v, b.held)
    <3>1. CASE v.adds = <<>>
      BY <3>1, <2>1, <2>2, <1>0, EmptyBatch DEF Sends
    <3>2. CASE v.adds # <<>>
      <4>1. v.changes = <<>>
        BY <3>2, <1>0 DEF OneKind
      <4>2. a.held \in Belief
        BY <2>1 DEF ViewInv, View
      <4> QED BY <4>1, <4>2, <2>1, <2>2, EmptyBatch DEF Sends
    <3> QED BY <3>1, <3>2
  <2> HIDE DEF b, w
  <2>6. w.held = b.held
    BY <2>3, <2>4 DEF View
  <2>7. ViewInv([b EXCEPT !.removes = Append(b.removes, i), !.ids = b.ids \ {i}],
                [n EXCEPT ![i] = NoCard])
    BY <1>2, <2>2, <2>3, QueueRemove
  <2>8. ViewInv(w, [n EXCEPT ![i] = NoCard])
    BY <2>4, <2>7
  <2> QED BY <2>5, <2>6, <2>8 DEF w
<1> QED BY <1>1, <1>2

(* The flush of notify_complete keeps the invariant and leaves the         *)
(* listener with all that was notified.                                    *)
LEMMA FlushKeeps ==
  ASSUME NEW v, NEW n, ViewInv(v, n)
  PROVE  LET w == view_flush(v)
         IN  /\ ViewInv(w, n) /\ w.held = n /\ Sends(v, w.held)
             /\ w.adds = <<>> /\ w.changes = <<>> /\ w.removes = <<>>
<1> DEFINE a == send_pending_adds(v, TRUE)
           b == send_pending_changes(a)
           w == send_pending_removes(b)
<1>0. v.held \in Belief /\ OneKind(v)
  BY DEF ViewInv, View
<1>1. ViewInv(a, n) /\ a.adds = <<>> /\ a.changes = v.changes /\ a.removes = v.removes
      /\ a.held = Upsert(v.held, v.adds)
  BY SendAdds
<1>2. ViewInv(b, n) /\ b.changes = <<>> /\ b.adds = <<>> /\ b.removes = v.removes
      /\ b.held = Upsert(a.held, a.changes)
  BY <1>1, SendChanges
<1>3. ViewInv(w, n) /\ w.removes = <<>> /\ w.changes = <<>> /\ w.adds = <<>>
      /\ w.held = Drop(b.held, b.removes)
  BY <1>2, SendRemoves
<1>4. a.held \in Belief /\ b.held \in Belief /\ w.held \in Belief
  BY <1>1, <1>2, <1>3 DEF ViewInv, View
<1> HIDE DEF a, b, w
<1>5. w.held = n
  BY <1>3, <1>4, EmptyBatch DEF ViewInv, CaughtUp
<1>6. Sends(v, w.held)
  <2>1. CASE v.adds # <<>>
    <3>1. v.changes = <<>> /\ v.removes = <<>>
      BY <2>1, <1>0 DEF OneKind
    <3> QED BY <3>1, <1>1, <1>2, <1>3, <1>4, EmptyBatch DEF Sends
  <2>2. CASE v.adds = <<>>
    <3>1. v.changes = <<>> \/ v.removes = <<>>
      BY <1>0 DEF OneKind
    <3> QED BY <2>2, <3>1, <1>0, <1>1, <1>2, <1>3, <1>4, EmptyBatch DEF Sends
  <2> QED BY <2>1, <2>2
<1> QED BY <1>3, <1>5, <1>6 DEF view_flush, w, b, a

(* A new view satisfies the invariant. *)
LEMMA NewView == ViewInv(e_data_book_view_init, NothingHeld)
<1> DEFINE e == <<>>
           v == e_data_book_view_init
<1>1. e \in Seq(Card) /\ e \in Seq(ContactIds) /\ e = <<>> /\ Len(e) = 0
  OBVIOUS
<1>2. NothingHeld \in Belief /\ Present(NothingHeld) = {}
  BY DEF NothingHeld, Belief, Present
<1> HIDE DEF e
<1>3. v = [adds |-> e, addsMax |-> 0, changes |-> e, removes |-> e,
           nextThreshold |-> InitialThreshold,
           thresholdMin |-> InitialThreshold, thresholdMax |-> ThresholdMax,
           ids |-> {}, held |-> NothingHeld]
  BY <1>1 DEF e_data_book_view_init
<1> HIDE DEF v
<1>4. v \in View
  BY <1>1, <1>2, <1>3, ViewAssumption DEF View
<1>5. /\ v.adds = <<>> /\ v.changes = <<>> /\ v.removes = <<>> /\ v.addsMax = 0
      /\ v.ids = {} /\ v.held = NothingHeld
      /\ v.nextThreshold >= 1 /\ v.thresholdMin >= 1 /\ v.thresholdMax >= 1
  BY <1>1, <1>3, ViewAssumption
<1>6. CaughtUp(v) = NothingHeld
  BY <1>2, <1>5, EmptyBatch DEF CaughtUp
<1>7. OneKind(v) /\ LegalAdds(v) /\ LegalChanges(v) /\ LegalRemoves(v) /\ FitsBuffer(v)
  BY <1>5 DEF OneKind, LegalAdds, LegalChanges, LegalRemoves, FitsBuffer
<1> QED BY <1>2, <1>4, <1>5, <1>6, <1>7 DEF ViewInv, v
=============================================================================
