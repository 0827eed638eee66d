------------------------------ MODULE BookView ------------------------------
(***************************************************************************)
(* What a book view promises to its listener (the BookViewListener         *)
(* interface of the addressbook): a sequence of messages, each about one   *)
(* kind of event.  A message adds contacts the listener does not have, or  *)
(* changes contacts it has, or removes contacts it has; it never mixes     *)
(* them.                                                                   *)
(***************************************************************************)
CONSTANTS ContactIds, VCards, NoCard

VARIABLE held   \* held[i]: the contents of contact i the listener was told, or NoCard

Has(i) == held[i] # NoCard

Untouched(S) == \A i \in ContactIds \ S : held'[i] = held[i]

IsBelief(h) == h \in [ContactIds -> VCards \cup {NoCard}]

Init == held = [i \in ContactIds |-> NoCard]

ContactsAdded(S) ==
  /\ \A i \in S : ~Has(i)
  /\ \A i \in S : held'[i] \in VCards
  /\ Untouched(S)

ContactsChanged(S) ==
  /\ \A i \in S : Has(i)
  /\ \A i \in S : held'[i] \in VCards
  /\ Untouched(S)

ContactsRemoved(S) ==
  /\ \A i \in S : Has(i)
  /\ \A i \in S : held'[i] = NoCard
  /\ Untouched(S)

Next ==
  /\ IsBelief(held')
  /\ \E S \in SUBSET ContactIds :
       ContactsAdded(S) \/ ContactsChanged(S) \/ ContactsRemoved(S)

Spec == Init /\ [][Next]_held
=============================================================================
