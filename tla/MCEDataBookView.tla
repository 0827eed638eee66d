-------------------------- MODULE MCEDataBookView --------------------------
(***************************************************************************)
(* Instances of EDataBookView for TLC.                                     *)
(***************************************************************************)
EXTENDS EDataBookView, TLC

CONSTANTS i1, i2, i3, t1, t2, a, b, n

\* i1, i2 and i3 play the same part, and so do the callers
Symm == Permutations({i1, i2, i3}) \cup Permutations({t1, t2})

\* the pair the LDAP backend sets has min 1
SetLow == {<<1, 2>>}

\* the view as e_book_backend_ldap_start_book_view leaves it
LdapInit ==
  /\ view = view_set_thresholds(e_data_book_view_init, 1, ThresholdMax)
  /\ notified = NothingHeld
  /\ completing = {}

LdapSpec == LdapInit /\ [][Next]_vars

NoThresholds == {}
=============================================================================
