---- MODULE MCCamelService ----
EXTENDS CamelService, TLC

CONSTANTS t1, t2, o1, o2

\* One thread has an operation of its own, the other has none.
MCThreads == {t1, t2}
MCOwnOp == t1 :> o1 @@ t2 :> NoOp
====
