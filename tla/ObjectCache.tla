----------------------------- MODULE ObjectCache -----------------------------
(***************************************************************************)
(* What users of a CamelObjectBag rely on ("key'd hash tables of           *)
(* camel-objects which can be updated atomically using transaction         *)
(* semantics"): the object of a key is created by one thread at a time,    *)
(* only while there is none, and appears to all others at once.  Waiting,  *)
(* waking and reference counts are hidden.                                 *)
(***************************************************************************)
CONSTANTS Threads, Keys, Objects, NoThread, NoObject

VARIABLES cache,    \* the object of each key
          creator   \* the thread that creates the object of a key

cacheVars == <<cache, creator>>

Init == /\ cache = [k \in Keys |-> NoObject]
        /\ creator = [k \in Keys |-> NoThread]

Begin(t, k) == /\ cache[k] = NoObject
               /\ creator[k] = NoThread
               /\ creator' = [creator EXCEPT ![k] = t]
               /\ UNCHANGED cache

Commit(k, o) == /\ creator[k] # NoThread
                /\ cache' = [cache EXCEPT ![k] = o]
                /\ creator' = [creator EXCEPT ![k] = NoThread]

GiveUp(k) == /\ creator[k] # NoThread
             /\ creator' = [creator EXCEPT ![k] = NoThread]
             /\ UNCHANGED cache

Drop(k) == cache' = [cache EXCEPT ![k] = NoObject] /\ UNCHANGED creator

Move(k, o, n) == /\ cache' = [cache EXCEPT ![k] = NoObject, ![n] = o]
                 /\ UNCHANGED creator

Next == \E k \in Keys :
           \/ \E t \in Threads : Begin(t, k)
           \/ GiveUp(k)
           \/ Drop(k)
           \/ \E o \in Objects :
                 \/ Commit(k, o)
                 \/ \E n \in Keys : Move(k, o, n)

Spec == Init /\ [][Next]_cacheVars
=============================================================================
