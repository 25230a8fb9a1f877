------------------------------- MODULE WorkQueue -------------------------------
(***************************************************************************)
(* What stream/lease.py promises its callers, without leases, tokens or    *)
(* workers: an item handed over is work to do until somebody has performed *)
(* it and had its completion accepted; it is completed once, and it never  *)
(* disappears.  LeaseQueue implements this module.                         *)
(***************************************************************************)
EXTENDS Naturals

CONSTANT Items              \* the work items' ids

VARIABLES todo,             \* handed over and not completed
          performed,        \* executed without an exception at least once
          done,             \* completed
          credits           \* completions accepted, per item

aqVars == <<todo, performed, done, credits>>

AQInit == /\ todo = {}
          /\ performed = {}
          /\ done = {}
          /\ credits = [i \in Items |-> 0]

Submit(S) == /\ S \cap (todo \cup done) = {}
             /\ todo' = todo \cup S
             /\ UNCHANGED <<performed, done, credits>>

\* Delivery is at least once: an item may be performed again, even a done one.
Perform(i) == /\ i \in todo \cup done
              /\ performed' = performed \cup {i}
              /\ UNCHANGED <<todo, done, credits>>

Complete(i) == /\ i \in todo \cap performed
               /\ todo' = todo \ {i}
               /\ done' = done \cup {i}
               /\ credits' = [credits EXCEPT ![i] = @ + 1]
               /\ UNCHANGED performed

AQNext == \/ \E S \in SUBSET Items : Submit(S)
          \/ \E i \in Items : Perform(i) \/ Complete(i)

AQSpec == AQInit /\ [][AQNext]_aqVars
================================================================================
