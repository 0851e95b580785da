---------------------------- MODULE ScullRegister ----------------------------
(***************************************************************************)
(* What the scull devices promise a reader: the device holds one write at  *)
(* a time.  A write becomes readable at once and replaces the one before;  *)
(* a read picks the write it finds and delivers its quanta in order from   *)
(* the first.  Past the end of that write (or of the part of it that is    *)
(* there yet) it delivers garbage, and after garbage only garbage.         *)
(***************************************************************************)
EXTENDS Integers, Sequences

CONSTANTS Task, WILD

VARIABLES cell,   \* the readable write, 0 before the first
          from,   \* from[t]: the write t's read delivers, 0 when it has none
          got     \* got[t]: what t's read has delivered

vars == <<cell, from, got>>

Init ==
    /\ cell = 0
    /\ from = [t \in Task |-> 0]
    /\ got = [t \in Task |-> << >>]

Publish ==
    /\ cell' \in Nat \ {0}
    /\ UNCHANGED <<from, got>>

Take(t) ==
    /\ from[t] = 0
    /\ got[t] = << >>
    /\ from' = [from EXCEPT ![t] = cell]
    /\ UNCHANGED <<cell, got>>

\* Position k of what t gets: the quantum of that position, or garbage.
InOrder(t, s, k) ==
    \/ s[k] = WILD
    \/ /\ s[k] = [w |-> from[t], q |-> k - 1]
       /\ k > 1 => s[k - 1] # WILD

Deliver(t) ==
    LET old == got[t]
        new == got'[t]
    IN  /\ Len(new) > Len(old)
        /\ SubSeq(new, 1, Len(old)) = old
        /\ \A k \in Len(old) + 1 .. Len(new) : InOrder(t, new, k)
        /\ got' = [got EXCEPT ![t] = new]
        /\ UNCHANGED <<cell, from>>

End(t) ==
    /\ from' = [from EXCEPT ![t] = 0]
    /\ got' = [got EXCEPT ![t] = << >>]
    /\ UNCHANGED cell

\* The kernel kills a task in the middle of its read.
Abort(t) ==
    /\ from' = [from EXCEPT ![t] = 0]
    /\ UNCHANGED <<cell, got>>

Next == Publish \/ \E t \in Task : Abort(t) \/ Take(t) \/ Deliver(t) \/ End(t)

Spec == Init /\ [][Next]_vars
=============================================================================
