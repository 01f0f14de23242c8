-------------------------- MODULE KeyslotEnrollment --------------------------
(***************************************************************************)
(* What an enrollment promises, whoever carries it out: at most one        *)
(* keyslot is filled, with the keyfile that was derived; nothing is taken  *)
(* away but the one keyslot that was to go, and that one only while the    *)
(* new keyfile opens another; success is announced only when all that was  *)
(* asked for has happened. A failure promises nothing.                     *)
(***************************************************************************)
EXTENDS Naturals

CONSTANTS SlotNumbers, Free, NoKeyfile

VARIABLES
    header,     \* the key of each keyslot
    new,        \* the keyfile to enroll, once it is known
    doomed,     \* the keyslot to kill, if it is one
    isAdded,    \* the new keyfile has been enrolled
    outcome     \* "pending", "success" or "failure"

vars == <<header, new, doomed, isAdded, outcome>>

Init == new = NoKeyfile /\ isAdded = FALSE /\ outcome = "pending"

Derive ==
    /\ new = NoKeyfile
    /\ new' # NoKeyfile
    /\ UNCHANGED <<header, doomed, isAdded, outcome>>

Add ==
    /\ new # NoKeyfile
    /\ ~isAdded /\ outcome # "success"
    /\ \E s \in SlotNumbers :
          header[s] = Free /\ header' = [header EXCEPT ![s] = new]
    /\ isAdded' = TRUE
    /\ UNCHANGED <<new, doomed, outcome>>

Kill ==
    /\ isAdded /\ outcome # "success"
    /\ doomed \in SlotNumbers
    /\ \E s \in SlotNumbers \ {doomed} : header[s] = new
    /\ header' = [header EXCEPT ![doomed] = Free]
    /\ UNCHANGED <<new, doomed, isAdded, outcome>>

Succeed ==
    /\ outcome = "pending"
    /\ isAdded
    /\ doomed \in SlotNumbers => header[doomed] = Free
    /\ outcome' = "success"
    /\ UNCHANGED <<header, new, doomed, isAdded>>

Fail ==
    /\ outcome = "pending"
    /\ outcome' = "failure"
    /\ UNCHANGED <<header, new, doomed, isAdded>>

Next == Derive \/ Add \/ Kill \/ Succeed \/ Fail

Spec == Init /\ [][Next]_vars

=============================================================================
