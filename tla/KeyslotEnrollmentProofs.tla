----------------------- MODULE KeyslotEnrollmentProofs -----------------------
(***************************************************************************)
(* What the abstract enrollment makes of the header it finds, from its     *)
(* beginning to whatever end. The two programs inherit it by their         *)
(* refinements.                                                            *)
(***************************************************************************)
EXTENDS KeyslotEnrollment, TLAPS

\* Of header h, one keyslot that was free holds the new keyfile, and no other has
\* changed, but that the one that was to go may have been emptied.
FilledOnce(h) ==
    \E f \in SlotNumbers :
        /\ h[f] = Free
        /\ \A s \in SlotNumbers :
              \/ header[s] = IF s = f THEN new ELSE h[s]
              \/ s = doomed /\ header[s] = Free

\* What becomes of header h.
HeaderFollows(h) ==
    IF isAdded
    THEN FilledOnce(h) /\ \E s \in SlotNumbers : header[s] = new
    ELSE header = h

\* The keyfile is known before it is enrolled, and a success comes after all else.
InOrder ==
    /\ isAdded \in BOOLEAN
    /\ isAdded => new # NoKeyfile
    /\ outcome = "success" => isAdded /\ (doomed \in SlotNumbers => header[doomed] = Free)

HeaderInv(h) == DOMAIN header = SlotNumbers /\ InOrder /\ HeaderFollows(h)

\* Every step keeps to it.
LEMMA HeaderStep ==
    ASSUME NEW h, HeaderInv(h), [Next]_vars
    PROVE  HeaderInv(h)'
<1> USE DEF HeaderInv, InOrder
<1>1. CASE Derive
  BY <1>1 DEF Derive, HeaderFollows
<1>2. CASE Add
  <2>1. PICK f \in SlotNumbers :
           header[f] = Free /\ header' = [header EXCEPT ![f] = new]
    BY <1>2 DEF Add
  <2>2. /\ header = h /\ isAdded' = TRUE /\ new # NoKeyfile /\ outcome # "success"
        /\ UNCHANGED <<new, doomed, outcome>>
    BY <1>2 DEF Add, HeaderFollows
  <2>3. FilledOnce(h)' /\ \E s \in SlotNumbers : header'[s] = new'
    BY <2>1, <2>2 DEF FilledOnce
  <2> QED
    BY <2>1, <2>2, <2>3 DEF HeaderFollows
<1>3. CASE Kill
  <2>1. /\ doomed \in SlotNumbers /\ header' = [header EXCEPT ![doomed] = Free]
        /\ isAdded /\ outcome # "success" /\ UNCHANGED <<new, doomed, isAdded, outcome>>
    BY <1>3 DEF Kill
  <2>2. PICK t \in SlotNumbers \ {doomed} : header[t] = new
    BY <1>3 DEF Kill
  <2>3. FilledOnce(h)
    BY <2>1 DEF HeaderFollows
  <2>4. FilledOnce(h)'
    BY <2>1, <2>3 DEF FilledOnce
  <2> QED
    BY <2>1, <2>2, <2>4 DEF HeaderFollows
<1>4. CASE Succeed \/ Fail \/ UNCHANGED vars
  BY <1>4 DEF Succeed, Fail, vars, HeaderFollows, FilledOnce
<1> QED
  BY <1>1, <1>2, <1>3, <1>4 DEF Next

\* At every moment of an enrollment the header is the one that it found, or that one
\* with the new keyfile in one keyslot that was free and with the keyslot that was to
\* go perhaps emptied; some keyslot then opens with the new keyfile.
THEOREM HeaderIsKept ==
    ASSUME NEW CONSTANT h
    PROVE  Spec /\ header = h /\ DOMAIN h = SlotNumbers => []HeaderInv(h)
<1>1. Init /\ header = h /\ DOMAIN h = SlotNumbers => HeaderInv(h)
  BY DEF Init, HeaderInv, InOrder, HeaderFollows
<1>2. HeaderInv(h) /\ [Next]_vars => HeaderInv(h)'
  BY HeaderStep
<1> QED
  BY <1>1, <1>2, PTL DEF Spec

\* A success is the last word: afterwards the header is left alone.
THEOREM SuccessIsFinal ==
    Spec => [][outcome = "success" => UNCHANGED <<header, outcome>>]_vars
<1>1. [Next]_vars => [outcome = "success" => UNCHANGED <<header, outcome>>]_vars
  BY DEF Next, Derive, Add, Kill, Succeed, Fail, vars
<1> QED
  BY <1>1, PTL DEF Spec

=============================================================================
