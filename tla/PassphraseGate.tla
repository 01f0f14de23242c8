--------------------------- MODULE PassphraseGate ---------------------------
(***************************************************************************)
(* What unlocking promises, without protocol or cryptography: after power  *)
(* on, the TKey opens its gate once, because the measured boot was         *)
(* attested or because the user touched it; through an open gate at most   *)
(* MaxGuesses guesses are begun; the disk opens only for an enrolled       *)
(* passphrase that was offered through the gate.                           *)
(***************************************************************************)
EXTENDS Naturals

CONSTANTS
    MaxGuesses,     \* guesses one power-on of the TKey allows
    Passphrases,    \* what may be offered
    NoGuess         \* nothing has been offered

VARIABLES
    gate,       \* "shut", "attested", "overridden" or "closed"
    guesses,    \* guesses begun
    guess,      \* passphrase offered last
    opens,      \* passphrases that open the disk with this TKey app
    attests,    \* the TPM vouches for this boot to this TKey app
    diskOpen

gateVars == <<gate, guesses, guess, opens, attests, diskOpen>>

GateOpen == gate \in {"attested", "overridden"}

Init ==
    /\ gate = "shut"
    /\ guesses = 0
    /\ guess = NoGuess
    /\ opens \subseteq Passphrases
    /\ attests \in BOOLEAN
    /\ diskOpen = FALSE

Attest ==
    /\ gate = "shut" /\ attests
    /\ gate' = "attested"
    /\ UNCHANGED <<guesses, guess, opens, attests, diskOpen>>

Override ==
    /\ gate = "shut"
    /\ gate' = "overridden"
    /\ UNCHANGED <<guesses, guess, opens, attests, diskOpen>>

Begin ==
    /\ GateOpen /\ guesses < MaxGuesses
    /\ guesses' = guesses + 1
    /\ UNCHANGED <<gate, guess, opens, attests, diskOpen>>

Offer ==
    /\ GateOpen /\ guesses > 0
    /\ guess' \in Passphrases
    /\ UNCHANGED <<gate, guesses, opens, attests, diskOpen>>

\* The keyfile may still be on its way when the gate closes.
Open ==
    /\ guess \in opens
    /\ diskOpen' = TRUE
    /\ UNCHANGED <<gate, guesses, guess, opens, attests>>

Close ==
    /\ gate # "closed"
    /\ gate' = "closed"
    /\ UNCHANGED <<guesses, guess, opens, attests, diskOpen>>

Next == Attest \/ Override \/ Begin \/ Offer \/ Open \/ Close

Spec == Init /\ [][Next]_gateVars

=============================================================================
