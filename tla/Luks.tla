-------------------------------- MODULE Luks --------------------------------
(***************************************************************************)
(* The keyslots of the disk, and the one cryptsetup child that an          *)
(* enrollment program runs at a time, as those programs use them: with     *)
(* both keys of luksAddKey on its stdin, the first cut off by length, and  *)
(* with luksKillSlot authorised by a keyfile (--verify-passphrase). A      *)
(* child runs on when the program that started it has ended.               *)
(***************************************************************************)
EXTENDS Protocol

CONSTANTS
    Slots,      \* keyslot numbers of the header: 0 .. 31 for LUKS2
    Empty,      \* an unused keyslot
    Headers     \* keyslots that an enrollment may find

VARIABLES
    slots,      \* the key that opens each keyslot, or Empty
    child,      \* what cryptsetup does, and how it ended
    added       \* history: luksAddKey has filled a keyslot

luksVars == <<slots, child, added>>

ASSUME LuksAssumption ==
    /\ Slots \subseteq 0 .. 31
    /\ \A h \in Headers : DOMAIN h = Slots

\* A typed passphrase as a key. Its bytes are no keyfile.
Text(p) == <<"text", p>>

ChildStates == {"none", "reading", "starved", "adding", "killing", "ok", "failed",
                "killed"}

LuksInit ==
    /\ slots \in Headers
    /\ child = "none"
    /\ added = FALSE

OpensBesides(key, s) == \E t \in Slots \ {s} : slots[t] = key

\* The second key has arrived. A --keyfile-size of 0 does not cut the first key
\* off: cryptsetup then reads on to an end of file.
GetsBothKeys(length) == child' = IF length = 0 THEN "starved" ELSE "adding"

\* luksAddKey: the old key is one, and there is room for the new.
CryptsetupAdds(old, new) ==
    /\ child = "adding"
    /\ \E s \in Slots :
          /\ slots[s] = Empty
          /\ OpensBesides(old, s)
          /\ slots' = [slots EXCEPT ![s] = new]
    /\ added' = TRUE
    /\ child' \in {"ok", "killed"}

\* luksKillSlot: the key has to open a keyslot that stays.
CryptsetupKillsSlot(key, s) ==
    /\ child = "killing"
    /\ s \in Slots
    /\ slots[s] # Empty
    /\ OpensBesides(key, s)
    /\ slots' = [slots EXCEPT ![s] = Empty]
    /\ child' \in {"ok", "killed"}
    /\ UNCHANGED added

\* cryptsetup fails for any reason, or is killed before it has done anything.
CryptsetupFails ==
    /\ child \in {"adding", "killing"}
    /\ child' \in {"failed", "killed"}
    /\ UNCHANGED <<slots, added>>

=============================================================================
