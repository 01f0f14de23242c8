------------------------------- MODULE Serial -------------------------------
(***************************************************************************)
(* The USB serial line between host and TKey (/dev/ttyACM0): one reliable  *)
(* FIFO of frames in each direction, for as long as the TKey is attached.  *)
(* Pulling the TKey out hangs the line up: buffered bytes are gone, reads  *)
(* return end of file and writes fail.                                     *)
(***************************************************************************)
EXTENDS Protocol

VARIABLES
    attached,   \* the TKey is plugged in
    toHost,     \* frames the TKey wrote and the host has not read
    toTkey,     \* frames the host wrote and the TKey has not read
    sniffed     \* every ciphertext that ever crossed the line

serialVars == <<attached, toHost, toTkey, sniffed>>

SerialInit ==
    /\ attached \in BOOLEAN
    /\ toHost = <<>>
    /\ toTkey = <<>>
    /\ sniffed = {}

\* A blocking read of n bytes can return: the next frame has n bytes.
Readable(line, n) == line # <<>> /\ FrameSize[Head(line).kind] = n

HangUp ==
    /\ attached
    /\ attached' = FALSE
    /\ toHost' = <<>>
    /\ toTkey' = <<>>
    /\ UNCHANGED sniffed

=============================================================================
