---------------------------- MODULE MCAppLoader ----------------------------
(***************************************************************************)
(* A small instance of AppLoader: binaries at both sides of each boundary  *)
(* of the chunk arithmetic, and a tty buffer that holds the replies of     *)
(* three chunks but not of four.                                           *)
(***************************************************************************)
EXTENDS AppLoader

MCLengths == {0, 1, 126, 127, 128, 254, 255, 508, 509, AppMax + 1}

=============================================================================
