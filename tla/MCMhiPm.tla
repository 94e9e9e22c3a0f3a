------------------------------ MODULE MCMhiPm ------------------------------
(* One session of the modem, with a crash.                                 *)
EXTENDS MhiPm

=============================================================================
