----------------------------- MODULE MCHostLink -----------------------------
(* HostLink with the sizes of the firmware; the time unit is 0.25 s.         *)
EXTENDS HostLink
=============================================================================
