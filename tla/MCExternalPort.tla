--------------------------- MODULE MCExternalPort ---------------------------
(* ExternalPort for TLC.  The rings differ in size, so that they come round  *)
(* at different times, and the messages go round both.                      *)
EXTENDS ExternalPort
=============================================================================
