---------------------------- MODULE MCRcExample ----------------------------
(* Values for the constants of RcExample.                                  *)
EXTENDS RcExample

NoFaults == {}
AllFaults == FaultKinds
OnlySegment == {"segment"}
OnlyCreate == {"create"}
=============================================================================
