------------------------------ MODULE MCTests -------------------------------
(* Values for the constants of Tests; the bounds are in Tests.cfg.          *)
EXTENDS Tests

OpenOrClosed == {TRUE, FALSE}
=============================================================================
