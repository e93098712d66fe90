----------------------------- MODULE MCEndpoint -----------------------------
(* Small instances of Endpoint for TLC.                                    *)
EXTENDS Endpoint
============================================================================
