------------------------------ MODULE MCRunLoop ------------------------------
(* One control client and a host that may do anything in its hooks.        *)
EXTENDS RunLoop
=============================================================================
