------------------------------ MODULE MCElmHost ------------------------------
(* An Elm program that may do anything its ports and globals allow.        *)
EXTENDS ElmHost
=============================================================================
