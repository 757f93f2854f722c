---------------------------- MODULE MCRequestPath ----------------------------
(* The response cache in front of an internal page: two requests, each from     *)
(* inside or outside.                                                          *)
EXTENDS RequestPath
=============================================================================
