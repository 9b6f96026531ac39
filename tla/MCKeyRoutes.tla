---------------------------- MODULE MCKeyRoutes ----------------------------
(* A small instance of KeyRoutes.                                          *)
EXTENDS KeyRoutes
=============================================================================
