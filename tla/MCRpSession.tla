---------------------------- MODULE MCRpSession ----------------------------
(***************************************************************************)
(* A small instance of RpSession: two records, two values, two accounts.    *)
(***************************************************************************)
EXTENDS RpSession

MCItems == 1..2
=============================================================================
