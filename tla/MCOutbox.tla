------------------------------ MODULE MCOutbox ------------------------------
(* An instance of Outbox for TLC.                                             *)
EXTENDS Outbox

MCEntries == 1..2
=============================================================================
