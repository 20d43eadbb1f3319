------------------------------ MODULE MCLedger ------------------------------
(* A small instance of Ledger for TLC. *)
EXTENDS Ledger

CONSTANTS w1, w2

TwoWriters == {w1, w2}
=============================================================================
