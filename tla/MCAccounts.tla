----------------------------- MODULE MCAccounts -----------------------------
(* An instance of Accounts with two admins.                                *)
EXTENDS Accounts

CONSTANTS n1, n2
=============================================================================
