------------------------------ MODULE MCGateway ------------------------------
(***************************************************************************)
(* Small instances of Gateway and Accounts.                                *)
(***************************************************************************)
EXTENDS Gateway, TLC

Everything == {"register", "login", "forgot", "refresh", "logout", "verify",
               "reset", "change", "setRole"}
SessionsOnly == {"login", "refresh", "change"}

Peers == Permutations(Slots)
=============================================================================
