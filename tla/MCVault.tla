------------------------------- MODULE MCVault -------------------------------
(* What users type: a key, a name and password, and an account as JSON.     *)
EXTENDS Vault

MCInputs == {[type |-> "api_key", fmt |-> "key"],
             [type |-> "username_password", fmt |-> "pair"],
             [type |-> "username_password", fmt |-> "json"],
             [type |-> "api_key", fmt |-> "blank"]}
=============================================================================
