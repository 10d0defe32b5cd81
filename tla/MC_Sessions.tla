----------------------------- MODULE MC_Sessions -----------------------------
(***************************************************************************)
(* An instance of Sessions for TLC: a person with two accounts, a phone    *)
(* and a laptop, and just enough session ids that one is always free.      *)
(***************************************************************************)
EXTENDS Sessions
=============================================================================
