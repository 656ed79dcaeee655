------------------------------- MODULE MCTeams -------------------------------
(* Addresses and request slots are interchangeable. *)
EXTENDS Teams, TLC

Symmetry == Permutations(Email) \cup Permutations(Request)

=============================================================================
