------------------------------- MODULE MCTeams -------------------------------
(* Small instances of Teams: any user may be an administrator. *)
EXTENDS Teams, TLC

CONSTANTS u1, u2, u3

Two   == {u1, u2}
Three == {u1, u2, u3}

ListsOfTwo   == SUBSET Two \ {{}}
ListsOfThree == SUBSET Three \ {{}, Three}

Symmetric == Permutations(TeamIds) \cup Permutations(Users)
               \cup Permutations(Colors) \cup Permutations(Txs)
===============================================================================
