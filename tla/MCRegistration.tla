--------------------------- MODULE MCRegistration ---------------------------
(***************************************************************************)
(* Instances of Registration for TLC: two requests for the same name, and  *)
(* one each for two other names.                                           *)
(***************************************************************************)
EXTENDS Registration

MCNameOf ==
    [r \in Requests |-> CASE r \in {1, 2} -> "ann"
                          [] r = 3 -> "bob"
                          [] OTHER -> "eve"]

\* Every user has an address.
OwnEmail == [r \in Requests |-> MCNameOf[r]]

\* Base hashes that give, of eight bits and two hashes, "ann" the positions
\* 1 and 2, "bob" 3 and 4, and "eve" 2 and 3: her bits are those of "ann" and
\* "bob" together.
MCFnv1a == [n \in Names |-> CASE n = "ann" -> 9
                              [] n = "bob" -> 3
                              [] n = "eve" -> 18
                              [] OTHER -> 5]
MCDjb2 == [n \in Names |-> IF n = "eve" THEN 16 ELSE 1]
=============================================================================
