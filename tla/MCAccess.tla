------------------------------ MODULE MCAccess ------------------------------
(***************************************************************************)
(* An instance of Access for TLC: a client that registers and tries again, *)
(* one that shares an address and a bit of the filter with it, and two     *)
(* seeded users, one of whom has no product:read.                          *)
(***************************************************************************)
EXTENDS Access, MCRegistration

\* "eve" gives the address of "ann".
MCEmailOf == [r \in Requests |-> IF r = 4 THEN "ann" ELSE MCNameOf[r]]

\* The second request is the retry of the first.
MCClientOf == [r \in Requests |-> IF r = 2 THEN 1 ELSE r]

MCGrants == [n \in Seeded |-> IF n = "dan" THEN {"product:write"} ELSE Roles]
=============================================================================
