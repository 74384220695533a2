---------------------------- MODULE MCChatServer ----------------------------
(***************************************************************************)
(* Instances of ChatServer for TLC.  Clients are model values.  No order of *)
(* their names is preferred, so they are interchangeable.                  *)
(***************************************************************************)
EXTENDS ChatInvariant, TLC

CONSTANTS c1, c2, c3

ThreeClients == {c1, c2, c3}

\* Each sort may put the rows in any order.
AnyOrder == Client \X Client

Interchangeable == Permutations(Client)

=============================================================================
