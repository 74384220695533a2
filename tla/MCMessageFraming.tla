-------------------------- MODULE MCMessageFraming --------------------------
(***************************************************************************)
(* An instance of MessageFraming for TLC: two letters, and lines of two or *)
(* four bytes in buffers whose last index is four, so that a line may fill *)
(* its buffer and two listings may arrive in one read.  The two users      *)
(* have the same name, so that a listing compacts the table and leaves the *)
(* order of its rows.                                                      *)
(***************************************************************************)
EXTENDS MessageFraming

CONSTANTS c1, c2, a, b

TwoClients == {c1, c2}
SameName == {}

Letters == {a, b}
Full == <<b, a, b, Newline>>
List == <<b, Newline>>

Lines == {Full, List}

NoFragment == {}

=============================================================================
