---------------------------- MODULE MCChatClient ----------------------------
(***************************************************************************)
(* Instances of ChatClient for TLC.  Of the lines, two short ones fit the   *)
(* buffer behind one another, a long one does not fit behind another.  Of  *)
(* the messages, one fills its buffer, the others fit in it together, and  *)
(* the shortest is an exit.                                                *)
(***************************************************************************)
EXTENDS ChatClient

CONSTANTS s, x, a

Letters == {s, x, a}
ShortLines == {<<a, Newline>>, <<s, Newline>>}
TypedLines == {<<a, Newline>>, <<s, a, Newline>>}
Messages == {<<s, a, Newline>>, <<s, a, a, a, Newline>>, <<x, Newline>>}

=============================================================================
