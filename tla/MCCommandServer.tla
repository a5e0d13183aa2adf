--------------------------- MODULE MCCommandServer ---------------------------
(* Two runs of the client, a command, a line and a text of several lines. *)
EXTENDS CommandServer

CONSTANTS run1, run2, command, sentence, letter

FirstLine == [text \in Text |-> IF text = letter THEN sentence ELSE text]
=============================================================================
