---------------------------- MODULE MCFileServer ----------------------------
(***************************************************************************)
(* Instances of FileServer for TLC.                                        *)
(***************************************************************************)
EXTENDS FileServer

CONSTANTS a, b, short, long   \* two clients; files of one line and of two

LinesOf == [f \in File |-> IF f = short THEN 1 ELSE 2]
NamesOf == [c \in Client |-> IF c = a THEN {long, Missing} ELSE {short}]
NReqOf  == [c \in Client |-> IF c = a THEN 2 ELSE 1]

=============================================================================
