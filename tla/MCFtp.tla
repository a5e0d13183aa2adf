------------------------------- MODULE MCFtp -------------------------------
(***************************************************************************)
(* Instances of FtpSystem and its refinement for TLC.                      *)
(***************************************************************************)
EXTENDS FtpRefinement

CONSTANTS pdf, txt   \* a file whose extension is cached and one whose is not

Retr(f) == [t |-> "RETR", f |-> f]
Stor(f) == [t |-> "STOR", f |-> f]
List    == Say("LIST")

\* Downloads and uploads of both files.
WantTransfers == {Retr(pdf), Retr(txt), Stor(pdf), Stor(txt)}

WantAll  == WantTransfers \cup {List}
WantLive == WantAll \ {Stor(txt)}
WantPdf == {Retr(pdf), Stor(pdf)}

=============================================================================
