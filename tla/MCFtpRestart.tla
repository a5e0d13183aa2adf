---------------------------- MODULE MCFtpRestart ----------------------------
(* Instances of FtpRestart for TLC. *)
EXTENDS FtpRestart

CONSTANTS pdf, txt   \* a file whose extension is cached and one whose is not

WantBoth == {[t |-> "RETR", f |-> pdf], [t |-> "RETR", f |-> txt],
             [t |-> "STOR", f |-> pdf]}
=============================================================================
