---------------------------- MODULE MCLineServer ----------------------------
(* Two clients; a file whose second line is shorter than the first, which   *)
(* fills the buffer, and one of one short line; a name whose first eight    *)
(* characters are the name of a file, and one that is no file's.            *)
EXTENDS LineServer, TLC

CONSTANTS c1, c2, report, readme, readmes, nofile

MCClient == {c1, c2}
MCFile   == {report, readme}
MCName   == {report, readme, readmes, nofile}
MCLines  == (report :> <<3, 1>>) @@ (readme :> <<1>>)
MCFirst8 == (readmes :> readme) @@ [n \in MCName |-> n]
=============================================================================
