--------------------------- MODULE FtpRefinement ---------------------------
(***************************************************************************)
(* Proxy, clients and server together implement FtpStore, as long as they  *)
(* take turns and the server has what it is asked for.                     *)
(***************************************************************************)
EXTENDS FtpSystem

\* The version that some blocks are, or a number that is none when they are
\* not one whole version.
VersionOf(f, blocks) ==
    IF Whole(f, blocks) THEN CHOOSE v \in {0} \cup Op : blocks = Contents(f, v)
    ELSE NOp + 1

\* A copy exists from the moment its file is closed.
Copies == {f \in DOMAIN disk : ~CacheOpen(f)}

StoreTransfers == {n \in Op : op[n].m.t \in {"RETR", "STOR"}}

Store == INSTANCE FtpStore WITH
    versions <- [f \in DOMAIN sdisk |-> VersionOf(f, sdisk[f])],
    copies   <- [f \in Copies |-> VersionOf(f, disk[f])],
    asked    <- [n \in StoreTransfers |-> op[n].m],
    result   <- [n \in {k \in StoreTransfers : Finished(k, op[k].m.t)} |->
                    IF op[n].m.t = "STOR" THEN n
                    ELSE VersionOf(op[n].m.f, op[n].got)]

\* ImplementsStore: every step of proxy, clients and server is a step of the
\* abstract store or none: uploads replace a file at once, a download of a
\* cacheable file delivers the copy that its first download made of what the
\* server had at that moment, also after the file was uploaded again (lines
\* 215-229, 231-235 do not touch the copy), any other download delivers what
\* the server has.
ImplementsStore == Store!Spec
=============================================================================
