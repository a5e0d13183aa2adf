------------------------------ MODULE FtpStore ------------------------------
(***************************************************************************)
(* What the clients of the proxy may rely on, without connections, blocks  *)
(* or replies: a store of files in which every upload is atomic, and in    *)
(* front of it a copy of each cacheable file, made for the first download  *)
(* and never refreshed.                                                    *)
(*                                                                         *)
(* Version 0 of a file is what the server has at the start, version n what *)
(* transfer n uploads.                                                     *)
(***************************************************************************)
EXTENDS Naturals

CONSTANTS
    NOp,         \* transfers, numbered in order
    File,        \* file names
    Cacheable,   \* those that are copied
    OnServer     \* those in the store at the start

VARIABLES
    versions,    \* the version of each file in the store
    copies,      \* the version of each file that has been copied
    asked,       \* what each transfer that was started is to do
    result       \* the version each finished transfer has delivered or stored

vars == <<versions, copies, asked, result>>

With(fn, x, y) == [z \in DOMAIN fn \cup {x} |-> IF z = x THEN y ELSE fn[z]]

Init ==
    /\ versions = [f \in OnServer |-> 0]
    /\ copies = [f \in {} |-> 0] /\ asked = [n \in {} |-> 0]
    /\ result = [n \in {} |-> 0]

Ask(n) ==
    /\ n \notin DOMAIN asked
    /\ \E m \in [t : {"RETR", "STOR"}, f : File] : asked' = With(asked, n, m)
    /\ UNCHANGED <<versions, copies, result>>

Active(n, t) == n \in DOMAIN asked \ DOMAIN result /\ asked[n].t = t

Upload(n) ==
    /\ Active(n, "STOR")
    /\ versions' = With(versions, asked[n].f, n)
    /\ UNCHANGED <<copies, asked, result>>

\* The upload is acknowledged; the store has it.
Acknowledge(n) ==
    /\ Active(n, "STOR")
    /\ asked[n].f \in DOMAIN versions /\ versions[asked[n].f] = n
    /\ result' = With(result, n, n)
    /\ UNCHANGED <<versions, copies, asked>>

\* A download makes the copy, once.
Copied(n) ==
    /\ Active(n, "RETR")
    /\ asked[n].f \in (Cacheable \cap DOMAIN versions) \ DOMAIN copies
    /\ copies' = With(copies, asked[n].f, versions[asked[n].f])

Copy(n) == Copied(n) /\ UNCHANGED <<versions, asked, result>>

\* A cacheable file is delivered from its copy, another from the store.
Deliver(n) ==
    /\ Active(n, "RETR")
    /\ Copied(n) \/ UNCHANGED copies
    /\ LET from == IF asked[n].f \in Cacheable THEN copies' ELSE versions IN
          asked[n].f \in DOMAIN from /\ result' = With(result, n, from[asked[n].f])
    /\ UNCHANGED <<versions, asked>>

Next == \E n \in 1..NOp :
           Ask(n) \/ Upload(n) \/ Acknowledge(n) \/ Copy(n) \/ Deliver(n)

Spec == Init /\ [][Next]_vars

-----------------------------------------------------------------------------
(* What the abstract behaviour gives. *)

\* Two downloads of a cacheable file deliver the same version, whatever has
\* been uploaded between them: the copy is never refreshed.
SameVersion ==
    \A n, k \in DOMAIN result :
        /\ asked[n] = asked[k] /\ asked[n].t = "RETR" /\ asked[n].f \in Cacheable
        => result[n] = result[k]
=============================================================================
