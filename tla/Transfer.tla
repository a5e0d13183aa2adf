------------------------------ MODULE Transfer ------------------------------
(***************************************************************************)
(* What a caller of Read() and Write() (ftp-project/Read.c, Write.c) may   *)
(* rely on: bytes move in some number of steps, never more than asked for, *)
(* and the value returned tells how many.  Nothing is promised for sizes   *)
(* that an int does not hold.                                              *)
(***************************************************************************)
EXTENDS Integers

CONSTANTS
    Size,      \* values of the parameter nbyte
    IntMax,    \* the largest int
    Running    \* no value is returned yet

VARIABLES
    op,        \* "Read" or "Write"
    nbyte,     \* what the caller asks for
    done,      \* how many bytes have moved
    ret        \* the value returned

vars == <<op, nbyte, done, ret>>

Init ==
    /\ op \in {"Read", "Write"} /\ nbyte \in Size
    /\ done = 0 /\ ret = Running

\* Some bytes move.
Move ==
    /\ ret = Running
    /\ done' \in (done + 1) .. nbyte
    /\ UNCHANGED <<op, nbyte, ret>>

\* Write() returns 0 when everything is written, Read() how much it has read,
\* which is less than nbyte only at the end of the file.
Success ==
    /\ ret = Running
    /\ \/ op = "Write" /\ done = nbyte /\ ret' = 0
       \/ op = "Read" /\ ret' = done
    /\ UNCHANGED <<op, nbyte, done>>

\* -1 tells nothing of the bytes that have moved; some are missing.
Failure ==
    /\ ret = Running /\ done < nbyte
    /\ ret' = -1
    /\ UNCHANGED <<op, nbyte, done>>

\* A size beyond IntMax: anything may be returned.
Beyond ==
    /\ ret = Running /\ nbyte > IntMax
    /\ done' \in done .. nbyte
    /\ ret' \in Int
    /\ UNCHANGED <<op, nbyte>>

Next == Move \/ Success \/ Failure \/ Beyond

Spec == Init /\ [][Next]_vars
=============================================================================
