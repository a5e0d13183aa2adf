-------------------------------- MODULE Loops --------------------------------
(***************************************************************************)
(* The loops around read() and write() in ftp-project/Read.c and Write.c.  *)
(* Both keep the size, a size_t, in an int.                                *)
(*                                                                         *)
(* Left out: where the bytes go.  Write() takes them from its buffer; the  *)
(* pointer of Read() is never set, so that read() either fails with EFAULT *)
(* or puts the bytes in some other place of the program.                   *)
(***************************************************************************)
EXTENDS Integers

CONSTANTS
    Size,      \* values of the parameter nbyte
    IntMax,    \* the largest int
    Running    \* no value is returned yet

ASSUME LoopsAssumption == Size \subseteq Nat /\ IntMax \in Nat /\ Running \notin Int

VARIABLES
    op, nbyte, done, ret,   \* as in Transfer
    bytes_left,             \* an int
    errno                   \* "EINTR" or another one

vars == <<op, nbyte, done, ret, bytes_left, errno>>

\* The conversion to int: the value modulo 2 * (IntMax + 1).
ToInt(n) == IF n <= IntMax THEN n
            ELSE ((n + IntMax + 1) % (2 * (IntMax + 1))) - (IntMax + 1)

Init ==
    /\ op \in {"Read", "Write"} /\ nbyte \in Size
    /\ done = 0 /\ ret = Running
    /\ bytes_left = ToInt(nbyte)
    /\ errno \in {"EINTR", "other"}

InLoop == ret = Running /\ bytes_left > 0

\* The call returns a number of bytes, which may be less than asked for.
Transferred ==
    /\ InLoop
    /\ \E n \in 1 .. bytes_left :
          done' = done + n /\ bytes_left' = bytes_left - n
    /\ UNCHANGED <<op, nbyte, ret, errno>>

\* It returns -1: once more after a signal, otherwise the loop gives up.
Failed ==
    /\ InLoop
    /\ errno' \in {"EINTR", "other"}
    /\ ret' = IF errno' = "EINTR" THEN Running ELSE -1
    /\ UNCHANGED <<op, nbyte, done, bytes_left>>

\* Mutant of Zero: break in both loops.
Zero_Break ==
    /\ InLoop
    /\ ret' = IF op = "Read" THEN nbyte - bytes_left ELSE 0
    /\ UNCHANGED <<op, nbyte, done, bytes_left, errno>>

\* It returns 0: the end of the file for Read(); Write() looks at errno,
\* which is that of an earlier call.
Zero ==
    /\ InLoop
    /\ ret' = IF op = "Read" THEN nbyte - bytes_left
              ELSE IF errno = "EINTR" THEN Running ELSE -1
    /\ UNCHANGED <<op, nbyte, done, bytes_left, errno>>

\* Mutant of Return: while ( bytes_left >= 0 ).
Return_Late ==
    /\ ret = Running /\ bytes_left < 0
    /\ ret' = IF op = "Read" THEN nbyte - bytes_left ELSE 0
    /\ UNCHANGED <<op, nbyte, done, bytes_left, errno>>

\* The end of the loop.
Return ==
    /\ ret = Running /\ bytes_left <= 0
    /\ ret' = IF op = "Read" THEN nbyte - bytes_left ELSE 0
    /\ UNCHANGED <<op, nbyte, done, bytes_left, errno>>

Next == Transferred \/ Failed \/ Zero \/ Return

(***************************************************************************)
(* Fairness: the loop runs on, and a call that could move bytes does not   *)
(* fail or return 0 for ever.                                              *)
(***************************************************************************)
Spec     == Init /\ [][Next]_vars
FairSpec == Spec /\ WF_vars(Return) /\ SF_vars(Transferred)

-----------------------------------------------------------------------------
TypeOK ==
    /\ op \in {"Read", "Write"} /\ nbyte \in Size
    /\ done \in Nat /\ bytes_left \in Int
    /\ ret \in Int \cup {Running}
    /\ errno \in {"EINTR", "other"}

Promise == INSTANCE Transfer

\* The loops keep the promise: short counts, signals and an errno left by an
\* earlier call never make them lose count, so that Write() returns 0 only
\* when all is written and Read() the number of bytes it has read.
Promised == Promise!Spec

\* Both return, however often they are interrupted.
Returns == <>(ret # Running)
=============================================================================
