------------------------------ MODULE UdpEcho ------------------------------
(***************************************************************************)
(* The UDP echo server lab5/udpsrv02.c and its clients lab5/udpcli02.c.    *)
(* A client sends a line and blocks in recvfrom() until something arrives; *)
(* it looks at neither the sender nor the contents.  The server keeps one  *)
(* datagram, and the address it came from, in variables of the process.    *)
(*                                                                         *)
(* Left out: errors of sendto() and recvfrom(), a full socket buffer (a    *)
(* loss like any other), and datagrams from anybody else.                  *)
(***************************************************************************)
EXTENDS Naturals, Sequences

CONSTANTS
    Client,
    NLine,     \* lines a user types
    NDup       \* requests the network may deliver twice

ASSUME UdpEchoAssumption == NLine \in Nat /\ NDup \in Nat

VARIABLES
    typed,     \* per client: lines read from stdin and sent
    blocked,   \* the clients in recvfrom()
    printed,   \* per client: what fputs() printed
    srv,       \* the datagram in the server's recvline, between recvfrom() and
               \* sendto(); no element while it is in recvfrom()
    toSrv,     \* lines under way to the server
    toCli,     \* lines under way to a client
    lost,      \* whether something was lost
    dups       \* how many requests were delivered twice

vars == <<typed, blocked, printed, srv, toSrv, toCli, lost, dups>>

\* Line n that the user of client "of" types.
Line == [of : Client, n : 1..NLine]

Init ==
    /\ typed = [c \in Client |-> 0] /\ blocked = {}
    /\ printed = [c \in Client |-> <<>>]
    /\ srv = {} /\ toSrv = {} /\ toCli = {}
    /\ lost = FALSE /\ dups = 0

-----------------------------------------------------------------------------
(* dgram_cli() *)

\* fgets() and sendto().
Send(c) ==
    /\ c \notin blocked /\ typed[c] < NLine
    /\ typed' = [typed EXCEPT ![c] = @ + 1]
    /\ blocked' = blocked \cup {c}
    /\ toSrv' = toSrv \cup {[of |-> c, n |-> typed[c] + 1]}
    /\ UNCHANGED <<printed, srv, toCli, lost, dups>>

\* Mutant of Receive: recvfrom() may time out, and the client goes on.
Receive_Timeout(c) ==
    /\ c \in blocked
    /\ \/ \E d \in toCli :
            /\ d.to = c /\ toCli' = toCli \ {d}
            /\ printed' = [printed EXCEPT ![c] = Append(@, d.line)]
       \/ UNCHANGED <<toCli, printed>>
    /\ blocked' = blocked \ {c}
    /\ UNCHANGED <<typed, srv, toSrv, lost, dups>>

\* recvfrom() and fputs().
Receive(c) ==
    /\ c \in blocked
    /\ \E d \in toCli :
         /\ d.to = c /\ toCli' = toCli \ {d}
         /\ printed' = [printed EXCEPT ![c] = Append(@, d.line)]
    /\ blocked' = blocked \ {c}
    /\ UNCHANGED <<typed, srv, toSrv, lost, dups>>

-----------------------------------------------------------------------------
(* dgram_srv() *)

Recvfrom ==
    /\ srv = {}
    /\ \E d \in toSrv : srv' = {d} /\ toSrv' = toSrv \ {d}
    /\ UNCHANGED <<typed, blocked, printed, toCli, lost, dups>>

\* Mutant of Sendto: the answer goes to some other address.
Sendto_Any ==
    /\ \E d \in srv : \E c \in Client : toCli' = toCli \cup {[line |-> d, to |-> c]}
    /\ srv' = {}
    /\ UNCHANGED <<typed, blocked, printed, toSrv, lost, dups>>

Sendto ==
    /\ \E d \in srv : toCli' = toCli \cup {[line |-> d, to |-> d.of]}
    /\ srv' = {}
    /\ UNCHANGED <<typed, blocked, printed, toSrv, lost, dups>>

-----------------------------------------------------------------------------
(* The network: it may lose a datagram, deliver those under way in any      *)
(* order, and deliver a request once more at any later time.                *)

Lose ==
    /\ \/ \E d \in toSrv : toSrv' = toSrv \ {d} /\ UNCHANGED toCli
       \/ \E d \in toCli : toCli' = toCli \ {d} /\ UNCHANGED toSrv
    /\ lost' = TRUE
    /\ UNCHANGED <<typed, blocked, printed, srv, dups>>

Duplicate ==
    /\ dups < NDup /\ dups' = dups + 1
    /\ \E d \in Line : d.n <= typed[d.of] /\ toSrv' = toSrv \cup {d}
    /\ UNCHANGED <<typed, blocked, printed, srv, toCli, lost>>

-----------------------------------------------------------------------------
Next == \/ \E c \in Client : Send(c) \/ Receive(c)
        \/ Recvfrom \/ Sendto \/ Lose \/ Duplicate

\* The processes run when a datagram is there for them; users need not type.
Fairness == /\ WF_vars(Recvfrom) /\ WF_vars(Sendto)
            /\ \A c \in Client : WF_vars(Receive(c))
Spec == Init /\ [][Next]_vars
FairSpec == Spec /\ Fairness

-----------------------------------------------------------------------------
(***************************************************************************)
(* Properties.                                                             *)
(***************************************************************************)
Answers(c) == IF c \in blocked THEN typed[c] - 1 ELSE typed[c]

\* Echoed: unless the network duplicates a request, every client prints the
\* lines its user typed, each once and in order, although it accepts whatever
\* arrives (udpcli02.c line 29) and losses leave it blocked.
Echoed ==
    dups = 0 => \A c \in Client :
        printed[c] = [i \in 1..Answers(c) |-> [of |-> c, n |-> i]]

\* Behind: with duplicates the output may repeat or fall behind, but it is one
\* line of the client's own user per line typed, and never a line too early.
Behind ==
    \A c \in Client :
        /\ Len(printed[c]) = Answers(c)
        /\ \A i \in 1..Answers(c) : printed[c][i].of = c /\ printed[c][i].n <= i

\* Answered: unless a datagram is lost no client stays blocked in recvfrom(),
\* which has no timeout.
Answered == \A c \in Client : c \in blocked ~> (c \notin blocked \/ lost)

=============================================================================
