------------------------------- MODULE Startup -------------------------------
(***************************************************************************)
(* How the programs get their socket: the loops over the addresses that    *)
(* getaddrinfo() returns, in ftp-project/proxy.c and ftp_proxy.c,          *)
(* lab6/srv.c, cli.c, srv02.c and cli02.c, lab5/udpsrv.c, udpcli.c,        *)
(* udpsrv02.c and udpcli02.c, for any number of processes on one host; and *)
(* what udpsrv.c, udpcli.c and proxy.c then do.                            *)
(*                                                                         *)
(* An address stands for itself and for the socket made for it, since no   *)
(* process makes two for one address.                                      *)
(*                                                                         *)
(* Left out: malformed arguments, and what the other programs do with      *)
(* their sockets (LineServer, FileServer, UdpEcho).                        *)
(***************************************************************************)
EXTENDS Naturals, Sequences

CONSTANTS
    Proc,    \* processes
    NAddr,   \* addresses of the host, numbered as getaddrinfo() lists them
    Jobs,    \* which program each process may run, and the port it is told
    Works    \* for which addresses each process may get a socket

Udp     == {"udpsrv", "udpcli", "udpsrv02", "udpcli02"}
Program == Udp \cup {"proxy", "ftp_proxy", "srv", "cli", "srv02", "cli02"}
Addr    == 1..NAddr

ASSUME StartupAssumption ==
    /\ NAddr \in Nat
    /\ Jobs \subseteq [Proc -> [prog : Program, port : Nat]]
    /\ Works \subseteq [Proc -> SUBSET Addr]

VARIABLES
    job,      \* what each process runs
    works,    \* per process: the addresses for whose family it gets a socket
    other,    \* <<port, address>> pairs that some other program listens on
    pc,       \* per process: the call it makes next
    p,        \* per process: index of the address it tries
    sockfd,   \* per process: the variable of that name (0: not assigned yet)
    held,     \* per process: the sockets it has open
    bound,    \* per process: those that are bound
    lsn,      \* per process: those that listen
    queue,    \* per process: who has connected to it or sent to it
    lost      \* clients whose datagram was lost

host == <<job, works, lost>>
loop == <<p, sockfd, held>>
vars == <<host, other, loop, pc, bound, lsn, queue>>

\* The port that a process uses.  cli02.c reads the one it is told into
\* srvport and then asks getaddrinfo() for its own.
PORT    == 6280
Port(x) == <<IF job[x].prog \in Udp THEN "udp" ELSE "tcp",
             IF job[x].prog = "cli02" THEN PORT ELSE job[x].port>>

Init ==
    /\ job \in Jobs
    /\ works \in Works
    /\ other \in SUBSET ({Port(x) : x \in Proc} \X Addr)
    /\ pc = [x \in Proc |-> "getaddrinfo"]
    /\ p = [x \in Proc |-> 1] /\ sockfd = [x \in Proc |-> 0]
    /\ held = [x \in Proc |-> {}] /\ bound = [x \in Proc |-> {}]
    /\ lsn = [x \in Proc |-> {}] /\ queue = [x \in Proc |-> <<>>]
    /\ lost = {}

-----------------------------------------------------------------------------
(* The calls. *)

\* The program on one of the addresses ends.
Release(t) ==
    /\ t \in other /\ other' = other \ {t}
    /\ UNCHANGED <<host, loop, pc, bound, lsn, queue>>

\* The end of a process closes its sockets.
Exit(x, how) ==
    /\ pc' = [pc EXCEPT ![x] = how]
    /\ held' = [held EXCEPT ![x] = {}] /\ bound' = [bound EXCEPT ![x] = {}]
    /\ lsn' = [lsn EXCEPT ![x] = {}] /\ queue' = [queue EXCEPT ![x] = <<>>]

\* getaddrinfo(): the list of addresses, or an error.
Lookup(x) ==
    /\ pc[x] = "getaddrinfo"
    /\ \/ pc' = [pc EXCEPT ![x] = "socket"] /\ UNCHANGED <<held, bound, lsn, queue>>
       \/ Exit(x, "failed")
    /\ UNCHANGED <<host, other, p, sockfd>>

\* socket(), which fails for a family the system does not have: "continue".
Socket(x, then) ==
    /\ pc[x] = "socket" /\ p[x] \in Addr
    /\ IF p[x] \in works[x]
       THEN /\ held' = [held EXCEPT ![x] = @ \cup {p[x]}]
            /\ sockfd' = [sockfd EXCEPT ![x] = p[x]]
            /\ pc' = [pc EXCEPT ![x] = then] /\ UNCHANGED p
       ELSE p' = [p EXCEPT ![x] = @ + 1] /\ UNCHANGED <<held, sockfd, pc>>
    /\ UNCHANGED <<host, other, bound, lsn, queue>>

\* Mutant of NextAddr: the socket is never closed.
NextAddr_Open(x, closes) ==
    /\ p' = [p EXCEPT ![x] = @ + 1]
    /\ pc' = [pc EXCEPT ![x] = "socket"]
    /\ UNCHANGED <<sockfd, held>>

\* "continue" after the socket was closed, or without closing it.
NextAddr(x, closes) ==
    /\ p' = [p EXCEPT ![x] = @ + 1]
    /\ held' = IF closes THEN [held EXCEPT ![x] = @ \ {sockfd[x]}] ELSE held
    /\ pc' = [pc EXCEPT ![x] = "socket"]
    /\ UNCHANGED sockfd

\* Who is in the way of a bind(): with SO_REUSEADDR only who listens.
InUse(x, a, reuse) ==
    \/ <<Port(x), a>> \in other
    \/ \E y \in Proc \ {x} : /\ Port(y) = Port(x)
                             /\ a \in IF reuse THEN lsn[y] ELSE bound[y]

\* bind(); the loop ends with "break" when it succeeds.
Bind(x, reuse, closes, then) ==
    /\ pc[x] = "bind"
    /\ IF InUse(x, sockfd[x], reuse)
       THEN NextAddr(x, closes) /\ UNCHANGED bound
       ELSE /\ bound' = [bound EXCEPT ![x] = @ \cup {sockfd[x]}]
            /\ pc' = [pc EXCEPT ![x] = then]
            /\ UNCHANGED loop
    /\ UNCHANGED <<host, other, lsn, queue>>

\* Mutant of Listen: the result of listen() is not looked at.
Listen_Unchecked(x) ==
    /\ pc[x] = "listen"
    /\ lsn' = IF InUse(x, sockfd[x], TRUE) THEN lsn
              ELSE [lsn EXCEPT ![x] = @ \cup {sockfd[x]}]
    /\ pc' = [pc EXCEPT ![x] = "up"]
    /\ UNCHANGED <<host, other, loop, bound, queue>>

\* listen(): two processes may have bound one address, but only the first to
\* get here listens on it.
Listen(x) ==
    /\ pc[x] = "listen"
    /\ IF InUse(x, sockfd[x], TRUE) THEN Exit(x, "failed") /\ UNCHANGED <<p, sockfd>>
       ELSE /\ lsn' = [lsn EXCEPT ![x] = @ \cup {sockfd[x]}]
            /\ pc' = [pc EXCEPT ![x] = "up"]
            /\ UNCHANGED <<loop, bound, queue>>
    /\ UNCHANGED <<host, other>>

\* if (p == NULL): every address was tried in vain.
NoneLeft(x) ==
    /\ pc[x] = "socket" /\ p[x] \notin Addr
    /\ Exit(x, "failed")
    /\ UNCHANGED <<host, other, p, sockfd>>

\* Who listens where x connects to.
Reached(x) == {s \in Proc : Port(s) = Port(x) /\ sockfd[x] \in lsn[s]}
Connected(x) ==
    /\ pc' = [pc EXCEPT ![x] = "connected"]
    /\ \/ \E s \in Reached(x) : queue' = [queue EXCEPT ![s] = Append(@, x)]
       \/ <<Port(x), sockfd[x]>> \in other /\ UNCHANGED queue
    /\ UNCHANGED <<loop, bound, lsn>>
Refused(x) == Reached(x) = {} /\ <<Port(x), sockfd[x]>> \notin other

\* Mutant of Connect: "break" for "continue" after a refused connection.
Connect_Break(x) ==
    /\ pc[x] = "connect"
    /\ Connected(x) \/ (Refused(x) /\ Exit(x, "failed") /\ UNCHANGED <<p, sockfd>>)
    /\ UNCHANGED <<host, other>>

\* connect(): the loop ends with "break" where somebody listens.
Connect(x) ==
    /\ pc[x] = "connect"
    /\ \/ Connected(x)
       \/ Refused(x) /\ NextAddr(x, TRUE) /\ UNCHANGED <<bound, lsn, queue>>
    /\ UNCHANGED <<host, other>>

-----------------------------------------------------------------------------
(* The programs. *)

proxy_bindAndListenSocket(x) ==
    /\ job[x].prog = "proxy"
    /\ \/ Lookup(x) \/ Socket(x, "bind") \/ Bind(x, TRUE, TRUE, "listen")
       \/ NoneLeft(x) \/ Listen(x)

\* The main loop of proxy.c: select() tells it of a client, the scan
\* "i < fdmax" ends just before fdmax, which is the listener, and select()
\* returns at once, for ever.
proxy_main(x) ==
    /\ job[x].prog = "proxy"
    /\ \/ pc[x] = "up" /\ queue[x] # <<>> /\ pc' = [pc EXCEPT ![x] = "scan"]
       \/ pc[x] = "scan" /\ pc' = [pc EXCEPT ![x] = "up"]
    /\ UNCHANGED <<host, other, loop, bound, lsn, queue>>

\* ftp_proxy.c passes the address of one char, not a string of digits, as the
\* service: getaddrinfo() does not know it and the process exits.
ftp_proxy_bindAndListenSocket(x) == pc[x] = "getaddrinfo" /\ Exit(x, "failed")
ftp_proxy_main(x) ==
    /\ job[x].prog = "ftp_proxy"
    /\ ftp_proxy_bindAndListenSocket(x)
    /\ UNCHANGED <<host, other, p, sockfd>>

srv_main(x) ==
    /\ job[x].prog = "srv"
    /\ \/ Lookup(x) \/ Socket(x, "bind") \/ Bind(x, TRUE, TRUE, "listen")
       \/ NoneLeft(x) \/ Listen(x)

srv02_main(x) ==
    /\ job[x].prog = "srv02"
    /\ \/ Lookup(x) \/ Socket(x, "bind") \/ Bind(x, TRUE, TRUE, "listen")
       \/ NoneLeft(x) \/ Listen(x)

cli_main(x) ==
    /\ job[x].prog = "cli"
    /\ Lookup(x) \/ Socket(x, "connect") \/ Connect(x) \/ NoneLeft(x)

cli02_main(x) ==
    /\ job[x].prog = "cli02"
    /\ Lookup(x) \/ Socket(x, "connect") \/ Connect(x) \/ NoneLeft(x)

\* udpsrv.c does not close a socket it could not bind.
udpsrv_main(x) ==
    /\ job[x].prog = "udpsrv"
    /\ Lookup(x) \/ Socket(x, "bind") \/ Bind(x, FALSE, FALSE, "up") \/ NoneLeft(x)

udpsrv02_main(x) ==
    /\ job[x].prog = "udpsrv02"
    /\ Lookup(x) \/ Socket(x, "bind") \/ Bind(x, FALSE, TRUE, "up") \/ NoneLeft(x)

\* One datagram, and the program ends.
udpsrv_recvfrom(x) ==
    /\ job[x].prog = "udpsrv"
    /\ pc[x] = "up" /\ queue[x] # <<>>
    /\ Exit(x, "done")
    /\ UNCHANGED <<host, other, p, sockfd>>

\* Both take the first address they get a socket for.
udpcli_main(x) ==
    /\ job[x].prog = "udpcli"
    /\ Lookup(x) \/ Socket(x, "sendto") \/ NoneLeft(x)

udpcli02_main(x) ==
    /\ job[x].prog = "udpcli02"
    /\ Lookup(x) \/ Socket(x, "sendto") \/ NoneLeft(x)

\* Mutant of udpcli_sendto: "res" for "p".
udpcli_sendto_Res(x) ==
    /\ job[x].prog = "udpcli" /\ pc[x] = "sendto"
    /\ pc' = [pc EXCEPT ![x] = "done"] /\ held' = [held EXCEPT ![x] = {}]
    /\ \/ /\ queue' = [s \in Proc |->
                          IF Port(s) = Port(x) /\ 1 \in bound[s]
                          THEN Append(queue[s], x) ELSE queue[s]]
          /\ UNCHANGED lost
       \/ lost' = lost \cup {x} /\ UNCHANGED queue
    /\ UNCHANGED <<job, works, other, p, sockfd, bound, lsn>>

\* The datagram reaches who has bound the address, if it is not lost.
udpcli_sendto(x) ==
    /\ job[x].prog = "udpcli" /\ pc[x] = "sendto"
    /\ pc' = [pc EXCEPT ![x] = "done"] /\ held' = [held EXCEPT ![x] = {}]
    /\ \/ /\ queue' = [s \in Proc |->
                          IF Port(s) = Port(x) /\ sockfd[x] \in bound[s]
                          THEN Append(queue[s], x) ELSE queue[s]]
          /\ UNCHANGED lost
       \/ lost' = lost \cup {x} /\ UNCHANGED queue
    /\ UNCHANGED <<job, works, other, p, sockfd, bound, lsn>>

-----------------------------------------------------------------------------
Step(x) ==
    \/ proxy_bindAndListenSocket(x) \/ proxy_main(x) \/ ftp_proxy_main(x)
    \/ srv_main(x) \/ cli_main(x) \/ srv02_main(x) \/ cli02_main(x)
    \/ udpsrv_main(x) \/ udpsrv_recvfrom(x) \/ udpsrv02_main(x)
    \/ udpcli_main(x) \/ udpcli_sendto(x) \/ udpcli02_main(x)

Next == \/ \E x \in Proc : Step(x)
        \/ \E t \in other : Release(t)

(***************************************************************************)
(* Fairness: every process runs.  Other programs need not end.             *)
(***************************************************************************)
Spec     == Init /\ [][Next]_vars
FairSpec == Spec /\ \A x \in Proc : WF_vars(Step(x))

-----------------------------------------------------------------------------
(***************************************************************************)
(* Properties.                                                             *)
(***************************************************************************)
Calls  == {"getaddrinfo", "socket", "bind", "listen", "connect", "sendto"}
Serves == {"up", "scan"}
Uses   == Serves \cup {"bind", "listen", "connect", "connected", "sendto"}

TypeOK ==
    /\ job \in Jobs
    /\ works \in [Proc -> SUBSET Addr] /\ other \subseteq ({"tcp", "udp"} \X Nat) \X Addr
    /\ pc \in [Proc -> Calls \cup Serves \cup {"connected", "failed", "done"}]
    /\ p \in [Proc -> 1..(NAddr + 1)] /\ sockfd \in [Proc -> 0..NAddr]
    /\ held \in [Proc -> SUBSET Addr]
    /\ bound \in [Proc -> SUBSET Addr] /\ lsn \in [Proc -> SUBSET Addr]
    /\ queue \in [Proc -> Seq(Proc)]
    /\ lost \subseteq Proc

\* OneSocket: however many addresses were tried before, sockfd is a socket
\* made for the address p, it is open, and it is the only one the process
\* has; udpsrv.c alone, which does not close after a failed bind() (line 52),
\* has one for every address it got a socket for.
OneSocket ==
    \A x \in Proc :
        LET tried == IF pc[x] \in Uses THEN {p[x]} ELSE {}
        IN  /\ pc[x] \in Uses => sockfd[x] = p[x] /\ p[x] \in held[x]
            /\ IF job[x].prog = "udpsrv" /\ pc[x] \in Uses \cup {"socket"}
               THEN held[x] = works[x] \cap ((1..(p[x] - 1)) \cup tried)
               ELSE held[x] = tried

\* OneServer: two processes never serve on one address and port, nor one and a
\* program that was there before, although SO_REUSEADDR lets both bind()
\* (srv.c lines 131-154, srv02.c lines 118-138, proxy.c lines 89-108).
OneServer ==
    \A x \in Proc : pc[x] \in Serves =>
        /\ <<Port(x), sockfd[x]>> \notin other
        /\ \A y \in Proc \ {x} : pc[y] \in Serves /\ Port(y) = Port(x) =>
              sockfd[y] # sockfd[x]

\* Reaches: a client that begins to try the addresses of the host while a
\* server is up on the port it uses finds it, whichever address that is (cli.c
\* lines 99-120, cli02.c lines 98-118).
Begins(c)   == job[c].prog \in {"cli", "cli02"} /\ pc[c] = "socket" /\ p[c] = 1
UpFor(c, a) == \E s \in Proc : /\ pc[s] = "up" /\ Port(s) = Port(c)
                               /\ sockfd[s] = a
Reaches ==
    \A c \in Proc :
        [](Begins(c) /\ (\E a \in works[c] : UpFor(c, a)) => [](pc[c] # "failed"))

\* Heard: a datagram to the address that udpsrv.c has bound ends its wait, if
\* it is not lost (udpcli.c line 51, udpsrv.c line 70).
Heard ==
    \A c, s \in Proc :
        /\ job[c].prog = "udpcli" /\ pc[c] = "sendto"
        /\ job[s].prog = "udpsrv" /\ pc[s] = "up"
        /\ Port(s) = Port(c) /\ sockfd[s] = sockfd[c]
        ~> c \in lost \/ pc[s] = "done"
=============================================================================
