--------------------------- MODULE Startup_proofs ---------------------------
(***************************************************************************)
(* Proofs about Startup, for any number of processes, addresses and ports. *)
(***************************************************************************)
EXTENDS Startup, TLAPS

(***************************************************************************)
(* A process serves on what it listens on, with UDP on what it has bound.  *)
(* That two never share it is not to be had from the programs alone: it    *)
(* needs that bind() and listen() were asked for the address that sockfd   *)
(* stands for, and that nobody else was there at that moment.              *)
(***************************************************************************)
Endpoint(x) == IF job[x].prog \in Udp THEN bound[x] ELSE lsn[x]

Apart ==
    \A x \in Proc : \A a \in Endpoint(x) :
        /\ <<Port(x), a>> \notin other
        /\ \A y \in Proc \ {x} : Port(y) = Port(x) => a \notin Endpoint(y)

\* What the process x keeps by itself.
First(x)   == pc[x] = "getaddrinfo" => p[x] = 1
Serving(x) == pc[x] \in Serves => sockfd[x] \in Endpoint(x)
\* The sockets of addresses before p that were not closed.
Left(x) == IF job[x].prog = "udpsrv" THEN works[x] \cap (1..(p[x] - 1)) ELSE {}
Socket1(x) ==
    /\ pc[x] \in Uses => /\ sockfd[x] = p[x] /\ p[x] \in works[x]
                         /\ held[x] = Left(x) \cup {p[x]}
    /\ pc[x] = "socket" => held[x] = Left(x)
    /\ pc[x] \notin Uses \cup {"socket"} => held[x] = {}

Types ==
    /\ job \in Jobs
    /\ works \in [Proc -> SUBSET Addr]
    /\ pc \in [Proc -> Calls \cup Serves \cup {"connected", "failed", "done"}]
    /\ p \in [Proc -> 1..(NAddr + 1)] /\ sockfd \in [Proc -> 0..NAddr]
    /\ held \in [Proc -> SUBSET Addr]
    /\ bound \in [Proc -> SUBSET Addr] /\ lsn \in [Proc -> SUBSET Addr]

Own(x) == First(x) /\ Serving(x) /\ Socket1(x)
Inv == Types /\ Apart /\ \A x \in Proc : Own(x)

\* The part of the state that a step of process x may change for x alone.
Elsewhere(x) ==
    /\ UNCHANGED <<job, works>> /\ other' \subseteq other
    /\ \A y \in Proc \ {x} :
          /\ pc'[y] = pc[y] /\ p'[y] = p[y] /\ sockfd'[y] = sockfd[y]
          /\ held'[y] = held[y] /\ bound'[y] = bound[y] /\ lsn'[y] = lsn[y]

\* An address on which nobody is yet.
Vacant(x, a) ==
    /\ <<Port(x), a>> \notin other
    /\ \A y \in Proc \ {x} : Port(y) = Port(x) => a \notin Endpoint(y)

\* Processes on one port are both UDP or both TCP.
LEMMA SameKind ==
    ASSUME job \in Jobs, NEW x \in Proc, NEW y \in Proc, Port(x) = Port(y)
    PROVE  job[x].prog \in Udp <=> job[y].prog \in Udp
BY DEF Port

\* It is enough to look at the process that moves: what it keeps by itself,
\* and that it goes to no address where somebody is.
LEMMA OneMoves ==
    ASSUME Inv, NEW x \in Proc, Types', Elsewhere(x), Own(x)',
           \A a \in Endpoint(x)' : a \in Endpoint(x) \/ Vacant(x, a)
    PROVE  Inv'
<1>1. ASSUME NEW y \in Proc \ {x}
      PROVE  Own(y)' /\ Endpoint(y)' = Endpoint(y)
  <2>1. Own(y)
    BY DEF Inv
  <2> QED  BY <2>1 DEF Own, First, Serving, Socket1, Left, Endpoint, Elsewhere
<1>2. \A y \in Proc : Port(y)' = Port(y)
  BY DEF Port, Elsewhere
<1>3. Apart'
  <2> SUFFICES ASSUME NEW z \in Proc, NEW a \in Endpoint(z)'
               PROVE  /\ <<Port(z)', a>> \notin other'
                      /\ \A y \in Proc \ {z} : Port(y)' = Port(z)' => a \notin Endpoint(y)'
    BY DEF Apart
  <2> USE DEF Inv, Apart, Vacant, Elsewhere
  <2>1. CASE z = x
    BY <1>1, <1>2, <2>1
  <2>2. CASE z # x
    BY <1>1, <1>2, <2>2
  <2> QED  BY <2>1, <2>2
<1> QED  BY <1>1, <1>3 DEF Inv

\* A step of x writes values of the right types.
LEMMA TypesOf ==
    ASSUME Types, NEW x \in Proc, UNCHANGED <<job, works>>,
           NEW c \in Calls \cup Serves \cup {"connected", "failed", "done"},
           NEW i \in 1..(NAddr + 1), NEW n \in 0..NAddr, NEW h \in SUBSET Addr,
           pc' = [pc EXCEPT ![x] = c], p' = [p EXCEPT ![x] = i],
           sockfd' = [sockfd EXCEPT ![x] = n], held' = [held EXCEPT ![x] = h],
           UNCHANGED <<bound, lsn>>
    PROVE  Types'
BY DEF Types

\* The loop goes on to the next address.
LEMMA LeftNext ==
    ASSUME NEW x \in Proc, p[x] \in Nat \ {0}, p'[x] = p[x] + 1, UNCHANGED <<job, works>>
    PROVE  Left(x)' = Left(x) \cup
               IF job[x].prog = "udpsrv" THEN works[x] \cap {p[x]} ELSE {}
<1>1. 1..(p'[x] - 1) = (1..(p[x] - 1)) \cup {p[x]}
  OBVIOUS
<1> QED  BY <1>1 DEF Left

\* When a process ends it has nothing.
LEMMA ExitInv ==
    ASSUME Inv, NEW x \in Proc, NEW how \in {"failed", "done"}, Exit(x, how),
           UNCHANGED <<host, other, p, sockfd>>
    PROVE  Inv'
<1> USE DEF Inv, Types, host
<1>1. Types' /\ Elsewhere(x)
  BY DEF Exit, Elsewhere
<1>2. pc'[x] = how /\ held'[x] = {} /\ bound'[x] = {} /\ lsn'[x] = {}
  BY DEF Exit
<1>3. Own(x)'
  BY <1>2 DEF Own, First, Serving, Socket1, Serves, Uses
<1>4. Endpoint(x)' = {}
  BY <1>2 DEF Endpoint
<1> QED  BY <1>1, <1>3, <1>4, OneMoves

LEMMA LookupInv == ASSUME Inv, NEW x \in Proc, Lookup(x) PROVE Inv'
<1> USE DEF Inv, Types, host
<1>1. CASE Exit(x, "failed")
  BY <1>1, ExitInv DEF Lookup
<1>2. CASE pc' = [pc EXCEPT ![x] = "socket"] /\ UNCHANGED <<held, bound, lsn, queue>>
  <2>1. Types' /\ Elsewhere(x)
    BY <1>2 DEF Lookup, Elsewhere, Calls
  <2>2. pc'[x] = "socket" /\ p'[x] = 1 /\ held'[x] = {}
    BY <1>2 DEF Lookup, Own, First, Socket1, Left, Uses, Serves
  <2>3. Own(x)' /\ Endpoint(x)' = Endpoint(x)
    BY <1>2, <2>2 DEF Lookup, Own, First, Serving, Socket1, Left, Serves, Uses, Endpoint
  <2> QED  BY <2>1, <2>3, OneMoves
<1> QED  BY <1>1, <1>2 DEF Lookup

LEMMA SocketInv ==
    ASSUME Inv, NEW x \in Proc, NEW then \in {"bind", "connect", "sendto"}, Socket(x, then)
    PROVE  Inv'
<1> USE DEF host
<1>1. Elsewhere(x) /\ Endpoint(x)' = Endpoint(x)
  BY DEF Socket, Elsewhere, Endpoint, Inv, Types
<1>2. /\ Types /\ pc[x] = "socket" /\ held[x] = Left(x)
      /\ p[x] \in 1..NAddr /\ sockfd[x] \in 0..NAddr
      /\ held[x] \subseteq Addr /\ works[x] \subseteq Addr
  BY DEF Inv, Types, Socket, Addr, Own, Socket1
<1>3. NAddr \in Nat
  BY StartupAssumption
<1>4. /\ pc = [pc EXCEPT ![x] = pc[x]] /\ p = [p EXCEPT ![x] = p[x]]
      /\ sockfd = [sockfd EXCEPT ![x] = sockfd[x]] /\ held = [held EXCEPT ![x] = held[x]]
  BY DEF Inv, Types
<1>5. CASE p[x] \in works[x]
  <2>1. /\ pc' = [pc EXCEPT ![x] = then] /\ p' = p
        /\ sockfd' = [sockfd EXCEPT ![x] = p[x]]
        /\ held' = [held EXCEPT ![x] = held[x] \cup {p[x]}]
        /\ UNCHANGED <<job, works, bound, lsn>>
    BY <1>5 DEF Socket
  <2>2. held[x] \cup {p[x]} \in SUBSET Addr /\ p[x] \in 0..NAddr /\ p[x] \in 1..(NAddr + 1)
    BY <1>2, <1>3 DEF Addr
  <2>3. Types'
    BY <1>2, <1>4, <2>1, <2>2, TypesOf DEF Calls
  <2>4. /\ pc'[x] = then /\ p'[x] = p[x] /\ sockfd'[x] = p[x]
        /\ held'[x] = Left(x) \cup {p[x]} /\ Left(x)' = Left(x)
    BY <1>2, <2>1 DEF Types, Left
  <2>5. Own(x)'
    BY <1>5, <2>1, <2>4 DEF Own, First, Serving, Socket1, Serves, Uses
  <2> QED  BY <1>1, <2>3, <2>5, OneMoves
<1>6. CASE p[x] \notin works[x]
  <2>1. p' = [p EXCEPT ![x] = p[x] + 1] /\ UNCHANGED <<job, works, pc, sockfd, held, bound, lsn>>
    BY <1>6 DEF Socket
  <2>2. p[x] + 1 \in 1..(NAddr + 1) /\ p[x] \in Nat \ {0}
    BY <1>2, <1>3
  <2>3. Types'
    BY <1>2, <2>1, <2>2 DEF Types
  <2>4. p'[x] = p[x] + 1
    BY <1>2, <2>1 DEF Types
  <2>5. Left(x)' = Left(x)
    BY <1>6, <2>1, <2>2, <2>4, LeftNext
  <2>6. Own(x)'
    BY <1>2, <2>1, <2>5 DEF Own, First, Serving, Socket1, Serves, Uses
  <2> QED  BY <1>1, <2>3, <2>6, OneMoves
<1> QED  BY <1>5, <1>6

\* "continue": the socket is closed, by udpsrv.c not.
LEMMA NextAddrInv ==
    ASSUME Inv, NEW x \in Proc, NEW closes \in BOOLEAN, pc[x] \in {"bind", "connect"},
           closes <=> job[x].prog # "udpsrv", NextAddr(x, closes),
           UNCHANGED <<host, other, bound, lsn>>
    PROVE  Inv'
<1> USE DEF host
<1>1. Elsewhere(x) /\ Endpoint(x)' = Endpoint(x)
  BY DEF NextAddr, Elsewhere, Endpoint, Inv, Types
<1>2. /\ Types /\ sockfd[x] = p[x] /\ held[x] = Left(x) \cup {p[x]}
      /\ p[x] \in works[x] /\ held[x] \subseteq Addr /\ p[x] \in Addr
  BY DEF Inv, Types, Own, Socket1, Uses
<1>3. p[x] \in Nat \ {0} /\ p[x] + 1 \in 1..(NAddr + 1) /\ p[x] \in 0..NAddr
  BY <1>2, StartupAssumption DEF Addr
<1>4. /\ pc' = [pc EXCEPT ![x] = "socket"] /\ p' = [p EXCEPT ![x] = p[x] + 1]
      /\ held' = [held EXCEPT ![x] = IF closes THEN held[x] \ {p[x]} ELSE held[x]]
      /\ sockfd' = [sockfd EXCEPT ![x] = sockfd[x]]
      /\ UNCHANGED <<job, works, bound, lsn>>
  BY <1>2 DEF NextAddr, Types
<1>5. Types'
  <2> DEFINE h == IF closes THEN held[x] \ {p[x]} ELSE held[x]
  <2>1. h \in SUBSET Addr /\ held' = [held EXCEPT ![x] = h] /\ sockfd[x] \in 0..NAddr
    BY <1>2, <1>3, <1>4
  <2>2. "socket" \in Calls
    BY DEF Calls
  <2> HIDE DEF h
  <2> QED  BY <1>2, <1>3, <1>4, <2>1, <2>2, TypesOf
<1>6. pc'[x] = "socket" /\ p'[x] = p[x] + 1
      /\ held'[x] = IF closes THEN held[x] \ {p[x]} ELSE held[x]
  BY <1>2, <1>4 DEF Types
<1>7. Left(x)' = Left(x) \cup IF job[x].prog = "udpsrv" THEN works[x] \cap {p[x]} ELSE {}
  BY <1>3, <1>4, <1>6, LeftNext
<1>8. held'[x] = Left(x)'
  <2>1. CASE closes
    BY <1>2, <1>6, <1>7, <2>1 DEF Left
  <2>2. CASE ~closes
    BY <1>2, <1>6, <1>7, <2>2
  <2> QED  BY <2>1, <2>2
<1>9. Own(x)'
  BY <1>6, <1>8 DEF Own, First, Serving, Socket1, Serves, Uses
<1> QED  BY <1>1, <1>5, <1>9, OneMoves

\* A bind() for UDP goes to an address that nobody has bound.
LEMMA BindInv ==
    ASSUME Inv, NEW x \in Proc, NEW reuse \in BOOLEAN, NEW closes \in BOOLEAN,
           NEW then \in {"listen", "up"}, Bind(x, reuse, closes, then),
           job[x].prog \in Udp <=> ~reuse, then = "up" <=> ~reuse,
           closes <=> job[x].prog # "udpsrv"
    PROVE  Inv'
<1> USE DEF host
<1>1. CASE InUse(x, sockfd[x], reuse)
  BY <1>1, NextAddrInv DEF Bind
<1>2. CASE ~InUse(x, sockfd[x], reuse)
  <2>1. /\ pc' = [pc EXCEPT ![x] = then]
        /\ bound' = [bound EXCEPT ![x] = bound[x] \cup {sockfd[x]}]
        /\ pc[x] = "bind" /\ UNCHANGED <<job, works, other, p, sockfd, held, lsn>>
    BY <1>2 DEF Bind, loop
  <2>2. /\ Types /\ sockfd[x] = p[x] /\ p[x] \in works[x] /\ held[x] = Left(x) \cup {p[x]}
        /\ bound[x] \cup {sockfd[x]} \in SUBSET Addr
    BY <2>1 DEF Inv, Types, Own, Socket1, Uses
  <2>3. Types' /\ Elsewhere(x)
    BY <2>1, <2>2 DEF Types, Elsewhere, Calls, Serves
  <2>4. pc'[x] = then /\ bound'[x] = bound[x] \cup {sockfd[x]} /\ Left(x)' = Left(x)
    BY <2>1, <2>2 DEF Types, Left
  <2>5. Own(x)'
    BY <2>1, <2>2, <2>4 DEF Own, First, Serving, Socket1, Serves, Uses, Endpoint
  <2>6. ASSUME NEW a \in Endpoint(x)' PROVE a \in Endpoint(x) \/ Vacant(x, a)
    <3>1. CASE reuse
      BY <2>1, <2>6, <3>1 DEF Endpoint
    <3>2. CASE ~reuse
      <4>1. a \in bound[x] \cup {sockfd[x]} /\ Endpoint(x) = bound[x]
        BY <2>1, <2>4, <2>6, <3>2 DEF Endpoint
      <4>2. \A y \in Proc \ {x} : Port(y) = Port(x) => Endpoint(y) = bound[y]
        BY <3>2, SameKind DEF Inv, Types, Endpoint
      <4>3. Vacant(x, sockfd[x])
        BY <1>2, <3>2, <4>2 DEF InUse, Vacant
      <4> QED  BY <4>1, <4>3
    <3> QED  BY <3>1, <3>2
  <2> QED  BY <2>3, <2>5, <2>6, OneMoves
<1> QED  BY <1>1, <1>2

\* Of two that have bound one address only the first to listen() gets it.
LEMMA ListenInv ==
    ASSUME Inv, NEW x \in Proc, Listen(x), job[x].prog \in {"proxy", "srv", "srv02"}
    PROVE  Inv'
<1> USE DEF host
<1>1. CASE InUse(x, sockfd[x], TRUE)
  BY <1>1, ExitInv DEF Listen
<1>2. CASE ~InUse(x, sockfd[x], TRUE)
  <2>1. /\ pc' = [pc EXCEPT ![x] = "up"]
        /\ lsn' = [lsn EXCEPT ![x] = lsn[x] \cup {sockfd[x]}]
        /\ pc[x] = "listen" /\ UNCHANGED <<job, works, other, p, sockfd, held, bound>>
    BY <1>2 DEF Listen, loop
  <2>2. /\ Types /\ sockfd[x] = p[x] /\ p[x] \in works[x] /\ held[x] = Left(x) \cup {p[x]}
        /\ lsn[x] \cup {sockfd[x]} \in SUBSET Addr
    BY <2>1 DEF Inv, Types, Own, Socket1, Uses
  <2>3. Types' /\ Elsewhere(x)
    BY <2>1, <2>2 DEF Types, Elsewhere, Calls, Serves
  <2>4. /\ pc'[x] = "up" /\ lsn'[x] = lsn[x] \cup {sockfd[x]} /\ Left(x)' = Left(x)
        /\ job[x].prog \notin Udp
    BY <2>1, <2>2 DEF Types, Left, Udp
  <2>5. Own(x)'
    BY <2>1, <2>2, <2>4 DEF Own, First, Serving, Socket1, Serves, Uses, Endpoint
  <2>6. ASSUME NEW a \in Endpoint(x)' PROVE a \in Endpoint(x) \/ Vacant(x, a)
    <3>1. a \in lsn[x] \cup {sockfd[x]} /\ Endpoint(x) = lsn[x]
      BY <2>1, <2>4, <2>6 DEF Endpoint
    <3>2. \A y \in Proc \ {x} : Port(y) = Port(x) => Endpoint(y) = lsn[y]
      BY <2>4, SameKind DEF Inv, Types, Endpoint
    <3>3. Vacant(x, sockfd[x])
      BY <1>2, <3>2 DEF InUse, Vacant
    <3> QED  BY <3>1, <3>3
  <2> QED  BY <2>3, <2>5, <2>6, OneMoves
<1> QED  BY <1>1, <1>2

\* Neither connections nor datagrams change what anybody has bound.
LEMMA ConnectInv ==
    ASSUME Inv, NEW x \in Proc, Connect(x), job[x].prog \in {"cli", "cli02"}
    PROVE  Inv'
<1> USE DEF Inv, Types, host
<1>1. CASE Connected(x)
  <2>1. Types' /\ Elsewhere(x)
    BY <1>1 DEF Connect, Connected, Elsewhere, loop
  <2>2. Own(x)' /\ Endpoint(x)' = Endpoint(x)
    BY <1>1 DEF Connect, Connected, Own, First, Serving, Socket1, Left, Serves, Uses, Endpoint, loop
  <2> QED  BY <2>1, <2>2, OneMoves
<1>2. CASE NextAddr(x, TRUE) /\ UNCHANGED <<bound, lsn, queue>>
  BY <1>2, NextAddrInv DEF Connect
<1> QED  BY <1>1, <1>2 DEF Connect

LEMMA ScanInv == ASSUME Inv, NEW x \in Proc, proxy_main(x) PROVE Inv'
<1> USE DEF Inv, Types, host
<1>1. pc[x] \in Serves /\ pc' = [pc EXCEPT ![x] = pc'[x]] /\ pc'[x] \in Serves
  BY DEF proxy_main, Serves
<1>2. UNCHANGED <<host, other, loop, bound, lsn>>
  BY DEF proxy_main
<1>3. Types' /\ Elsewhere(x)
  BY <1>1, <1>2 DEF Elsewhere, loop
<1>4. Own(x)' /\ Endpoint(x)' = Endpoint(x)
  BY <1>1, <1>2 DEF Own, First, Serving, Socket1, Left, Serves, Uses, Endpoint, loop
<1> QED  BY <1>3, <1>4, OneMoves

LEMMA SendtoInv == ASSUME Inv, NEW x \in Proc, udpcli_sendto(x) PROVE Inv'
<1> USE DEF Inv, Types, host
<1>1. Types' /\ Elsewhere(x)
  BY DEF udpcli_sendto, Elsewhere
<1>2. pc'[x] = "done" /\ held'[x] = {} /\ job' = job /\ bound' = bound /\ lsn' = lsn
  BY DEF udpcli_sendto
<1>3. Own(x)' /\ Endpoint(x)' = Endpoint(x)
  BY <1>2 DEF Own, First, Serving, Socket1, Serves, Uses, Endpoint
<1> QED  BY <1>1, <1>3, OneMoves

\* Whatever program a process runs, each of its steps keeps the invariant.
LEMMA StepInv == ASSUME Inv, NEW x \in Proc, Step(x) PROVE Inv'
<1> USE DEF Inv, Types, host
<1>1. CASE NoneLeft(x)
  BY <1>1, ExitInv DEF NoneLeft
<1>2. CASE proxy_bindAndListenSocket(x) \/ srv_main(x) \/ srv02_main(x)
  <2>1. job[x].prog \in {"proxy", "srv", "srv02"}
    BY <1>2 DEF proxy_bindAndListenSocket, srv_main, srv02_main
  <2>2. CASE Bind(x, TRUE, TRUE, "listen")
    BY <2>1, <2>2, BindInv DEF Udp
  <2> QED
    BY <1>1, <1>2, <2>1, <2>2, LookupInv, SocketInv, ListenInv
    DEF proxy_bindAndListenSocket, srv_main, srv02_main
<1>3. CASE ftp_proxy_main(x)
  BY <1>3, ExitInv DEF ftp_proxy_main, ftp_proxy_bindAndListenSocket
<1>4. CASE cli_main(x) \/ cli02_main(x)
  BY <1>1, <1>4, LookupInv, SocketInv, ConnectInv DEF cli_main, cli02_main
<1>5. CASE udpsrv_main(x)
  <2>1. CASE Bind(x, FALSE, FALSE, "up")
    BY <1>5, <2>1, BindInv DEF udpsrv_main, Udp
  <2> QED  BY <1>1, <1>5, <2>1, LookupInv, SocketInv DEF udpsrv_main
<1>6. CASE udpsrv_recvfrom(x)
  BY <1>6, ExitInv DEF udpsrv_recvfrom
<1>7. CASE udpcli_main(x) \/ udpcli02_main(x)
  BY <1>1, <1>7, LookupInv, SocketInv DEF udpcli_main, udpcli02_main
<1>8. CASE udpsrv02_main(x)
  <2>1. CASE Bind(x, FALSE, TRUE, "up")
    BY <1>8, <2>1, BindInv DEF udpsrv02_main, Udp
  <2> QED  BY <1>1, <1>8, <2>1, LookupInv, SocketInv DEF udpsrv02_main
<1> QED
  BY <1>2, <1>3, <1>4, <1>5, <1>6, <1>7, <1>8, ScanInv, SendtoInv DEF Step

\* Inv holds at the start, and every step keeps it.
LEMMA InitInv == Init => Inv
<1> SUFFICES ASSUME Init PROVE Inv
  OBVIOUS
<1> USE StartupAssumption DEF Init
<1>1. Types
  BY DEF Types, Calls
<1>2. Apart
  BY DEF Apart, Endpoint
<1>3. \A x \in Proc : Own(x)
  BY DEF Own, First, Serving, Socket1, Serves, Uses
<1> QED  BY <1>1, <1>2, <1>3 DEF Inv

LEMMA NextInv == ASSUME Inv, [Next]_vars PROVE Inv'
<1>1. CASE UNCHANGED vars
  BY <1>1 DEF vars, host, loop, Inv, Types, Apart, Own, First, Serving, Socket1, Left, Endpoint, Port
<1>2. ASSUME NEW t \in other, Release(t) PROVE Inv'
  BY <1>2 DEF Release, host, loop, Inv, Types, Apart, Own, First, Serving, Socket1, Left, Endpoint, Port
<1> QED  BY <1>1, <1>2, StepInv DEF Next

LEMMA InvHolds == Spec => []Inv
BY InitInv, NextInv, PTL DEF Spec

\* OneSocketHolds: in every program, whatever addresses were tried in vain,
\* sockfd is the one open socket of the process, made for the address p;
\* udpsrv.c alone keeps those it could not bind (udpsrv.c:52).
THEOREM OneSocketHolds == Spec => []OneSocket
<1>1. ASSUME Inv PROVE OneSocket
  <2> SUFFICES ASSUME NEW x \in Proc
               PROVE  LET tried == IF pc[x] \in Uses THEN {p[x]} ELSE {}
                      IN  /\ pc[x] \in Uses => sockfd[x] = p[x] /\ p[x] \in held[x]
                          /\ IF job[x].prog = "udpsrv" /\ pc[x] \in Uses \cup {"socket"}
                             THEN held[x] = works[x] \cap ((1..(p[x] - 1)) \cup tried)
                             ELSE held[x] = tried
    BY DEF OneSocket
  <2>1. Socket1(x) /\ "socket" \notin Uses
    BY <1>1 DEF Inv, Own, Uses, Serves
  <2> QED  BY <2>1 DEF Socket1, Left
<1> QED  BY <1>1, InvHolds, PTL

\* OneServerHolds: two processes never serve on one address and port, nor one
\* and a program that was there before, in whatever order they bind() and
\* listen() (srv.c:131-154, srv02.c:118-138, proxy.c:89-108, udpsrv.c:46-58,
\* udpsrv02.c:80-93).
THEOREM OneServerHolds == Spec => []OneServer
<1>1. Inv => OneServer
  BY DEF Inv, Own, Serving, Apart, OneServer
<1> QED  BY <1>1, InvHolds, PTL

=============================================================================
