--------------------------- MODULE UdpEcho_proofs ---------------------------
(***************************************************************************)
(* Proofs about UdpEcho, for any set of clients and any number of lines,   *)
(* losses and duplicates.                                                  *)
(***************************************************************************)
EXTENDS UdpEcho, TLAPS


TypeInv ==
    /\ typed \in [Client -> 0..NLine] /\ blocked \subseteq Client
    /\ \A c \in blocked : typed[c] > 0
    /\ printed \in [Client -> Seq(Line)]
    /\ srv \subseteq Line /\ toSrv \subseteq Line
    /\ toCli \subseteq [line : Line, to : Client]
    /\ dups \in Nat

\* No line is under way before it is typed, and an answer goes to its sender.
SentInv ==
    /\ \A d \in toSrv \cup srv : d.n <= typed[d.of]
    /\ \A d \in toCli : d.to = d.line.of /\ d.line.n <= typed[d.to]
    /\ \A d, e \in srv : d = e

BehindInv ==
    \A c \in Client :
        /\ Len(printed[c]) = Answers(c)
        /\ \A i \in 1..Answers(c) : printed[c][i].of = c /\ printed[c][i].n <= i

\* Without duplicates at most one datagram of a client is under way, it is of
\* the last line typed, and the client waits for it.
AloneInv ==
    dups = 0 =>
        /\ \A d \in toSrv : /\ d.of \in blocked /\ d.n = typed[d.of]
                            /\ \A e \in srv : e.of # d.of
                            /\ \A e \in toCli : e.to # d.of
        /\ \A d \in srv : /\ d.of \in blocked /\ d.n = typed[d.of]
                          /\ \A e \in toCli : e.to # d.of
        /\ \A d \in toCli : d.to \in blocked /\ d.line.n = typed[d.to]
        /\ \A d, e \in toCli : d.to = e.to => d = e
        /\ \A c \in Client : \A i \in 1..Answers(c) : printed[c][i].n = i

Inv == TypeInv /\ SentInv /\ BehindInv /\ AloneInv

\* InitInv: nothing typed, nothing sent, nothing answered.
LEMMA InitInv == Init => Inv
BY UdpEchoAssumption DEF Init, Inv, TypeInv, SentInv, BehindInv, AloneInv, Answers, Line

\* SendInv: a new line is a datagram of its own.
LEMMA SendInv == ASSUME Inv, NEW c \in Client, Send(c) PROVE Inv'
<1> USE UdpEchoAssumption
<1>1. TypeInv'
  <2>1. typed[c] \in 0..NLine /\ typed[c] < NLine
    BY DEF Inv, TypeInv, Send
  <2>2. typed' \in [Client -> 0..NLine] /\ \A x \in blocked' : typed'[x] > 0
    BY <2>1 DEF Inv, TypeInv, Send
  <2>3. [of |-> c, n |-> typed[c] + 1] \in Line
    BY <2>1 DEF Line
  <2> QED  BY <2>2, <2>3 DEF Inv, TypeInv, Send
<1>2. SentInv'
  BY DEF Inv, TypeInv, SentInv, Send, Line
<1>3. \A x \in Client : Answers(x)' = Answers(x)
  BY DEF Inv, TypeInv, Send, Answers
<1>4. BehindInv'
  BY <1>3 DEF Inv, BehindInv, Send
<1>5. AloneInv'
  BY <1>3 DEF Inv, TypeInv, AloneInv, Send, Line
<1> QED  BY <1>1, <1>2, <1>4, <1>5 DEF Inv

\* ReceiveInv: what the client reads is an answer to one of its lines.
LEMMA ReceiveInv == ASSUME Inv, NEW c \in Client, Receive(c) PROVE Inv'
<1> USE UdpEchoAssumption
<1>1. PICK d \in toCli : /\ d.to = c /\ toCli' = toCli \ {d}
                         /\ printed' = [printed EXCEPT ![c] = Append(@, d.line)]
  BY DEF Receive
<1>2. d.line \in Line /\ d.line.of = c /\ d.line.n <= typed[c] /\ typed[c] \in Nat \ {0}
  BY <1>1 DEF Inv, TypeInv, SentInv, Receive
<1>3. TypeInv'
  BY <1>1, <1>2 DEF Inv, TypeInv, Receive
<1>4. SentInv'
  BY <1>1 DEF Inv, SentInv, Receive
<1>5. /\ Answers(c)' = typed[c] /\ Answers(c) = typed[c] - 1
      /\ \A x \in Client \ {c} : Answers(x)' = Answers(x) /\ printed'[x] = printed[x]
  BY <1>1 DEF Inv, TypeInv, Receive, Answers
<1>6. /\ Len(printed'[c]) = typed[c] /\ printed'[c][typed[c]] = d.line
      /\ \A i \in 1..(typed[c] - 1) : printed'[c][i] = printed[c][i]
  BY <1>1, <1>2, <1>5 DEF Inv, TypeInv, BehindInv
<1>7. BehindInv'
  <2> SUFFICES ASSUME NEW x \in Client
               PROVE  /\ Len(printed'[x]) = Answers(x)'
                      /\ \A i \in 1..Answers(x)' :
                            printed'[x][i].of = x /\ printed'[x][i].n <= i
    BY DEF BehindInv
  <2>1. CASE x = c
    <3> SUFFICES ASSUME NEW i \in 1..typed[c]
                 PROVE  printed'[c][i].of = c /\ printed'[c][i].n <= i
      BY <1>5, <1>6, <2>1
    <3>1. CASE i = typed[c]
      BY <1>2, <1>6, <3>1
    <3>2. CASE i # typed[c]
      BY <1>2, <1>5, <1>6, <3>2 DEF Inv, BehindInv
    <3> QED  BY <3>1, <3>2
  <2>2. CASE x # c
    BY <1>5, <2>2 DEF Inv, BehindInv
  <2> QED  BY <2>1, <2>2
<1>8. ASSUME dups' = 0 PROVE AloneInv'
  <2>1. dups = 0
    BY <1>8 DEF Receive
  <2>2. \A x \in Client : \A i \in 1..Answers(x)' : printed'[x][i].n = i
    <3> SUFFICES ASSUME NEW x \in Client, NEW i \in 1..Answers(x)'
                 PROVE  printed'[x][i].n = i
      OBVIOUS
    <3>1. CASE x = c /\ i = typed[c]
      BY <1>1, <1>6, <2>1, <3>1 DEF Inv, AloneInv
    <3>2. CASE x = c /\ i # typed[c]
      BY <1>2, <1>5, <1>6, <2>1, <3>2 DEF Inv, AloneInv
    <3>3. CASE x # c
      BY <1>5, <2>1, <3>3 DEF Inv, AloneInv
    <3> QED  BY <3>1, <3>2, <3>3
  <2>3. /\ \A e \in toSrv : e.of # c
        /\ \A e \in srv : e.of # c
        /\ \A e \in toCli' : e.to # c
    BY <1>1, <2>1 DEF Inv, AloneInv
  <2> QED  BY <1>1, <2>1, <2>2, <2>3 DEF Inv, AloneInv, Receive
<1> QED  BY <1>3, <1>4, <1>7, <1>8 DEF Inv, AloneInv

\* RecvfromInv: the server keeps line and address together.
LEMMA RecvfromInv == ASSUME Inv, Recvfrom PROVE Inv'
<1>1. PICK d \in toSrv : srv' = {d} /\ toSrv' = toSrv \ {d}
  BY DEF Recvfrom
<1>2. TypeInv'
  BY <1>1 DEF Inv, TypeInv, Recvfrom
<1>3. SentInv'
  BY <1>1 DEF Inv, SentInv, Recvfrom
<1>4. BehindInv'
  BY DEF Inv, BehindInv, Answers, Recvfrom
<1>5. AloneInv'
  <2>1. ASSUME dups = 0, NEW e \in toSrv, e.of = d.of PROVE e = d
    <3>1. e.n = d.n /\ e \in Line /\ d \in Line
      BY <2>1 DEF Inv, TypeInv, AloneInv
    <3> QED  BY <2>1, <3>1 DEF Line
  <2> QED  BY <1>1, <2>1 DEF Inv, AloneInv, Answers, Recvfrom
<1> QED  BY <1>2, <1>3, <1>4, <1>5 DEF Inv

\* SendtoInv: the answer goes to where its line came from.
LEMMA SendtoInv == ASSUME Inv, Sendto PROVE Inv'
<1>1. PICK d \in srv : toCli' = toCli \cup {[line |-> d, to |-> d.of]}
  BY DEF Sendto
<1>2. srv' = {} /\ d \in Line /\ d.of \in Client
  BY DEF Inv, TypeInv, Sendto, Line
<1>3. TypeInv'
  BY <1>1, <1>2 DEF Inv, TypeInv, Sendto
<1>4. SentInv'
  BY <1>1, <1>2 DEF Inv, SentInv, Sendto
<1>5. BehindInv'
  BY DEF Inv, BehindInv, Answers, Sendto
<1>6. AloneInv'
  BY <1>1, <1>2 DEF Inv, AloneInv, Answers, Sendto
<1> QED  BY <1>3, <1>4, <1>5, <1>6 DEF Inv

\* NetworkInv: a loss or a duplicate adds no new datagram.
LEMMA NetworkInv == ASSUME Inv, Lose \/ Duplicate PROVE Inv'
<1>1. TypeInv'
  BY DEF Inv, TypeInv, Lose, Duplicate
<1>2. SentInv'
  BY DEF Inv, SentInv, Lose, Duplicate
<1>3. BehindInv'
  BY DEF Inv, BehindInv, Answers, Lose, Duplicate
<1>4. ASSUME Lose PROVE AloneInv'
  BY <1>4 DEF Inv, AloneInv, Answers, Lose
<1>5. ASSUME Duplicate PROVE AloneInv'
  BY <1>5 DEF Inv, TypeInv, AloneInv, Duplicate
<1>6. AloneInv'
  BY <1>4, <1>5
<1> QED  BY <1>1, <1>2, <1>3, <1>6 DEF Inv

\* NextInv: every step keeps the invariant.
LEMMA NextInv == ASSUME Inv, [Next]_vars PROVE Inv'
<1>1. CASE UNCHANGED vars
  BY <1>1 DEF vars, Inv, TypeInv, SentInv, BehindInv, AloneInv, Answers
<1> QED
  BY <1>1, SendInv, ReceiveInv, RecvfromInv, SendtoInv, NetworkInv DEF Next

\* InvImplies: the invariant gives both properties.
LEMMA InvImplies == Inv => Behind /\ Echoed
<1> SUFFICES ASSUME Inv PROVE Behind /\ Echoed
  OBVIOUS
<1>1. Behind
  BY DEF Inv, BehindInv, Behind
<1>2. ASSUME dups = 0, NEW c \in Client
      PROVE  printed[c] = [i \in 1..Answers(c) |-> [of |-> c, n |-> i]]
  <2>1. printed[c] \in Seq(Line) /\ Len(printed[c]) = Answers(c)
    BY DEF Inv, TypeInv, BehindInv
  <2>2. ASSUME NEW i \in 1..Answers(c) PROVE printed[c][i] = [of |-> c, n |-> i]
    <3>1. printed[c][i] \in Line
      BY <2>1
    <3>2. printed[c][i].of = c /\ printed[c][i].n = i
      BY <1>2 DEF Inv, BehindInv, AloneInv
    <3> QED  BY <3>1, <3>2 DEF Line
  <2> QED  BY <2>1, <2>2
<1> QED  BY <1>1, <1>2 DEF Echoed

\* BehindHolds: whatever the network loses, reorders or duplicates, a client
\* prints one line of its own user per line typed, and none too early.
THEOREM BehindHolds == Spec => []Behind
BY InitInv, NextInv, InvImplies, PTL DEF Spec

\* EchoedHolds: unless a request is duplicated, a client prints exactly what
\* its user typed, in order.
THEOREM EchoedHolds == Spec => []Echoed
BY InitInv, NextInv, InvImplies, PTL DEF Spec

=============================================================================
