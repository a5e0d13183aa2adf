------------------------ MODULE CommandServer_proofs ------------------------
(***************************************************************************)
(* Proofs about CommandServer, for any clients and texts.                  *)
(***************************************************************************)
EXTENDS CommandServer, SequenceTheorems, TLAPS

Types ==
    /\ srv \in [pc : {"Socket", "Bind", "Listen", "accept", "recv", "fopen", "fputs",
                      "send", "exited"},
                connfd : Client \cup {None}]
    /\ srv.pc = "recv" => srv.connfd \in Client
    /\ queue \in Seq(Client)
    /\ cli \in [Client -> {"off", "read", "send", "recv", "gone"}]
    /\ DOMAIN str = Client /\ DOMAIN wire = Client /\ DOMAIN reply = Client
    /\ str = [c \in Client |-> str[c]] /\ wire = [c \in Client |-> wire[c]]
    /\ reply = [c \in Client |-> reply[c]]

\* The server has a text, and is about to store or answer it.
Busy == srv.pc \in {"fopen", "fputs", "send"}

(***************************************************************************)
(* Whatever is on a client's wire is the text it read; before its send()   *)
(* it has neither anything on the wire nor an answer.  What the server is  *)
(* busy with for a connection is the text of a client that is still there. *)
(***************************************************************************)
Private(c) ==
    /\ wire[c] \in {Empty, str[c]}
    /\ cli[c] \in {"off", "read", "send"} => wire[c] = Empty /\ reply[c] = None
    /\ cli[c] = "recv" /\ reply[c] # None => (reply[c] = "BINGO" <=> str[c] \in Cmd)
    /\ Busy /\ srv.connfd = c /\ c # None =>
          /\ cli[c] \in {"recv", "gone"}
          /\ cli[c] = "recv" => buff = str[c]

(***************************************************************************)
(* The circle: as long as nothing has damaged the text it is the only one  *)
(* in the file, whole or cut, and what fgets() takes of it the only one in *)
(* the arrays, on the wires and in the buffer.                             *)
(***************************************************************************)
Circle ==
    /\ \/ tmp1 \in {original, fgets(original)}
       \/ srv.pc = "fputs" /\ tmp1 = Empty
    /\ \A c \in Client : /\ cli[c] = "send" => str[c] = fgets(original)
                         /\ wire[c] \in {Empty, fgets(original)}
    /\ buff \in Wild \cup {fgets(original)}
    /\ Busy => buff = fgets(original)

Inv == Types /\ (\A c \in Client : Private(c)) /\ (damage = {} => Circle)

-----------------------------------------------------------------------------
\* A text that has been cut once is not cut again.
LEMMA CutOnce == ASSUME NEW text PROVE fgets(fgets(text)) = fgets(text)
BY CommandServerAssumption DEF fgets

LEMMA InitInv == ASSUME Init PROVE Inv
<1>1. Types
  BY DEF Init, Types
<1>2. \A c \in Client : Private(c)
  BY DEF Init, Private, Busy
<1>3. Circle
  BY DEF Init, Circle, Busy
<1> QED  BY <1>1, <1>2, <1>3 DEF Inv

\* A step that changes nothing but the calls that the clients are in.
LEMMA ClientMoves ==
    ASSUME Inv, NEW c \in Client, NEW pc \in {"read", "recv", "gone"},
           cli' = [cli EXCEPT ![c] = pc],
           pc = "read" => cli[c] = "off", pc # "recv",
           queue' = queue \/ queue' = Append(queue, c),
           UNCHANGED <<tmp1, srv, buff, str, wire, reply, original, damage>>
    PROVE  Inv'
<1>1. Types /\ (\A d \in Client : Private(d)) /\ (damage = {} => Circle)
  BY DEF Inv
<1>2. Types'
  <2>1. queue' \in Seq(Client)
    BY <1>1, AppendProperties DEF Types
  <2> QED  BY <1>1, <2>1 DEF Types
<1>3. \A d \in Client : cli'[d] = IF d = c THEN pc ELSE cli[d]
  BY <1>1 DEF Types
<1>4. \A d \in Client : Private(d)'
  BY <1>1, <1>3 DEF Private, Busy
<1>5. damage' = {} => Circle'
  BY <1>1, <1>3 DEF Circle, Busy
<1> QED  BY <1>2, <1>4, <1>5 DEF Inv

LEMMA ReadnInv == ASSUME Inv, NEW c \in Client, readn(c) PROVE Inv'
<1>1. /\ Types /\ (\A d \in Client : Private(d)) /\ (damage = {} => Circle) /\ cli[c] = "read"
      /\ UNCHANGED <<tmp1, srv, buff, queue, wire, reply, original>>
  BY DEF Inv, readn
<1>2. CASE cli' = [cli EXCEPT ![c] = "gone"] /\ UNCHANGED <<str, damage>>
  BY <1>1, <1>2, ClientMoves
<1>3. ASSUME NEW s \in Wild \cup (IF tmp1 = Empty THEN {} ELSE {fgets(tmp1)}),
             cli' = [cli EXCEPT ![c] = "send"], str' = [str EXCEPT ![c] = s],
             damage' = damage \cup IF tmp1 = Empty THEN {"empty"}
                                   ELSE IF s # fgets(tmp1) THEN {"dangling"} ELSE {}
      PROVE  Inv'
  <2>1. Types'
    BY <1>1, <1>3 DEF Types
  <2>2. \A d \in Client : /\ cli'[d] = IF d = c THEN "send" ELSE cli[d]
                          /\ str'[d] = IF d = c THEN s ELSE str[d]
    BY <1>1, <1>3 DEF Types
  <2>3. \A d \in Client : Private(d)'
    BY <1>1, <2>2 DEF Private, Busy
  <2>4. ASSUME damage' = {} PROVE Circle'
    <3>1. damage = {} /\ tmp1 # Empty /\ s = fgets(tmp1)
      BY <1>3, <2>4
    <3>2. Circle /\ s = fgets(original)
      BY <1>1, <3>1, CutOnce DEF Circle
    <3> QED  BY <1>1, <2>2, <3>2 DEF Circle, Busy
  <2> QED  BY <2>1, <2>3, <2>4 DEF Inv
<1> QED  BY <1>2, <1>3 DEF readn

LEMMA SendInv == ASSUME Inv, NEW c \in Client, Send(c) PROVE Inv'
<1>1. /\ Types /\ (\A d \in Client : Private(d)) /\ (damage = {} => Circle)
      /\ cli[c] = "send" /\ cli' = [cli EXCEPT ![c] = "recv"]
      /\ wire' = [wire EXCEPT ![c] = str[c]]
      /\ UNCHANGED <<tmp1, srv, buff, queue, str, reply, original, damage>>
  BY DEF Inv, Send
<1>2. Types'
  BY <1>1 DEF Types
<1>3. \A d \in Client : /\ cli'[d] = IF d = c THEN "recv" ELSE cli[d]
                        /\ wire'[d] = IF d = c THEN str[c] ELSE wire[d]
  BY <1>1 DEF Types
<1>4. \A d \in Client : Private(d)'
  BY <1>1, <1>3 DEF Private, Busy
<1>5. damage' = {} => Circle'
  BY <1>1, <1>3 DEF Circle, Busy
<1> QED  BY <1>2, <1>4, <1>5 DEF Inv

LEMMA EditInv == ASSUME Inv, NEW s, Edit(s) PROVE Inv'
<1>1. /\ Types /\ (\A d \in Client : Private(d)) /\ damage' # {}
      /\ UNCHANGED <<srv, buff, queue, cli, str, wire, reply>>
  BY DEF Inv, Edit
<1>2. Types' /\ (\A d \in Client : Private(d)')
  BY <1>1 DEF Types, Private, Busy
<1> QED  BY <1>1, <1>2 DEF Inv

-----------------------------------------------------------------------------
(* The server.  A step of it leaves what the clients have alone, except    *)
(* for one wire that it empties.                                           *)

LEMMA TryInv == ASSUME Inv, Start PROVE Inv'
<1>1. /\ Types /\ (\A c \in Client : Private(c)) /\ (damage = {} => Circle)
      /\ srv.pc \in {"Socket", "Bind", "Listen"}
      /\ \E pc \in {"Bind", "Listen", "accept", "exited"} : srv' = [srv EXCEPT !.pc = pc]
      /\ UNCHANGED <<tmp1, buff, queue, cli, str, wire, reply, original, damage>>
  BY DEF Inv, Start, Socket, Bind, Listen, Try
<1>2. srv'.pc \in {"Bind", "Listen", "accept", "exited"} /\ Types'
  BY <1>1 DEF Types
<1>3. \A c \in Client : Private(c)'
  BY <1>1, <1>2 DEF Private, Busy
<1>4. damage' = {} => Circle'
  BY <1>1, <1>2 DEF Circle, Busy
<1> QED  BY <1>2, <1>3, <1>4 DEF Inv

LEMMA AcceptInv == ASSUME Inv, Accept PROVE Inv'
<1>1. /\ Types /\ (\A c \in Client : Private(c)) /\ (damage = {} => Circle)
      /\ srv.pc = "accept" /\ queue # <<>> /\ queue' = Tail(queue)
      /\ srv' = [pc |-> "recv", connfd |-> Head(queue)] \/ srv' = srv
      /\ UNCHANGED <<tmp1, buff, cli, str, wire, reply, original, damage>>
  BY DEF Inv, Accept
<1>2. queue \in Seq(Client)
  BY <1>1 DEF Types
<1>3. Head(queue) \in Client /\ queue' \in Seq(Client)
  BY <1>1, <1>2, HeadTailProperties
<1> DEFINE h == Head(queue)
<1>4. h \in Client /\ (srv' = [pc |-> "recv", connfd |-> h] \/ srv' = srv)
  BY <1>1, <1>3
<1> HIDE DEF h
<1>5. srv'.pc \in {"recv", "accept"} /\ Types'
  BY <1>1, <1>3, <1>4 DEF Types
<1>6. \A c \in Client : Private(c)'
  BY <1>1, <1>5 DEF Private, Busy
<1>7. damage' = {} => Circle'
  BY <1>1, <1>5 DEF Circle, Busy
<1> QED  BY <1>5, <1>6, <1>7 DEF Inv

LEMMA AcceptFailsInv == ASSUME Inv, AcceptFails PROVE Inv'
<1>1. /\ Types /\ (\A c \in Client : Private(c)) /\ (damage = {} => Circle)
      /\ srv.pc = "accept" /\ \E pc \in {"send", "fopen"} : srv' = [pc |-> pc, connfd |-> None]
      /\ damage' = damage \cup IF buff \in Wild THEN {"stale"} ELSE {}
      /\ UNCHANGED <<buff, tmp1, queue, cli, str, wire, reply, original>>
  BY DEF Inv, AcceptFails, Handle
<1>2. srv'.pc \in {"send", "fopen"} /\ srv'.connfd = None /\ Types'
  BY <1>1 DEF Types
<1>3. \A c \in Client : Private(c)'
  BY <1>1, <1>2 DEF Private, Busy
<1>4. damage' = {} => damage = {} /\ buff \notin Wild
  BY <1>1
<1>5. damage' = {} => Circle'
  BY <1>1, <1>2, <1>4 DEF Circle, Busy
<1> QED  BY <1>2, <1>3, <1>5 DEF Inv

LEMMA RecvInv == ASSUME Inv, Recv PROVE Inv'
<1>0. srv.connfd \in Client
  BY DEF Inv, Types, Recv
<1> PICK c \in Client : c = srv.connfd
  BY <1>0
<1>1. /\ Types /\ (\A d \in Client : Private(d)) /\ (damage = {} => Circle)
      /\ srv.pc = "recv" /\ wire[c] # Empty /\ buff' = wire[c]
      /\ wire' = [wire EXCEPT ![c] = Empty]
      /\ \E pc \in {"send", "fopen"} : srv' = [pc |-> pc, connfd |-> c]
      /\ UNCHANGED <<tmp1, queue, cli, str, reply, original, damage>>
  BY DEF Inv, Recv, Handle
<1>2. srv'.pc \in {"send", "fopen"} /\ srv'.connfd = c /\ Types'
  <2>1. /\ srv'.pc \in {"send", "fopen"} /\ srv'.connfd = c
        /\ srv' \in [pc : {"Socket", "Bind", "Listen", "accept", "recv", "fopen", "fputs",
                           "send", "exited"},
                     connfd : Client \cup {None}]
    BY <1>1
  <2>2. DOMAIN wire' = Client /\ wire' = [d \in Client |-> wire'[d]]
    BY <1>1 DEF Types
  <2> QED  BY <1>1, <2>1, <2>2 DEF Types
<1>3. \A d \in Client : wire'[d] = IF d = c THEN Empty ELSE wire[d]
  BY <1>1 DEF Types
<1>4. buff' = str[c] /\ cli[c] \in {"recv", "gone"}
  BY <1>1 DEF Private, Types
<1>5. \A d \in Client : Private(d)'
  BY <1>1, <1>2, <1>3, <1>4 DEF Private, Busy
<1>6. damage' = {} => Circle'
  BY <1>1, <1>2, <1>3 DEF Circle, Busy
<1> QED  BY <1>2, <1>5, <1>6 DEF Inv

LEMMA RecvEndInv == ASSUME Inv, RecvEnd PROVE Inv'
<1>1. /\ Types /\ (\A d \in Client : Private(d)) /\ damage' # {}
      /\ srv.pc = "recv" /\ cli[srv.connfd] = "gone" /\ srv.connfd \in Client
      /\ \E pc \in {"send", "fopen"} : srv' = [pc |-> pc, connfd |-> srv.connfd]
      /\ UNCHANGED <<tmp1, queue, cli, str, wire, reply, original>>
  BY DEF Inv, Types, RecvEnd, Handle
<1>2. srv'.connfd = srv.connfd /\ Types'
  BY <1>1 DEF Types
<1>3. \A d \in Client : Private(d)'
  BY <1>1, <1>2 DEF Private, Busy
<1> QED  BY <1>1, <1>2, <1>3 DEF Inv

LEMMA WriteInv == ASSUME Inv, Fopen \/ Fputs PROVE Inv'
<1>1. /\ Types /\ (\A d \in Client : Private(d)) /\ (damage = {} => Circle) /\ Busy
      /\ srv' = [srv EXCEPT !.pc = srv'.pc] /\ srv'.pc \in {"fputs", "send"}
      /\ tmp1' = (IF srv'.pc = "fputs" THEN Empty ELSE buff)
      /\ UNCHANGED <<buff, queue, cli, str, wire, reply, original, damage>>
  BY DEF Inv, Types, Fopen, Fputs, Busy
<1>2. srv'.connfd = srv.connfd /\ Types'
  BY <1>1 DEF Types
<1>3. \A d \in Client : Private(d)'
  BY <1>1, <1>2 DEF Private, Busy
<1>4. damage' = {} => Circle'
  BY <1>1 DEF Circle, Busy
<1> QED  BY <1>2, <1>3, <1>4 DEF Inv

LEMMA ReplyInv == ASSUME Inv, Reply PROVE Inv'
<1>1. /\ Types /\ (\A d \in Client : Private(d)) /\ (damage = {} => Circle)
      /\ srv.pc = "send" /\ srv' = [pc |-> "accept", connfd |-> None]
      /\ UNCHANGED <<tmp1, buff, queue, cli, str, wire, original, damage>>
  BY DEF Inv, Reply
<1>2. DOMAIN reply' = Client /\ reply' = [d \in Client |-> reply'[d]]
  BY <1>1 DEF Reply, Types
<1>3. Types' /\ srv'.pc = "accept"
  BY <1>1, <1>2 DEF Types
<1>4. ASSUME NEW d \in Client PROVE Private(d)'
  <2>1. CASE reply'[d] = reply[d]
    BY <1>1, <1>3, <2>1 DEF Private, Busy
  <2>2. CASE /\ d = srv.connfd /\ d # None
             /\ reply'[d] = IF checkCMD(buff) THEN "BINGO" ELSE "THIS IS VICKY'S SERVER"
    BY <1>1, <1>3, <2>2 DEF Private, Busy, checkCMD
  <2> QED  BY <1>1, <2>1, <2>2 DEF Reply, Types
<1>5. damage' = {} => Circle'
  BY <1>1, <1>3 DEF Circle, Busy
<1> QED  BY <1>3, <1>4, <1>5 DEF Inv

-----------------------------------------------------------------------------
(* Every step, and the theorems. *)

LEMMA NextInv == ASSUME Inv, [Next]_vars PROVE Inv'
<1>1. CASE Start \/ Accept \/ AcceptFails
  BY <1>1, TryInv, AcceptInv, AcceptFailsInv
<1>2. CASE Turn
  BY <1>2, RecvInv, RecvEndInv, WriteInv, ReplyInv DEF Turn
<1>3. ASSUME NEW c \in Client, Connect(c) \/ Program(c) \/ Interrupt(c) PROVE Inv'
  <2>1. CASE Connect(c)
    BY <2>1, ClientMoves DEF Connect
  <2>2. CASE RecvReply(c) \/ Interrupt(c)
    BY <2>2, ClientMoves DEF RecvReply, Interrupt
  <2> QED  BY <1>3, <2>1, <2>2, ReadnInv, SendInv DEF Program
<1>4. ASSUME NEW s \in (Text \ {Junk}) \cup Cmd, Edit(s) PROVE Inv'
  BY <1>4, EditInv
<1>5. CASE UNCHANGED vars
  <2>1. /\ Types /\ (\A c \in Client : Private(c)) /\ (damage = {} => Circle)
        /\ UNCHANGED <<tmp1, srv, buff, queue, cli, str, wire, reply, original, damage>>
    BY <1>5 DEF vars, Inv
  <2>2. Types' /\ (\A c \in Client : Private(c)') /\ (damage' = {} => Circle')
    BY <2>1 DEF Types, Private, Circle, Busy
  <2> QED  BY <2>2 DEF Inv
<1> QED  BY <1>1, <1>2, <1>3, <1>4, <1>5 DEF Next

\* The answer a client reads is to its own text, for any number of clients
\* and however accept() and recv() fail between their turns: the buffer the
\* server is busy with is that of the connection, or the connection is -1 and
\* nobody is answered (tcpsrv.c:55-75).
THEOREM OwnReplyHolds == Spec => []OwnReply
<1>1. Init => Inv
  BY InitInv
<1>2. Inv /\ [Next]_vars => Inv'
  BY NextInv
<1>3. Inv => OwnReply
  BY DEF Inv, Private, OwnReply
<1> QED  BY <1>1, <1>2, <1>3, PTL DEF Spec

\* The causes of damage that are listed are all there are: without one of
\* them the first turn cuts the text to what fgets() takes of it, and that
\* goes round the circle for ever (readn.c:20-25, writen.c:15-21).
THEOREM KeptHolds == Spec => []Kept
<1>1. Init => Inv
  BY InitInv
<1>2. Inv /\ [Next]_vars => Inv'
  BY NextInv
<1>3. Inv => Kept
  BY DEF Inv, Circle, Busy, Kept
<1> QED  BY <1>1, <1>2, <1>3, PTL DEF Spec
=============================================================================
