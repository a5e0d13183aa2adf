------------------------- MODULE FileServer_proofs -------------------------
(***************************************************************************)
(* Proofs about FileServer, for any clients and files.                     *)
(***************************************************************************)
EXTENDS FileServer, SequenceTheorems, TLAPS

(***************************************************************************)
(* OwnOnly is not inductive: what a child holds when it starts is what the *)
(* server process holds when it forks, and that depends on where the       *)
(* server process is in its loop.                                          *)
(***************************************************************************)
OwnInv ==
    /\ conns \in [Proc -> SUBSET Client] /\ lsn \subseteq Proc
    /\ queue \in Seq(Client)
    /\ DOMAIN child = Client
    /\ DOMAIN main = {"pc", "c"}
    /\ main.pc \in {"accept", "fork", "close", "exited"}
    /\ main.pc \in {"accept", "exited"} => conns["srv"] = {}
    /\ main.pc \in {"fork", "close"} => main.c \in Client /\ conns["srv"] = {main.c}
    /\ \A c \in Client :
         /\ DOMAIN child[c] = {"ph", "f", "k"}
         /\ child[c].ph \in {"none", "start", "read", "send", "gone"}
         /\ child[c].ph \in {"start", "read", "send"} => conns[c] = {c}
         /\ child[c].ph \in {"read", "send"} => c \notin lsn

\* The server process holds nothing at the start.
LEMMA InitOwn == Init => OwnInv
BY DEF Init, OwnInv, Proc

\* A client's own steps touch no descriptor of the server's.
LEMMA ClientOwn ==
    ASSUME OwnInv, NEW c \in Client, Download(c) \/ User(c)
    PROVE  OwnInv'
<1>1. CASE CliConnect(c)
  BY <1>1 DEF CliConnect, OwnInv
<1>2. CASE CliLeave(c) \/ CliRead(c) \/ CliFinish(c)
  BY <1>2 DEF CliLeave, CliRead, CliFinish, srvVars, OwnInv
<1>3. ASSUME NEW f, CliAsk(c, f) PROVE OwnInv'
  BY <1>3 DEF CliAsk, srvVars, OwnInv
<1> QED  BY <1>1, <1>2, <1>3 DEF Download, User

\* accept(), fork() and close() in that order: the child gets one connection,
\* and the server process has none when it is back at accept().
LEMMA ParentOwn == ASSUME OwnInv, Parent PROVE OwnInv'
<1> USE FileServerAssumption DEF Proc
<1>1. CASE Accept
  <2>1. Head(queue) \in Client /\ Tail(queue) \in Seq(Client)
    BY <1>1 DEF Accept, OwnInv
  <2> QED  BY <1>1, <2>1 DEF Accept, OwnInv
<1>2. CASE Fork
  <2>1. main.c \in Client /\ conns["srv"] = {main.c}
    BY <1>2 DEF Fork, OwnInv
  <2>2. /\ conns' \in [Proc -> SUBSET Client] /\ lsn' \subseteq Proc
        /\ conns'["srv"] = {main.c} /\ conns'[main.c] = {main.c}
        /\ \A c \in Client \ {main.c} : conns'[c] = conns[c]
    BY <1>2, <2>1 DEF Fork, OwnInv
  <2>3. /\ DOMAIN child' = Client /\ child'[main.c].ph = "start"
        /\ DOMAIN child'[main.c] = {"ph", "f", "k"}
        /\ \A c \in Client \ {main.c} : child'[c] = child[c] /\ (c \in lsn' <=> c \in lsn)
    BY <1>2, <2>1 DEF Fork, OwnInv
  <2>4. DOMAIN main' = {"pc", "c"} /\ main'.pc = "close" /\ main'.c = main.c
    BY <1>2 DEF Fork, OwnInv
  <2> QED  BY <1>2, <2>1, <2>2, <2>3, <2>4 DEF Fork, OwnInv
<1>3. CASE ForkFails
  BY <1>3 DEF ForkFails, OwnInv
<1>4. CASE Close
  BY <1>4 DEF Close, OwnInv
<1> QED  BY <1>1, <1>2, <1>3, <1>4 DEF Parent

\* exit() closes what the child has.
LEMMA ExitOwn ==
    ASSUME OwnInv, NEW c \in Client, Exit(c), UNCHANGED <<main, queue>>
    PROVE  OwnInv'
BY FileServerAssumption DEF Exit, OwnInv, Proc

\* A child closes the listening socket before it reads, and opens nothing but
\* files.
LEMMA ChildOwn == ASSUME OwnInv, NEW c \in Client, Child(c) PROVE OwnInv'
<1>1. CASE Start(c)
  BY <1>1, FileServerAssumption DEF Start, OwnInv, Proc
<1>2. CASE Read(c)
  <2>1. CASE Exit(c)
    BY <1>2, <2>1, ExitOwn DEF Read
  <2>2. ASSUME NEW f, child' = [child EXCEPT ![c] = [ph |-> "send", f |-> f, k |-> 0]],
               UNCHANGED <<conns, lsn>>
        PROVE  OwnInv'
    BY <1>2, <2>2 DEF Read, OwnInv
  <2> QED  BY <1>2, <2>1, <2>2 DEF Read
<1>3. CASE ReadEnd(c)
  BY <1>3, ExitOwn DEF ReadEnd
<1>4. CASE Send(c)
  <2>1. CASE Exit(c)
    BY <1>4, <2>1, ExitOwn DEF Send
  <2>2. CASE child' = [child EXCEPT ![c].k = @ + 1] /\ UNCHANGED <<conns, lsn>>
    BY <1>4, <2>2 DEF Send, OwnInv
  <2> QED  BY <1>4, <2>1, <2>2 DEF Send
<1>5. CASE Sent(c)
  BY <1>5 DEF Sent, OwnInv
<1> QED  BY <1>1, <1>2, <1>3, <1>4, <1>5 DEF Child

\* NextOwn: every step keeps the ownership invariant.
LEMMA NextOwn == ASSUME OwnInv, [Next]_vars PROVE OwnInv'
<1>1. CASE UNCHANGED vars
  BY <1>1 DEF vars, srvVars, OwnInv
<1> QED  BY <1>1, ParentOwn, ChildOwn, ClientOwn DEF Next

\* OwnOnlyHolds: however accept(), fork(), close() and the children's steps
\* interleave, a child holds the connection of its own client and nothing
\* else, and the server process none while it waits for the next client.
THEOREM OwnOnlyHolds == Spec => []OwnOnly
<1>1. OwnInv => OwnOnly
  BY DEF OwnInv, OwnOnly
<1> QED  BY <1>1, InitOwn, NextOwn, PTL DEF Spec

-----------------------------------------------------------------------------
(***************************************************************************)
(* SavedPrefix.  What a client has saved and what is under way to it are   *)
(* the beginning of one file, which the child has sent as far as it says;  *)
(* a client whose reads all return a block never leaves its loop before    *)
(* the connection is closed, so it asks for a second name in vain.         *)
(***************************************************************************)
Cell == (File \X Nat) \cup File \cup {Missing, Nul}

Data ==
    /\ cli \in [Client -> {"off", "prompt", "wait", "gone"}]
    /\ whole \in [Client -> BOOLEAN]
    /\ want \in [Client -> File \cup {Missing}]
    /\ saved \in [Client -> Seq(Cell)] /\ toCli \in [Client -> Seq(Cell)]
    /\ toSrv \in [Client -> Seq(Cell)] /\ buf \in [Client -> [1 .. 2 -> Cell]]
    /\ \A c \in Client : child[c].ph = "send" => child[c].f \in File /\ child[c].k \in Nat
    /\ "srv" \in lsn <=> main.pc # "exited"
    /\ reset \subseteq Client

\* s and the blocks of q are the beginning of the text t.
Stream(s, q, t) ==
    \E p \in Nat :
        /\ Len(q) = 2 * p /\ Len(s) + p <= Len(t)
        /\ \A i \in 1 .. Len(s) : s[i] = t[i]
        /\ \A i \in 1 .. p : q[2 * i - 1] = t[Len(s) + i] /\ q[2 * i] = Nul

\* The server has not got to the name, or has sent as many lines as it says.
Request(c) == toSrv[c] = <<want[c], Nul>> /\ saved[c] = <<>> /\ toCli[c] = <<>>
Sending(c) ==
    /\ cli[c] = "wait" /\ child[c].f = want[c] /\ want[c] \in File
    /\ Len(toCli[c]) + 2 * Len(saved[c]) = 2 * child[c].k
    /\ toSrv[c] \in {<<>>, <<Nul>>}

InBlocks(c) ==
    /\ Stream(saved[c], toCli[c], Text(want[c]))
    /\ cli[c] \in {"off", "prompt"} => toCli[c] = <<>>
    /\ cli[c] = "prompt" /\ Open(c) => toSrv[c] = <<>> /\ child[c].ph # "send"
    /\ cli[c] = "wait" /\ Open(c) =>
          \/ child[c].ph # "send" /\ Request(c)
          \/ toSrv[c] \in {<<>>, <<Nul>>}
    /\ child[c].ph = "send" => Sending(c)
    /\ cli[c] = "gone" \/ c \in reset => ~Open(c)

\* A client that is not connected has nothing.
Offline(c) ==
    cli[c] = "off" => /\ toSrv[c] = <<>> /\ child[c].ph = "none" /\ c \notin reset
                      /\ \A p \in Proc : c \notin conns[p]
                      /\ \A i \in DOMAIN queue : queue[i] # c

PrefixInv ==
    OwnInv /\ Data /\ \A c \in Client : Offline(c) /\ (whole[c] => InBlocks(c))

-----------------------------------------------------------------------------
(* Sequences of cells. *)

LEMMA TextOf ==
    ASSUME NEW f \in File \cup {Missing}
    PROVE  /\ Text(f) \in Seq(Cell) /\ Len(Text(f)) \in Nat
           /\ f \in File => Len(Text(f)) = Lines[f]
           /\ \A k \in 1 .. Len(Text(f)) : Text(f)[k] = <<f, k>> /\ Text(f)[k] # Nul
                                           /\ Text(f)[k] \in Cell
<1> DEFINE n == IF f \in File THEN Lines[f] ELSE 0
<1>1. n \in Nat /\ (f \in File => n = Lines[f])
  BY FileServerAssumption
<1>2. \A k \in 1 .. n : f \in File /\ <<f, k>> \in File \X Nat
  BY <1>1
<1>3. Text(f) = [k \in 1 .. n |-> <<f, k>>]
  BY DEF Text
<1> HIDE DEF n
<1>4. \A k \in 1 .. n : <<f, k>> \in Cell /\ <<f, k>> # Nul
  BY <1>2, FileServerAssumption DEF Cell
<1>5. Text(f) \in Seq(Cell) /\ Len(Text(f)) = n
  BY <1>1, <1>3, <1>4
<1> QED  BY <1>1, <1>3, <1>4, <1>5

LEMMA StreamStart == ASSUME NEW t \in Seq(Cell) PROVE Stream(<<>>, <<>>, t)
<1>1. Len(<<>>) = 0 /\ Len(t) \in Nat
  BY LenProperties
<1>2. /\ Len(<<>>) = 2 * 0 /\ Len(<<>>) + 0 <= Len(t)
      /\ \A i \in 1 .. Len(<<>>) : <<>>[i] = t[i]
      /\ \A i \in 1 .. 0 : <<>>[2 * i - 1] = t[Len(<<>>) + i] /\ <<>>[2 * i] = Nul
  BY <1>1
<1> QED  BY <1>2 DEF Stream

\* The next line continues the stream.
LEMMA StreamSend ==
    ASSUME NEW s \in Seq(Cell), NEW q \in Seq(Cell), NEW t \in Seq(Cell), Stream(s, q, t),
           NEW k \in Nat, Len(q) + 2 * Len(s) = 2 * k, k < Len(t)
    PROVE  LET r == q \o <<t[k + 1], Nul>> IN
           r \in Seq(Cell) /\ Stream(s, r, t) /\ Len(r) = Len(q) + 2
<1>1. Len(s) \in Nat /\ Len(q) \in Nat /\ Len(t) \in Nat
  BY LenProperties
<1>2. k + 1 \in 1 .. Len(t) /\ t[k + 1] \in Cell /\ Nul \in Cell
  <2>1. k + 1 \in DOMAIN t
    BY <1>1, LenProperties
  <2> QED  BY <2>1, LenProperties DEF Cell
<1> DEFINE b == <<t[k + 1], Nul>>
<1>3. b \in Seq(Cell) /\ Len(b) = 2 /\ b[1] = t[k + 1] /\ b[2] = Nul
  BY <1>2
<1> HIDE DEF b
<1> DEFINE r == q \o b
<1>4. /\ r \in Seq(Cell) /\ Len(r) = Len(q) + Len(b)
      /\ \A i \in 1 .. (Len(q) + Len(b)) : r[i] = IF i <= Len(q) THEN q[i] ELSE b[i - Len(q)]
  BY <1>3, ConcatProperties
<1> HIDE DEF r
<1>5. PICK p \in Nat :
        /\ Len(q) = 2 * p /\ Len(s) + p <= Len(t)
        /\ \A i \in 1 .. Len(s) : s[i] = t[i]
        /\ \A i \in 1 .. p : q[2 * i - 1] = t[Len(s) + i] /\ q[2 * i] = Nul
  BY DEF Stream
<1>6. Len(s) + p = k
  BY <1>1, <1>5
<1>7. /\ Len(r) = 2 * (p + 1) /\ Len(s) + (p + 1) <= Len(t) /\ p + 1 \in Nat
  BY <1>1, <1>3, <1>4, <1>5, <1>6
<1>8. ASSUME NEW i \in 1 .. (p + 1)
      PROVE  r[2 * i - 1] = t[Len(s) + i] /\ r[2 * i] = Nul
  <2>1. CASE i \in 1 .. p
    <3>1. /\ 2 * i - 1 \in 1 .. (Len(q) + Len(b)) /\ 2 * i - 1 <= Len(q)
          /\ 2 * i \in 1 .. (Len(q) + Len(b)) /\ 2 * i <= Len(q)
      BY <1>1, <1>3, <1>5, <2>1
    <3>2. r[2 * i - 1] = q[2 * i - 1] /\ r[2 * i] = q[2 * i]
      BY <1>4, <3>1
    <3> QED  BY <1>5, <2>1, <3>2
  <2>2. CASE i = p + 1
    <3>1. 2 * i - 1 = Len(q) + 1 /\ 2 * i = Len(q) + 2 /\ Len(s) + i = k + 1
      BY <1>1, <1>5, <1>6, <2>2
    <3>2. /\ Len(q) + 1 \in 1 .. (Len(q) + Len(b)) /\ ~(Len(q) + 1 <= Len(q))
          /\ Len(q) + 2 \in 1 .. (Len(q) + Len(b)) /\ ~(Len(q) + 2 <= Len(q))
          /\ Len(q) + 1 - Len(q) = 1 /\ Len(q) + 2 - Len(q) = 2
      BY <1>1, <1>3
    <3>3. r[Len(q) + 1] = b[1] /\ r[Len(q) + 2] = b[2]
      BY <1>4, <3>2
    <3> QED  BY <1>3, <3>1, <3>3
  <2> QED  BY <1>5, <2>1, <2>2
<1>9. Stream(s, r, t)
  BY <1>5, <1>7, <1>8 DEF Stream
<1> QED  BY <1>3, <1>4, <1>9 DEF r, b

\* A read of a block moves a line from the stream to what is saved.
LEMMA StreamRead ==
    ASSUME NEW s \in Seq(Cell), NEW q \in Seq(Cell), NEW t \in Seq(Cell), Stream(s, q, t),
           q # <<>>
    PROVE  LET u == s \o <<q[1]>>  r == Drop(q, 2) IN
           /\ Stream(u, r, t) /\ u \in Seq(Cell) /\ r \in Seq(Cell)
           /\ Len(u) = Len(s) + 1 /\ Len(r) = Len(q) - 2
           /\ q[2] = Nul /\ Len(s) + 1 \in 1 .. Len(t) /\ q[1] = t[Len(s) + 1]
<1>1. Len(s) \in Nat /\ Len(q) \in Nat /\ Len(t) \in Nat /\ Len(q) # 0
  BY LenProperties, EmptySeq
<1>2. PICK p \in Nat :
        /\ Len(q) = 2 * p /\ Len(s) + p <= Len(t)
        /\ \A i \in 1 .. Len(s) : s[i] = t[i]
        /\ \A i \in 1 .. p : q[2 * i - 1] = t[Len(s) + i] /\ q[2 * i] = Nul
  BY DEF Stream
<1>3. p >= 1
  BY <1>1, <1>2
<1>4. q[1] = t[Len(s) + 1] /\ q[2] = Nul /\ Len(s) + 1 \in 1 .. Len(t)
  <2>1. 1 \in 1 .. p /\ 2 * 1 - 1 = 1 /\ 2 * 1 = 2
    BY <1>3
  <2> QED  BY <1>1, <1>2, <1>3, <2>1
<1>5. q[1] \in Cell
  BY <1>1, LenProperties
<1> DEFINE b == <<q[1]>>
<1>6. b \in Seq(Cell) /\ Len(b) = 1 /\ b[1] = q[1]
  BY <1>5
<1> HIDE DEF b
<1> DEFINE u == s \o b
<1>7. /\ u \in Seq(Cell) /\ Len(u) = Len(s) + Len(b)
      /\ \A i \in 1 .. (Len(s) + Len(b)) : u[i] = IF i <= Len(s) THEN s[i] ELSE b[i - Len(s)]
  BY <1>6, ConcatProperties
<1> HIDE DEF u
<1> DEFINE r == Drop(q, 2)
<1>8. /\ r \in Seq(Cell) /\ Len(r) = Len(q) - 2
      /\ \A i \in 1 .. (Len(q) - 2) : r[i] = q[i + 2]
  <2> DEFINE n == Len(q)
  <2>1. n \in Nat /\ n >= 2 /\ \A i \in 3 .. n : q[i] \in Cell
    BY <1>1, <1>2, <1>3, LenProperties
  <2>2. r = SubSeq(q, 3, n)
    BY DEF Drop
  <2> HIDE DEF n, r
  <2>3. /\ r \in Seq(Cell) /\ Len(r) = IF 3 <= n THEN n - 3 + 1 ELSE 0
        /\ \A i \in 1 .. n - 3 + 1 : r[i] = q[3 + i - 1]
    BY <2>1, <2>2, SubSeqProperties
  <2>4. Len(r) = n - 2 /\ \A i \in 1 .. (n - 2) : i \in 1 .. n - 3 + 1 /\ 3 + i - 1 = i + 2
    BY <2>1, <2>3
  <2> QED  BY <2>3, <2>4 DEF n
<1> HIDE DEF r
<1>9. /\ Len(r) = 2 * (p - 1) /\ Len(u) + (p - 1) <= Len(t) /\ p - 1 \in Nat
  BY <1>1, <1>2, <1>3, <1>6, <1>7, <1>8
<1>10. ASSUME NEW i \in 1 .. Len(u) PROVE u[i] = t[i]
  <2>1. i \in 1 .. (Len(s) + Len(b)) /\ Len(u) = Len(s) + 1
    BY <1>6, <1>7
  <2>2. CASE i \in 1 .. Len(s)
    <3>1. u[i] = s[i]
      BY <1>1, <1>7, <2>1, <2>2
    <3> QED  BY <1>2, <2>2, <3>1
  <2>3. CASE i = Len(s) + 1
    <3>1. ~(i <= Len(s)) /\ i - Len(s) = 1
      BY <1>1, <2>3
    <3>2. u[i] = b[1]
      BY <1>7, <2>1, <3>1
    <3> QED  BY <1>4, <1>6, <2>3, <3>2
  <2> QED  BY <1>1, <2>1, <2>2, <2>3
<1>11. ASSUME NEW i \in 1 .. (p - 1)
       PROVE  r[2 * i - 1] = t[Len(u) + i] /\ r[2 * i] = Nul
  <2>1. i + 1 \in 1 .. p /\ 2 * i - 1 \in 1 .. (Len(q) - 2) /\ 2 * i \in 1 .. (Len(q) - 2)
    BY <1>2
  <2>2. (2 * i - 1) + 2 = 2 * (i + 1) - 1 /\ 2 * i + 2 = 2 * (i + 1)
    BY <1>2
  <2>3. Len(u) + i = Len(s) + (i + 1)
    BY <1>1, <1>2, <1>6, <1>7
  <2>4. r[2 * i - 1] = q[2 * (i + 1) - 1] /\ r[2 * i] = q[2 * (i + 1)]
    BY <1>8, <2>1, <2>2
  <2> QED  BY <1>2, <2>1, <2>3, <2>4
<1>12. Stream(u, r, t)
  BY <1>9, <1>10, <1>11 DEF Stream
<1> QED  BY <1>4, <1>6, <1>7, <1>8, <1>12 DEF r, u, b

-----------------------------------------------------------------------------
(* Frames. *)

\* A closed connection stays closed when descriptors are only given up.
LEMMA Closing ==
    ASSUME \A p \in Proc : conns'[p] \subseteq conns[p], lsn' \subseteq lsn, queue' = queue,
           NEW c \in Client
    PROVE  /\ Open(c)' => Open(c)
           /\ \A p \in Proc : c \in conns'[p] => c \in conns[p]
           /\ \A i \in DOMAIN queue' : queue'[i] = queue[i]
BY DEF Open

\* A step of the server that sends nothing and reads no name that it has.
LEMMA QuietInv ==
    ASSUME PrefixInv, OwnInv', "srv" \in lsn' <=> main'.pc # "exited",
           UNCHANGED <<cli, want, saved, buf, whole, toCli, reset>>, toSrv' \in [Client -> Seq(Cell)],
           \A c \in Client :
               /\ toSrv'[c] \in {toSrv[c], <<>>}
               /\ child'[c] = child[c] \/ (child'[c].ph # "send" /\ cli[c] # "off")
               /\ Open(c)' => Open(c)
               /\ cli[c] = "off" => /\ \A p \in Proc : c \notin conns'[p]
                                    /\ \A i \in DOMAIN queue' : queue'[i] # c
    PROVE  PrefixInv'
<1>1. Data'
  BY DEF PrefixInv, Data
<1>2. ASSUME NEW c \in Client PROVE Offline(c)'
  BY DEF PrefixInv, Offline
<1>3. ASSUME NEW c \in Client, whole'[c] PROVE InBlocks(c)'
  <2>1. /\ cli' = cli /\ want' = want /\ saved' = saved /\ toCli' = toCli /\ reset' = reset
        /\ toSrv'[c] \in {toSrv[c], <<>>} /\ (Open(c)' => Open(c))
        /\ child'[c] = child[c] \/ child'[c].ph # "send"
    OBVIOUS
  <2>2. InBlocks(c)
    BY <1>3 DEF PrefixInv
  <2>3. Stream(saved[c], toCli[c], Text(want[c]))'
    BY <2>1, <2>2 DEF InBlocks
  <2>4. /\ child'[c].ph = "send" => Sending(c)'
        /\ cli'[c] = "wait" /\ Open(c)' =>
              \/ child'[c].ph # "send" /\ Request(c)'
              \/ toSrv'[c] \in {<<>>, <<Nul>>}
    <3>1. child'[c].ph = "send" => Sending(c)'
      BY <2>1, <2>2 DEF InBlocks, Sending
    <3> QED  BY <2>1, <2>2, <3>1 DEF InBlocks, Request, Sending
  <2>5. /\ cli'[c] \in {"off", "prompt"} => toCli'[c] = <<>>
        /\ cli'[c] = "prompt" /\ Open(c)' => toSrv'[c] = <<>> /\ child'[c].ph # "send"
        /\ cli'[c] = "gone" \/ c \in reset' => ~Open(c)'
    BY <2>1, <2>2 DEF InBlocks
  <2> QED  BY <2>3, <2>4, <2>5 DEF InBlocks
<1> QED  BY <1>1, <1>2, <1>3 DEF PrefixInv

\* A step of client c or its child, about which nothing is said here.
LEMMA OneClient ==
    ASSUME PrefixInv, OwnInv', Data', NEW c \in Client, UNCHANGED <<main, conns, lsn>>,
           Offline(c)', whole'[c] => InBlocks(c)',
           \A d \in Client \ {c} :
               /\ cli'[d] = cli[d] /\ want'[d] = want[d] /\ saved'[d] = saved[d]
               /\ whole'[d] = whole[d] /\ toCli'[d] = toCli[d] /\ toSrv'[d] = toSrv[d]
               /\ d \in reset' => d \in reset
               /\ child'[d] = child[d],
           queue' = queue \/ queue' = Append(queue, c)
    PROVE  PrefixInv'
<1>1. queue \in Seq(Client)
  BY DEF PrefixInv, OwnInv
<1>2. /\ Len(Append(queue, c)) = Len(queue) + 1 /\ Len(queue) \in Nat
      /\ DOMAIN queue = 1 .. Len(queue) /\ DOMAIN Append(queue, c) = 1 .. (Len(queue) + 1)
      /\ \A i \in 1 .. Len(queue) : Append(queue, c)[i] = queue[i]
      /\ Append(queue, c)[Len(queue) + 1] = c
  BY <1>1, AppendProperties, LenProperties
<1>3. \A i \in DOMAIN queue' : queue'[i] = c \/ (i \in DOMAIN queue /\ queue'[i] = queue[i])
  BY <1>2
<1>4. ASSUME NEW d \in Client \ {c} PROVE Offline(d)' /\ (whole'[d] => InBlocks(d)')
  <2>1. Offline(d)'
    BY <1>3, <1>4 DEF PrefixInv, Offline
  <2>2. Open(d)' => Open(d)
    BY <1>3, <1>4 DEF Open
  <2>3. ASSUME whole'[d] PROVE InBlocks(d)'
    <3>1. InBlocks(d)
      BY <2>3 DEF PrefixInv
    <3>2. /\ cli'[d] = cli[d] /\ want'[d] = want[d] /\ saved'[d] = saved[d]
          /\ toCli'[d] = toCli[d] /\ toSrv'[d] = toSrv[d] /\ child'[d] = child[d]
          /\ d \in reset' => d \in reset
      OBVIOUS
    <3>3. Stream(saved[d], toCli[d], Text(want[d]))'
      BY <3>1, <3>2 DEF InBlocks
    <3>4. (Sending(d) => Sending(d)') /\ (Request(d) => Request(d)')
      BY <3>2 DEF Sending, Request
    <3> QED  BY <2>2, <3>1, <3>2, <3>3, <3>4 DEF InBlocks
  <2> QED  BY <2>1, <2>3
<1> QED  BY <1>4 DEF PrefixInv

-----------------------------------------------------------------------------
(* The server process. *)

LEMMA ParentPrefix == ASSUME PrefixInv, Parent PROVE PrefixInv'
<1>0. OwnInv' /\ OwnInv /\ Data /\ \A c \in Client : Offline(c)
  BY ParentOwn DEF PrefixInv
<1>1. UNCHANGED <<cli, want, saved, buf, whole, toCli, reset, toSrv>>
  BY DEF Parent, Accept, Fork, ForkFails, Close, cliVars
<1>2. toSrv' \in [Client -> Seq(Cell)]
  BY <1>0, <1>1 DEF Data
<1>3. CASE Accept
  <2>1. queue \in Seq(Client) /\ queue # <<>>
    BY <1>0, <1>3 DEF OwnInv, Accept
  <2>2. /\ Head(queue) = queue[1] /\ 1 \in DOMAIN queue
        /\ \A i \in DOMAIN Tail(queue) : i + 1 \in DOMAIN queue /\ Tail(queue)[i] = queue[i + 1]
    BY <2>1, HeadTailProperties, LenProperties
  <2>3. /\ conns' = [conns EXCEPT !["srv"] = @ \cup {queue[1]}] /\ queue' = Tail(queue)
        /\ child' = child /\ lsn' = lsn /\ "srv" \in lsn /\ main'.pc # "exited"
    BY <1>0, <1>3, <2>2 DEF Accept, Data
  <2>4. ASSUME NEW p \in Proc, NEW c \in conns'[p] PROVE c \in conns[p] \/ c = queue[1]
    BY <1>0, <2>3, <2>4 DEF OwnInv
  <2>5. \A c \in Client : Open(c)' => Open(c)
    BY <2>2, <2>3, <2>4 DEF Open
  <2>6. \A c \in Client : cli[c] = "off" => /\ \A p \in Proc : c \notin conns'[p]
                                            /\ \A i \in DOMAIN queue' : queue'[i] # c
    BY <1>0, <2>2, <2>3, <2>4 DEF Offline
  <2> QED  BY <1>0, <1>1, <1>2, <2>3, <2>5, <2>6, QuietInv
<1>4. CASE Fork
  <2>1. /\ main.c \in Client /\ conns["srv"] = {main.c} /\ "srv" \in lsn
        /\ lsn' = lsn \cup {main.c} /\ queue' = queue
        /\ child' = [child EXCEPT ![main.c].ph = "start"]
        /\ conns' = [conns EXCEPT ![main.c] = conns["srv"]]
    BY <1>0, <1>4 DEF Fork, OwnInv, Data
  <2>2. main'.pc # "exited"
    BY <1>0, <1>4 DEF Fork, OwnInv
  <2>3. "srv" \in Proc
    BY DEF Proc
  <2>4. ASSUME NEW p \in Proc PROVE conns'[p] = conns[p] \/ conns'[p] = conns["srv"]
    BY <1>0, <2>1, <2>4 DEF OwnInv
  <2>5. \A c \in Client : Open(c)' => Open(c)
    BY <2>1, <2>3, <2>4 DEF Open
  <2>6. \A c \in Client : cli[c] = "off" => /\ \A p \in Proc : c \notin conns'[p]
                                            /\ \A i \in DOMAIN queue' : queue'[i] # c
    BY <1>0, <2>1, <2>3, <2>4 DEF Offline
  <2>7. cli[main.c] # "off"
    BY <1>0, <2>1, <2>3 DEF Offline
  <2>8. \A c \in Client : child'[c] = child[c] \/ (child'[c].ph # "send" /\ cli[c] # "off")
    BY <1>0, <2>1, <2>7 DEF OwnInv
  <2> QED  BY <1>0, <1>1, <1>2, <2>1, <2>2, <2>5, <2>6, <2>8, QuietInv
<1>5. CASE ForkFails \/ Close
  <2>1. /\ \A p \in Proc : conns'[p] \subseteq conns[p]
        /\ lsn' \subseteq lsn /\ queue' = queue /\ child' = child
        /\ "srv" \in lsn' <=> main'.pc # "exited"
    <3>1. "srv" \in Proc /\ DOMAIN main = {"pc", "c"} /\ conns \in [Proc -> SUBSET Client]
      BY <1>0 DEF OwnInv, Proc
    <3>2. CASE ForkFails
      BY <1>0, <3>1, <3>2 DEF ForkFails
    <3>3. CASE Close
      BY <1>0, <3>1, <3>3 DEF Close, Data
    <3> QED  BY <1>5, <3>2, <3>3
  <2>2. \A c \in Client : /\ Open(c)' => Open(c)
                          /\ cli[c] = "off" => /\ \A p \in Proc : c \notin conns'[p]
                                               /\ \A i \in DOMAIN queue' : queue'[i] # c
    BY <1>0, <2>1, Closing DEF Offline
  <2> QED  BY <1>0, <1>1, <1>2, <2>1, <2>2, QuietInv
<1> QED  BY <1>3, <1>4, <1>5 DEF Parent

-----------------------------------------------------------------------------
(* The child. *)

\* A block, or its first half, holds the name.
LEMMA NameOf ==
    ASSUME NEW x \in Cell, x # Nul, NEW n \in 1 .. 2
    PROVE  /\ CString(Received(Empty, Block(x), n)) = <<x>>
           /\ Drop(Block(x), n) \in {<<>>, <<Nul>>}
<1> DEFINE b == Received(Empty, Block(x), n)
<1>1. b[1] = x /\ b[2] = Nul
  BY DEF Received, Empty, Block
<1>2. CString(b) = <<x>>
  BY <1>1 DEF CString
<1>3. Drop(Block(x), n) \in {<<>>, <<Nul>>}
  <2> DEFINE q == <<x, Nul>>
             r == SubSeq(q, n + 1, 2)
  <2>1. q \in Seq(Cell) /\ q[1] = x /\ q[2] = Nul /\ Len(q) = 2 /\ Nul \in Cell
    BY DEF Cell
  <2> HIDE DEF q
  <2>2. \A i \in n + 1 .. 2 : q[i] \in Cell
    BY <2>1, LenProperties
  <2>3. /\ r \in Seq(Cell) /\ Len(r) = IF n + 1 <= 2 THEN 2 - (n + 1) + 1 ELSE 0
        /\ \A i \in 1 .. 2 - (n + 1) + 1 : r[i] = q[n + 1 + i - 1]
    BY <2>2, SubSeqProperties
  <2>4. r = SubSeq(q, n + 1, 2)
    OBVIOUS
  <2> HIDE DEF r
  <2>5. CASE n = 1
    <3>1. Len(r) = 1 /\ r[1] = Nul
      BY <2>1, <2>3, <2>5
    <3>2. r = <<Nul>>
      BY <2>3, <3>1
    <3> QED  BY <2>1, <2>4, <3>2 DEF Drop, Block, q
  <2>6. CASE n = 2
    <3>1. r = <<>>
      BY <2>3, <2>6
    <3> QED  BY <2>1, <2>4, <3>1 DEF Drop, Block, q
  <2> QED  BY <2>5, <2>6
<1> QED  BY <1>2, <1>3

LEMMA NoName == CString(Received(Empty, <<Nul>>, 1)) = <<>>
BY DEF CString, Received

\* exit() gives up what the child has.
LEMMA ExitPrefix ==
    ASSUME PrefixInv, NEW c \in Client, Exit(c), child[c].ph # "none",
           UNCHANGED <<main, queue, cliVars, reset, toCli>>,
           toSrv' = toSrv \/ toSrv' = [toSrv EXCEPT ![c] = <<>>]
    PROVE  PrefixInv'
<1>1. OwnInv' /\ OwnInv /\ Data /\ \A d \in Client : Offline(d)
  BY ExitOwn DEF PrefixInv
<1>2. /\ UNCHANGED <<cli, want, saved, buf, whole, toCli, reset>> /\ lsn' = lsn \ {c} /\ queue' = queue
      /\ child' = [child EXCEPT ![c].ph = "gone"] /\ conns' = [conns EXCEPT ![c] = {}]
  BY DEF Exit, cliVars
<1>3. "srv" \in lsn' <=> main'.pc # "exited"
  BY <1>1, <1>2, FileServerAssumption DEF Data
<1>4. \A p \in Proc : conns'[p] \subseteq conns[p]
  <2>1. conns \in [Proc -> SUBSET Client]
    BY <1>1 DEF OwnInv
  <2>2. \A p \in Proc : conns'[p] = IF p = c THEN {} ELSE conns[p]
    BY <1>2, <2>1
  <2> QED  BY <2>2
<1>5. toSrv' \in [Client -> Seq(Cell)] /\ \A d \in Client : toSrv'[d] \in {toSrv[d], <<>>}
  <2>1. toSrv \in [Client -> Seq(Cell)] /\ <<>> \in Seq(Cell)
    BY <1>1 DEF Data
  <2> DEFINE e == <<>>
  <2>2. e \in Seq(Cell) /\ (toSrv' = toSrv \/ toSrv' = [toSrv EXCEPT ![c] = e])
    BY <2>1
  <2> HIDE DEF e
  <2>3. toSrv' \in [Client -> Seq(Cell)] /\ \A d \in Client : toSrv'[d] \in {toSrv[d], e}
    BY <2>1, <2>2
  <2> QED  BY <2>3 DEF e
<1>6. \A d \in Client : child'[d] = child[d] \/ (child'[d].ph # "send" /\ cli[d] # "off")
  <2>1. /\ child'[c].ph = "gone" /\ cli[c] # "off"
        /\ \A d \in Client \ {c} : child'[d] = child[d]
    BY <1>1, <1>2 DEF OwnInv, Offline
  <2> QED  BY <2>1
<1>7. \A d \in Client : /\ Open(d)' => Open(d)
                        /\ cli[d] = "off" => /\ \A p \in Proc : d \notin conns'[p]
                                             /\ \A i \in DOMAIN queue' : queue'[i] # d
  BY <1>1, <1>2, <1>4, Closing DEF Offline
<1> QED  BY <1>1, <1>2, <1>3, <1>5, <1>6, <1>7, QuietInv

\* A child that runs holds its connection.
LEMMA ChildOpen ==
    ASSUME OwnInv, NEW c \in Client, child[c].ph \in {"start", "read", "send"}
    PROVE  Open(c)
BY DEF OwnInv, Open, Proc

LEMMA StartPrefix == ASSUME PrefixInv, NEW c \in Client, Start(c) \/ Sent(c) PROVE PrefixInv'
<1>1. OwnInv' /\ OwnInv /\ Data /\ \A d \in Client : Offline(d)
  BY ChildOwn DEF PrefixInv, Child
<1>2. /\ UNCHANGED <<main, conns, queue, cli, want, saved, buf, whole, toCli, reset, toSrv>>
      /\ child' = [child EXCEPT ![c].ph = "read"] /\ child[c].ph # "none"
      /\ lsn' = lsn \/ lsn' = lsn \ {c}
  BY DEF Start, Sent, cliVars
<1>3. "srv" \in lsn' <=> main'.pc # "exited"
  BY <1>1, <1>2, FileServerAssumption DEF Data
<1>4. \A d \in Client : child'[d] = child[d] \/ (child'[d].ph # "send" /\ cli[d] # "off")
  BY <1>1, <1>2 DEF OwnInv, Offline
<1>5. \A d \in Client : /\ Open(d)' => Open(d)
                        /\ cli[d] = "off" => /\ \A p \in Proc : d \notin conns'[p]
                                             /\ \A i \in DOMAIN queue' : queue'[i] # d
  BY <1>1, <1>2, Closing DEF Offline
<1> QED  BY <1>1, <1>2, <1>3, <1>4, <1>5, QuietInv DEF Data

LEMMA ReadPrefix == ASSUME PrefixInv, NEW c \in Client, Read(c) PROVE PrefixInv'
<1>1. OwnInv' /\ OwnInv /\ Data /\ Offline(c) /\ (whole[c] => InBlocks(c))
  BY ChildOwn DEF PrefixInv, Child
<1>2. child[c].ph = "read" /\ toSrv[c] # <<>> /\ UNCHANGED <<main, queue, cliVars, reset, toCli>>
  BY DEF Read
<1>3. PICK n \in 1 .. 2 :
         LET name == CString(Received(Empty, toSrv[c], n)) IN
         /\ n <= Len(toSrv[c])
         /\ IF name # <<>> /\ Head(name) \in File
            THEN /\ child' = [child EXCEPT ![c] =
                                 [ph |-> "send", f |-> Head(name), k |-> 0]]
                 /\ toSrv' = [toSrv EXCEPT ![c] = Drop(@, n)]
                 /\ UNCHANGED <<conns, lsn>>
            ELSE Exit(c) /\ toSrv' = [toSrv EXCEPT ![c] = <<>>]
  BY DEF Read
<1> DEFINE name == CString(Received(Empty, toSrv[c], n))
<1>4. CASE ~(name # <<>> /\ Head(name) \in File)
  BY <1>2, <1>3, <1>4, ExitPrefix
<1>5. CASE name # <<>> /\ Head(name) \in File
  <2>1. /\ child' = [child EXCEPT ![c] = [ph |-> "send", f |-> Head(name), k |-> 0]]
        /\ toSrv' = [toSrv EXCEPT ![c] = Drop(@, n)] /\ n <= Len(toSrv[c])
        /\ UNCHANGED <<main, conns, lsn, queue, cli, want, saved, buf, whole, reset, toCli>>
    BY <1>2, <1>3, <1>5 DEF cliVars
  <2>2. Drop(toSrv[c], n) \in Seq(Cell)
    <3>1. toSrv[c] \in Seq(Cell)
      BY <1>1 DEF Data
    <3> QED  BY <3>1, SubSeqProperties, LenProperties DEF Drop
  <2>3. /\ child'[c] = [ph |-> "send", f |-> Head(name), k |-> 0]
        /\ toSrv'[c] = Drop(toSrv[c], n)
        /\ \A d \in Client \ {c} : child'[d] = child[d] /\ toSrv'[d] = toSrv[d]
    BY <1>1, <2>1 DEF OwnInv, Data
  <2>4. Data'
    <3>1. \A d \in Client : child'[d].ph = "send" => child'[d].f \in File /\ child'[d].k \in Nat
      <4>1. child'[c].f \in File /\ child'[c].k = 0
        BY <1>5, <2>3
      <4>2. \A d \in Client : child[d].ph = "send" => child[d].f \in File /\ child[d].k \in Nat
        BY <1>1 DEF Data
      <4>3. \A d \in Client \ {c} : child'[d] = child[d]
        BY <2>3
      <4> QED  BY <4>1, <4>2, <4>3
    <3> QED  BY <1>1, <2>1, <2>2, <3>1 DEF Data
  <2>5. cli[c] # "off" /\ Open(c)
    BY <1>1, <1>2, ChildOpen DEF Offline
  <2>6. Offline(c)'
    BY <2>1, <2>5 DEF Offline
  <2>7. ASSUME whole[c] PROVE InBlocks(c)'
    <3>1. InBlocks(c)
      BY <1>1, <2>7
    <3>2. cli[c] = "wait"
      <4>1. cli[c] \in {"off", "prompt", "wait", "gone"}
        BY <1>1 DEF Data
      <4> QED  BY <1>2, <2>5, <3>1, <4>1 DEF InBlocks
    <3>3. Request(c)
      <4>1. ASSUME toSrv[c] = <<Nul>> PROVE FALSE
        <5>1. Len(toSrv[c]) = 1
          BY <4>1
        <5>2. n = 1
          BY <2>1, <5>1
        <5> QED  BY <1>5, <4>1, <5>2, NoName
      <4> QED  BY <1>2, <2>5, <3>1, <3>2, <4>1 DEF InBlocks
    <3>4. want[c] \in Cell /\ want[c] # Nul
      BY <1>1, FileServerAssumption DEF Data, Cell
    <3>5. name = <<want[c]>> /\ toSrv'[c] \in {<<>>, <<Nul>>}
      BY <2>3, <3>3, <3>4, NameOf DEF Request, Block
    <3>6. child'[c].f = want[c] /\ child'[c].k = 0 /\ want[c] \in File /\ child'[c].ph = "send"
      BY <1>5, <2>3, <3>5
    <3>7. Sending(c)'
      <4>1. Len(toCli'[c]) = 0 /\ Len(saved'[c]) = 0
        BY <2>1, <3>3 DEF Request
      <4> QED  BY <2>1, <3>2, <3>5, <3>6, <4>1 DEF Sending
    <3>8. Stream(saved[c], toCli[c], Text(want[c]))'
      BY <2>1, <3>1 DEF InBlocks
    <3>9. ~(c \in reset) /\ (Open(c)' <=> Open(c))
      BY <2>1, <2>5, <3>1 DEF InBlocks, Open
    <3> QED  BY <2>1, <3>2, <3>5, <3>7, <3>8, <3>9 DEF InBlocks
  <2> QED  BY <1>1, <2>1, <2>3, <2>4, <2>6, <2>7, OneClient
<1> QED  BY <1>4, <1>5

\* The child sends the line after those it has sent.
LEMMA SendPrefix == ASSUME PrefixInv, NEW c \in Client, Send(c) PROVE PrefixInv'
<1>1. OwnInv' /\ OwnInv /\ Data /\ Offline(c) /\ (whole[c] => InBlocks(c))
  BY ChildOwn DEF PrefixInv, Child
<1>2. child[c].ph = "send" /\ child[c].k < Lines[child[c].f]
      /\ UNCHANGED <<main, queue, cliVars, toSrv>>
  BY DEF Send
<1>3. CASE Exit(c) /\ UNCHANGED <<reset, toCli>>
  BY <1>2, <1>3, ExitPrefix
<1>4. CASE ~(Exit(c) /\ UNCHANGED <<reset, toCli>>)
  <2> DEFINE x == Text(child[c].f)[child[c].k + 1]
  <2>1. /\ child' = [child EXCEPT ![c].k = @ + 1] /\ UNCHANGED <<main, conns, lsn, queue>>
        /\ cli' = cli /\ want' = want /\ saved' = saved /\ whole' = whole /\ toSrv' = toSrv
        /\ \/ cli[c] = "gone" /\ reset' = reset \cup {c} /\ toCli' = toCli
           \/ cli[c] # "gone" /\ reset' = reset /\ toCli' = [toCli EXCEPT ![c] = @ \o Block(x)]
    BY <1>2, <1>4 DEF Send, cliVars
  <2>2. Open(c) /\ cli[c] # "off"
    BY <1>1, <1>2, ChildOpen DEF Offline
  <2>3. whole[c] => cli[c] = "wait" /\ Sending(c) /\ c \notin reset
    BY <1>1, <1>2, <2>2 DEF InBlocks, Sending
  <2>4. /\ child[c].f \in File /\ child[c].k \in Nat /\ x \in Cell
        /\ child[c].k < Len(Text(child[c].f)) /\ Text(child[c].f) \in Seq(Cell)
    <3>1. child[c].f \in File /\ child[c].k \in Nat
      BY <1>1, <1>2 DEF Data
    <3>2. /\ Len(Text(child[c].f)) = Lines[child[c].f] /\ Text(child[c].f) \in Seq(Cell)
          /\ Len(Text(child[c].f)) \in Nat
          /\ \A k \in 1 .. Len(Text(child[c].f)) : Text(child[c].f)[k] \in Cell
      BY <3>1, TextOf
    <3>3. child[c].k + 1 \in 1 .. Len(Text(child[c].f))
      BY <1>2, <3>1, <3>2
    <3> QED  BY <1>2, <3>1, <3>2, <3>3
  <2> HIDE DEF x
  <2>5. /\ child'[c] = [child[c] EXCEPT !.k = @ + 1]
        /\ \A d \in Client \ {c} : child'[d] = child[d]
    BY <1>1, <2>1 DEF OwnInv
  <2>6. /\ child'[c].k = child[c].k + 1 /\ child'[c].f = child[c].f /\ child'[c].ph = "send"
        /\ child'[c].k \in Nat
    <3>1. DOMAIN child[c] = {"ph", "f", "k"}
      BY <1>1 DEF OwnInv
    <3> QED  BY <1>2, <2>4, <2>5, <3>1
  <2>7. toCli[c] \in Seq(Cell) /\ toCli[c] \o Block(x) \in Seq(Cell)
    <3>1. toCli[c] \in Seq(Cell) /\ Block(x) \in Seq(Cell)
      BY <1>1, <2>4 DEF Data, Block, Cell
    <3> QED  BY <3>1, ConcatProperties
  <2>8. /\ toCli' \in [Client -> Seq(Cell)] /\ \A d \in Client \ {c} : toCli'[d] = toCli[d]
        /\ toCli'[c] = IF cli[c] = "gone" THEN toCli[c] ELSE toCli[c] \o Block(x)
    BY <1>1, <2>1, <2>7 DEF Data
  <2>9. Data'
    <3>1. \A d \in Client : child'[d].ph = "send" => child'[d].f \in File /\ child'[d].k \in Nat
      BY <1>1, <2>4, <2>5, <2>6 DEF Data
    <3> QED  BY <1>1, <1>2, <2>1, <2>8, <3>1 DEF Data, cliVars
  <2>10. Offline(c)'
    BY <2>1, <2>2 DEF Offline
  <2>11. ASSUME whole[c] PROVE InBlocks(c)'
    <3>1. /\ InBlocks(c) /\ Sending(c) /\ cli[c] = "wait" /\ reset' = reset /\ c \notin reset
          /\ toCli'[c] = toCli[c] \o Block(x) /\ child[c].f = want[c]
      BY <1>1, <2>1, <2>3, <2>8, <2>11 DEF Sending
    <3> DEFINE t == Text(want[c])
    <3>2. /\ Stream(saved[c], toCli[c], t) /\ saved[c] \in Seq(Cell) /\ t \in Seq(Cell)
          /\ Len(toCli[c]) + 2 * Len(saved[c]) = 2 * child[c].k /\ child[c].k < Len(t)
          /\ x = t[child[c].k + 1]
      BY <1>1, <2>4, <3>1 DEF InBlocks, Sending, Data, x
    <3> HIDE DEF t
    <3>3. Stream(saved[c], toCli'[c], t) /\ Len(toCli'[c]) = Len(toCli[c]) + 2
      <4> DEFINE q == toCli[c]  s == saved[c]  k == child[c].k  r == q \o <<t[k + 1], Nul>>
      <4>1. /\ q \in Seq(Cell) /\ s \in Seq(Cell) /\ t \in Seq(Cell) /\ k \in Nat
            /\ Stream(s, q, t) /\ Len(q) + 2 * Len(s) = 2 * k /\ k < Len(t)
        BY <2>4, <2>7, <3>2
      <4>2. toCli'[c] = r
        BY <3>1, <3>2 DEF Block
      <4> HIDE DEF q, s, k
      <4>3. Stream(s, r, t) /\ Len(r) = Len(q) + 2
        BY <4>1, StreamSend
      <4> QED  BY <4>2, <4>3 DEF q, s
    <3>4. Stream(saved[c], toCli[c], Text(want[c]))'
      BY <2>1, <3>3 DEF t
    <3>5. Sending(c)'
      <4>1. Len(saved[c]) \in Nat /\ Len(toCli[c]) \in Nat
        BY <2>7, <3>2, LenProperties
      <4> DEFINE m == Len(toCli[c])  n == Len(saved[c])  k == child[c].k
      <4>2. /\ m \in Nat /\ n \in Nat /\ k \in Nat /\ m + 2 * n = 2 * k
            /\ Len(toCli'[c]) = m + 2
        BY <2>4, <3>2, <3>3, <4>1
      <4> HIDE DEF m, n, k
      <4>3. Len(toCli'[c]) + 2 * n = 2 * (k + 1)
        BY <4>2
      <4> QED  BY <2>1, <2>6, <3>1, <4>3 DEF Sending, n, k
    <3>6. toSrv'[c] \in {<<>>, <<Nul>>}
      BY <2>1, <3>1 DEF Sending
    <3> QED  BY <2>1, <3>1, <3>4, <3>5, <3>6 DEF InBlocks
  <2>12. \A d \in Client \ {c} : d \in reset' => d \in reset
    BY <2>1
  <2> QED
    BY <1>1, <2>1, <2>5, <2>8, <2>9, <2>10, <2>11, <2>12, OneClient
<1> QED  BY <1>3, <1>4

LEMMA ChildPrefix == ASSUME PrefixInv, NEW c \in Client, Child(c) PROVE PrefixInv'
<1>1. CASE ReadEnd(c)
  BY <1>1, ExitPrefix DEF ReadEnd
<1> QED  BY <1>1, StartPrefix, ReadPrefix, SendPrefix DEF Child

-----------------------------------------------------------------------------
(* The client. *)

LEMMA ConnectPrefix == ASSUME PrefixInv, NEW c \in Client, CliConnect(c) PROVE PrefixInv'
<1>1. OwnInv' /\ OwnInv /\ Data /\ Offline(c) /\ (whole[c] => InBlocks(c))
  BY ClientOwn DEF PrefixInv, User
<1>2. /\ cli[c] = "off" /\ UNCHANGED <<main, child, conns, lsn, want, buf, saved, whole, reset,
                                       toSrv, toCli>>
      /\ \/ lsn # {} /\ queue' = Append(queue, c) /\ cli' = [cli EXCEPT ![c] = "prompt"]
         \/ lsn = {} /\ queue' = queue /\ cli' = [cli EXCEPT ![c] = "gone"]
  BY DEF CliConnect
<1>3. /\ Data' /\ cli'[c] # "off" /\ \A d \in Client \ {c} : cli'[d] = cli[d]
      /\ cli'[c] = "prompt" \/ (cli'[c] = "gone" /\ lsn' = {})
  BY <1>1, <1>2 DEF Data
<1>4. Offline(c)'
  BY <1>3 DEF Offline
<1>5. ASSUME whole[c] PROVE InBlocks(c)'
  <2>1. InBlocks(c) /\ toSrv[c] = <<>> /\ child[c].ph = "none" /\ toCli[c] = <<>> /\ c \notin reset
    BY <1>1, <1>2, <1>5 DEF InBlocks, Offline
  <2>2. cli'[c] = "gone" => ~Open(c)'
    BY <1>1, <1>2, <1>3 DEF Open, Offline
  <2>3. Stream(saved[c], toCli[c], Text(want[c]))'
    BY <1>2, <2>1 DEF InBlocks
  <2> QED  BY <1>2, <1>3, <2>1, <2>2, <2>3 DEF InBlocks
<1> QED  BY <1>1, <1>2, <1>3, <1>4, <1>5, OneClient

LEMMA AskPrefix ==
    ASSUME PrefixInv, NEW c \in Client, NEW f \in Names[c], CliAsk(c, f) PROVE PrefixInv'
<1>1. OwnInv' /\ OwnInv /\ Data /\ (whole[c] => InBlocks(c))
  BY ClientOwn DEF PrefixInv, User
<1>2. /\ cli[c] = "prompt" /\ UNCHANGED <<main, child, conns, lsn, queue, whole, toCli>>
      /\ want' = [want EXCEPT ![c] = f]
      /\ buf' = [buf EXCEPT ![c] = Empty] /\ saved' = [saved EXCEPT ![c] = <<>>]
      /\ cli' = [cli EXCEPT ![c] = IF c \in reset THEN "gone" ELSE "wait"]
      /\ reset' = IF Open(c) THEN reset ELSE reset \cup {c}
      /\ toSrv' = IF Open(c) THEN [toSrv EXCEPT ![c] = @ \o Block(f)] ELSE toSrv
  BY DEF CliAsk, srvVars
<1>3. f \in File \cup {Missing} /\ f \in Cell /\ Nul \in Cell
  BY FileServerAssumption DEF Cell
<1>4. /\ toSrv' \in [Client -> Seq(Cell)] /\ \A d \in Client \ {c} : toSrv'[d] = toSrv[d]
      /\ toSrv'[c] = IF Open(c) THEN toSrv[c] \o Block(f) ELSE toSrv[c]
  <2>1. toSrv[c] \in Seq(Cell) /\ Block(f) \in Seq(Cell)
    BY <1>1, <1>3 DEF Data, Block
  <2>2. toSrv[c] \o Block(f) \in Seq(Cell)
    BY <2>1, ConcatProperties
  <2> QED  BY <1>1, <1>2, <2>2 DEF Data
<1>5. Empty \in [1 .. 2 -> Cell] /\ <<>> \in Seq(Cell)
  BY <1>3 DEF Empty
<1>6. Data'
  <2>1. /\ cli' \in [Client -> {"off", "prompt", "wait", "gone"}]
        /\ want' \in [Client -> File \cup {Missing}] /\ saved' \in [Client -> Seq(Cell)]
        /\ buf' \in [Client -> [1 .. 2 -> Cell]] /\ reset' \subseteq Client
    BY <1>1, <1>2, <1>3, <1>5 DEF Data
  <2> QED  BY <1>1, <1>2, <1>4, <2>1 DEF Data
<1>7. /\ cli'[c] = (IF c \in reset THEN "gone" ELSE "wait") /\ want'[c] = f /\ saved'[c] = <<>>
      /\ \A d \in Client \ {c} : /\ cli'[d] = cli[d] /\ want'[d] = want[d] /\ saved'[d] = saved[d]
                                 /\ d \in reset' => d \in reset
  BY <1>1, <1>2 DEF Data
<1>8. Offline(c)'
  BY <1>7 DEF Offline
<1>9. ASSUME whole[c] PROVE InBlocks(c)'
  <2>1. InBlocks(c) /\ toCli'[c] = <<>> /\ (Open(c)' <=> Open(c))
    BY <1>1, <1>2, <1>9 DEF InBlocks, Open
  <2>2. Stream(saved[c], toCli[c], Text(want[c]))'
    <3>1. Text(f) \in Seq(Cell)
      BY <1>3, TextOf
    <3>2. Stream(<<>>, <<>>, Text(f))
      BY <3>1, StreamStart
    <3> QED  BY <1>7, <2>1, <3>2
  <2>3. CASE Open(c)
    <3>1. toSrv[c] = <<>> /\ child[c].ph # "send" /\ c \notin reset
      BY <1>2, <2>1, <2>3 DEF InBlocks
    <3>2. toSrv'[c] = <<f, Nul>>
      BY <1>3, <1>4, <2>3, <3>1 DEF Block
    <3>3. Request(c)'
      BY <1>7, <2>1, <3>2 DEF Request
    <3>4. cli'[c] = "wait" /\ child' = child /\ reset' = reset
      BY <1>2, <1>7, <2>3, <3>1
    <3> QED  BY <2>1, <2>2, <3>1, <3>3, <3>4 DEF InBlocks
  <2>4. CASE ~Open(c)
    <3>1. child'[c].ph # "send" /\ ~Open(c)'
      BY <1>1, <1>2, <2>1, <2>4, ChildOpen
    <3> QED  BY <1>7, <2>1, <2>2, <3>1 DEF InBlocks
  <2> QED  BY <2>3, <2>4
<1> QED  BY <1>1, <1>2, <1>4, <1>6, <1>7, <1>8, <1>9, OneClient

LEMMA FinishPrefix ==
    ASSUME PrefixInv, NEW c \in Client, CliFinish(c) \/ CliLeave(c) PROVE PrefixInv'
<1>1. OwnInv' /\ OwnInv /\ Data /\ (whole[c] => InBlocks(c))
  BY ClientOwn DEF PrefixInv, User, Download
<1>2. CASE CliFinish(c)
  <2>1. /\ cli[c] = "wait" /\ toCli[c] = <<>> /\ ~Open(c) /\ cli' = [cli EXCEPT ![c] = "prompt"]
        /\ UNCHANGED <<main, child, conns, lsn, queue, want, buf, saved, whole, reset, toSrv, toCli>>
    BY <1>2 DEF CliFinish, srvVars
  <2>2. Data' /\ cli'[c] = "prompt" /\ \A d \in Client \ {c} : cli'[d] = cli[d]
    BY <1>1, <2>1 DEF Data
  <2>3. Offline(c)'
    BY <2>2 DEF Offline
  <2>4. ASSUME whole[c] PROVE InBlocks(c)'
    <3>1. InBlocks(c) /\ ~Open(c)' /\ child[c].ph # "send"
      BY <1>1, <2>1, <2>4, ChildOpen DEF Open
    <3>2. Stream(saved[c], toCli[c], Text(want[c]))'
      BY <2>1, <3>1 DEF InBlocks
    <3> QED  BY <2>1, <2>2, <3>1, <3>2 DEF InBlocks
  <2> QED  BY <1>1, <2>1, <2>2, <2>3, <2>4, OneClient
<1>3. CASE CliLeave(c)
  <2>1. /\ cli' = [cli EXCEPT ![c] = "gone"]
        /\ buf' = [buf EXCEPT ![c] = Empty] /\ saved' = [saved EXCEPT ![c] = <<>>]
        /\ want' = [want EXCEPT ![c] = Missing] /\ whole' = [whole EXCEPT ![c] = FALSE]
        /\ toCli' = [toCli EXCEPT ![c] = <<>>]
        /\ UNCHANGED <<main, child, conns, lsn, queue, reset, toSrv>>
    BY <1>3 DEF CliLeave, srvVars
  <2>2. Empty \in [1 .. 2 -> Cell] /\ <<>> \in Seq(Cell)
    BY DEF Empty, Cell
  <2>3. Data'
    <3>1. /\ cli' \in [Client -> {"off", "prompt", "wait", "gone"}]
          /\ want' \in [Client -> File \cup {Missing}] /\ saved' \in [Client -> Seq(Cell)]
          /\ toCli' \in [Client -> Seq(Cell)] /\ whole' \in [Client -> BOOLEAN]
          /\ buf' \in [Client -> [1 .. 2 -> Cell]]
      BY <1>1, <2>1, <2>2 DEF Data
    <3> QED  BY <1>1, <2>1, <3>1 DEF Data
  <2>4. /\ cli'[c] = "gone" /\ ~whole'[c]
        /\ \A d \in Client \ {c} : /\ cli'[d] = cli[d] /\ want'[d] = want[d] /\ saved'[d] = saved[d]
                                   /\ whole'[d] = whole[d] /\ toCli'[d] = toCli[d]
    BY <1>1, <2>1 DEF Data
  <2>5. Offline(c)'
    BY <2>4 DEF Offline
  <2> QED  BY <1>1, <2>1, <2>3, <2>4, <2>5, OneClient
<1> QED  BY <1>2, <1>3

LEMMA ReadBlockPrefix == ASSUME PrefixInv, NEW c \in Client, CliRead(c) PROVE PrefixInv'
<1> DEFINE q == toCli[c]
<1>1. OwnInv' /\ OwnInv /\ Data /\ (whole[c] => InBlocks(c))
  BY ClientOwn DEF PrefixInv, Download
<1>2. PICK n, b :
        /\ n \in 1 .. 2 /\ b = Received(buf[c], q, n) /\ n <= Len(q)
        /\ toCli' = [toCli EXCEPT ![c] = Drop(q, n)] /\ buf' = [buf EXCEPT ![c] = b]
        /\ whole' = [whole EXCEPT ![c] = @ /\ n = 2]
        /\ \/ saved' = [saved EXCEPT ![c] = @ \o CString(b)] /\ cli' = cli
           \/ n = 1 /\ cli' = [cli EXCEPT ![c] = "prompt"] /\ saved' = saved
  BY DEF CliRead
<1>3. /\ cli[c] = "wait" /\ q # <<>>
      /\ UNCHANGED <<main, child, conns, lsn, queue, want, reset, toSrv>>
  BY DEF CliRead, srvVars
<1>4. q \in Seq(Cell) /\ saved[c] \in Seq(Cell) /\ buf[c] \in [1 .. 2 -> Cell]
  BY <1>1 DEF Data
<1>5. b \in [1 .. 2 -> Cell]
  <2>1. \A i \in 1 .. 2 : i <= n => q[i] \in Cell
    BY <1>2, <1>4, LenProperties
  <2> QED  BY <1>2, <1>4, <2>1 DEF Received
<1>6. CString(b) \in Seq(Cell)
  <2>1. b = <<b[1], b[2]>> /\ b[1] \in Cell /\ b[2] \in Cell
    BY <1>5
  <2>2. <<>> \in Seq(Cell) /\ <<b[1]>> \in Seq(Cell) /\ <<b[1], b[2]>> \in Seq(Cell)
    BY <2>1
  <2>3. b \in Seq(Cell)
    BY <2>1, <2>2, Zenon
  <2> QED  BY <2>2, <2>3, Zenon DEF CString
<1>7. Drop(q, n) \in Seq(Cell) /\ saved[c] \o CString(b) \in Seq(Cell)
  <2>1. \A i \in n + 1 .. Len(q) : q[i] \in Cell
    BY <1>2, <1>4, LenProperties
  <2>2. Len(q) \in Int /\ n + 1 \in Int
    BY <1>2, <1>4, LenProperties
  <2>3. Drop(q, n) \in Seq(Cell)
    BY <2>1, <2>2, SubSeqProperties DEF Drop
  <2> QED  BY <1>4, <1>6, <2>3, ConcatProperties
<1>8. Data'
  <2>1. /\ cli' \in [Client -> {"off", "prompt", "wait", "gone"}]
        /\ saved' \in [Client -> Seq(Cell)] /\ toCli' \in [Client -> Seq(Cell)]
        /\ whole' \in [Client -> BOOLEAN] /\ buf' \in [Client -> [1 .. 2 -> Cell]]
    BY <1>1, <1>2, <1>5, <1>7 DEF Data
  <2> QED  BY <1>1, <1>3, <2>1 DEF Data
<1>9. /\ whole'[c] => whole[c] /\ n = 2 /\ cli'[c] = "wait" /\ saved'[c] = saved[c] \o CString(b)
      /\ toCli'[c] = Drop(q, n) /\ cli'[c] # "off"
      /\ \A d \in Client \ {c} : /\ cli'[d] = cli[d] /\ saved'[d] = saved[d]
                                 /\ whole'[d] = whole[d] /\ toCli'[d] = toCli[d]
  <2> DEFINE r == Drop(q, n)  v == saved[c] \o CString(b)
  <2>1. /\ toCli' = [toCli EXCEPT ![c] = r] /\ whole' = [whole EXCEPT ![c] = @ /\ n = 2]
        /\ \/ saved' = [saved EXCEPT ![c] = v] /\ cli' = cli
           \/ n = 1 /\ cli' = [cli EXCEPT ![c] = "prompt"] /\ saved' = saved
    BY <1>2
  <2> HIDE DEF r, v
  <2>2. /\ toCli'[c] = r /\ (whole'[c] => whole[c] /\ n = 2)
        /\ \A d \in Client \ {c} : whole'[d] = whole[d] /\ toCli'[d] = toCli[d]
    BY <1>1, <2>1 DEF Data
  <2>3. /\ n = 2 => cli'[c] = "wait" /\ saved'[c] = v
        /\ cli'[c] # "off" /\ \A d \in Client \ {c} : cli'[d] = cli[d] /\ saved'[d] = saved[d]
    BY <1>1, <1>3, <2>1 DEF Data
  <2> QED  BY <2>2, <2>3 DEF r, v
<1>10. Offline(c)'
  BY <1>9 DEF Offline
<1>11. ASSUME whole'[c] PROVE InBlocks(c)'
  <2> DEFINE s == saved[c]  t == Text(want[c])
  <2>1. InBlocks(c) /\ n = 2 /\ t \in Seq(Cell) /\ Stream(s, q, t)
    BY <1>1, <1>9, <1>11, TextOf DEF InBlocks, Data
  <2> HIDE DEF q, s, t
  <2>2. /\ Stream(s \o <<q[1]>>, Drop(q, 2), t)
        /\ Len(s \o <<q[1]>>) = Len(s) + 1 /\ Len(Drop(q, 2)) = Len(q) - 2
        /\ q[2] = Nul /\ Len(s) + 1 \in 1 .. Len(t) /\ q[1] = t[Len(s) + 1]
    BY <1>3, <1>4, <2>1, StreamRead DEF s
  <2>3. q[1] # Nul
    <3>1. \A k \in 1 .. Len(t) : t[k] # Nul
      BY <1>1, TextOf DEF t, Data
    <3> QED  BY <2>2, <3>1
  <2>4. CString(b) = <<q[1]>>
    <3>1. b[1] = q[1] /\ b[2] = q[2]
      BY <1>2, <2>1 DEF Received
    <3> QED  BY <2>2, <2>3, <3>1 DEF CString
  <2>5. saved'[c] = s \o <<q[1]>> /\ toCli'[c] = Drop(q, 2)
    BY <1>9, <1>11, <2>1, <2>4 DEF s
  <2>6. Stream(saved[c], toCli[c], Text(want[c]))'
    BY <1>3, <2>2, <2>5 DEF t
  <2>7. child'[c].ph = "send" => Sending(c)'
    <3>1. ASSUME child[c].ph = "send" PROVE Len(toCli'[c]) + 2 * Len(saved'[c]) = 2 * child[c].k
      <4>1. Len(q) + 2 * Len(s) = 2 * child[c].k
        BY <2>1, <3>1 DEF InBlocks, Sending, q, s
      <4>2. Len(q) \in Nat /\ Len(s) \in Nat
        BY <1>4, LenProperties DEF s
      <4>3. Len(toCli'[c]) = Len(q) - 2 /\ Len(saved'[c]) = Len(s) + 1
        BY <2>2, <2>5
      <4> QED  BY <4>1, <4>2, <4>3
    <3>2. child[c].ph = "send" => Sending(c)
      BY <2>1 DEF InBlocks
    <3> QED  BY <1>3, <1>9, <1>11, <3>1, <3>2 DEF Sending
  <2>8. Open(c)' => Open(c) /\ toSrv'[c] \in {<<>>, <<Nul>>}
    <3>1. Open(c)' => Open(c)
      BY <1>3 DEF Open
    <3>2. toCli[c] # <<>>
      BY <1>3 DEF q
    <3> QED  BY <1>3, <2>1, <3>1, <3>2 DEF InBlocks, Request
  <2>9. c \in reset' => ~Open(c)'
    BY <1>3, <2>1, <2>8 DEF InBlocks
  <2> QED  BY <1>9, <1>11, <2>6, <2>7, <2>8, <2>9 DEF InBlocks
<1> QED  BY <1>1, <1>3, <1>8, <1>9, <1>10, <1>11, OneClient

-----------------------------------------------------------------------------
(* Every step, and the theorem. *)

LEMMA InitPrefix == ASSUME Init PROVE PrefixInv
<1>1. Data
  BY DEF Init, Data, Empty, Cell
<1>2. ASSUME NEW c \in Client PROVE Offline(c) /\ InBlocks(c)
  <2>1. Text(Missing) \in Seq(Cell)
    BY TextOf
  <2>2. Stream(saved[c], toCli[c], Text(want[c]))
    BY <2>1, StreamStart DEF Init
  <2> QED  BY <2>2 DEF Init, Offline, InBlocks
<1> QED  BY <1>1, <1>2, InitOwn DEF PrefixInv

LEMMA NextPrefix == ASSUME PrefixInv, [Next]_vars PROVE PrefixInv'
<1>1. CASE UNCHANGED vars
  <2>1. /\ UNCHANGED <<main, child, conns, lsn, queue, cli, want, saved, buf, whole, toCli, reset,
                       toSrv>>
    BY <1>1 DEF vars, srvVars, cliVars
  <2>2. OwnInv' /\ OwnInv /\ Data /\ \A c \in Client : Offline(c)
    BY <1>1, NextOwn DEF PrefixInv
  <2>3. \A c \in Client : Open(c)' => Open(c)
    BY <2>1 DEF Open
  <2> QED  BY <2>1, <2>2, <2>3, QuietInv DEF Data, Offline
<1>2. CASE Parent
  BY <1>2, ParentPrefix
<1>3. ASSUME NEW c \in Client, Child(c) \/ Download(c) \/ User(c) PROVE PrefixInv'
  BY <1>3, ChildPrefix, ReadBlockPrefix, FinishPrefix, ConnectPrefix, AskPrefix DEF Download, User
<1> QED  BY <1>1, <1>2, <1>3 DEF Next

\* SavedPrefixHolds: what any number of clients save at the same time, from
\* files of any length, is the beginning of what each asked for, as long as a
\* read returns what a write sent (srv02.c lines 59-64, cli02.c lines 50-52).
THEOREM SavedPrefixHolds == Spec => []SavedPrefix
<1>1. ASSUME PrefixInv PROVE SavedPrefix
  <2> SUFFICES ASSUME NEW c \in Client, whole[c]
               PROVE  /\ Len(saved[c]) <= Len(Text(want[c]))
                      /\ \A i \in DOMAIN saved[c] : saved[c][i] = Text(want[c])[i]
    BY DEF SavedPrefix
  <2>1. saved[c] \in Seq(Cell) /\ Len(Text(want[c])) \in Nat
    BY <1>1, TextOf DEF PrefixInv, Data
  <2>2. PICK p \in Nat : /\ Len(saved[c]) + p <= Len(Text(want[c]))
                         /\ \A i \in 1 .. Len(saved[c]) : saved[c][i] = Text(want[c])[i]
    BY <1>1 DEF PrefixInv, InBlocks, Stream
  <2>3. DOMAIN saved[c] = 1 .. Len(saved[c]) /\ Len(saved[c]) \in Nat
    BY <2>1, LenProperties
  <2> QED  BY <2>1, <2>2, <2>3
<1> QED  BY <1>1, InitPrefix, NextPrefix, PTL DEF Spec
=============================================================================
