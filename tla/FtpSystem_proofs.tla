--------------------------- MODULE FtpSystem_proofs ---------------------------
(***************************************************************************)
(* Proofs about the proxy and its peers, for every value of the constants. *)
(***************************************************************************)
EXTENDS FtpRestart, WellFoundedInduction, SequenceTheorems, TLAPS

(***************************************************************************)
(* The descriptor table.                                                   *)
(***************************************************************************)

\* LowestFree: the number that socket(), accept() and creat() return is a free
\* descriptor, or the -1 of a full table.
LEMMA LowestFree ==
    ASSUME NEW ft
    PROVE  /\ Lowest(ft) \in Fd \cup {NoFd}
           /\ Lowest(ft) # NoFd => Lowest(ft) \in Fd /\ ft[Lowest(ft)] = Free
           /\ (\E fd \in Fd : ft[fd] = Free) => Lowest(ft) # NoFd
           /\ NoFd \notin Fd
<1> DEFINE T == {fd \in Fd : ft[fd] = Free}
           less == {ss \in Nat \X Nat : ss[1] < ss[2]}
<1>1. NoFd \notin Fd
  BY NetAssumption DEF NoFd, Fd
<1>2. CASE T = {}
  BY <1>1, <1>2 DEF Lowest
<1>3. CASE T # {}
  <2>1. T \subseteq Nat
    BY NetAssumption DEF Fd
  <2>2. IsWellFoundedOn(less, Nat)
    BY NatLessThanWellFounded DEF OpToRel
  <2>3. PICK x \in T : \A y \in T : ~ (<<y, x>> \in less)
    BY <1>3, <2>1, <2>2, WFMin
  <2>4. \A y \in T : x <= y
    <3>1. \A y, z \in Nat : y < z => <<y, z>> \in less
      OBVIOUS
    <3> HIDE DEF T, less
    <3>2. x \in Nat /\ \A y \in T : y \in Nat /\ ~(y < x)
      BY <2>1, <2>3, <3>1
    <3> QED  BY <3>2
  <2>5. \E fd \in Fd : ft[fd] = Free /\ \A e \in Fd : ft[e] = Free => fd <= e
    BY <2>3, <2>4
  <2>6. Lowest(ft) = CHOOSE fd \in Fd :
            ft[fd] = Free /\ \A e \in Fd : ft[e] = Free => fd <= e
    BY <1>3 DEF Lowest
  <2> HIDE DEF T
  <2>7. Lowest(ft) \in Fd /\ ft[Lowest(ft)] = Free
    BY <2>5, <2>6
  <2> QED  BY <1>1, <2>7
<1> QED  BY <1>2, <1>3

-----------------------------------------------------------------------------
(***************************************************************************)
(* What the peers' steps leave alone.                                      *)
(***************************************************************************)

\* CliStepKeeps: no step of a client touches what the proxy owns.
LEMMA CliStepKeeps == ASSUME NEW s \in Session, CliStep(s) PROVE UNCHANGED proxyOwn
<1>1. CASE CliConnect(s) BY <1>1 DEF CliConnect
<1>2. CASE CliGreeted(s) BY <1>2 DEF CliGreeted
<1>3. CASE CliReady(s)   BY <1>3 DEF CliReady
<1>4. CASE CliCommand(s) BY <1>4 DEF CliCommand
<1>5. CASE CliDial(s)    BY <1>5 DEF CliDial
<1>6. CASE CliReply(s)   BY <1>6 DEF CliReply
<1>7. CASE CliDone(s)    BY <1>7 DEF CliDone
<1>8. CASE CliQuit(s)    BY <1>8 DEF CliQuit
<1>9. CASE CliClose(s) \/ CliAbort(s)
  BY <1>9 DEF CliClose, CliAbort, Leave
<1>10. ASSUME NEW mode \in Mode, NEW m \in Want, CliStart(s, mode, m)
       PROVE  UNCHANGED proxyOwn
  BY <1>10 DEF CliStart
<1> QED
  BY <1>1, <1>2, <1>3, <1>4, <1>5, <1>6, <1>7, <1>8, <1>9, <1>10 DEF CliStep

\* CliDataKeeps: nor does a block that a client sends or takes.
LEMMA CliDataKeeps == ASSUME NEW n \in Op, CliData(n) PROVE UNCHANGED proxyOwn
BY DEF CliData, CliGet, CliPut, CliPutEnd

\* SrvStepKeeps: nor does a step of the server.
LEMMA SrvStepKeeps == ASSUME NEW s \in Session, SrvStep(s) PROVE UNCHANGED proxyOwn
<1>1. CASE SrvGreet(s)   BY <1>1 DEF SrvGreet
<1>2. CASE SrvSetup(s)   BY <1>2 DEF SrvSetup
<1>3. CASE SrvCommand(s) BY <1>3 DEF SrvCommand
<1>4. CASE SrvOpen(s)    BY <1>4 DEF SrvOpen
<1>5. CASE SrvSend(s)    BY <1>5 DEF SrvSend
<1>6. CASE SrvRecv(s)    BY <1>6 DEF SrvRecv
<1>7. CASE SrvEnd(s, "226") \/ SrvEnd(s, "426")
  BY <1>7 DEF SrvEnd
<1>8. CASE SrvQuit(s)    BY <1>8 DEF SrvQuit
<1>9. CASE SrvHangup(s)  BY <1>9 DEF SrvHangup
<1> QED
  BY <1>1, <1>2, <1>3, <1>4, <1>5, <1>6, <1>7, <1>8, <1>9 DEF SrvStep

-----------------------------------------------------------------------------
(***************************************************************************)
(* The listening socket.  It is never closed because no other socket       *)
(* variable, and not bytes_creat, ever holds its number: they hold 0 or    *)
(* what some call returned, and no call returns the number of an open      *)
(* descriptor.                                                             *)
(***************************************************************************)
ListenerInv ==
    /\ DOMAIN fdt = Fd /\ DOMAIN sock = Role
    /\ sock.proxy_cmd = 3 /\ fdt[3] = Listener(CmdPort) /\ 3 \in master
    /\ \A r \in Role \ {"proxy_cmd"} : sock[r] # 3
    /\ bytes_creat # 3

\* OpenKeeps: opening a descriptor keeps the table's domain and descriptor 3.
LEMMA OpenKeeps ==
    ASSUME NEW ft, DOMAIN ft = Fd, ft[3] = Listener(CmdPort), NEW o
    PROVE  /\ DOMAIN Opened(ft, o) = Fd /\ Opened(ft, o)[3] = Listener(CmdPort)
           /\ Lowest(ft) # 3
<1>1. 3 \in Fd /\ NoFd # 3
  BY NetAssumption DEF Fd, NoFd
<1>2. Listener(CmdPort) # Free
  BY DEF Listener, Free
<1>3. Lowest(ft) # 3
  BY <1>1, <1>2, LowestFree
<1> QED  BY <1>1, <1>3 DEF Opened

\* CloseKeeps: so does closing descriptors other than 3.
LEMMA CloseKeeps ==
    ASSUME NEW ft, ft[3] = Listener(CmdPort), NEW S, 3 \notin S
    PROVE  DOMAIN Closed(ft, S) = Fd /\ Closed(ft, S)[3] = Listener(CmdPort)
BY NetAssumption DEF Closed, Fd

\* RolesDistinct: the names of the six socket variables.
LEMMA RolesDistinct ==
    /\ {"accept_cmd", "connect_cmd", "proxy_data", "accept_data",
        "connect_data"} \subseteq Role \ {"proxy_cmd"}
    /\ "proxy_cmd" \in Role
BY DEF Role

\* A branch that ends in close() of descriptors other than 3.
LEMMA CloseAllListener ==
    ASSUME ListenerInv, NEW S, NEW M, 3 \notin S, 3 \notin M, CloseAll(S, M),
           UNCHANGED bytes_creat
    PROVE  ListenerInv'
BY CloseKeeps DEF ListenerInv, CloseAll

\* ControlPairListener: neither the control pair nor an old data listener is descriptor 3.
LEMMA ControlPairListener == ListenerInv => 3 \notin ControlPair /\ 3 \notin OldListener
BY RolesDistinct DEF ListenerInv, ControlPair, OldListener

\* InitListener: start-up leaves the listener of port 21 on descriptor 3, selected.
LEMMA InitListener == SysInit => ListenerInv
BY NetAssumption, RolesDistinct DEF SysInit, Init, ListenerInv, Fd

\* AcceptClientListener: a new client (lines 157-174) replaces the old pair, not the
\* listener.
LEMMA AcceptClientListener == ASSUME ListenerInv, AcceptClient PROVE ListenerInv'
<1> DEFINE old == ControlPair \cap master
           ft  == Closed(fdt, old)
           new == Head(backlog[CmdPort])
           srv == [k |-> "sc", n |-> new.n]
           s   == Lowest(ft)
           c   == Lowest(Opened(ft, srv))
<1>1. CASE Exit
  BY <1>1 DEF Exit, fds, store, ListenerInv
<1>2. CASE /\ fdt' = [ft EXCEPT ![s] = srv, ![c] = new]
           /\ sock' = [sock EXCEPT !.connect_cmd = s, !.accept_cmd = c]
           /\ master' = (master \ old) \cup {s, c}
           /\ UNCHANGED bytes_creat
  <2>1. 3 \notin old
    BY ControlPairListener
  <2>2. DOMAIN ft = Fd /\ ft[3] = Listener(CmdPort)
    BY <2>1, CloseKeeps DEF ListenerInv
  <2>3. s # 3 /\ c # 3
    BY <2>2, OpenKeeps
  <2> HIDE DEF old, ft, new, srv, s, c
  <2>4. DOMAIN fdt' = Fd /\ fdt'[3] = Listener(CmdPort)
    BY <1>2, <2>2, <2>3, NetAssumption DEF Fd
  <2>5. /\ DOMAIN sock' = Role /\ sock'["proxy_cmd"] = 3
        /\ \A r \in Role \ {"proxy_cmd"} : sock'[r] # 3
    BY <1>2, <2>3, RolesDistinct DEF ListenerInv
  <2>6. 3 \in master'
    BY <1>2, <2>1 DEF ListenerInv
  <2> QED  BY <1>2, <2>4, <2>5, <2>6 DEF ListenerInv
<1> QED  BY <1>1, <1>2 DEF AcceptClient, store

\* DataListenerListener: opening a data listener (PORT, 227) takes a free descriptor.
LEMMA DataListenerListener ==
    ASSUME ListenerInv, NEW p, NEW mode, NEW role, NEW m,
           DataListener(p, mode, role, m)
    PROVE  ListenerInv'
<1> DEFINE ft  == Closed(fdt, OldListener)
           new == Lowest(ft)
           ft1 == Opened(ft, Listener(p))
<1>1. CASE Exit
  BY <1>1 DEF Exit, fds, store, ListenerInv
<1>2. CASE /\ fdt' = ft1 /\ master' = (master \ OldListener) \cup {new}
           /\ sock' = [sock EXCEPT !.proxy_data = new]
           /\ UNCHANGED bytes_creat
  <2>1. 3 \notin OldListener
    BY ControlPairListener
  <2>2. DOMAIN ft = Fd /\ ft[3] = Listener(CmdPort)
    BY <2>1, CloseKeeps DEF ListenerInv
  <2>3. new # 3 /\ DOMAIN ft1 = Fd /\ ft1[3] = Listener(CmdPort)
    BY <2>2, OpenKeeps
  <2> HIDE DEF ft, new, ft1
  <2>4. /\ DOMAIN sock' = Role /\ sock'["proxy_cmd"] = 3
        /\ \A r \in Role \ {"proxy_cmd"} : sock'[r] # 3
    BY <1>2, <2>3, RolesDistinct DEF ListenerInv
  <2> QED  BY <1>2, <2>1, <2>3, <2>4 DEF ListenerInv
<1> QED  BY <1>1, <1>2 DEF DataListener, store

\* RetrCachedListener: serving a cached file in active mode uses free descriptors.
LEMMA RetrCachedListener ==
    ASSUME ListenerInv, NEW x, RetrCached(x) PROVE ListenerInv'
<1> DEFINE d  == Lowest(fdt)
           ft == Opened(fdt, Connected("client", proxy_data_port))
<1>1. UNCHANGED <<master, bytes_creat>>
  BY DEF RetrCached, store
<1>2. CASE UNCHANGED <<fdt, sock>>
  BY <1>1, <1>2 DEF ListenerInv
<1>3. CASE sock' = [sock EXCEPT !.connect_data = d] /\ fdt' = Closed(ft, {d})
  <2>1. d # 3 /\ ft[3] = Listener(CmdPort)
    BY OpenKeeps DEF ListenerInv
  <2> HIDE DEF d, ft
  <2>2. DOMAIN fdt' = Fd /\ fdt'[3] = Listener(CmdPort)
    BY <1>3, <2>1, CloseKeeps
  <2>3. /\ DOMAIN sock' = Role /\ sock'["proxy_cmd"] = 3
        /\ \A r \in Role \ {"proxy_cmd"} : sock'[r] # 3
    BY <1>3, <2>1, RolesDistinct DEF ListenerInv
  <2> QED  BY <1>1, <2>2, <2>3 DEF ListenerInv
<1> QED  BY <1>2, <1>3 DEF RetrCached

\* CommandListener: the client's command branch (lines 176-248) keeps the listener.
LEMMA CommandListener == ASSUME ListenerInv, Command PROVE ListenerInv'
<1>1. PICK x : \/ ClientGone(x)    \/ PortCommand(x) \/ RetrCached(x)
               \/ RetrForwarded(x) \/ OtherCommand(x)
  BY DEF Command
<1>2. CASE ClientGone(x)
  BY <1>2, ControlPairListener, CloseAllListener DEF ClientGone, store
<1>3. CASE PortCommand(x)
  BY <1>3, DataListenerListener DEF PortCommand
<1>4. CASE RetrCached(x)
  BY <1>4, RetrCachedListener
<1>5. CASE RetrForwarded(x) \/ OtherCommand(x)
  BY <1>5 DEF RetrForwarded, OtherCommand, ListenerInv, fds, store
<1> QED  BY <1>1, <1>2, <1>3, <1>4, <1>5

\* ReplyListener: the server's reply branch (lines 250-275) keeps the listener.
LEMMA ReplyListener == ASSUME ListenerInv, Reply PROVE ListenerInv'
<1>1. PICK x : ServerGone(x) \/ PassiveReply(x) \/ OtherReply(x)
  BY DEF Reply
<1>2. CASE ServerGone(x)
  BY <1>2, ControlPairListener, CloseAllListener DEF ServerGone, store
<1>3. CASE PassiveReply(x)
  BY <1>3, DataListenerListener DEF PassiveReply
<1>4. CASE OtherReply(x)
  BY <1>4 DEF OtherReply, ListenerInv, fds, store
<1> QED  BY <1>1, <1>2, <1>3, <1>4

\* RelayListener: connecting both sides of a transfer uses free descriptors.
LEMMA RelayListener ==
    ASSUME ListenerInv, NEW r1 \in {"accept_data", "connect_data"},
           NEW r2 \in {"accept_data", "connect_data"}, NEW host, NEW asks,
           Relay(r1, r2, host, asks)
    PROVE  ListenerInv'
<1>1. CASE Exit
  BY <1>1 DEF Exit, fds, store, ListenerInv
<1>2. ASSUME NEW new, NEW caching,
             LET ft1 == Opened(fdt, new[r1])
                 ft2 == Opened(ft1, new[r2])
             IN  /\ sock' = [sock EXCEPT ![r1] = Lowest(fdt), ![r2] = Lowest(ft1)]
                 /\ master' = master \cup {Lowest(fdt), Lowest(ft1)}
                 /\ fdt' = IF caching THEN Opened(ft2, CacheFile(file)) ELSE ft2
                 /\ bytes_creat' = IF caching THEN Lowest(ft2) ELSE bytes_creat
      PROVE  ListenerInv'
  <2> DEFINE ft1 == Opened(fdt, new[r1])
             ft2 == Opened(ft1, new[r2])
             ft3 == Opened(ft2, CacheFile(file))
  <2>1. /\ Lowest(fdt) # 3
        /\ DOMAIN ft1 = Fd /\ ft1[3] = Listener(CmdPort)
    BY OpenKeeps DEF ListenerInv
  <2>2. /\ Lowest(ft1) # 3
        /\ DOMAIN ft2 = Fd /\ ft2[3] = Listener(CmdPort)
    BY <2>1, OpenKeeps
  <2>3. /\ Lowest(ft2) # 3
        /\ DOMAIN ft3 = Fd /\ ft3[3] = Listener(CmdPort)
    BY <2>2, OpenKeeps
  <2>4. /\ sock' = [sock EXCEPT ![r1] = Lowest(fdt), ![r2] = Lowest(ft1)]
        /\ master' = master \cup {Lowest(fdt), Lowest(ft1)}
        /\ fdt' = IF caching THEN ft3 ELSE ft2
        /\ bytes_creat' = IF caching THEN Lowest(ft2) ELSE bytes_creat
    BY <1>2
  <2> HIDE DEF ft1, ft2, ft3
  <2>5. /\ DOMAIN sock' = Role /\ sock'["proxy_cmd"] = 3
        /\ \A r \in Role \ {"proxy_cmd"} : sock'[r] # 3
    BY <2>1, <2>2, <2>4, RolesDistinct DEF ListenerInv
  <2> QED  BY <2>2, <2>3, <2>4, <2>5 DEF ListenerInv
<1> QED  BY <1>1, <1>2 DEF Relay

\* ServeCachedListener: answering a passive download from the cache keeps the listener.
LEMMA ServeCachedListener == ASSUME ListenerInv, ServeCached PROVE ListenerInv'
<1> DEFINE a == Lowest(fdt)
<1>1. PICK o : /\ sock' = [sock EXCEPT !.accept_data = a]
               /\ fdt' = Closed(Opened(fdt, o), {a})
  BY DEF ServeCached
<1>2. UNCHANGED <<master, bytes_creat>>
  BY DEF ServeCached, store
<1>3. a # 3 /\ Opened(fdt, o)[3] = Listener(CmdPort)
  BY OpenKeeps DEF ListenerInv
<1> HIDE DEF a
<1>4. DOMAIN fdt' = Fd /\ fdt'[3] = Listener(CmdPort)
  BY <1>1, <1>3, CloseKeeps
<1>5. /\ DOMAIN sock' = Role /\ sock'["proxy_cmd"] = 3
      /\ \A r \in Role \ {"proxy_cmd"} : sock'[r] # 3
  BY <1>1, <1>3, RolesDistinct DEF ListenerInv
<1> QED  BY <1>2, <1>4, <1>5 DEF ListenerInv

\* DataConnectionListener: the data listener's branch (lines 277-334) keeps the listener.
LEMMA DataConnectionListener == ASSUME ListenerInv, DataConnection PROVE ListenerInv'
<1>1. CASE Exit
  BY <1>1 DEF Exit, fds, store, ListenerInv
<1>2. CASE RelayActive  BY <1>2, RelayListener DEF RelayActive
<1>3. CASE RelayPassive BY <1>3, RelayListener DEF RelayPassive
<1>4. CASE ServeCached  BY <1>4, ServeCachedListener
<1>5. CASE RelayMiss    BY <1>5, RelayListener DEF RelayMiss
<1> QED  BY <1>1, <1>2, <1>3, <1>4, <1>5 DEF DataConnection

\* TransferListener: the data branches (lines 335-373) close their own pair only.
LEMMA TransferListener ==
    ASSUME ListenerInv, NEW r \in {"accept_data", "connect_data"},
           NEW other \in {"accept_data", "connect_data"}, Transfer(r, other)
    PROVE  ListenerInv'
<1>1. PICK x : DataEnd(r, other, x) \/ DataBlock(r, other, x)
  BY DEF Transfer
<1>2. CASE DataEnd(r, other, x)
  <2> DEFINE S == {sock[r], sock[other]} \cup IF cache THEN {bytes_creat} ELSE {}
  <2>1. 3 \notin S /\ 3 \notin {sock[r], sock[other]}
    BY RolesDistinct DEF ListenerInv
  <2>2. CloseAll(S, {sock[r], sock[other]}) /\ UNCHANGED bytes_creat
    BY <1>2 DEF DataEnd, store
  <2> QED  BY <2>1, <2>2, CloseAllListener
<1>3. CASE DataBlock(r, other, x)
  BY <1>3 DEF DataBlock, ListenerInv, fds, store
<1> QED  BY <1>1, <1>2, <1>3

\* NextListener: every step of the system keeps the listener.
LEMMA NextListener == ASSUME ListenerInv, [Next]_vars PROVE ListenerInv'
<1>1. CASE UNCHANGED proxyOwn
  BY <1>1 DEF proxyOwn, store, ListenerInv
<1>2. CASE Select
  BY <1>2 DEF Select, Exit, fds, store, ListenerInv
<1>3. CASE AcceptClient   BY <1>3, AcceptClientListener
<1>4. CASE Command        BY <1>4, CommandListener
<1>5. CASE Reply          BY <1>5, ReplyListener
<1>6. CASE DataConnection BY <1>6, DataConnectionListener
<1>7. CASE Transfer("accept_data", "connect_data")
  BY <1>7, TransferListener
<1>8. CASE Transfer("connect_data", "accept_data")
  BY <1>8, TransferListener
<1>9. CASE UNCHANGED vars
  BY <1>9 DEF vars, proxyVars, fds, store, ListenerInv
<1>10. ASSUME NEW s \in Session, CliStep(s) \/ SrvStep(s) PROVE ListenerInv'
  BY <1>1, <1>10, CliStepKeeps, SrvStepKeeps
<1>11. ASSUME NEW n \in Op, CliData(n) PROVE ListenerInv'
  BY <1>1, <1>11, CliDataKeeps
<1> QED
  BY <1>2, <1>3, <1>4, <1>5, <1>6, <1>7, <1>8, <1>9, <1>10, <1>11 DEF Next

\* ListenerAliveHolds: the proxy's port-21 socket stays open, listening and
\* selected, whatever clients, servers and earlier transfers leave behind.
THEOREM ListenerAliveHolds == Spec => []ListenerAlive
<1>1. ListenerInv => ListenerAlive
  BY DEF ListenerInv, ListenerAlive
<1> QED  BY <1>1, InitListener, NextListener, PTL DEF Spec

-----------------------------------------------------------------------------
(***************************************************************************)
(* Type correctness of the proxy and its peers, for every value of the     *)
(* constants.                                                              *)
(***************************************************************************)

(***************************************************************************)
(* Messages, open files and the descriptor table.                          *)
(***************************************************************************)

\* MsgKind: the first word of a message tells what else is in it.
LEMMA MsgKind ==
    ASSUME NEW m \in Msg
    PROVE  /\ m.t \in {"PORT", "PASV", "227"} => m \in Address
           /\ m.t \in {"RETR", "STOR"} => m \in Named
BY DEF Msg, Address, Named, Plain, Block

\* AddressType: an address with another host in it is an address.
LEMMA AddressType ==
    ASSUME NEW m \in Address
    PROVE  m.n \in Op /\ [m EXCEPT !.at = "proxy"] \in Msg
BY DEF Address, Host, Msg

\* SayType: the replies and commands without arguments are messages.
LEMMA SayType ==
    /\ Say("150") \in Msg /\ Say("226") \in Msg /\ Say("426") \in Msg
    /\ Say("550") \in Msg /\ Say("200") \in Msg /\ Say("220") \in Msg
    /\ Say("221") \in Msg /\ Say("QUIT") \in Msg /\ Say("LIST") \in Msg
    /\ Junk \in Msg
BY DEF Say, Junk, Msg, Plain

\* ObjectKind: what a descriptor refers to, by its kind.
LEMMA ObjectKind ==
    /\ {Free, Dead, Std} \subseteq Object /\ Conn \subseteq Object
    /\ \A p \in Port : Listener(p) \in Object
    /\ \A f \in File : CacheFile(f) \in Object
    /\ \A o \in Object : /\ IsConn(o) <=> o \in Conn
                         /\ o.k = "file" => o.n \in File
    /\ Dead \notin Conn
<1>1. /\ {Free, Dead, Std} \subseteq Object /\ Conn \subseteq Object
      /\ \A p \in Port : Listener(p) \in Object
      /\ \A f \in File : CacheFile(f) \in Object
  BY DEF Object
<1>2. \A o \in Conn : IsConn(o) /\ o.k # "file"
  BY DEF Conn, IsConn
<1>3. \A o \in {Free, Dead, Std} \cup {Listener(p) : p \in Port} :
          ~IsConn(o) /\ o.k # "file"
  BY DEF Free, Dead, Std, Listener, IsConn
<1>4. \A o \in {CacheFile(f) : f \in File} : ~IsConn(o) /\ o.n \in File
  BY DEF CacheFile, IsConn
<1>5. Dead \notin Conn
  BY <1>2, <1>3
<1>6. \A o \in Object : (IsConn(o) <=> o \in Conn) /\ (o.k = "file" => o.n \in File)
  BY <1>2, <1>3, <1>4 DEF Object
<1> QED  BY <1>1, <1>5, <1>6

\* ConnType: the connections of a session and of a transfer.
LEMMA ConnType ==
    /\ \A s \in Session : cc(s) \in Conn /\ sc(s) \in Conn
    /\ \A n \in Op : cd(n) \in Conn /\ sd(n) \in Conn
BY DEF Conn, cc, sc, cd, sd

\* The descriptor tables in which only descriptor 3 listens at port 21, and
\* what may be opened in them.
Table  == {ft \in [Fd -> Object] : \A fd \in Fd : ft[fd] = Listener(CmdPort) => fd = 3}
Opens  == Object \ {Listener(CmdPort)}

\* OpensKind: connections, sockets that failed, data listeners and cache files.
LEMMA OpensKind ==
    /\ Conn \subseteq Opens /\ Dead \in Opens
    /\ \A p \in Op : Listener(p) \in Opens
    /\ \A f \in File : CacheFile(f) \in Opens
<1>1. \A o \in Conn : o # Listener(CmdPort)
  BY DEF Conn, Listener
<1>2. Dead # Listener(CmdPort) /\ \A f \in File : CacheFile(f) # Listener(CmdPort)
  BY DEF Dead, CacheFile, Listener
<1>3. \A p \in Op : p \in Port /\ Listener(p) # Listener(CmdPort)
  BY DEF Op, Port, CmdPort, Listener
<1> QED  BY <1>1, <1>2, <1>3, ObjectKind DEF Opens

\* TableType: open() and close() keep the descriptor table a table.
LEMMA TableType ==
    ASSUME NEW ft \in Table
    PROVE  /\ ft \in [Fd -> Object]
           /\ \A o \in Opens : Opened(ft, o) \in Table
           /\ \A S : Closed(ft, S) \in Table
           /\ Lowest(ft) # NoFd => Lowest(ft) \in Fd
<1>1. Free \in Object /\ Free # Listener(CmdPort)
  BY ObjectKind DEF Free, Listener
<1> QED  BY <1>1, LowestFree DEF Opened, Closed, Table, Opens

\* FullTable: when one call has found the table full, so does the next.
LEMMA FullTable ==
    ASSUME NEW ft \in Table, NEW o, Lowest(Opened(ft, o)) # NoFd
    PROVE  Lowest(ft) # NoFd
<1> SUFFICES ASSUME Lowest(ft) = NoFd PROVE FALSE
  OBVIOUS
<1>1. Opened(ft, o) = ft
  BY LowestFree DEF Opened, Table
<1> QED  BY <1>1

\* DroppedType: a reset backlog is a backlog.
LEMMA DroppedType ==
    ASSUME NEW bl \in [Port -> Seq(Conn)], NEW ft, NEW S
    PROVE  Dropped(bl, ft, S) \in [Port -> Seq(Conn)]
BY DEF Dropped

\* QueueType: what Append, Head, Tail and \o do to queues of messages.
LEMMA QueueType ==
    ASSUME NEW S, NEW q \in Seq(S)
    PROVE  /\ \A e \in S : Append(q, e) \in Seq(S) /\ <<e>> \in Seq(S)
           /\ q # <<>> => Head(q) \in S /\ Tail(q) \in Seq(S)
           /\ \A r \in Seq(S) : q \o r \in Seq(S)
OBVIOUS

\* BlockType: every block of a file is a message.
LEMMA BlockType ==
    /\ \A f \in File, v \in {0} \cup Op :
          /\ Contents(f, v) \in Seq(Msg)
          /\ \A k \in 1..NChunk : Contents(f, v)[k] \in Msg
    /\ [t |-> "data", f |-> Listing, v |-> 0, k |-> 1] \in Msg
<1>1. \A f \in File, v \in {0} \cup Op : \A k \in 1..NChunk :
         [t |-> "data", f |-> f, v |-> v, k |-> k] \in Msg
  BY DEF Msg, Block
<1>2. \A f \in File, v \in {0} \cup Op : Contents(f, v) \in [1..NChunk -> Msg]
  BY <1>1 DEF Contents
<1>3. \A g \in [1..NChunk -> Msg] : g \in Seq(Msg)
  BY NetAssumption
<1>4. 1 \in 1..NChunk
  BY NetAssumption
<1> QED  BY <1>1, <1>2, <1>3, <1>4 DEF Contents, Msg, Block

-----------------------------------------------------------------------------
(***************************************************************************)
(* The inductive invariant.  Only clients wait at port 21; a client with a *)
(* transfer has its number; the server is in the middle of a transfer only *)
(* with a data port, and sends only files it has.                          *)
(***************************************************************************)
BacklogInv ==
    \A i \in DOMAIN backlog[CmdPort] : backlog[CmdPort][i].k = "cc"

PhaseInv ==
    \A s \in Session :
        /\ client[s].ph \in {"setup", "ready", "busy"} => client[s].n \in Op
        /\ server[s].ph \in {"send", "recv"} => server[s].n \in Op
        /\ server[s].ph = "recv" => server[s].m.t = "STOR"
        /\ server[s].ph \in {"open", "send"} /\ server[s].m.t = "RETR" =>
              server[s].m.f \in DOMAIN sdisk

ProxyInv == ProcessOK /\ NetOK /\ BacklogInv /\ fdt \in Table

-----------------------------------------------------------------------------
(***************************************************************************)
(* The calls a branch of the proxy makes.                                  *)
(***************************************************************************)

\* FetchedType: read() delivers a message or leaves one in the buffer.
LEMMA FetchedType ==
    ASSUME ProcessOK, NetOK, NEW fd \in Fd, NEW last \in Msg,
           NEW x \in Fetched(fd, last)
    PROVE  x.m \in Msg /\ x.q \in [Conn -> Seq(Msg)]
<1> DEFINE o == fdt[fd]
<1>1. o \in Object /\ (IsConn(o) => o \in Conn)
  BY ObjectKind DEF ProcessOK
<1>2. Junk \in Msg
  BY SayType
<1>3. CASE ~IsConn(o)
  BY <1>2, <1>3 DEF Fetched, NetOK
<1>4. CASE IsConn(o) /\ inq[o] # <<>>
  <2>1. Head(inq[o]) \in Msg /\ Tail(inq[o]) \in Seq(Msg)
    BY <1>1, <1>4, QueueType DEF NetOK
  <2>2. x = [got |-> "message", m |-> Head(inq[o]),
             q |-> [inq EXCEPT ![o] = Tail(@)]]
    BY <1>4 DEF Fetched
  <2>3. x.m = Head(inq[o]) /\ x.q = [inq EXCEPT ![o] = Tail(@)]
    BY <2>2
  <2>4. inq \in [Conn -> Seq(Msg)]
    BY DEF NetOK
  <2> HIDE DEF o
  <2> QED  BY <1>1, <1>4, <2>1, <2>3, <2>4
<1>5. CASE IsConn(o) /\ inq[o] = <<>>
  BY <1>2, <1>5 DEF Fetched, NetOK
<1> QED  BY <1>3, <1>4, <1>5

WritesOK(w) == /\ w.q \in [Conn -> Seq(Msg)] /\ FilesOK(w.d)
               /\ w.hit \subseteq Conn \cup {Dead}

\* UnwrittenType: a branch starts with what there is.
LEMMA UnwrittenType == ProcessOK /\ NetOK => WritesOK(Unwritten)
BY DEF ProcessOK, NetOK, WritesOK, Unwritten

\* PutType: a write() of messages, wherever the descriptor leads.
LEMMA PutType ==
    ASSUME NetOK, NEW w, WritesOK(w), NEW ft \in Table, NEW fd \in Fd,
           NEW ms \in Seq(Msg)
    PROVE  WritesOK(Put(w, ft, fd, ms))
<1> DEFINE o == ft[fd]
           p == Put(w, ft, fd, ms)
<1>1. o \in Object /\ (IsConn(o) => o \in Conn) /\ (o.k = "file" => o.n \in File)
  BY ObjectKind DEF Table
<1>2. p.q \in [Conn -> Seq(Msg)]
  <2>1. \A c \in Conn : w.q[c] \o ms \in Seq(Msg)
    BY QueueType DEF WritesOK
  <2> QED  BY <1>1, <2>1 DEF Put, WritesOK
<1>3. FilesOK(p.d)
  <2>1. \A f \in DOMAIN w.d : w.d[f] \o ms \in Seq(Msg)
    BY QueueType DEF WritesOK, FilesOK
  <2> QED  BY <1>1, <2>1 DEF Put, WritesOK, FilesOK
<1>4. p.hit \subseteq Conn \cup {Dead}
  BY DEF Put, WritesOK, NetOK
<1> QED  BY <1>2, <1>3, <1>4 DEF WritesOK

\* WrittenType: what the writes of a branch leave behind.
LEMMA WrittenType ==
    ASSUME ProcessOK, NetOK, NEW w, WritesOK(w), Written(w)
    PROVE  /\ status' \in {"running", "exited"} /\ FilesOK(disk)'
           /\ outq' \in [Conn -> Seq(Msg)] /\ sigpipe' \subseteq Conn \cup {Dead}
BY DEF Written, WritesOK, ProcessOK, NetOK, FilesOK

\* DialType: connectTo() leads somewhere, or nowhere, and keeps the net a net.
LEMMA DialType ==
    ASSUME NetOK, NEW host \in {"client", "server"}, NEW p
    PROVE  /\ Connected(host, p) \in Opens
           /\ Dial(host, p) => /\ est' \subseteq Conn
                               /\ lsn' \in [{"client", "server"} -> SUBSET Op]
<1>1. p \in lsn[host] => Connected(host, p) \in Conn
  BY DEF NetOK, Connected, Conn
<1>2. Connected(host, p) \in Opens
  BY <1>1, OpensKind DEF Connected
<1> QED  BY <1>1, <1>2 DEF Dial, NetOK

\* BacklogKept: port 21 keeps its clients when a listener is closed or a
\* connection is taken from a backlog.
LEMMA BacklogKept ==
    ASSUME NetOK, BacklogInv
    PROVE  /\ \A ft, S : LET bl == Dropped(backlog, ft, S) IN
                 \A i \in DOMAIN bl[CmdPort] : bl[CmdPort][i].k = "cc"
           /\ backlog[CmdPort] # <<>> =>
                 \A i \in DOMAIN Tail(backlog[CmdPort]) :
                     Tail(backlog[CmdPort])[i].k = "cc"
<1>1. CmdPort \in Port /\ backlog[CmdPort] \in Seq(Conn)
  BY DEF NetOK, Port
<1>2. ASSUME NEW ft, NEW S PROVE LET bl == Dropped(backlog, ft, S) IN
                 \A i \in DOMAIN bl[CmdPort] : bl[CmdPort][i].k = "cc"
  BY <1>1 DEF Dropped, BacklogInv
<1>3. backlog[CmdPort] # <<>> =>
          \A i \in DOMAIN Tail(backlog[CmdPort]) : Tail(backlog[CmdPort])[i].k = "cc"
  <2> DEFINE q == backlog[CmdPort]
  <2> SUFFICES ASSUME q # <<>>, NEW i \in DOMAIN Tail(q) PROVE Tail(q)[i].k = "cc"
    OBVIOUS
  <2>1. i + 1 \in DOMAIN q /\ Tail(q)[i] = q[i + 1]
    BY <1>1
  <2> QED  BY <2>1 DEF BacklogInv
<1> QED  BY <1>2, <1>3

-----------------------------------------------------------------------------
(***************************************************************************)
(* The branches of the proxy.                                              *)
(***************************************************************************)

\* What every branch does besides its own business: the scan moves on, and a
\* read() may have taken a message.
Turned == /\ read_fds' = read_fds /\ pos' \in (0..NFd) \X (0..6)
          /\ inq' \in [Conn -> Seq(Msg)]

\* RoleType: the socket variables hold descriptors, and a branch has a place
\* in the scan.
LEMMA RoleType ==
    ASSUME ProcessOK
    PROVE  /\ \A r \in Role : sock[r] \in Fd /\ At(r) \in (0..NFd) \X (0..6)
           /\ \A r \in Role : <<sock[r], 6>> \in (0..NFd) \X (0..6)
           /\ Role = {"proxy_cmd", "accept_cmd", "connect_cmd",
                      "proxy_data", "accept_data", "connect_data"}
<1>1. \A r \in Role : sock[r] \in Fd /\ Fd \subseteq 0..NFd
  BY NetAssumption DEF ProcessOK, Fd
<1>2. \A r \in Role : Order[r] \in 0..6
  BY DEF Role, Order
<1> QED  BY <1>1, <1>2 DEF At, Role

\* ExitType: a failed call ends the process and changes nothing else.
LEMMA ExitType ==
    ASSUME ProxyInv, Turned, Exit, cmdbuf' \in Msg, repbuf' \in Msg
    PROVE  ProxyInv'
BY DEF Table, ProxyInv, ProcessOK, NetOK, FilesOK, BacklogInv, Exit, Turned, fds, dport,
       dfile, store, remote

\* CloseAllType: the branches that only close.
LEMMA CloseAllType ==
    ASSUME ProxyInv, Turned, NEW S, NEW M, CloseAll(S, M),
           UNCHANGED <<dport, dfile, store, bufs, remote, written, fin>>
    PROVE  ProxyInv'
<1>1. fdt' \in Table /\ fdt' \in [Fd -> Object]
  BY TableType DEF ProxyInv, CloseAll, Table
<1>2. backlog' \in [Port -> Seq(Conn)]
  BY DroppedType DEF ProxyInv, NetOK, CloseAll
<1>3. BacklogInv'
  BY BacklogKept DEF ProxyInv, CloseAll, BacklogInv
<1>4. ProcessOK'
  BY <1>1 DEF ProxyInv, ProcessOK, FilesOK, Turned, CloseAll, dport, dfile, store,
              bufs, written
<1>5. NetOK'
  BY <1>2 DEF ProxyInv, NetOK, Turned, remote, written
<1> QED  BY <1>1, <1>3, <1>4, <1>5 DEF ProxyInv, Table

\* PassOnType: the branches that only write.
LEMMA PassOnType ==
    ASSUME ProxyInv, Turned, NEW w, WritesOK(w), Written(w),
           cmdbuf' \in Msg, repbuf' \in Msg,
           proxy_file_mode' \in {"RETR", "STOR"}, file' \in File \cup {NoName},
           UNCHANGED <<fds, dport, store, remote, fin>>
    PROVE  ProxyInv'
<1>1. /\ status' \in {"running", "exited"} /\ FilesOK(disk)'
      /\ outq' \in [Conn -> Seq(Msg)] /\ sigpipe' \subseteq Conn \cup {Dead}
  BY WrittenType DEF ProxyInv
<1>2. ProcessOK'
  BY <1>1 DEF ProxyInv, ProcessOK, Turned, fds, dport, store
<1>3. NetOK'
  BY <1>1 DEF ProxyInv, NetOK, Turned, remote, fds
<1>4. BacklogInv' /\ (fdt \in Table)'
  BY DEF ProxyInv, BacklogInv, fds, Table
<1> QED  BY <1>2, <1>3, <1>4 DEF ProxyInv

\* SelectType: select() keeps the proxy's types: the snapshot is part of master.
LEMMA SelectType == ASSUME ProxyInv, Select PROVE ProxyInv'
<1>1. pos' \in (0..NFd) \X (0..6)
  BY NetAssumption DEF Select, ProxyInv, ProcessOK, scan
<1>2. CASE Exit
  <2>1. UNCHANGED <<fds, dport, dfile, store, bufs, remote, fin, outq, disk,
                    sigpipe, inq>> /\ status' = "exited"
    BY <1>2 DEF Exit, Select
  <2>2. read_fds' \subseteq Fd
    BY DEF Select, ProxyInv, ProcessOK, scan
  <2> QED
    BY <1>1, <2>1, <2>2 DEF ProxyInv, Table, ProcessOK, NetOK, FilesOK, BacklogInv, fds,
       dport, dfile, store, bufs, remote
<1>3. CASE ~Exit
  <2>1. UNCHANGED <<fds, dport, dfile, store, bufs, remote, written, fin, inq>>
    BY <1>3 DEF Select
  <2>2. read_fds' \subseteq Fd
    BY <1>3 DEF Select, ProxyInv, ProcessOK
  <2> QED
    BY <1>1, <2>1, <2>2 DEF ProxyInv, Table, ProcessOK, NetOK, FilesOK, BacklogInv, fds,
       dport, dfile, store, bufs, remote, written
<1> QED  BY <1>2, <1>3

\* AcceptClientType: so does a new client: socket() and accept() return free
\* descriptors or end the process.
LEMMA AcceptClientType ==
    ASSUME ProxyInv, ListenerInv, AcceptClient PROVE ProxyInv'
<1> DEFINE old == ControlPair \cap master
           ft  == Closed(fdt, old)
           new == Head(backlog[CmdPort])
           srv == [k |-> "sc", n |-> new.n]
           s   == Lowest(ft)
           c   == Lowest(Opened(ft, srv))
<1>1. Turned /\ cmdbuf' \in Msg /\ repbuf' \in Msg
  BY RoleType DEF AcceptClient, Turn, Turned, ProxyInv, ProcessOK, NetOK, bufs
<1>2. CASE Exit
  BY <1>1, <1>2, ExitType
<1>3. CASE ~Exit
  <2>1. /\ fdt[sock.proxy_cmd] = Listener(CmdPort) /\ c # NoFd
        /\ fdt' = [ft EXCEPT ![s] = srv, ![c] = new]
        /\ sock' = [sock EXCEPT !.connect_cmd = s, !.accept_cmd = c]
        /\ master' = (master \ old) \cup {s, c}
        /\ backlog' = [Dropped(backlog, fdt, old) EXCEPT ![CmdPort] = Tail(@)]
        /\ est' = est \cup {srv}
        /\ UNCHANGED <<lsn, dport, dfile, store, written, fin, bufs, inq>>
    BY <1>3 DEF AcceptClient
  <2>2. CmdPort \in Port /\ backlog[CmdPort] # <<>>
    BY <2>1 DEF AcceptClient, Port
  <2>3. backlog[CmdPort] \in Seq(Conn)
    BY <2>2 DEF ProxyInv, NetOK
  <2>4. new \in Conn /\ new.k = "cc"
    BY <2>2, <2>3 DEF ProxyInv, BacklogInv
  <2>5. srv \in Conn
    BY <2>4 DEF Conn
  <2>6. new \in Opens /\ srv \in Opens
    BY <2>4, <2>5, OpensKind
  <2>7. ft \in Table /\ Opened(ft, srv) \in Table
    BY <2>6, TableType DEF ProxyInv
  <2>8. c \in Fd
    BY <2>1, <2>7, TableType
  <2>9. s \in Fd
    BY <2>1, <2>7, FullTable, TableType
  <2>10. \A fd \in old : fdt[fd] # Listener(CmdPort)
    BY ControlPairListener DEF ProxyInv, ProcessOK, Table
  <2>11. LET bl == Dropped(backlog, fdt, old) IN
         bl \in [Port -> Seq(Conn)] /\ bl[CmdPort] = backlog[CmdPort]
    BY <2>2, <2>10, DroppedType DEF ProxyInv, NetOK, Dropped
  <2> HIDE DEF ft, s, c, srv, old
  <2>12. fdt' \in Table /\ fdt' \in [Fd -> Object]
    BY <2>1, <2>6, <2>7 DEF Table, Opens
  <2>13. sock' \in [Role -> Fd]
    BY <2>1, <2>8, <2>9 DEF ProxyInv, ProcessOK
  <2>14. master' \subseteq Fd
    BY <2>1, <2>8, <2>9 DEF ProxyInv, ProcessOK
  <2>15. ProcessOK'
    BY <1>1, <2>1, <2>12, <2>13, <2>14
    DEF ProxyInv, ProcessOK, FilesOK, Turned, dport, dfile, store, written
  <2>16. Tail(backlog[CmdPort]) \in Seq(Conn)
    BY <2>2, <2>3, QueueType
  <2>17. NetOK'
    BY <1>1, <2>1, <2>5, <2>11, <2>16 DEF ProxyInv, NetOK, Turned, written
  <2>18. backlog'[CmdPort] = Tail(backlog[CmdPort])
    BY <2>1, <2>2, <2>11
  <2>19. BacklogInv'
    BY <2>2, <2>18, BacklogKept DEF ProxyInv, BacklogInv
  <2> QED  BY <2>12, <2>15, <2>17, <2>19 DEF ProxyInv, Table
<1> QED  BY <1>2, <1>3

\* DataListenerType: the rewritten PORT or 227, and the listener for it.
LEMMA DataListenerType ==
    ASSUME ProxyInv, Turned, cmdbuf' \in Msg, repbuf' \in Msg,
           NEW mode \in {"PORT", "PASV"}, NEW role \in Role, NEW m \in Address,
           DataListener(m.n, mode, role, m)
    PROVE  ProxyInv'
<1> DEFINE p   == m.n
           old == OldListener
           ft  == Closed(fdt, old)
           new == Lowest(ft)
           ft1 == Opened(ft, Listener(p))
           w   == Put(Unwritten, ft1, sock[role], <<[m EXCEPT !.at = "proxy"]>>)
<1>1. CASE Exit
  BY <1>1, ExitType
<1>2. CASE ~Exit
  <2>1. /\ new # NoFd /\ fdt' = ft1 /\ backlog' = Dropped(backlog, fdt, old)
        /\ master' = (master \ old) \cup {new}
        /\ sock' = [sock EXCEPT !.proxy_data = new]
        /\ proxy_data_mode' = mode /\ proxy_data_port' = p
        /\ Written(w)
        /\ UNCHANGED <<dfile, store, remote, fin>>
    BY <1>2 DEF DataListener
  <2>2. p \in Op /\ p \in Port /\ [m EXCEPT !.at = "proxy"] \in Msg
    BY AddressType DEF Port
  <2>3. ft \in Table /\ ft1 \in Table /\ new \in Fd
    BY <2>1, <2>2, OpensKind, TableType DEF ProxyInv
  <2>4. WritesOK(w)
    <3>1. <<[m EXCEPT !.at = "proxy"]>> \in Seq(Msg)
      BY <2>2
    <3>2. sock[role] \in Fd
      BY RoleType DEF ProxyInv
    <3> QED  BY <2>3, <3>1, <3>2, UnwrittenType, PutType DEF ProxyInv
  <2>5. /\ status' \in {"running", "exited"} /\ FilesOK(disk)'
        /\ outq' \in [Conn -> Seq(Msg)] /\ sigpipe' \subseteq Conn \cup {Dead}
    BY <2>1, <2>4, WrittenType DEF ProxyInv
  <2>6. backlog' \in [Port -> Seq(Conn)] /\ BacklogInv'
    BY <2>1, DroppedType, BacklogKept DEF ProxyInv, NetOK, BacklogInv
  <2> HIDE DEF ft, new, ft1, old, w, p
  <2>7. sock' \in [Role -> Fd] /\ master' \subseteq Fd
    BY <2>1, <2>3 DEF ProxyInv, ProcessOK
  <2>8. fdt' \in Table /\ fdt' \in [Fd -> Object]
    BY <2>1, <2>3 DEF Table
  <2>9. ProcessOK'
    BY <2>1, <2>2, <2>5, <2>7, <2>8
    DEF ProxyInv, ProcessOK, Turned, dfile, store
  <2>10. NetOK'
    BY <2>1, <2>5, <2>6 DEF ProxyInv, NetOK, Turned, remote
  <2> QED  BY <2>6, <2>8, <2>9, <2>10 DEF ProxyInv, Table
<1> QED  BY <1>1, <1>2

\* CacheContents: what proxy_rw() reads.
LEMMA CacheContents ==
    ASSUME ProcessOK, NEW ft, NEW f, isFileExist(ft, f)
    PROVE  proxy_rw(f) \in Seq(Msg) /\ f \in File /\ Lowest(ft) # NoFd
BY DEF isFileExist, proxy_rw, ProcessOK, FilesOK

\* ServedType: a file sent from the cache between two replies, on a descriptor
\* that is closed again.
LEMMA ServedType ==
    ASSUME ProxyInv, NEW f, isFileExist(fdt, f), NEW o \in Opens, NEW ft,
           ft = Opened(fdt, o), NEW ft0 \in {fdt, ft}
    PROVE  LET d  == Lowest(fdt)
               w1 == Put(Unwritten, ft0, sock.accept_cmd, <<Say("150")>>)
               w2 == Put(w1, ft, d, proxy_rw(f))
               w3 == Put(w2, ft, sock.accept_cmd, <<Say("226")>>)
           IN  WritesOK(w1) /\ WritesOK(w3) /\ d \in Fd /\ Closed(ft, {d}) \in Table
<1> DEFINE d  == Lowest(fdt)
           w1 == Put(Unwritten, ft0, sock.accept_cmd, <<Say("150")>>)
           w2 == Put(w1, ft, d, proxy_rw(f))
           w3 == Put(w2, ft, sock.accept_cmd, <<Say("226")>>)
<1>1. ft \in Table /\ ft0 \in Table /\ Closed(ft, {d}) \in Table /\ d \in Fd
  BY TableType, CacheContents DEF ProxyInv
<1>2. <<Say("150")>> \in Seq(Msg) /\ <<Say("226")>> \in Seq(Msg)
  BY SayType
<1>3. sock.accept_cmd \in Fd
  BY RoleType DEF ProxyInv
<1>4. proxy_rw(f) \in Seq(Msg)
  BY CacheContents DEF ProxyInv
<1>5. WritesOK(Unwritten) /\ NetOK
  BY UnwrittenType DEF ProxyInv
<1> HIDE DEF d
<1>6. WritesOK(w1)
  BY <1>1, <1>2, <1>3, <1>5, PutType
<1> HIDE DEF w1
<1>7. WritesOK(w2)
  BY <1>1, <1>4, <1>5, <1>6, PutType
<1> HIDE DEF w2
<1>8. WritesOK(w3)
  BY <1>1, <1>2, <1>3, <1>5, <1>7, PutType
<1> QED  BY <1>1, <1>6, <1>8 DEF d, w1, w2

\* RetrCachedType: so does a RETR served from the cache in active mode.
LEMMA RetrCachedType ==
    ASSUME ProxyInv, Turned, NEW x, x.m \in Msg, RetrCached(x) PROVE ProxyInv'
<1> DEFINE d  == Lowest(fdt)
           o  == Connected("client", proxy_data_port)
           ft == Opened(fdt, o)
           w1 == Put(Unwritten, fdt, sock.accept_cmd, <<Say("150")>>)
           w2 == Put(w1, ft, d, proxy_rw(x.m.f))
           w3 == Put(w2, ft, sock.accept_cmd, <<Say("226")>>)
<1>1. /\ x.m.t = "RETR" /\ isFileExist(fdt, x.m.f)
      /\ proxy_file_mode' = "RETR" /\ file' = x.m.f /\ cmdbuf' = x.m
      /\ UNCHANGED <<repbuf, dport, store, fin, master, backlog>>
  BY DEF RetrCached
<1>2. /\ cmdbuf' \in Msg /\ repbuf' \in Msg
      /\ proxy_file_mode' \in {"RETR", "STOR"} /\ file' \in File \cup {NoName}
  BY <1>1, CacheContents DEF ProxyInv, ProcessOK
<1>3. BacklogInv' /\ backlog' \in [Port -> Seq(Conn)]
  BY <1>1 DEF ProxyInv, BacklogInv, NetOK
<1>4. CASE UNCHANGED <<fdt, sock, remote, written>>
  <2>1. ProcessOK'
    BY <1>1, <1>2, <1>4 DEF ProxyInv, ProcessOK, FilesOK, Turned, dport, store, written
  <2>2. NetOK'
    BY <1>1, <1>3, <1>4 DEF ProxyInv, NetOK, Turned, remote, written
  <2> QED  BY <1>3, <1>4, <2>1, <2>2 DEF ProxyInv, Table
<1>5. CASE /\ Dial("client", proxy_data_port)
           /\ sock' = [sock EXCEPT !.connect_data = d] /\ fdt' = Closed(ft, {d})
           /\ IF Lowest(ft) # NoFd THEN Written(w3)
              ELSE status' = "exited" /\ outq' = w1.q /\ UNCHANGED <<disk, sigpipe>>
  <2>1. o \in Opens /\ est' \subseteq Conn
        /\ lsn' \in [{"client", "server"} -> SUBSET Op]
    BY <1>5, DialType DEF ProxyInv
  <2>2. WritesOK(w1) /\ WritesOK(w3) /\ d \in Fd /\ Closed(ft, {d}) \in Table
    BY <1>1, <2>1, ServedType
  <2>3. fdt' \in Table /\ fdt' \in [Fd -> Object]
    BY <1>5, <2>2 DEF Table
  <2> HIDE DEF d, o, ft, w1, w3
  <2>4. /\ status' \in {"running", "exited"} /\ FilesOK(disk)'
        /\ outq' \in [Conn -> Seq(Msg)] /\ sigpipe' \subseteq Conn \cup {Dead}
    <3>1. CASE Written(w3)
      BY <2>2, <3>1, WrittenType DEF ProxyInv
    <3>2. CASE status' = "exited" /\ outq' = w1.q /\ UNCHANGED <<disk, sigpipe>>
      BY <2>2, <3>2 DEF WritesOK, ProxyInv, ProcessOK, NetOK, FilesOK
    <3> QED  BY <1>5, <3>1, <3>2
  <2>5. sock' \in [Role -> Fd]
    BY <1>5, <2>2 DEF ProxyInv, ProcessOK
  <2>6. ProcessOK'
    BY <1>1, <1>2, <2>3, <2>4, <2>5 DEF ProxyInv, ProcessOK, Turned, dport, store
  <2>7. NetOK'
    BY <1>1, <1>3, <2>1, <2>4 DEF ProxyInv, NetOK, Turned
  <2> QED  BY <1>3, <2>3, <2>6, <2>7 DEF ProxyInv, Table
<1>6. CASE proxy_data_mode = "PASV"
  BY <1>4, <1>6 DEF RetrCached
<1>7. CASE proxy_data_mode # "PASV"
  <2>1. /\ Dial("client", proxy_data_port)
        /\ sock' = [sock EXCEPT !.connect_data = d] /\ fdt' = Closed(ft, {d})
    BY <1>7 DEF RetrCached
  <2>2. IF Lowest(ft) # NoFd THEN Written(w3)
        ELSE status' = "exited" /\ outq' = w1.q /\ UNCHANGED <<disk, sigpipe>>
    BY <1>7 DEF RetrCached
  <2> QED  BY <1>5, <2>1, <2>2
<1> QED  BY <1>6, <1>7

\* PassedOn: the message or the nothing that is passed on.
LEMMA PassedOn ==
    ASSUME ProxyInv, NEW x, x.m \in Msg, NEW role \in Role, PassOn(x, role)
    PROVE  \E w : WritesOK(w) /\ Written(w)
<1> DEFINE w == Put(Unwritten, fdt, sock[role], <<x.m>>)
<1>1. WritesOK(Unwritten)
  BY UnwrittenType DEF ProxyInv
<1>2. <<x.m>> \in Seq(Msg) /\ sock[role] \in Fd
  BY RoleType DEF ProxyInv
<1>3. WritesOK(w)
  BY <1>1, <1>2, PutType DEF ProxyInv
<1> QED  BY <1>1, <1>3 DEF PassOn

\* CommandType: so does the client's command branch.
LEMMA CommandType == ASSUME ProxyInv, Command PROVE ProxyInv'
<1>1. PICK x \in Fetched(sock.accept_cmd, cmdbuf) :
          /\ inq' = x.q
          /\ pos' = <<sock.accept_cmd, 6>> \/ pos' = At("accept_cmd")
          /\ \/ ClientGone(x)    \/ PortCommand(x) \/ RetrCached(x)
             \/ RetrForwarded(x) \/ OtherCommand(x)
  BY DEF Command
<1>2. "accept_cmd" \in Role /\ "connect_cmd" \in Role
      /\ sock["accept_cmd"] \in Fd /\ cmdbuf \in Msg /\ repbuf \in Msg
  BY RoleType DEF ProxyInv, ProcessOK
<1>3. x.m \in Msg /\ x.q \in [Conn -> Seq(Msg)]
  BY <1>2, FetchedType DEF ProxyInv
<1>4. Turned
  BY <1>1, <1>2, <1>3, RoleType DEF Turned, Command, Turn, ProxyInv
<1>5. CASE ClientGone(x)
  BY <1>4, <1>5, CloseAllType DEF ClientGone
<1>6. CASE PortCommand(x)
  <2>1. x.m \in Address
    BY <1>3, <1>6, MsgKind DEF PortCommand
  <2>2. cmdbuf' \in Msg /\ repbuf' \in Msg
    BY <1>2, <1>6, <2>1, AddressType DEF PortCommand
  <2> QED  BY <1>2, <1>4, <1>6, <2>1, <2>2, DataListenerType DEF PortCommand
<1>7. CASE RetrCached(x)
  BY <1>3, <1>4, <1>7, RetrCachedType
<1>8. CASE RetrForwarded(x)
  <2>1. x.m.f \in File
    BY <1>3, <1>8, MsgKind DEF RetrForwarded, Named
  <2>2. PICK w : WritesOK(w) /\ Written(w)
    BY <1>2, <1>3, <1>8, PassedOn DEF RetrForwarded
  <2> QED  BY <1>2, <1>3, <1>4, <1>8, <2>1, <2>2, PassOnType DEF RetrForwarded
<1>9. CASE OtherCommand(x)
  <2>1. PICK w : WritesOK(w) /\ Written(w)
    BY <1>2, <1>3, <1>9, PassedOn DEF OtherCommand
  <2>2. proxy_file_mode' \in {"RETR", "STOR"} /\ file' \in File \cup {NoName}
    BY <1>9 DEF OtherCommand, ProxyInv, ProcessOK
  <2> QED  BY <1>2, <1>3, <1>4, <1>9, <2>1, <2>2, PassOnType DEF OtherCommand
<1> QED  BY <1>1, <1>5, <1>6, <1>7, <1>8, <1>9

\* ReplyType: so does the server's reply branch.
LEMMA ReplyType == ASSUME ProxyInv, Reply PROVE ProxyInv'
<1>1. PICK x \in Fetched(sock.connect_cmd, repbuf) :
          inq' = x.q /\ (ServerGone(x) \/ PassiveReply(x) \/ OtherReply(x))
  BY DEF Reply
<1>2. "accept_cmd" \in Role /\ "connect_cmd" \in Role
      /\ sock["connect_cmd"] \in Fd /\ cmdbuf \in Msg /\ repbuf \in Msg
  BY RoleType DEF ProxyInv, ProcessOK
<1>3. x.m \in Msg /\ x.q \in [Conn -> Seq(Msg)]
  BY <1>2, FetchedType DEF ProxyInv
<1>4. Turned
  BY <1>1, <1>2, <1>3, RoleType DEF Turned, Reply, Turn, ProxyInv
<1>5. CASE ServerGone(x)
  BY <1>4, <1>5, CloseAllType DEF ServerGone
<1>6. CASE PassiveReply(x)
  <2>1. x.m \in Address
    BY <1>3, <1>6, MsgKind DEF PassiveReply
  <2>2. cmdbuf' \in Msg /\ repbuf' \in Msg
    BY <1>2, <1>6, <2>1, AddressType DEF PassiveReply
  <2> QED  BY <1>2, <1>4, <1>6, <2>1, <2>2, DataListenerType DEF PassiveReply
<1>7. CASE OtherReply(x)
  <2>1. PICK w : WritesOK(w) /\ Written(w)
    BY <1>2, <1>3, <1>7, PassedOn DEF OtherReply
  <2>2. proxy_file_mode' \in {"RETR", "STOR"} /\ file' \in File \cup {NoName}
    BY <1>7 DEF OtherReply, ProxyInv, ProcessOK, dfile
  <2> QED  BY <1>2, <1>3, <1>4, <1>7, <2>1, <2>2, PassOnType DEF OtherReply
<1> QED  BY <1>1, <1>5, <1>6, <1>7

\* Waiting: the connection that a data branch accepts.
LEMMA Waiting ==
    ASSUME ProxyInv, NEW p \in Port, fdt[sock.proxy_data] = Listener(p),
           backlog[p] # <<>>
    PROVE  /\ (CHOOSE q \in Port : fdt[sock.proxy_data] = Listener(q)) = p
           /\ Head(backlog[p]) \in Opens
           /\ LET bl == [backlog EXCEPT ![p] = Tail(@)] IN
                 /\ bl \in [Port -> Seq(Conn)]
                 /\ \A i \in DOMAIN bl[CmdPort] : bl[CmdPort][i].k = "cc"
<1>1. \A q \in Port : Listener(q) = Listener(p) => q = p
  <2>1. \A q : Listener(q).n = q
    BY DEF Listener
  <2> QED  BY <2>1
<1>2. (CHOOSE q \in Port : fdt[sock.proxy_data] = Listener(q)) = p
  BY <1>1
<1>3. backlog[p] \in Seq(Conn) /\ CmdPort \in Port
  BY DEF ProxyInv, NetOK, Port
<1>4. Head(backlog[p]) \in Opens /\ Tail(backlog[p]) \in Seq(Conn)
  BY <1>3, QueueType, OpensKind
<1>5. [backlog EXCEPT ![p] = Tail(@)] \in [Port -> Seq(Conn)]
  BY <1>4 DEF ProxyInv, NetOK
<1>6. LET bl == [backlog EXCEPT ![p] = Tail(@)] IN
         \A i \in DOMAIN bl[CmdPort] : bl[CmdPort][i].k = "cc"
  <2>1. CASE p = CmdPort
    BY <1>3, <2>1, BacklogKept DEF ProxyInv, NetOK
  <2>2. CASE p # CmdPort
    BY <1>3, <2>2 DEF ProxyInv, NetOK, BacklogInv
  <2> QED  BY <2>1, <2>2
<1> QED  BY <1>2, <1>4, <1>5, <1>6

\* RelayType: so does a data connection that is relayed.
LEMMA RelayType ==
    ASSUME ProxyInv, Turned, UNCHANGED bufs,
           NEW r1 \in {"accept_data", "connect_data"},
           NEW r2 \in {"accept_data", "connect_data"},
           NEW host \in {"client", "server"}, NEW asks \in BOOLEAN,
           NEW p \in Port, fdt[sock.proxy_data] = Listener(p), backlog[p] # <<>>,
           Relay(r1, r2, host, asks)
    PROVE  ProxyInv'
<1> DEFINE new == [accept_data  |-> Head(backlog[p]),
                   connect_data |-> Connected(host, proxy_data_port)]
           ft1 == Opened(fdt, new[r1])
           ft2 == Opened(ft1, new[r2])
           ft3 == Opened(ft2, CacheFile(file))
           caching == asks /\ isCacheExist(ft2)
<1>1. cmdbuf' \in Msg /\ repbuf' \in Msg
  BY DEF bufs, ProxyInv, ProcessOK
<1>2. CASE Exit
  BY <1>1, <1>2, ExitType
<1>3. CASE ~Exit
  <2>1. (CHOOSE q \in Port : fdt[sock.proxy_data] = Listener(q)) = p
    BY Waiting
  <2>2. /\ Room(ft1, ft2, caching)
        /\ sock' = [sock EXCEPT ![r1] = Lowest(fdt), ![r2] = Lowest(ft1)]
        /\ master' = master \cup {Lowest(fdt), Lowest(ft1)}
        /\ backlog' = [backlog EXCEPT ![p] = Tail(@)]
        /\ Dial(host, proxy_data_port)
        /\ fdt' = IF caching THEN ft3 ELSE ft2
        /\ disk' = IF caching
                   THEN [f \in DOMAIN disk \cup {file} |->
                            IF f = file THEN <<>> ELSE disk[f]]
                   ELSE disk
        /\ cache' = IF asks THEN caching ELSE cache
        /\ bytes_creat' = IF caching THEN Lowest(ft2) ELSE bytes_creat
        /\ UNCHANGED <<dport, dfile, status, outq, sigpipe, fin>>
    BY <1>3, <2>1 DEF Relay
  <2>3. new.accept_data \in Opens /\ new.connect_data \in Opens
    BY Waiting, DialType DEF ProxyInv
  <2>4. new[r1] \in Opens /\ new[r2] \in Opens
    BY <2>3
  <2>5. caching \in BOOLEAN /\ (caching => file \in Cacheable /\ file \in File)
    BY NetAssumption DEF isCacheExist
  <2> HIDE DEF new, caching
  <2>6. ft1 \in Table /\ ft2 \in Table
    BY <2>4, TableType DEF ProxyInv
  <2>7. caching => ft3 \in Table /\ Lowest(ft2) \in Fd
    BY <2>2, <2>5, <2>6, OpensKind, TableType DEF Room
  <2>8. Lowest(ft1) \in Fd /\ Lowest(fdt) \in Fd
    BY <2>2, <2>6, FullTable, TableType DEF Room, ProxyInv
  <2>9. est' \subseteq Conn /\ lsn' \in [{"client", "server"} -> SUBSET Op]
    BY <2>2, DialType DEF ProxyInv
  <2>10. backlog' \in [Port -> Seq(Conn)] /\ BacklogInv'
    BY <2>2, Waiting DEF BacklogInv
  <2> HIDE DEF ft1, ft2, ft3
  <2>11. fdt' \in Table /\ fdt' \in [Fd -> Object]
    BY <2>2, <2>6, <2>7 DEF Table
  <2>12. sock' \in [Role -> Fd] /\ master' \subseteq Fd
    BY <2>2, <2>8 DEF ProxyInv, ProcessOK
  <2>13. bytes_creat' \in Fd /\ cache' \in BOOLEAN
    BY <2>2, <2>5, <2>7 DEF ProxyInv, ProcessOK
  <2>14. FilesOK(disk)'
    BY <2>2, <2>5 DEF ProxyInv, ProcessOK, FilesOK
  <2>15. ProcessOK'
    BY <1>1, <2>2, <2>11, <2>12, <2>13, <2>14
    DEF ProxyInv, ProcessOK, Turned, dport, dfile
  <2>16. NetOK'
    BY <2>2, <2>9, <2>10 DEF ProxyInv, NetOK, Turned
  <2> QED  BY <2>10, <2>11, <2>15, <2>16 DEF ProxyInv, Table
<1> QED  BY <1>2, <1>3

\* ServeCachedType: so does a data connection that the cache answers.
LEMMA ServeCachedType ==
    ASSUME ProxyInv, Turned, UNCHANGED bufs,
           NEW p \in Port, fdt[sock.proxy_data] = Listener(p), backlog[p] # <<>>,
           ServeCached
    PROVE  ProxyInv'
<1> DEFINE a  == Lowest(fdt)
           o  == Head(backlog[p])
           ft == Opened(fdt, o)
           w1 == Put(Unwritten, ft, sock.accept_cmd, <<Say("150")>>)
           w2 == Put(w1, ft, a, proxy_rw(file))
           w3 == Put(w2, ft, sock.accept_cmd, <<Say("226")>>)
<1>1. (CHOOSE q \in Port : fdt[sock.proxy_data] = Listener(q)) = p
  BY Waiting
<1>2. /\ isFileExist(fdt, file)
      /\ sock' = [sock EXCEPT !.accept_data = a]
      /\ backlog' = [backlog EXCEPT ![p] = Tail(@)]
      /\ fdt' = Closed(ft, {a})
      /\ UNCHANGED <<master, dport, dfile, store, remote, fin>>
  BY <1>1 DEF ServeCached
<1>3. IF Lowest(ft) # NoFd THEN Written(w3)
      ELSE status' = "exited" /\ outq' = w1.q /\ UNCHANGED <<disk, sigpipe>>
  BY <1>1 DEF ServeCached
<1>4. o \in Opens
  BY Waiting
<1>5. WritesOK(w1) /\ WritesOK(w3) /\ a \in Fd /\ Closed(ft, {a}) \in Table
  BY <1>2, <1>4, ServedType
<1>6. backlog' \in [Port -> Seq(Conn)] /\ BacklogInv'
  BY <1>2, Waiting DEF BacklogInv
<1> HIDE DEF a, o, ft, w1, w3
<1>7. /\ status' \in {"running", "exited"} /\ FilesOK(disk)'
      /\ outq' \in [Conn -> Seq(Msg)] /\ sigpipe' \subseteq Conn \cup {Dead}
  <2>1. CASE Written(w3)
    BY <1>5, <2>1, WrittenType DEF ProxyInv
  <2>2. CASE status' = "exited" /\ outq' = w1.q /\ UNCHANGED <<disk, sigpipe>>
    BY <1>5, <2>2 DEF WritesOK, ProxyInv, ProcessOK, NetOK, FilesOK
  <2> QED  BY <1>3, <2>1, <2>2
<1>8. fdt' \in Table /\ fdt' \in [Fd -> Object]
  BY <1>2, <1>5 DEF Table
<1>9. sock' \in [Role -> Fd]
  BY <1>2, <1>5 DEF ProxyInv, ProcessOK
<1>10. ProcessOK'
  BY <1>2, <1>7, <1>8, <1>9 DEF ProxyInv, ProcessOK, Turned, dport, dfile, store, bufs
<1>11. NetOK'
  BY <1>2, <1>6, <1>7 DEF ProxyInv, NetOK, Turned, remote
<1> QED  BY <1>6, <1>8, <1>10, <1>11 DEF ProxyInv, Table

\* DataConnectionType: so does the data listener's branch as a whole.
LEMMA DataConnectionType == ASSUME ProxyInv, DataConnection PROVE ProxyInv'
<1>1. Turned /\ UNCHANGED bufs /\ cmdbuf' \in Msg /\ repbuf' \in Msg
  BY RoleType DEF DataConnection, Turn, Turned, ProxyInv, ProcessOK, NetOK, bufs
<1>2. CASE Exit
  BY <1>1, <1>2, ExitType
<1>3. CASE ~Exit
  <2>1. PICK p \in Port : fdt[sock.proxy_data] = Listener(p) /\ backlog[p] # <<>>
    BY <1>3 DEF DataConnection
  <2>2. RelayActive \/ RelayPassive \/ ServeCached \/ RelayMiss
    BY <1>3 DEF DataConnection
  <2>3. CASE RelayActive
    BY <1>1, <2>1, <2>3, RelayType DEF RelayActive
  <2>4. CASE RelayPassive
    BY <1>1, <2>1, <2>4, RelayType DEF RelayPassive
  <2>5. CASE ServeCached
    BY <1>1, <2>1, <2>5, ServeCachedType
  <2>6. CASE RelayMiss
    BY <1>1, <2>1, <2>6, RelayType DEF RelayMiss
  <2> QED  BY <2>2, <2>3, <2>4, <2>5, <2>6
<1> QED  BY <1>2, <1>3

\* TransferType: so does either data branch.
LEMMA TransferType ==
    ASSUME ProxyInv, NEW r \in {"accept_data", "connect_data"},
           NEW other \in {"accept_data", "connect_data"}, Transfer(r, other)
    PROVE  ProxyInv'
<1>1. r \in Role /\ other \in Role /\ sock[r] \in Fd /\ sock[other] \in Fd
  BY RoleType DEF ProxyInv
<1>2. PICK x \in Fetched(sock[r], Junk) :
          inq' = x.q /\ (DataEnd(r, other, x) \/ DataBlock(r, other, x))
  BY DEF Transfer
<1>3. x.m \in Msg /\ x.q \in [Conn -> Seq(Msg)]
  BY <1>1, SayType, FetchedType DEF ProxyInv
<1>4. Turned
  BY <1>1, <1>2, <1>3, RoleType DEF Turned, Transfer, Turn, ProxyInv
<1>5. CASE DataEnd(r, other, x)
  BY <1>4, <1>5, CloseAllType DEF DataEnd
<1>6. CASE DataBlock(r, other, x)
  <2>1. WritesOK(Unwritten) /\ NetOK /\ fdt \in Table /\ bytes_creat \in Fd
    BY UnwrittenType DEF ProxyInv, ProcessOK
  <2>2. <<x.m>> \in Seq(Msg)
    BY <1>3
  <2>3. WritesOK(Copied(other, x.m))
    <3>1. WritesOK(Put(Unwritten, fdt, bytes_creat, <<x.m>>))
      BY <2>1, <2>2, PutType
    <3> QED  BY <1>1, <2>1, <2>2, <3>1, PutType DEF Copied
  <2>4. PICK w : WritesOK(w) /\ Written(w)
    BY <1>6, <2>1, <2>3 DEF DataBlock
  <2>5. /\ cmdbuf' \in Msg /\ repbuf' \in Msg
        /\ proxy_file_mode' \in {"RETR", "STOR"} /\ file' \in File \cup {NoName}
    BY <1>6 DEF DataBlock, ProxyInv, ProcessOK, bufs, dfile
  <2> QED  BY <1>4, <1>6, <2>4, <2>5, PassOnType DEF DataBlock
<1> QED  BY <1>2, <1>5, <1>6

-----------------------------------------------------------------------------
(***************************************************************************)
(* The steps of the peers.                                                 *)
(***************************************************************************)
Inv == ProxyInv /\ PeersOK /\ PhaseInv

\* Peers: what is left to prove of a step that leaves the proxy alone.
Peers == NetOK /\ BacklogInv /\ PeersOK /\ PhaseInv

\* ProxyKept: a step of a peer that keeps the proxy's own variables and the
\* peers' types keeps Inv.
LEMMA ProxyKept ==
    ASSUME Inv, UNCHANGED proxyOwn, Peers' PROVE Inv'
BY DEF Inv, Peers, ProxyInv, ProcessOK, FilesOK, Table, proxyOwn, scan, dport,
       dfile, store, bufs

\* TellType, HearType, ConnectType: sending, receiving and connecting.
LEMMA TellType ==
    ASSUME NetOK, NEW c \in Conn, NEW m \in Msg, Tell(c, m)
    PROVE  inq' \in [Conn -> Seq(Msg)]
BY QueueType DEF NetOK, Tell

\* HearType: taking a message from a connection keeps the network's types.
LEMMA HearType ==
    ASSUME NetOK, NEW c \in Conn, outq[c] # <<>>
    PROVE  Head(outq[c]) \in Msg /\ (Hear(c) => outq' \in [Conn -> Seq(Msg)])
<1>1. Head(outq[c]) \in Msg /\ Tail(outq[c]) \in Seq(Msg)
  BY QueueType DEF NetOK
<1> QED  BY <1>1 DEF NetOK, Hear

\* ConnectType: a connect() to a proxy port appends to its backlog.
LEMMA ConnectType ==
    ASSUME NetOK, BacklogInv, NEW c \in Conn, NEW p \in Port, Connect(c, p),
           p = CmdPort => c.k = "cc"
    PROVE  /\ est' \subseteq Conn /\ backlog' \in [Port -> Seq(Conn)]
           /\ BacklogInv'
<1>1. Append(backlog[p], c) \in Seq(Conn) /\ backlog[p] \in Seq(Conn) /\ CmdPort \in Port
  BY QueueType DEF NetOK, Port
<1>2. backlog' = [backlog EXCEPT ![p] = Append(@, c)] /\ est' = est \cup {c}
  BY DEF Connect
<1>3. est' \subseteq Conn /\ backlog' \in [Port -> Seq(Conn)]
  BY <1>1, <1>2 DEF NetOK
<1>4. CASE p # CmdPort
  BY <1>1, <1>2, <1>3, <1>4 DEF NetOK, BacklogInv
<1>5. CASE p = CmdPort
  <2>1. backlog'[CmdPort] = Append(backlog[CmdPort], c)
    BY <1>1, <1>2, <1>5 DEF NetOK
  <2>2. \A i \in DOMAIN Append(backlog[CmdPort], c) :
            Append(backlog[CmdPort], c)[i].k = "cc"
    BY <1>1, <1>5, <2>1 DEF BacklogInv
  <2>3. \A i \in DOMAIN backlog'[CmdPort] : backlog'[CmdPort][i].k = "cc"
    BY <2>1, <2>2
  <2> QED  BY <1>3, <2>3 DEF BacklogInv
<1> QED  BY <1>3, <1>4, <1>5

\* NumType: numbers of transfers.
LEMMA NumType ==
    /\ \A n \in Op : n \in Port /\ n # CmdPort /\ n \in 0..NOp
    /\ CmdPort \in Port /\ NOp \in Nat /\ NSession \in Nat /\ NChunk \in Nat \ {0}
    /\ \A s \in Session : s \in 0..NSession
BY NetAssumption DEF Op, Port, CmdPort, Session

(* The client. *)

\* Steps that only move the client on, to a phase that needs no more.
LEMMA ClientMoves ==
    ASSUME Inv, NEW s \in Session,
           NEW ph \in {"greet", "idle", "ready", "busy", "quit", "gone"},
           client' = [client EXCEPT ![s].ph = ph],
           ph \in {"ready", "busy"} => client[s].n \in Op,
           UNCHANGED <<op, nop, server, sdisk, fetches>>
    PROVE  PeersOK' /\ PhaseInv'
<1>1. [client[s] EXCEPT !.ph = ph] \in CliState
  BY DEF Inv, PeersOK, CliState
<1>2. PeersOK'
  BY <1>1 DEF Inv, PeersOK, FilesOK
<1>3. PhaseInv'
  BY DEF Inv, PhaseInv, PeersOK
<1> QED  BY <1>2, <1>3

\* CliConnectType: a client that connects keeps the peers' types.
LEMMA CliConnectType ==
    ASSUME Inv, NEW s \in Session, CliConnect(s) PROVE Peers'
<1>1. cc(s) \in Conn /\ cc(s).k = "cc" /\ CmdPort \in Port
  BY ConnType, NumType DEF cc
<1>2. est' \subseteq Conn /\ backlog' \in [Port -> Seq(Conn)] /\ BacklogInv'
  BY <1>1, ConnectType DEF CliConnect, Inv, ProxyInv
<1>3. NetOK'
  BY <1>2 DEF CliConnect, Inv, ProxyInv, NetOK, proxyOwn
<1>4. PeersOK' /\ PhaseInv'
  BY ClientMoves DEF CliConnect
<1> QED  BY <1>2, <1>3, <1>4 DEF Peers

\* CliHearType: a client's read of its control connection.
LEMMA CliHearType ==
    ASSUME Inv, NEW s \in Session, NEW t, CliHear(s, t),
           UNCHANGED <<proxyOwn, inq, fin, backlog, remote>>
    PROVE  NetOK' /\ BacklogInv'
<1>1. outq' \in [Conn -> Seq(Msg)]
  BY ConnType, HearType DEF CliHear, Inv, ProxyInv
<1> QED  BY <1>1 DEF Inv, ProxyInv, NetOK, BacklogInv, proxyOwn, remote

\* CliGreetedType: the 220 reaches the client.
LEMMA CliGreetedType ==
    ASSUME Inv, NEW s \in Session, CliGreeted(s) PROVE Peers'
<1>1. NetOK' /\ BacklogInv'
  BY CliHearType DEF CliGreeted
<1>2. PeersOK' /\ PhaseInv'
  BY ClientMoves DEF CliGreeted
<1> QED  BY <1>1, <1>2 DEF Peers

\* CliReadyType: the answer to PORT or PASV reaches the client.
LEMMA CliReadyType ==
    ASSUME Inv, NEW s \in Session, CliReady(s) PROVE Peers'
<1>1. NetOK' /\ BacklogInv'
  BY CliHearType DEF CliReady
<1>2. client[s].n \in Op
  BY DEF CliReady, Inv, PhaseInv
<1>3. PeersOK' /\ PhaseInv'
  BY <1>2, ClientMoves DEF CliReady
<1> QED  BY <1>1, <1>3 DEF Peers

\* CliStartType: a client sends PORT or PASV for its next transfer.
LEMMA CliStartType ==
    ASSUME Inv, NEW s \in Session, NEW mode \in Mode, NEW m \in Want,
           CliStart(s, mode, m)
    PROVE  Peers'
<1> DEFINE n == nop + 1
<1>1. n \in Op /\ n \in 0..NOp
  BY NumType DEF CliStart, Inv, PeersOK, Op
<1>2. mode \in {"PORT", "PASV"} /\ m \in Msg
  BY PeersAssumption, SayType DEF Msg
<1>3. [t |-> mode, n |-> n, at |-> "client"] \in Msg
  BY <1>1, <1>2 DEF Msg, Address, Host
<1> HIDE DEF n
<1>4. inq' \in [Conn -> Seq(Msg)]
  BY <1>3, ConnType, TellType DEF CliStart, Inv, ProxyInv, n
<1>5. lsn' \in [{"client", "server"} -> SUBSET Op]
  BY <1>1 DEF CliStart, Inv, ProxyInv, NetOK, n
<1>6. NetOK' /\ BacklogInv'
  BY <1>4, <1>5 DEF CliStart, Inv, ProxyInv, NetOK, BacklogInv, proxyOwn
<1>7. /\ nop' = n /\ client' = [client EXCEPT ![s] = [ph |-> "setup", n |-> n]]
      /\ op' = [op EXCEPT ![n].s = s, ![n].mode = mode, ![n].m = m]
      /\ UNCHANGED <<server, sdisk, fetches>>
  BY DEF CliStart, n
<1>8. op' \in [Op -> OpState]
  <2>1. op[n] \in OpState
    BY <1>1 DEF Inv, PeersOK
  <2>2. [[[op[n] EXCEPT !.s = s] EXCEPT !.mode = mode] EXCEPT !.m = m] \in OpState
    BY <1>2, <2>1, NumType DEF OpState
  <2> QED  BY <1>1, <1>7, <2>2 DEF Inv, PeersOK
<1>9. PeersOK'
  <2>1. [ph |-> "setup", n |-> n] \in CliState
    BY <1>1 DEF CliState
  <2> QED  BY <1>1, <1>7, <1>8, <2>1 DEF Inv, PeersOK, FilesOK
<1>10. PhaseInv'
  BY <1>1, <1>7 DEF Inv, PhaseInv, PeersOK
<1> QED  BY <1>6, <1>9, <1>10 DEF Peers

\* CliCommandType: a client sends RETR, STOR or LIST.
LEMMA CliCommandType ==
    ASSUME Inv, NEW s \in Session, CliCommand(s) PROVE Peers'
<1>1. client[s].n \in Op
  BY DEF CliCommand, Inv, PhaseInv
<1>2. op[client[s].n].m \in Msg
  BY <1>1 DEF Inv, PeersOK, OpState
<1>3. inq' \in [Conn -> Seq(Msg)]
  BY <1>2, ConnType, TellType DEF CliCommand, Inv, ProxyInv
<1>4. NetOK' /\ BacklogInv'
  BY <1>3 DEF CliCommand, Inv, ProxyInv, NetOK, BacklogInv, proxyOwn, remote
<1>5. PeersOK' /\ PhaseInv'
  BY <1>1, ClientMoves DEF CliCommand
<1> QED  BY <1>4, <1>5 DEF Peers

\* CliDialType: a passive client opens its data connection.
LEMMA CliDialType ==
    ASSUME Inv, NEW s \in Session, CliDial(s) PROVE Peers'
<1> DEFINE n == client[s].n
<1>1. n \in Op /\ Connect(cd(n), n) /\ UNCHANGED <<proxyOwn, inq, outq, fin, lsn, peers>>
  BY DEF CliDial
<1>2. est' \subseteq Conn /\ backlog' \in [Port -> Seq(Conn)] /\ BacklogInv'
  BY <1>1, ConnType, NumType, ConnectType DEF Inv, ProxyInv
<1>3. NetOK'
  BY <1>1, <1>2 DEF Inv, ProxyInv, NetOK, proxyOwn
<1>4. PeersOK' /\ PhaseInv'
  BY <1>1 DEF Inv, PeersOK, PhaseInv, FilesOK, peers
<1> QED  BY <1>2, <1>3, <1>4 DEF Peers

\* Steps that only write down what came of a transfer.
LEMMA OpMoves ==
    ASSUME Inv, op' \in [Op -> OpState],
           UNCHANGED <<client, nop, server, sdisk, fetches>>
    PROVE  PeersOK' /\ PhaseInv'
BY DEF Inv, PeersOK, PhaseInv, FilesOK

\* CliReplyType: a reply about the transfer reaches the client.
LEMMA CliReplyType ==
    ASSUME Inv, NEW s \in Session, CliReply(s) PROVE Peers'
<1> DEFINE n == client[s].n
           r == CASE Head(outq[cc(s)]).t = "226" -> "ok"
                  [] Head(outq[cc(s)]).t = "150" -> op[n].reply
                  [] OTHER -> "failed"
<1>1. NetOK' /\ BacklogInv'
  BY CliHearType DEF CliReply
<1>2. n \in Op
  BY DEF CliReply, Inv, PhaseInv
<1>3. op' = [op EXCEPT ![n].reply = r]
  BY DEF CliReply
<1>4. r \in {"none", "ok", "failed"}
  BY <1>2 DEF Inv, PeersOK, OpState
<1> HIDE DEF n, r
<1>5. PeersOK' /\ PhaseInv'
  <2>1. [op[n] EXCEPT !.reply = r] \in OpState
    BY <1>2, <1>4 DEF Inv, PeersOK, OpState
  <2>2. op' \in [Op -> OpState]
    BY <1>2, <1>3, <2>1 DEF Inv, PeersOK
  <2> QED  BY <2>2, OpMoves DEF CliReply
<1> QED  BY <1>1, <1>5 DEF Peers

\* CliGetType: a client reads a block of its download.
LEMMA CliGetType ==
    ASSUME Inv, NEW n \in Op, CliGet(n) PROVE Peers'
<1>1. cd(n) \in Conn /\ outq[cd(n)] # <<>>
  BY ConnType DEF CliGet
<1>2. Head(outq[cd(n)]) \in Msg /\ outq' \in [Conn -> Seq(Msg)]
  BY <1>1, HearType DEF CliGet, Inv, ProxyInv
<1>3. NetOK' /\ BacklogInv'
  BY <1>2 DEF CliGet, Inv, ProxyInv, NetOK, BacklogInv, proxyOwn, remote
<1>4. op' \in [Op -> OpState]
  <2>1. op[n].got \in Seq(Msg) /\ op[n] \in OpState
    BY DEF Inv, PeersOK, OpState
  <2>2. Append(op[n].got, Head(outq[cd(n)])) \in Seq(Msg)
    BY <1>2, <2>1, QueueType
  <2>3. [op[n] EXCEPT !.got = Append(@, Head(outq[cd(n)]))] \in OpState
    BY <2>1, <2>2 DEF OpState
  <2> QED  BY <2>3 DEF CliGet, Inv, PeersOK
<1> QED  BY <1>3, <1>4, OpMoves DEF Peers, CliGet

\* CliPutType: a client writes a block of its upload.
LEMMA CliPutType ==
    ASSUME Inv, NEW n \in Op, CliPut(n) PROVE Peers'
<1>1. op[n] \in OpState /\ op[n].put \in 0..NChunk /\ op[n].m \in Msg
  BY DEF Inv, PeersOK, OpState
<1>2. op[n].put + 1 \in 1..NChunk
  BY <1>1, NumType DEF CliPut
<1>3. op[n].m.f \in File
  BY <1>1, MsgKind DEF CliPut, Named
<1>4. Contents(op[n].m.f, n)[op[n].put + 1] \in Msg
  BY <1>2, <1>3, BlockType
<1>5. inq' \in [Conn -> Seq(Msg)]
  BY <1>4, ConnType, TellType DEF CliPut, Inv, ProxyInv
<1>6. NetOK' /\ BacklogInv'
  BY <1>5 DEF CliPut, Inv, ProxyInv, NetOK, BacklogInv, proxyOwn, remote
<1>7. op' \in [Op -> OpState]
  <2>1. op[n].put + 1 \in 0..NChunk
    BY <1>2, NumType
  <2> DEFINE k == op[n].put + 1
  <2> HIDE DEF k
  <2>2. [op[n] EXCEPT !.put = k] \in OpState
    BY <1>1, <2>1 DEF OpState, k
  <2>3. op' = [op EXCEPT ![n] = [op[n] EXCEPT !.put = k]]
    BY DEF CliPut, k
  <2> QED  BY <2>2, <2>3 DEF Inv, PeersOK, Inv, PeersOK
<1> QED  BY <1>6, <1>7, OpMoves DEF Peers, CliPut

\* CliPutEndType: a client ends its upload.
LEMMA CliPutEndType ==
    ASSUME Inv, NEW n \in Op, CliPutEnd(n) PROVE Peers'
<1>1. NetOK' /\ BacklogInv'
  BY ConnType DEF CliPutEnd, Inv, ProxyInv, NetOK, BacklogInv, proxyOwn, remote
<1>2. PeersOK' /\ PhaseInv'
  BY DEF CliPutEnd, Inv, PeersOK, PhaseInv, FilesOK, peers
<1> QED  BY <1>1, <1>2 DEF Peers

\* CliDoneType: a client sees its transfer finished.
LEMMA CliDoneType ==
    ASSUME Inv, NEW s \in Session, CliDone(s) PROVE Peers'
<1>1. fin' \subseteq Conn
  BY DEF CliDone, Inv, ProxyInv, NetOK
<1>2. lsn' \in [{"client", "server"} -> SUBSET Op]
  BY DEF CliDone, Inv, ProxyInv, NetOK
<1>3. NetOK' /\ BacklogInv'
  BY <1>1, <1>2 DEF CliDone, Inv, ProxyInv, NetOK, BacklogInv, proxyOwn
<1>4. PeersOK' /\ PhaseInv'
  BY ClientMoves DEF CliDone
<1> QED  BY <1>3, <1>4 DEF Peers

\* CliQuitType: a client sends QUIT.
LEMMA CliQuitType ==
    ASSUME Inv, NEW s \in Session, CliQuit(s) PROVE Peers'
<1>1. inq' \in [Conn -> Seq(Msg)]
  BY ConnType, SayType, TellType DEF CliQuit, Inv, ProxyInv
<1>2. NetOK' /\ BacklogInv'
  BY <1>1 DEF CliQuit, Inv, ProxyInv, NetOK, BacklogInv, proxyOwn, remote
<1>3. PeersOK' /\ PhaseInv'
  BY ClientMoves DEF CliQuit
<1> QED  BY <1>2, <1>3 DEF Peers

\* LeaveType: a client goes away.
LEMMA LeaveType ==
    ASSUME Inv, NEW s \in Session, Leave(s) PROVE Peers'
<1>1. fin' \subseteq Conn
  BY ConnType DEF Leave, Inv, ProxyInv, NetOK
<1>2. lsn' \in [{"client", "server"} -> SUBSET Op]
  BY DEF Leave, Inv, ProxyInv, NetOK
<1>3. NetOK' /\ BacklogInv'
  BY <1>1, <1>2 DEF Leave, Inv, ProxyInv, NetOK, BacklogInv, proxyOwn
<1>4. PeersOK' /\ PhaseInv'
  BY ClientMoves DEF Leave
<1> QED  BY <1>3, <1>4 DEF Peers

\* CliStepType: every step of a client's control side keeps the types.
LEMMA CliStepType == ASSUME Inv, NEW s \in Session, CliStep(s) PROVE Peers'
<1>1. CASE CliConnect(s) BY <1>1, CliConnectType
<1>2. CASE CliGreeted(s) BY <1>2, CliGreetedType
<1>3. CASE CliReady(s)   BY <1>3, CliReadyType
<1>4. CASE CliCommand(s) BY <1>4, CliCommandType
<1>5. CASE CliDial(s)    BY <1>5, CliDialType
<1>6. CASE CliReply(s)   BY <1>6, CliReplyType
<1>7. CASE CliDone(s)    BY <1>7, CliDoneType
<1>8. CASE CliQuit(s)    BY <1>8, CliQuitType
<1>9. CASE CliClose(s) \/ CliAbort(s)
  BY <1>9, LeaveType DEF CliClose, CliAbort
<1>10. ASSUME NEW mode \in Mode, NEW m \in Want, CliStart(s, mode, m) PROVE Peers'
  BY <1>10, CliStartType
<1> QED
  BY <1>1, <1>2, <1>3, <1>4, <1>5, <1>6, <1>7, <1>8, <1>9, <1>10 DEF CliStep

\* CliDataType: every step of a client's data side keeps the types.
LEMMA CliDataType == ASSUME Inv, NEW n \in Op, CliData(n) PROVE Peers'
BY CliGetType, CliPutType, CliPutEndType DEF CliData

(* The server. *)

\* What PhaseInv asks of a state of the server.
SrvPhase(v) ==
    /\ v.ph \in {"send", "recv"} => v.n \in Op
    /\ v.ph = "recv" => v.m.t = "STOR"
    /\ v.ph \in {"open", "send"} /\ v.m.t = "RETR" => v.m.f \in DOMAIN sdisk

\* SrvMoves: a server session that moves to a well-typed state keeps the
\* peers' types and phases.
LEMMA SrvMoves ==
    ASSUME Inv, NEW s \in Session, NEW v \in SrvState,
           server' = [server EXCEPT ![s] = v], SrvPhase(v), UNCHANGED <<client, op, nop>>,
           FilesOK(sdisk)', DOMAIN sdisk \subseteq DOMAIN sdisk',
           fetches' \in [File -> Nat]
    PROVE  PeersOK' /\ PhaseInv'
<1>1. PeersOK'
  BY DEF Inv, PeersOK
<1>2. PhaseInv'
  BY DEF Inv, PhaseInv, PeersOK, SrvPhase
<1> QED  BY <1>1, <1>2

\* SrvNow: the present state of a server session is well typed.
LEMMA SrvNow ==
    ASSUME Inv, NEW s \in Session
    PROVE  server[s] \in SrvState /\ SrvPhase(server[s]) /\ FilesOK(sdisk)
           /\ fetches \in [File -> Nat]
BY DEF Inv, PeersOK, PhaseInv, SrvPhase

\* SrvGreetType: the server greets the connection of the proxy.
LEMMA SrvGreetType ==
    ASSUME Inv, NEW s \in Session, SrvGreet(s) PROVE Peers'
<1>1. inq' \in [Conn -> Seq(Msg)]
  BY ConnType, SayType, TellType DEF SrvGreet, Inv, ProxyInv
<1>2. NetOK' /\ BacklogInv'
  BY <1>1 DEF SrvGreet, Inv, ProxyInv, NetOK, BacklogInv, proxyOwn, remote
<1>3. [server[s] EXCEPT !.ph = "idle"] \in SrvState
      /\ SrvPhase([server[s] EXCEPT !.ph = "idle"])
  BY SrvNow DEF SrvState, SrvPhase
<1>4. PeersOK' /\ PhaseInv'
  BY <1>3, SrvMoves, SrvNow DEF SrvGreet, FilesOK
<1> QED  BY <1>2, <1>4 DEF Peers

\* SrvHearType: taking a command and answering it.
LEMMA SrvHearType ==
    ASSUME Inv, NEW s \in Session, NEW t, NEW reply \in Seq(Msg), NEW st,
           SrvHear(s, t, reply, st), UNCHANGED <<proxyOwn, backlog, est>>,
           fin' \subseteq Conn, lsn' \in [{"client", "server"} -> SUBSET Op]
    PROVE  /\ NetOK' /\ BacklogInv'
           /\ Head(outq[sc(s)]) \in Msg /\ Head(outq[sc(s)]).t = t
           /\ server[s].ph = "idle" /\ server' = [server EXCEPT ![s] = st]
<1>1. sc(s) \in Conn /\ outq[sc(s)] # <<>>
  BY ConnType DEF SrvHear
<1>2. Head(outq[sc(s)]) \in Msg /\ outq' \in [Conn -> Seq(Msg)]
  BY <1>1, HearType DEF SrvHear, Inv, ProxyInv
<1>3. inq' \in [Conn -> Seq(Msg)]
  <2>1. CASE reply = <<>>
    BY <2>1 DEF SrvHear, Inv, ProxyInv, NetOK
  <2>2. CASE reply # <<>>
    <3>1. Head(reply) \in Msg
      BY <2>2, QueueType
    <3>2. Tell(sc(s), Head(reply))
      BY <2>2 DEF SrvHear
    <3> QED  BY <1>1, <3>1, <3>2, TellType DEF Inv, ProxyInv
  <2> QED  BY <2>1, <2>2
<1>4. NetOK' /\ BacklogInv'
  BY <1>2, <1>3 DEF Inv, ProxyInv, NetOK, BacklogInv, proxyOwn
<1> QED  BY <1>2, <1>4 DEF SrvHear

\* SrvSetupType: the server answers PORT or PASV.
LEMMA SrvSetupType ==
    ASSUME Inv, NEW s \in Session, SrvSetup(s) PROVE Peers'
<1> DEFINE m  == Head(outq[sc(s)])
           ps == [server[s] EXCEPT !.mode = "PASV", !.n = m.n]
           pt == [server[s] EXCEPT !.mode = "PORT", !.n = m.n]
<1>1. m \in Msg
  BY ConnType, HearType DEF SrvSetup, SrvHear, Inv, ProxyInv
<1>2. m.t \in {"PASV", "PORT"}
  BY DEF SrvSetup, SrvHear
<1>3. m.n \in Op /\ m.n \in 0..NOp
  BY <1>1, <1>2, MsgKind, NumType DEF Address
<1>4. UNCHANGED <<proxyOwn, fin, backlog, est, client, op, nop, sdisk, fetches>>
  BY DEF SrvSetup
<1>5. fin' \subseteq Conn
  BY <1>4 DEF Inv, ProxyInv, NetOK
<1>6. server[s].ph = "idle" => /\ ps \in SrvState /\ SrvPhase(ps)
                               /\ pt \in SrvState /\ SrvPhase(pt)
  BY <1>3, SrvNow DEF SrvState, SrvPhase
<1>7. CASE /\ SrvHear(s, "PASV", <<[t |-> "227", n |-> m.n, at |-> "server"]>>, ps)
           /\ lsn' = [lsn EXCEPT !.server = (@ \ (Op \cap {server[s].n})) \cup {m.n}]
  <2>1. <<[t |-> "227", n |-> m.n, at |-> "server"]>> \in Seq(Msg)
    <3>1. [t |-> "227", n |-> m.n, at |-> "server"] \in Msg
      BY <1>3 DEF Msg, Address, Host
    <3> QED  BY <3>1
  <2>2. lsn' \in [{"client", "server"} -> SUBSET Op]
    BY <1>3, <1>7 DEF Inv, ProxyInv, NetOK
  <2>3. NetOK' /\ BacklogInv' /\ server[s].ph = "idle"
        /\ server' = [server EXCEPT ![s] = ps]
    BY <1>4, <1>5, <1>7, <2>1, <2>2, SrvHearType
  <2> HIDE DEF ps, m
  <2>4. PeersOK' /\ PhaseInv'
    BY <1>4, <1>6, <2>3, SrvMoves, SrvNow DEF FilesOK
  <2> QED  BY <2>3, <2>4 DEF Peers
<1>8. CASE SrvHear(s, "PORT", <<Say("200")>>, pt) /\ UNCHANGED lsn
  <2>1. <<Say("200")>> \in Seq(Msg)
    BY SayType
  <2>2. lsn' \in [{"client", "server"} -> SUBSET Op]
    BY <1>8 DEF Inv, ProxyInv, NetOK
  <2>3. NetOK' /\ BacklogInv' /\ server[s].ph = "idle"
        /\ server' = [server EXCEPT ![s] = pt]
    BY <1>4, <1>5, <1>8, <2>1, <2>2, SrvHearType
  <2> HIDE DEF pt, m
  <2>4. PeersOK' /\ PhaseInv'
    BY <1>4, <1>6, <2>3, SrvMoves, SrvNow DEF FilesOK
  <2> QED  BY <2>3, <2>4 DEF Peers
<1> QED  BY <1>7, <1>8 DEF SrvSetup

\* SrvCommandType: the server accepts or refuses a transfer.
LEMMA SrvCommandType ==
    ASSUME Inv, NEW s \in Session, SrvCommand(s) PROVE Peers'
<1> DEFINE m == Head(outq[sc(s)])
           o == [server[s] EXCEPT !.ph = "open", !.m = m, !.k = 0, !.got = <<>>]
<1>1. UNCHANGED <<proxyOwn, fin, backlog, remote, client, op, nop, sdisk, fetches>>
  BY DEF SrvCommand
<1>2. /\ UNCHANGED <<proxyOwn, backlog, est>>
      /\ fin' \subseteq Conn /\ lsn' \in [{"client", "server"} -> SUBSET Op]
  BY <1>1 DEF remote, Inv, ProxyInv, NetOK
<1>3. m \in Msg /\ server[s].ph = "idle"
  BY ConnType, HearType DEF SrvCommand, SrvHear, Inv, ProxyInv
<1>4. o \in SrvState
  <2>1. <<>> \in Seq(Msg)
    OBVIOUS
  <2> QED  BY <1>3, <2>1, SrvNow DEF SrvState
<1>5. <<>> \in Seq(Msg) /\ <<Say("550")>> \in Seq(Msg)
  BY SayType
<1>6. ASSUME NEW v, v \in SrvState, SrvPhase(v), server' = [server EXCEPT ![s] = v],
             NetOK', BacklogInv'
      PROVE  Peers'
  BY <1>1, <1>6, SrvMoves, SrvNow DEF Peers, FilesOK
<1>7. CASE SrvHear(s, "LIST", <<>>, o) \/ SrvHear(s, "STOR", <<>>, o)
  <2>1. m.t \in {"LIST", "STOR"} /\ NetOK' /\ BacklogInv'
        /\ server' = [server EXCEPT ![s] = o]
    BY <1>2, <1>5, <1>7, SrvHearType
  <2>2. SrvPhase(o)
    BY <2>1, SrvNow DEF SrvPhase, SrvState
  <2> HIDE DEF o
  <2> QED  BY <1>4, <1>6, <2>1, <2>2
<1>8. CASE SrvHear(s, "RETR", <<>>, o) /\ m.f \in DOMAIN sdisk
  <2>1. NetOK' /\ BacklogInv' /\ server' = [server EXCEPT ![s] = o]
    BY <1>2, <1>5, <1>8, SrvHearType
  <2>2. SrvPhase(o)
    BY <1>8, SrvNow DEF SrvPhase, SrvState
  <2> HIDE DEF o
  <2> QED  BY <1>4, <1>6, <2>1, <2>2
<1>9. CASE SrvHear(s, "RETR", <<Say("550")>>, server[s])
  <2>1. NetOK' /\ BacklogInv' /\ server' = [server EXCEPT ![s] = server[s]]
    BY <1>2, <1>5, <1>9, SrvHearType
  <2> QED  BY <1>6, <2>1, SrvNow
<1> QED  BY <1>7, <1>8, <1>9 DEF SrvCommand

\* SrvOpenType: the server's data connection is opened.
LEMMA SrvOpenType ==
    ASSUME Inv, NEW s \in Session, SrvOpen(s) PROVE Peers'
<1> DEFINE v == server[s]
           st == [v EXCEPT !.ph = IF v.m.t = "STOR" THEN "recv" ELSE "send"]
<1>1. /\ v.ph = "open" /\ v.n \in Op /\ server' = [server EXCEPT ![s] = st]
      /\ UNCHANGED <<proxyOwn, outq, fin, lsn, client, op, nop, sdisk>>
  BY DEF SrvOpen
<1>2. v \in SrvState /\ SrvPhase(v) /\ FilesOK(sdisk) /\ v.m \in Msg
  BY SrvNow DEF SrvState
<1>3. est' \subseteq Conn /\ backlog' \in [Port -> Seq(Conn)] /\ BacklogInv'
  <2>1. CASE Connect(sd(v.n), v.n)
    BY <1>1, <2>1, ConnType, NumType, ConnectType DEF Inv, ProxyInv
  <2>2. CASE UNCHANGED <<est, backlog>>
    BY <2>2 DEF Inv, ProxyInv, NetOK, BacklogInv
  <2> QED  BY <2>1, <2>2 DEF SrvOpen
<1>4. inq' \in [Conn -> Seq(Msg)]
  BY ConnType, SayType, TellType DEF SrvOpen, Inv, ProxyInv
<1>5. NetOK'
  BY <1>1, <1>3, <1>4 DEF Inv, ProxyInv, NetOK, proxyOwn
<1>6. st \in SrvState /\ SrvPhase(st)
  BY <1>1, <1>2 DEF SrvState, SrvPhase
<1>7. fetches' \in [File -> Nat]
  <2>1. fetches \in [File -> Nat]
    BY SrvNow
  <2>2. CASE v.m.t = "RETR"
    <3>1. v.m.f \in File /\ fetches[v.m.f] + 1 \in Nat
      BY <1>2, <2>1, <2>2, MsgKind DEF Named
    <3> QED  BY <2>1, <2>2, <3>1 DEF SrvOpen
  <2>3. CASE v.m.t # "RETR"
    BY <2>1, <2>3 DEF SrvOpen
  <2> QED  BY <2>2, <2>3
<1> HIDE DEF st
<1>8. PeersOK' /\ PhaseInv'
  BY <1>1, <1>2, <1>6, <1>7, SrvMoves DEF FilesOK
<1> QED  BY <1>3, <1>5, <1>8 DEF Peers

\* SendingType: what the server has to send.
LEMMA SendingType ==
    ASSUME Inv, NEW s \in Session, server[s].ph = "send"
    PROVE  Sending(server[s]) \in Seq(Msg)
<1> DEFINE v == server[s]
<1>1. CASE v.m.t = "RETR"
  BY <1>1, SrvNow DEF SrvPhase, FilesOK, Sending
<1>2. CASE v.m.t # "RETR"
  <2>1. [t |-> "data", f |-> Listing, v |-> 0, k |-> 1] \in Msg
    BY BlockType
  <2> QED  BY <1>2, <2>1 DEF Sending
<1> QED  BY <1>1, <1>2

\* SrvSendType: the server sends a block.
LEMMA SrvSendType ==
    ASSUME Inv, NEW s \in Session, SrvSend(s) PROVE Peers'
<1> DEFINE v == server[s]
           k == v.k + 1
<1>1. /\ v.ph = "send" /\ v.k < Len(Sending(v)) /\ Tell(sd(v.n), Sending(v)[k])
      /\ server' = [server EXCEPT ![s] = [v EXCEPT !.k = k]]
      /\ UNCHANGED <<proxyOwn, outq, fin, backlog, remote, client, op, nop, sdisk,
                     fetches>>
  BY DEF SrvSend
<1>2. v \in SrvState /\ SrvPhase(v) /\ FilesOK(sdisk) /\ fetches \in [File -> Nat]
      /\ v.k \in Nat /\ v.n \in Op
  BY <1>1, SrvNow DEF SrvState, SrvPhase
<1>3. Sending(v)[k] \in Msg
  <2>1. Sending(v) \in Seq(Msg)
    BY <1>1, SendingType
  <2>2. k \in 1..Len(Sending(v))
    BY <1>1, <1>2, <2>1
  <2> QED  BY <2>1, <2>2
<1>4. inq' \in [Conn -> Seq(Msg)]
  BY <1>1, <1>2, <1>3, ConnType, TellType DEF Inv, ProxyInv
<1>5. NetOK' /\ BacklogInv'
  BY <1>1, <1>4 DEF Inv, ProxyInv, NetOK, BacklogInv, proxyOwn, remote
<1>6. k \in Nat
  BY <1>2
<1> HIDE DEF k
<1>7. [v EXCEPT !.k = k] \in SrvState /\ SrvPhase([v EXCEPT !.k = k])
  BY <1>2, <1>6 DEF SrvState, SrvPhase
<1>8. PeersOK' /\ PhaseInv'
  BY <1>1, <1>2, <1>7, SrvMoves DEF FilesOK
<1> QED  BY <1>5, <1>8 DEF Peers

\* SrvRecvType: the server stores a block.
LEMMA SrvRecvType ==
    ASSUME Inv, NEW s \in Session, SrvRecv(s) PROVE Peers'
<1> DEFINE v == server[s]
           g == Append(v.got, Head(outq[sd(v.n)]))
<1>1. /\ v.ph = "recv" /\ outq[sd(v.n)] # <<>> /\ Hear(sd(v.n))
      /\ server' = [server EXCEPT ![s] = [v EXCEPT !.got = g]]
      /\ UNCHANGED <<proxyOwn, inq, fin, backlog, remote, client, op, nop, sdisk,
                     fetches>>
  BY DEF SrvRecv
<1>2. v \in SrvState /\ SrvPhase(v) /\ FilesOK(sdisk) /\ fetches \in [File -> Nat]
      /\ v.got \in Seq(Msg) /\ v.n \in Op
  BY <1>1, SrvNow DEF SrvState, SrvPhase
<1>3. Head(outq[sd(v.n)]) \in Msg /\ outq' \in [Conn -> Seq(Msg)]
  BY <1>1, <1>2, ConnType, HearType DEF Inv, ProxyInv
<1>4. NetOK' /\ BacklogInv'
  BY <1>1, <1>3 DEF Inv, ProxyInv, NetOK, BacklogInv, proxyOwn, remote
<1>5. g \in Seq(Msg)
  BY <1>2, <1>3, QueueType
<1> HIDE DEF g
<1>6. [v EXCEPT !.got = g] \in SrvState /\ SrvPhase([v EXCEPT !.got = g])
  BY <1>2, <1>5 DEF SrvState, SrvPhase
<1>7. PeersOK' /\ PhaseInv'
  BY <1>1, <1>2, <1>6, SrvMoves DEF FilesOK
<1> QED  BY <1>4, <1>7 DEF Peers

\* SrvEndType: the server ends a transfer with 226 or 426.
LEMMA SrvEndType ==
    ASSUME Inv, NEW s \in Session, NEW reply \in {"226", "426"}, SrvEnd(s, reply)
    PROVE  Peers'
<1> DEFINE v  == server[s]
           st == [v EXCEPT !.ph = "idle"]
<1>1. /\ server' = [server EXCEPT ![s] = st] /\ Tell(sc(s), Say(reply))
      /\ fin' = fin \cup (est \cap {sd(v.n)})
      /\ UNCHANGED <<proxyOwn, outq, backlog, remote, client, op, nop, fetches>>
  BY DEF SrvEnd
<1>2. v \in SrvState /\ SrvPhase(v) /\ FilesOK(sdisk) /\ fetches \in [File -> Nat]
      /\ v.m \in Msg /\ v.got \in Seq(Msg)
  BY SrvNow DEF SrvState
<1>3. inq' \in [Conn -> Seq(Msg)]
  BY <1>1, ConnType, SayType, TellType DEF Inv, ProxyInv
<1>4. NetOK' /\ BacklogInv'
  BY <1>1, <1>3 DEF Inv, ProxyInv, NetOK, BacklogInv, proxyOwn, remote
<1>5. FilesOK(sdisk)' /\ DOMAIN sdisk \subseteq DOMAIN sdisk'
  <2>1. CASE UNCHANGED sdisk
    BY <1>2, <2>1 DEF FilesOK
  <2>2. CASE /\ v.ph = "recv"
             /\ sdisk' = [f \in DOMAIN sdisk \cup {v.m.f} |->
                             IF f = v.m.f THEN v.got ELSE sdisk[f]]
    <3>1. v.m.f \in File
      BY <1>2, <2>2, MsgKind DEF SrvPhase, Named
    <3> QED  BY <1>2, <2>2, <3>1 DEF FilesOK
  <2> QED  BY <2>1, <2>2 DEF SrvEnd
<1>6. st \in SrvState /\ SrvPhase(st)
  BY <1>2 DEF SrvState, SrvPhase
<1> HIDE DEF st
<1>7. PeersOK' /\ PhaseInv'
  BY <1>1, <1>2, <1>5, <1>6, SrvMoves
<1> QED  BY <1>4, <1>7 DEF Peers

\* SrvQuitType: the server answers QUIT.
LEMMA SrvQuitType ==
    ASSUME Inv, NEW s \in Session, SrvQuit(s) PROVE Peers'
<1> DEFINE st == [server[s] EXCEPT !.ph = "gone"]
<1>1. /\ SrvHear(s, "QUIT", <<Say("221")>>, st) /\ fin' = fin \cup {sc(s)}
      /\ UNCHANGED <<proxyOwn, backlog, remote, client, op, nop, sdisk, fetches>>
  BY DEF SrvQuit
<1>2. fin' \subseteq Conn /\ lsn' \in [{"client", "server"} -> SUBSET Op]
      /\ UNCHANGED <<proxyOwn, backlog, est>>
  BY <1>1, ConnType DEF Inv, ProxyInv, NetOK, remote
<1>3. <<Say("221")>> \in Seq(Msg)
  BY SayType
<1>4. NetOK' /\ BacklogInv' /\ server' = [server EXCEPT ![s] = st]
  BY <1>1, <1>2, <1>3, SrvHearType
<1>5. st \in SrvState /\ SrvPhase(st)
  BY SrvNow DEF SrvState, SrvPhase
<1> HIDE DEF st
<1>6. PeersOK' /\ PhaseInv'
  BY <1>1, <1>4, <1>5, SrvMoves, SrvNow DEF FilesOK
<1> QED  BY <1>4, <1>6 DEF Peers

\* SrvHangupType: the server drops a session whose connection ended.
LEMMA SrvHangupType ==
    ASSUME Inv, NEW s \in Session, SrvHangup(s) PROVE Peers'
<1> DEFINE v  == server[s]
           st == [v EXCEPT !.ph = "gone"]
<1>1. /\ server' = [server EXCEPT ![s] = st]
      /\ fin' = fin \cup {sc(s)} \cup IF v.n = 0 THEN {} ELSE est \cap {sd(v.n)}
      /\ lsn' = [lsn EXCEPT !.server = @ \ (Op \cap {v.n})]
      /\ UNCHANGED <<proxyOwn, inq, outq, backlog, est, client, op, nop, sdisk,
                     fetches>>
  BY DEF SrvHangup
<1>2. NetOK' /\ BacklogInv'
  <2>1. fin' \subseteq Conn
    BY <1>1, ConnType DEF Inv, ProxyInv, NetOK
  <2>2. lsn' \in [{"client", "server"} -> SUBSET Op]
    BY <1>1 DEF Inv, ProxyInv, NetOK
  <2> QED
    BY <1>1, <2>1, <2>2 DEF Inv, ProxyInv, NetOK, BacklogInv, proxyOwn
<1>3. st \in SrvState /\ SrvPhase(st)
  BY SrvNow DEF SrvState, SrvPhase
<1> HIDE DEF st
<1>4. PeersOK' /\ PhaseInv'
  BY <1>1, <1>3, SrvMoves, SrvNow DEF FilesOK
<1> QED  BY <1>2, <1>4 DEF Peers

\* SrvStepType: every step of the server keeps the types.
LEMMA SrvStepType == ASSUME Inv, NEW s \in Session, SrvStep(s) PROVE Peers'
<1>1. CASE SrvGreet(s)   BY <1>1, SrvGreetType
<1>2. CASE SrvSetup(s)   BY <1>2, SrvSetupType
<1>3. CASE SrvCommand(s) BY <1>3, SrvCommandType
<1>4. CASE SrvOpen(s)    BY <1>4, SrvOpenType
<1>5. CASE SrvSend(s)    BY <1>5, SrvSendType
<1>6. CASE SrvRecv(s)    BY <1>6, SrvRecvType
<1>7. CASE SrvEnd(s, "226") \/ SrvEnd(s, "426")
  BY <1>7, SrvEndType
<1>8. CASE SrvQuit(s)    BY <1>8, SrvQuitType
<1>9. CASE SrvHangup(s)  BY <1>9, SrvHangupType
<1> QED
  BY <1>1, <1>2, <1>3, <1>4, <1>5, <1>6, <1>7, <1>8, <1>9 DEF SrvStep

-----------------------------------------------------------------------------
(***************************************************************************)
(* The theorem.                                                            *)
(***************************************************************************)
LEMMA InitInv == SysInit => Inv
<1> SUFFICES ASSUME SysInit PROVE Inv
  OBVIOUS
<1>1. \A fd \in Fd : fdt[fd] \in Object /\ (fdt[fd] = Listener(CmdPort) => fd = 3)
  <2>1. {Free, Std, Listener(CmdPort)} \subseteq Object
    BY ObjectKind, NumType
  <2>2. Std # Listener(CmdPort) /\ Free # Listener(CmdPort)
    BY DEF Std, Free, Listener
  <2> QED  BY <2>1, <2>2 DEF SysInit, Init
<1>2. fdt \in Table /\ fdt \in [Fd -> Object]
  BY <1>1 DEF SysInit, Init, Table
<1>3. sock \in [Role -> Fd] /\ master \subseteq Fd /\ bytes_creat \in Fd
  BY NetAssumption DEF SysInit, Init, Fd
<1>4. pos \in (0..NFd) \X (0..6)
  BY NetAssumption DEF SysInit, Init
<1>5. ProcessOK
  <2>1. FilesOK(disk)
    <3>1. DOMAIN disk = {}
      BY DEF SysInit, Init
    <3> QED  BY <3>1 DEF FilesOK
  <2>2. status \in {"running", "exited"} /\ read_fds \subseteq Fd /\ cache \in BOOLEAN
    BY DEF SysInit, Init
  <2>3. proxy_data_mode \in {"PORT", "PASV"} /\ proxy_file_mode \in {"RETR", "STOR"}
    BY DEF SysInit, Init
  <2>4. proxy_data_port \in Port
    BY DEF SysInit, Init, Port, CmdPort
  <2>5. file \in File \cup {NoName}
    BY DEF SysInit, Init
  <2>6. cmdbuf \in Msg /\ repbuf \in Msg
    BY SayType DEF SysInit, Init
  <2> QED
    BY <1>2, <1>3, <1>4, <2>1, <2>2, <2>3, <2>4, <2>5, <2>6 DEF ProcessOK
<1>6. NetOK /\ BacklogInv
  BY NumType DEF SysInit, Init, NetOK, BacklogInv
<1>7. PeersOK
  <2>1. client \in [Session -> CliState]
    BY NumType DEF SysInit, PeersInit, CliState
  <2>2. op \in [Op -> OpState]
    BY NumType, SayType DEF SysInit, PeersInit, OpState
  <2>3. server \in [Session -> SrvState]
    BY NumType, SayType DEF SysInit, PeersInit, SrvState
  <2>4. FilesOK(sdisk)
    BY PeersAssumption, BlockType DEF SysInit, PeersInit, FilesOK
  <2>5. nop \in 0..NOp /\ fetches \in [File -> Nat]
    BY NumType DEF SysInit, PeersInit
  <2> QED  BY <2>1, <2>2, <2>3, <2>4, <2>5 DEF PeersOK
<1>8. PhaseInv
  BY DEF SysInit, PeersInit, PhaseInv
<1> QED  BY <1>2, <1>5, <1>6, <1>7, <1>8 DEF Inv, ProxyInv

\* PeersKept: a step of the proxy leaves its peers alone.
LEMMA PeersKept ==
    ASSUME Inv, UNCHANGED peers, ProxyInv' PROVE Inv'
BY DEF Inv, PeersOK, PhaseInv, FilesOK, peers

\* NextInv: every step of the system keeps the invariant.
LEMMA NextInv == ASSUME Inv, ListenerInv, [Next]_vars PROVE Inv'
<1>1. ASSUME UNCHANGED peers,
             \/ Select \/ AcceptClient \/ Command \/ Reply \/ DataConnection
             \/ Transfer("accept_data", "connect_data")
             \/ Transfer("connect_data", "accept_data")
      PROVE  Inv'
  <2>1. CASE Select         BY <1>1, <2>1, SelectType, PeersKept DEF Inv
  <2>2. CASE AcceptClient   BY <1>1, <2>2, AcceptClientType, PeersKept DEF Inv
  <2>3. CASE Command        BY <1>1, <2>3, CommandType, PeersKept DEF Inv
  <2>4. CASE Reply          BY <1>1, <2>4, ReplyType, PeersKept DEF Inv
  <2>5. CASE DataConnection BY <1>1, <2>5, DataConnectionType, PeersKept DEF Inv
  <2>6. CASE Transfer("accept_data", "connect_data")
    BY <1>1, <2>6, TransferType, PeersKept DEF Inv
  <2>7. CASE Transfer("connect_data", "accept_data")
    BY <1>1, <2>7, TransferType, PeersKept DEF Inv
  <2> QED  BY <1>1, <2>1, <2>2, <2>3, <2>4, <2>5, <2>6, <2>7
<1>2. ASSUME NEW s \in Session, CliStep(s) \/ SrvStep(s) PROVE Inv'
  BY <1>2, CliStepType, SrvStepType, CliStepKeeps, SrvStepKeeps, ProxyKept
<1>3. ASSUME NEW n \in Op, CliData(n) PROVE Inv'
  BY <1>3, CliDataType, CliDataKeeps, ProxyKept
<1>4. CASE UNCHANGED vars
  <2>1. Peers'
    BY <1>4 DEF Inv, ProxyInv, Peers, NetOK, BacklogInv, PeersOK, FilesOK, PhaseInv,
       vars, proxyVars, peers, fds, remote, written
  <2>2. UNCHANGED proxyOwn
    BY <1>4 DEF vars, proxyVars, proxyOwn, scan, fds, dport, dfile, store, bufs,
       written
  <2> QED  BY <2>1, <2>2, ProxyKept
<1> QED  BY <1>1, <1>2, <1>3, <1>4 DEF Next

\* TypeOKHolds: every variable keeps its type, so no branch uses a descriptor
\* outside the table or the -1 of a call that failed.
THEOREM TypeOKHolds == Spec => []TypeOK
<1>1. SysInit => Inv /\ ListenerInv
  BY InitInv, InitListener
<1>2. (Inv /\ ListenerInv) /\ [Next]_vars => (Inv /\ ListenerInv)'
  BY NextInv, NextListener
<1>3. Inv => TypeOK
  BY DEF Inv, ProxyInv, TypeOK
<1> QED  BY <1>1, <1>2, <1>3, PTL DEF Spec

-----------------------------------------------------------------------------
(***************************************************************************)
(* The files of the cache, for every value of the constants: what is       *)
(* stored and closed does not change any more.  A file changes in two ways *)
(* only, by a write() to a descriptor that is open on it and by creat(),   *)
(* and creat() is called only for a file that is not there.                *)
(***************************************************************************)

\* The files of d are those of the cache, as far as they are not being written.
Kept(d) == \A f \in DOMAIN disk : ~CacheOpen(f) => f \in DOMAIN d /\ d[f] = disk[f]

\* A table in which only the cache files of the present table are open.
Old(ft) == \A fd \in Fd : ft[fd].k = "file" => CacheOpen(ft[fd].n)

\* OldTable: so are the present table, and what comes of it by close() and by
\* opening anything but a cache file.
LEMMA OldTable ==
    ASSUME ProxyInv
    PROVE  /\ Old(fdt)
           /\ \A S : Old(Closed(fdt, S))
           /\ \A ft, o : Old(ft) /\ ft \in [Fd -> Object] /\ o.k # "file"
                             => Old(Opened(ft, o))
<1>1. \A o \in Object : o.k = "file" => o = CacheFile(o.n)
  <2>1. \A o \in Conn \cup {Free, Dead, Std} \cup {Listener(p) : p \in Port} :
            o.k # "file"
    BY DEF Conn, Free, Dead, Std, Listener
  <2>2. \A o \in {CacheFile(f) : f \in File} : o = CacheFile(o.n)
    BY DEF CacheFile
  <2> QED  BY <2>1, <2>2 DEF Object
<1>2. Old(fdt)
  BY <1>1 DEF ProxyInv, Table, Old, CacheOpen
<1>3. \A S : Old(Closed(fdt, S))
  BY <1>2 DEF Old, Closed, Free
<1>4. \A ft, o : Old(ft) /\ ft \in [Fd -> Object] /\ o.k # "file" => Old(Opened(ft, o))
  BY DEF Old, Opened
<1> QED  BY <1>2, <1>3, <1>4

\* PutKept: a write() to a descriptor of such a table changes open files only.
LEMMA PutKept ==
    ASSUME NEW w, Kept(w.d), NEW ft, Old(ft), NEW fd \in Fd, NEW ms
    PROVE  Kept(Put(w, ft, fd, ms).d)
<1>1. Put(w, ft, fd, ms).d = IF ft[fd].k = "file" THEN [w.d EXCEPT ![ft[fd].n] = @ \o ms]
                             ELSE w.d
  BY DEF Put
<1>2. ft[fd].k = "file" => CacheOpen(ft[fd].n)
  BY DEF Old
<1> QED  BY <1>1, <1>2 DEF Kept

\* WrittenKept: so do the writes of a branch, and a branch without writes.
LEMMA WrittenKept ==
    /\ Kept(Unwritten.d)
    /\ \A w : Kept(w.d) /\ Written(w) => Kept(disk')
    /\ UNCHANGED disk => Kept(disk')
<1>1. Kept(Unwritten.d)
  BY DEF Kept, Unwritten
<1>2. \A w : Kept(w.d) /\ Written(w) => Kept(disk')
  BY DEF Written, Kept
<1> QED  BY <1>1, <1>2 DEF Kept

\* PassOnKept: a line that is passed on.
LEMMA PassOnKept ==
    ASSUME ProxyInv, NEW x, NEW role \in Role, PassOn(x, role) PROVE Kept(disk')
<1>1. sock[role] \in Fd
  BY RoleType DEF ProxyInv
<1>2. Kept(Put(Unwritten, fdt, sock[role], <<x.m>>).d)
  BY <1>1, OldTable, PutKept, WrittenKept
<1> QED  BY <1>2, WrittenKept DEF PassOn

\* DataListenerKept: PORT and 227 (lines 186-207, 250-272).
LEMMA DataListenerKept ==
    ASSUME ProxyInv, NEW p, NEW mode, NEW role \in Role, NEW m,
           DataListener(p, mode, role, m)
    PROVE  Kept(disk')
<1> DEFINE ft  == Closed(fdt, OldListener)
           ft1 == Opened(ft, Listener(p))
           w   == Put(Unwritten, ft1, sock[role], <<[m EXCEPT !.at = "proxy"]>>)
<1>1. Exit \/ Written(w)
  BY DEF DataListener
<1>2. CASE Exit
  BY <1>2, WrittenKept DEF Exit
<1>3. CASE Written(w)
  <2>1. ft \in [Fd -> Object] /\ Old(ft)
    BY OldTable, TableType DEF ProxyInv, Table
  <2>2. Listener(p).k # "file"
    BY DEF Listener
  <2>3. Old(ft1)
    BY <2>1, <2>2, OldTable
  <2>4. sock[role] \in Fd
    BY RoleType DEF ProxyInv
  <2> HIDE DEF ft1
  <2>5. Kept(w.d)
    BY <2>3, <2>4, PutKept, WrittenKept
  <2> HIDE DEF w
  <2> QED  BY <1>3, <2>5, WrittenKept
<1> QED  BY <1>1, <1>2, <1>3

\* ServedKept: a file of the cache that is sent to a connection, between the
\* replies the proxy makes up (lines 216-226, 302-310).
LEMMA ServedKept ==
    ASSUME ProxyInv, NEW ft, Old(ft), NEW ft0, Old(ft0), NEW d \in Fd,
           NEW a \in Fd, NEW ms1, NEW ms2, NEW ms3
    PROVE  Kept(Put(Put(Put(Unwritten, ft0, a, ms1), ft, d, ms2), ft, a, ms3).d)
<1>1. Kept(Put(Unwritten, ft0, a, ms1).d)
  BY PutKept, WrittenKept
<1>2. Kept(Put(Put(Unwritten, ft0, a, ms1), ft, d, ms2).d)
  BY <1>1, PutKept
<1> QED  BY <1>2, PutKept

\* CommandKept: the branch for the client's commands.
LEMMA CommandKept == ASSUME ProxyInv, Command PROVE Kept(disk')
<1>1. PICK x : \/ ClientGone(x)    \/ PortCommand(x) \/ RetrCached(x)
               \/ RetrForwarded(x) \/ OtherCommand(x)
  BY DEF Command
<1>2. CASE ClientGone(x)
  BY <1>2, WrittenKept DEF ClientGone, written
<1>3. CASE PortCommand(x)
  BY <1>3, DataListenerKept, RoleType DEF PortCommand, ProxyInv
<1>4. CASE RetrForwarded(x) \/ OtherCommand(x)
  BY <1>4, PassOnKept, RoleType DEF RetrForwarded, OtherCommand, ProxyInv
<1>5. CASE RetrCached(x)
  <2> DEFINE d  == Lowest(fdt)
             o  == Connected("client", proxy_data_port)
             ft == Opened(fdt, o)
             w1 == Put(Unwritten, fdt, sock.accept_cmd, <<Say("150")>>)
             w2 == Put(w1, ft, d, proxy_rw(x.m.f))
             w3 == Put(w2, ft, sock.accept_cmd, <<Say("226")>>)
  <2>1. UNCHANGED disk \/ Written(w3)
    BY <1>5 DEF RetrCached, written
  <2>2. d \in Fd /\ sock.accept_cmd \in Fd
    BY <1>5, LowestFree, RoleType DEF RetrCached, isFileExist, ProxyInv
  <2>3. o.k # "file"
    BY DEF Connected, Dead
  <2>4. Old(fdt) /\ fdt \in [Fd -> Object]
    BY OldTable DEF ProxyInv, Table
  <2> HIDE DEF o, d
  <2>5. Old(ft)
    BY <2>3, <2>4, OldTable
  <2> HIDE DEF ft
  <2>6. Kept(w3.d)
    BY <2>2, <2>4, <2>5, ServedKept
  <2> HIDE DEF w3
  <2> QED  BY <2>1, <2>6, WrittenKept
<1> QED  BY <1>1, <1>2, <1>3, <1>4, <1>5

\* ReplyKept: the branch for the server's replies.
LEMMA ReplyKept == ASSUME ProxyInv, Reply PROVE Kept(disk')
<1>1. PICK x : ServerGone(x) \/ PassiveReply(x) \/ OtherReply(x)
  BY DEF Reply
<1>2. CASE ServerGone(x)
  BY <1>2, WrittenKept DEF ServerGone, written
<1>3. CASE PassiveReply(x)
  BY <1>3, DataListenerKept, RoleType DEF PassiveReply, ProxyInv
<1>4. CASE OtherReply(x)
  BY <1>4, PassOnKept, RoleType DEF OtherReply, ProxyInv
<1> QED  BY <1>1, <1>2, <1>3, <1>4

\* RelayKept: creat() in a branch that relays (lines 283-291, 317-326): the
\* file is not there, because isFileExist() said so with a descriptor to spare.
LEMMA RelayKept ==
    ASSUME NEW r1, NEW r2, NEW host, NEW asks, Relay(r1, r2, host, asks)
    PROVE  Kept(disk')
<1> DEFINE p   == CHOOSE q \in Port : fdt[sock.proxy_data] = Listener(q)
           new == [accept_data  |-> Head(backlog[p]),
                   connect_data |-> Connected(host, proxy_data_port)]
           ft1 == Opened(fdt, new[r1])
           ft2 == Opened(ft1, new[r2])
           caching == asks /\ isCacheExist(ft2)
<1>1. Exit \/ (Room(ft1, ft2, caching) /\
               disk' = IF caching
                       THEN [f \in DOMAIN disk \cup {file} |->
                                IF f = file THEN <<>> ELSE disk[f]]
                       ELSE disk)
  BY DEF Relay
<1>2. CASE Exit
  BY <1>2, WrittenKept DEF Exit
<1>3. CASE Room(ft1, ft2, caching) /\ caching
  <2>1. Lowest(ft2) # NoFd
    BY <1>3 DEF Room
  <2>2. ~isFileExist(ft2, file)
    BY <1>3 DEF isCacheExist
  <2>3. file \notin DOMAIN disk
    BY <2>1, <2>2 DEF isFileExist
  <2> HIDE DEF caching
  <2> QED  BY <1>1, <1>2, <1>3, <2>3 DEF Kept
<1>4. CASE ~caching
  <2> HIDE DEF caching
  <2> QED  BY <1>1, <1>2, <1>4, WrittenKept
<1> HIDE DEF caching, ft1, ft2
<1> QED  BY <1>1, <1>2, <1>3, <1>4

\* DataConnectionKept: the branch for the data listener.
LEMMA DataConnectionKept == ASSUME ProxyInv, DataConnection PROVE Kept(disk')
<1>1. CASE Exit
  BY <1>1, WrittenKept DEF Exit
<1>2. CASE RelayActive \/ RelayPassive \/ RelayMiss
  BY <1>2, RelayKept DEF RelayActive, RelayPassive, RelayMiss
<1>3. ASSUME NEW p \in Port, fdt[sock.proxy_data] = Listener(p), backlog[p] # <<>>,
             ServeCached
      PROVE  Kept(disk')
  <2> DEFINE a  == Lowest(fdt)
             o  == Head(backlog[p])
             ft == Opened(fdt, o)
             w1 == Put(Unwritten, ft, sock.accept_cmd, <<Say("150")>>)
             w2 == Put(w1, ft, a, proxy_rw(file))
             w3 == Put(w2, ft, sock.accept_cmd, <<Say("226")>>)
  <2>1. (CHOOSE q \in Port : fdt[sock.proxy_data] = Listener(q)) = p
    BY <1>3, Waiting
  <2>2. UNCHANGED disk \/ Written(w3)
    BY <1>3, <2>1 DEF ServeCached
  <2>3. a \in Fd /\ sock.accept_cmd \in Fd
    BY <1>3, LowestFree, RoleType DEF ServeCached, isFileExist, ProxyInv
  <2>4. o.k # "file"
    <3>1. o \in Conn
      BY <1>3, QueueType DEF ProxyInv, NetOK
    <3> QED  BY <3>1 DEF Conn
  <2>5. Old(fdt) /\ fdt \in [Fd -> Object]
    BY OldTable DEF ProxyInv, Table
  <2> HIDE DEF o, a
  <2>6. Old(ft)
    BY <2>4, <2>5, OldTable
  <2> HIDE DEF ft
  <2>7. Kept(w3.d)
    BY <2>3, <2>6, ServedKept
  <2> HIDE DEF w3
  <2> QED  BY <2>2, <2>7, WrittenKept
<1> QED  BY <1>1, <1>2, <1>3 DEF DataConnection

\* TransferKept: the branches for blocks, which write to bytes_creat, whatever
\* that descriptor is by now, and to the other side.
LEMMA TransferKept ==
    ASSUME ProxyInv, NEW r, NEW other \in {"accept_data", "connect_data"},
           Transfer(r, other)
    PROVE  Kept(disk')
<1>1. PICK x : DataEnd(r, other, x) \/ DataBlock(r, other, x)
  BY DEF Transfer
<1>2. CASE DataEnd(r, other, x)
  BY <1>2, WrittenKept DEF DataEnd, written
<1>3. CASE DataBlock(r, other, x)
  <2>1. sock[other] \in Fd /\ bytes_creat \in Fd /\ Old(fdt)
    BY OldTable, RoleType DEF ProxyInv, ProcessOK
  <2>2. Kept(Put(Unwritten, fdt, bytes_creat, <<x.m>>).d) /\ Kept(Unwritten.d)
    BY <2>1, PutKept, WrittenKept
  <2>3. Kept(Copied(other, x.m).d)
    BY <2>1, <2>2, PutKept DEF Copied
  <2> QED  BY <1>3, <2>2, <2>3, WrittenKept DEF DataBlock
<1> QED  BY <1>1, <1>2, <1>3

\* NextKept: every step of the system.
LEMMA NextKept == ASSUME Inv, [Next]_vars PROVE Kept(disk')
<1>1. ProxyInv
  BY DEF Inv
<1>2. CASE Select \/ AcceptClient
  BY <1>2, WrittenKept DEF Select, AcceptClient, Exit, written
<1>3. CASE Command        BY <1>1, <1>3, CommandKept
<1>4. CASE Reply          BY <1>1, <1>4, ReplyKept
<1>5. CASE DataConnection BY <1>1, <1>5, DataConnectionKept
<1>6. CASE \/ Transfer("accept_data", "connect_data")
           \/ Transfer("connect_data", "accept_data")
  BY <1>1, <1>6, TransferKept
<1>7. CASE \/ \E s \in Session : CliStep(s) \/ SrvStep(s)
           \/ \E n \in Op : CliData(n)
  <2>1. UNCHANGED proxyOwn
    BY <1>7, CliStepKeeps, SrvStepKeeps, CliDataKeeps
  <2> QED  BY <2>1, WrittenKept DEF proxyOwn
<1>8. CASE UNCHANGED vars
  BY <1>8, WrittenKept DEF vars, proxyVars, written
<1> QED  BY <1>2, <1>3, <1>4, <1>5, <1>6, <1>7, <1>8 DEF Next

\* CacheStableHolds: whatever clients do, one after the other or in each
\* other's way, a file of the cache that is closed never changes again.
THEOREM CacheStableHolds == Spec => CacheStable
<1>1. SysInit => Inv /\ ListenerInv
  BY InitInv, InitListener
<1>2. (Inv /\ ListenerInv) /\ [Next]_vars => (Inv /\ ListenerInv)'
  BY NextInv, NextListener
<1>3. Inv /\ [Next]_vars =>
        [\A f \in DOMAIN disk : ~CacheOpen(f) =>
            f \in DOMAIN disk' /\ disk'[f] = disk[f]]_vars
  BY NextKept DEF Kept
<1> QED  BY <1>1, <1>2, <1>3, PTL DEF Spec, CacheStable

-----------------------------------------------------------------------------
(***************************************************************************)
(* The same when the proxy is killed and started again (FtpRestart).  The  *)
(* invariants do not depend on what a new process lost: start-up sets      *)
(* every variable of the process as main() does, and finds the files as    *)
(* they are.                                                               *)
(***************************************************************************)

\* RestartInv: a start after a crash establishes the invariants again.
LEMMA RestartInv == ASSUME Inv, Restart PROVE (Inv /\ ListenerInv)' /\ UNCHANGED disk
<1>1. \A fd \in Fd : fdt'[fd] \in Object /\ (fdt'[fd] = Listener(CmdPort) => fd = 3)
  <2>1. {Free, Std, Listener(CmdPort)} \subseteq Object
    BY ObjectKind, NumType
  <2>2. Std # Listener(CmdPort) /\ Free # Listener(CmdPort)
    BY DEF Std, Free, Listener
  <2> QED  BY <2>1, <2>2 DEF Restart
<1>2. fdt' \in Table /\ fdt' \in [Fd -> Object]
  BY <1>1 DEF Restart, Table
<1>3. sock' \in [Role -> Fd] /\ master' \subseteq Fd /\ bytes_creat' \in Fd
  BY NetAssumption DEF Restart, Fd
<1>4. pos' \in (0..NFd) \X (0..6) /\ read_fds' = {}
  BY NetAssumption DEF Restart
<1>5. ProcessOK'
  <2>1. FilesOK(disk')
    BY DEF Inv, ProxyInv, ProcessOK, Restart
  <2>2. status' = "running" /\ cache' \in BOOLEAN
    BY DEF Restart
  <2>3. proxy_data_mode' \in {"PORT", "PASV"} /\ proxy_file_mode' \in {"RETR", "STOR"}
    BY DEF Restart
  <2>4. proxy_data_port' \in Port /\ file' \in File \cup {NoName}
    BY DEF Restart, Port, CmdPort
  <2>5. cmdbuf' \in Msg /\ repbuf' \in Msg
    BY SayType DEF Restart
  <2> QED
    BY <1>2, <1>3, <1>4, <2>1, <2>2, <2>3, <2>4, <2>5 DEF ProcessOK, FilesOK
<1>6. NetOK'
  <2>1. /\ UNCHANGED <<outq, est, fin, lsn>>
        /\ inq' \in [Conn -> Seq(Msg)] /\ backlog' \in [Port -> Seq(Conn)]
        /\ sigpipe' \subseteq Conn \cup {Dead}
    BY DEF Restart
  <2> QED  BY <2>1 DEF Inv, ProxyInv, NetOK
<1>7. BacklogInv'
  BY NumType DEF Restart, BacklogInv
<1>8. PeersOK' /\ PhaseInv'
  BY DEF Inv, Restart, peers, PeersOK, PhaseInv, FilesOK
<1>9. ListenerInv'
  BY <1>2, <1>3, RolesDistinct, NetAssumption DEF Restart, ListenerInv, Fd
<1> QED  BY <1>2, <1>5, <1>6, <1>7, <1>8, <1>9 DEF Inv, ProxyInv, Restart

\* RestartNextInv: every step of the system with restarts.
LEMMA RestartNextInv ==
    ASSUME Inv, ListenerInv, [RestartNext]_restartVars
    PROVE  Inv' /\ ListenerInv' /\ Kept(disk')
<1>1. CASE Restart
  BY <1>1, RestartInv DEF Kept
<1>2. CASE [Next]_vars
  BY <1>2, NextInv, NextListener, NextKept
<1> QED  BY <1>1, <1>2 DEF RestartNext, restartVars

\* RestartCacheStableHolds: a file of the cache that is complete and closed
\* never changes again, however often the proxy is killed, at whatever moment.
THEOREM RestartCacheStableHolds == RestartSpec => CacheStable
<1>1. SysInit => Inv /\ ListenerInv
  BY InitInv, InitListener
<1>2. Inv /\ ListenerInv /\ [RestartNext]_restartVars => (Inv /\ ListenerInv)'
  BY RestartNextInv
<1>3. Inv /\ ListenerInv /\ [RestartNext]_restartVars =>
        [\A f \in DOMAIN disk : ~CacheOpen(f) =>
            f \in DOMAIN disk' /\ disk'[f] = disk[f]]_vars
  BY RestartNextInv DEF Kept
<1> QED  BY <1>1, <1>2, <1>3, PTL DEF RestartSpec, CacheStable

\* RestartTypeOKHolds: a restart finds every variable as it should be, and the
\* port-21 socket listening and selected.
THEOREM RestartTypeOKHolds == RestartSpec => [](TypeOK /\ ListenerAlive)
<1>1. SysInit => Inv /\ ListenerInv
  BY InitInv, InitListener
<1>2. Inv /\ ListenerInv /\ [RestartNext]_restartVars => (Inv /\ ListenerInv)'
  BY RestartNextInv
<1>3. Inv /\ ListenerInv => TypeOK /\ ListenerAlive
  BY DEF Inv, ProxyInv, TypeOK, ListenerInv, ListenerAlive
<1> QED  BY <1>1, <1>2, <1>3, PTL DEF RestartSpec

-----------------------------------------------------------------------------
(***************************************************************************)
(* What holds while clients take turns.                                    *)
(***************************************************************************)

\* Orderly: clients take turns and ask only for files the server has, and the
\* process may hold ten descriptors.
Orderly == /\ Liberty = {} /\ NFd > 9
           /\ Want \subseteq Named
           /\ \A m \in Want : m.t = "RETR" => m.f \in OnServer

-----------------------------------------------------------------------------
(***************************************************************************)
(* The inductive invariant.  The calls of the proxy come in an order that  *)
(* gives every descriptor a fixed number: 4 and 5 the control pair, 6 the  *)
(* listener for data, 7 and 8 the data pair, 9 the cache file.             *)
(***************************************************************************)

\* The proxy has the control pair of session s.
Pair(s) == fdt[4] = sc(s) /\ fdt[5] = cc(s)

\* The table, and what is watched.
Descriptors ==
    /\ status = "running" /\ sigpipe = {Dead}
    /\ \A fd \in 0..2 : fdt[fd] = Std
    /\ fdt[3] = Listener(CmdPort)
    /\ (fdt[4] = Free /\ fdt[5] = Free) \/ (\E s \in Session : Pair(s))
    /\ fdt[6] = Free \/ (\E p \in Op : fdt[6] = Listener(p))
    /\ fdt[7] = Free <=> fdt[8] = Free
    /\ \A fd \in Fd : fd > 9 => fdt[fd] = Free
    /\ master = {fd \in 3..8 : fdt[fd] # Free}
    /\ bytes_creat \in {0, 9} /\ (cache => bytes_creat = 9)

\* A socket variable holds its number, or 0 before its first use.
Numbers ==
    /\ sock.proxy_cmd = 3
    /\ sock.connect_cmd \in {0, 4} /\ sock.accept_cmd \in {0, 5}
    /\ sock.proxy_data \in {0, 6}
    /\ sock.accept_data \in {0, 7, 8} /\ sock.connect_data \in {0, 7, 8}
    /\ fdt[4] # Free => sock.connect_cmd = 4 /\ sock.accept_cmd = 5
    /\ fdt[6] # Free => sock.proxy_data = 6
    /\ (fdt[7] # Free \/ 7 \in read_fds \/ 8 \in read_fds) =>
          {sock.accept_data, sock.connect_data} = {7, 8}

\* What the snapshot says of a descriptor still ahead is true, except that the
\* other end of a pair may just have been closed.
Ready(fd) == \/ Readable(fd)
             \/ fdt[fd] = Free /\ <<fd, pos[1]>> \in {<<5, 4>>, <<8, 7>>}

\* The scan: no variable that is due is one the scan has passed.
Scan ==
    /\ read_fds \subseteq 3..8
    /\ \A fd \in read_fds : pos[1] < fd => Ready(fd)
    /\ \A r \in Due : pos[1] < sock[r]
    /\ fdt[5] = Free => cmdbuf \in {Junk, Say("QUIT")}

(***************************************************************************)
(* The conversation of a session: at most one command is on its way, or    *)
(* the replies to it.                                                      *)
(***************************************************************************)
Carried(s, x, y, z, w) ==
    inq[cc(s)] = x /\ outq[sc(s)] = y /\ inq[sc(s)] = z /\ outq[cc(s)] = w
Quiet(s) == Carried(s, <<>>, <<>>, <<>>, <<>>)

\* PASV, PORT and 227 name the host to connect to.
Setting(n, h) == [t |-> op[n].mode, n |-> n, at |-> h]
Agreed(n, h)  == [t |-> "227", n |-> n, at |-> h]

IsGet(n)   == op[n].m.t = "RETR"
IsPut(n)   == op[n].m.t = "STOR"
Passive(n) == op[n].mode = "PASV"

\* Proxy and server know of transfer n.
Armed(n)   == /\ fdt[6] = Listener(n) /\ proxy_data_mode = op[n].mode
              /\ proxy_data_port = n
Told(s, n) == server[s].n = n /\ server[s].mode = op[n].mode

(***************************************************************************)
(* Where the data connection of transfer n is: not opened, waiting in the  *)
(* backlog with the other side still to be connected, relayed, or closed.  *)
(***************************************************************************)
Fresh(n)  == {cd(n), sd(n)} \cap (est \cup fin) = {}
NoRelay   == fdt[7] = Free /\ fdt[9] = Free
NoData    == NoRelay /\ \A p \in Op : backlog[p] = <<>>
Expected(n, host) ==
    op[n].mode = (IF host = "client" THEN "PORT" ELSE "PASV") => n \in lsn[host]
First(n)  == IF Passive(n) THEN cd(n) ELSE sd(n)
Second(n) == IF Passive(n) THEN sd(n) ELSE cd(n)

\* A cacheable file that was downloaded is in the cache; the file asked for
\* is not.
Stored(n)  == IsGet(n) /\ op[n].m.f \in Cacheable => op[n].m.f \in DOMAIN disk
Missing(n) == IsGet(n) => op[n].m.f \notin DOMAIN disk

Unopened(n) == /\ NoData /\ Fresh(n)
               /\ Expected(n, "client") /\ Expected(n, "server")
Pending(n) ==
    /\ NoRelay /\ backlog[n] = <<First(n)>> /\ \A p \in Op \ {n} : backlog[p] = <<>>
    /\ First(n) \in est /\ Second(n) \notin est \cup fin
    /\ Passive(n) /\ IsGet(n) => cd(n) \notin fin
    /\ Expected(n, "client") /\ Expected(n, "server")
Relaying(n) ==
    /\ \A p \in Op : backlog[p] = <<>>
    /\ cd(n) \in est /\ sd(n) \in est
    /\ IF Passive(n) /\ IsPut(n)
       THEN fdt[7] = cd(n) /\ fdt[8] = sd(n) ELSE fdt[7] = sd(n) /\ fdt[8] = cd(n)
    /\ fdt[9] = IF IsGet(n) /\ op[n].m.f \in Cacheable THEN CacheFile(op[n].m.f)
                ELSE Free
    /\ IsGet(n) => (cache <=> op[n].m.f \in Cacheable) /\ cd(n) \notin fin
    /\ IsPut(n) => sd(n) \notin fin
    /\ Stored(n)
HungUp(n) ==
    /\ NoData /\ cd(n) \in est /\ Stored(n)
    /\ IsGet(n) => cd(n) \notin fin
    /\ IsPut(n) => cd(n) \in fin /\ sd(n) \in est

\* The command of transfer n has been read by the proxy.
Known(n) == /\ proxy_file_mode = op[n].m.t
            /\ IsGet(n) => file = op[n].m.f

\* The relay is there and the server has not closed its side.
Late(n) == (Relaying(n) \/ (IsPut(n) /\ HungUp(n))) /\ sd(n) \notin fin

(***************************************************************************)
(* A session that has not begun, that waits at port 21, or that is over.   *)
(***************************************************************************)
Absent(s) == fdt[4] # sc(s) /\ backlog[CmdPort] # <<cc(s)>>
Off(s) ==
    /\ client[s].ph = "off" /\ server[s].ph = "off" /\ Quiet(s)
    /\ {cc(s), sc(s)} \cap (est \cup fin) = {} /\ Absent(s)
Queued(s) ==
    /\ client[s].ph = "greet" /\ server[s].ph = "off" /\ Quiet(s)
    /\ sc(s) \notin est /\ cc(s) \notin fin /\ sc(s) \notin fin
    /\ backlog[CmdPort] = <<cc(s)>> /\ fdt[4] = Free
Over(s) ==
    /\ client[s].ph \in {"quit", "gone"} /\ server[s].ph = "gone" /\ Absent(s)

(***************************************************************************)
(* The stages of a session that is served.                                 *)
(***************************************************************************)
Greeting(s) ==
    /\ client[s].ph = "greet"
    /\ \/ server[s].ph = "off" /\ Quiet(s)
       \/ /\ server[s].ph = "idle"
          /\ \/ Carried(s, <<>>, <<>>, <<Say("220")>>, <<>>)
             \/ Carried(s, <<>>, <<>>, <<>>, <<Say("220")>>)
Resting(s) == client[s].ph = "idle" /\ server[s].ph = "idle" /\ Quiet(s)
Quitting(s) ==
    \/ /\ client[s].ph = "quit" /\ server[s].ph = "idle"
       /\ \/ Carried(s, <<Say("QUIT")>>, <<>>, <<>>, <<>>)
          \/ Carried(s, <<>>, <<Say("QUIT")>>, <<>>, <<>>) /\ cmdbuf = Say("QUIT")
    \/ /\ server[s].ph = "gone" /\ cmdbuf = Say("QUIT")
       /\ \/ client[s].ph = "quit" /\ Carried(s, <<>>, <<>>, <<Say("221")>>, <<>>)
          \/ /\ client[s].ph \in {"quit", "gone"}
             /\ Carried(s, <<>>, <<>>, <<>>, <<Say("221")>>)

Setup(s, n) ==
    /\ client[s].ph = "setup" /\ server[s].ph = "idle"
    /\ \/ Carried(s, <<Setting(n, "client")>>, <<>>, <<>>, <<>>)
       \/ /\ \E h \in Host : Carried(s, <<>>, <<Setting(n, h)>>, <<>>, <<>>)
          /\ ~Passive(n) => Armed(n)
       \/ /\ Told(s, n) /\ ~Passive(n) /\ Armed(n)
          /\ \/ Carried(s, <<>>, <<>>, <<Say("200")>>, <<>>)
             \/ Carried(s, <<>>, <<>>, <<>>, <<Say("200")>>)
       \/ /\ Told(s, n) /\ Passive(n) /\ n \in lsn.server
          /\ \/ Carried(s, <<>>, <<>>, <<Agreed(n, "server")>>, <<>>)
             \/ /\ Carried(s, <<>>, <<>>, <<>>, <<Agreed(n, "proxy")>>)
                /\ Armed(n)
Prepared(s, n) ==
    /\ client[s].ph = "ready" /\ server[s].ph = "idle" /\ Quiet(s)
    /\ Armed(n) /\ Told(s, n) /\ Expected(n, "server")

\* The command of transfer n is with the proxy, with the server, answered by
\* 150, answered by 226, or was answered from the cache.
Asked(s, n) ==
    /\ Carried(s, <<op[n].m>>, <<>>, <<>>, <<>>) /\ server[s].ph = "idle"
    /\ op[n].reply = "none"
    /\ Unopened(n) \/ (Passive(n) /\ Pending(n))
    /\ 6 \in read_fds /\ pos[1] < 6 => 5 \in read_fds /\ pos[1] < 5
Sent(s, n) ==
    /\ \/ Carried(s, <<>>, <<op[n].m>>, <<>>, <<>>) /\ server[s].ph = "idle"
       \/ Quiet(s) /\ server[s].ph = "open" /\ server[s].m = op[n].m
    /\ Known(n) /\ op[n].reply = "none"
    /\ \/ Missing(n) /\ Unopened(n)
       \/ Passive(n) /\ ((Missing(n) /\ Pending(n)) \/ Late(n))
    /\ IsGet(n) /\ op[n].m.f \in Cacheable => fetches[op[n].m.f] = 0
Moving(s, n) ==
    /\ server[s].ph = (IF IsPut(n) THEN "recv" ELSE "send")
    /\ server[s].m = op[n].m
    /\ \/ Carried(s, <<>>, <<>>, <<Say("150")>>, <<>>)
       \/ Carried(s, <<>>, <<>>, <<>>, <<Say("150")>>)
       \/ Quiet(s)
    /\ Known(n) /\ op[n].reply = "none"
    /\ \/ ~Passive(n) /\ Missing(n) /\ Pending(n) /\ sd(n) \notin fin
       \/ Late(n)
Answering(s, n) ==
    \/ /\ op[n].reply = "none"
       /\ \/ Carried(s, <<>>, <<>>, <<Say("150"), Say("226")>>, <<>>)
          \/ Carried(s, <<>>, <<>>, <<Say("226")>>, <<Say("150")>>)
          \/ Carried(s, <<>>, <<>>, <<>>, <<Say("150"), Say("226")>>)
          \/ Carried(s, <<>>, <<>>, <<Say("226")>>, <<>>)
          \/ Carried(s, <<>>, <<>>, <<>>, <<Say("226")>>)
    \/ op[n].reply = "ok" /\ Quiet(s)
Answered(s, n) ==
    /\ server[s].ph = "idle" /\ Answering(s, n) /\ Known(n)
    /\ \/ IsGet(n) /\ Relaying(n) /\ sd(n) \in fin
       \/ IsGet(n) /\ ~Passive(n) /\ Missing(n) /\ Pending(n) /\ sd(n) \in fin
       \/ HungUp(n) /\ (IsPut(n) => sd(n) \in fin)
Hidden(s, n) ==
    /\ Quiet(s) /\ server[s].ph = "idle" /\ Passive(n) /\ IsGet(n) /\ Known(n)
    /\ op[n].m.f \in DOMAIN disk /\ op[n].reply = "none"
    /\ Unopened(n) \/ Pending(n)

\* The last transfer of a session is its own.
Numbered(s) == client[s].n = 0 \/ (client[s].n \in 1..nop /\ op[client[s].n].s = s)

Between(s) == NoData /\ (Greeting(s) \/ Resting(s) \/ Quitting(s))
Preparing(s, n) ==
    /\ NoData /\ Fresh(n) /\ op[n].reply = "none" /\ Expected(n, "client")
    /\ Setup(s, n) \/ Prepared(s, n)
Busy(s, n) ==
    /\ client[s].ph = "busy" /\ Armed(n) /\ Told(s, n)
    /\ Asked(s, n) \/ Sent(s, n) \/ Moving(s, n) \/ Answered(s, n) \/ Hidden(s, n)

\* The proxy serves session s: between two transfers, or in the last one.
Serving(s) ==
    /\ Pair(s) /\ backlog[CmdPort] = <<>> /\ sc(s) \in est
    /\ cc(s) \in fin <=> client[s].ph = "gone"
    /\ sc(s) \in fin <=> server[s].ph = "gone"
    /\ \/ Between(s)
       \/ \E n \in Op : n = nop /\ client[s].n = n /\ (Preparing(s, n) \/ Busy(s, n))

Sessions ==
    /\ \A s \in Session :
          Numbered(s) /\ (Off(s) \/ Queued(s) \/ Serving(s) \/ Over(s))
    /\ \A s, q \in Session : q < s /\ client[q].ph = "off" => client[s].ph = "off"
    /\ fdt[4] = Free => NoData
    /\ backlog[CmdPort] = <<>> \/ \E s \in Session : Queued(s)

(***************************************************************************)
(* The transfers: those to come, the last one, and those before.           *)
(***************************************************************************)
Live == \E s \in Session : Pair(s) /\ client[s].ph \in {"setup", "ready", "busy"}
Past(n) == cd(n) \in fin /\ Stored(n)
Transfers ==
    \A n \in Op :
      /\ n > nop => Fresh(n) /\ op[n].reply = "none" /\ op[n].m = Junk
      /\ n <= nop => op[n].m \in Want
      /\ n < nop \/ (n = nop /\ ~Live) => Past(n)
      /\ ~IsPut(n) => inq[cd(n)] = <<>>
      /\ ~IsGet(n) => inq[sd(n)] = <<>>

\* The server sends a cacheable file only until the proxy has it.
Fetches ==
    /\ OnServer \subseteq DOMAIN sdisk
    /\ \A f \in Cacheable :
         /\ fetches[f] <= 1
         /\ \/ f \in DOMAIN disk \/ fetches[f] = 0
            \/ \E s \in Session, n \in Op :
                  /\ Pair(s) /\ client[s].ph = "busy" /\ n = nop
                  /\ Pending(n) /\ ~Passive(n) /\ IsGet(n) /\ op[n].m.f = f

\* TurnsInv: the inductive invariant.
TurnsInv == Descriptors /\ Numbers /\ Scan /\ Sessions /\ Transfers /\ Fetches

-----------------------------------------------------------------------------
(***************************************************************************)
(* Objects, queues and the table.                                          *)
(***************************************************************************)

\* Distinct: no two connections, sockets or files are one.
LEMMA Distinct ==
    /\ \A s, q \in Session : /\ cc(s) = cc(q) => s = q
                             /\ sc(s) = sc(q) => s = q
                             /\ cc(s) # sc(q)
    /\ \A n, p \in Op : /\ cd(n) = cd(p) => n = p
                        /\ sd(n) = sd(p) => n = p
                        /\ cd(n) # sd(p)
    /\ \A s \in Session, n \in Op :
          cc(s) # cd(n) /\ cc(s) # sd(n) /\ sc(s) # cd(n) /\ sc(s) # sd(n)
BY DEF cc, sc, cd, sd

\* Kinds: nor are objects of different kinds.
LEMMA Kinds ==
    /\ \A c \in Conn : /\ c # Free /\ c # Dead /\ c # Std /\ IsConn(c) /\ c.k # "file"
                       /\ \A p \in Port : c # Listener(p)
                       /\ \A f \in File : c # CacheFile(f)
    /\ Free # Dead /\ Free # Std /\ Dead # Std
    /\ ~IsConn(Free) /\ Free.k = "free" /\ Free.k # "file"
    /\ \A p \in Port : /\ Listener(p) # Free /\ Listener(p) # Dead /\ Listener(p) # Std
                       /\ ~IsConn(Listener(p)) /\ Listener(p).k = "lsn"
                       /\ \A q \in Port : Listener(p) = Listener(q) => p = q
                       /\ \A f \in File : Listener(p) # CacheFile(f)
    /\ \A f \in File : /\ CacheFile(f) # Free /\ CacheFile(f) # Dead
                       /\ CacheFile(f) # Std /\ ~IsConn(CacheFile(f))
                       /\ CacheFile(f).k = "file" /\ CacheFile(f).n = f
<1>1. \A c \in Conn : c.k \in {"cc", "sc", "cd", "sd"}
  BY DEF Conn
<1>2. \A c \in Conn : /\ c # Free /\ c # Dead /\ c # Std /\ IsConn(c) /\ c.k # "file"
                       /\ \A p \in Port : c # Listener(p)
                       /\ \A f \in File : c # CacheFile(f)
  BY <1>1 DEF Free, Dead, Std, Listener, CacheFile, IsConn
<1> QED  BY <1>2 DEF Free, Dead, Std, Listener, CacheFile, IsConn

\* Queues of one and two messages.
LEMMA Short ==
    ASSUME NEW a \in Msg, NEW b \in Msg
    PROVE  /\ Append(<<>>, a) = <<a>> /\ Append(<<a>>, b) = <<a, b>>
           /\ Head(<<a>>) = a /\ Tail(<<a>>) = <<>>
           /\ Head(<<a, b>>) = a /\ Tail(<<a, b>>) = <<b>>
           /\ <<>> \o <<a>> = <<a>> /\ <<a>> \o <<b>> = <<a, b>>
           /\ <<a>> # <<>> /\ <<a, b>> # <<>>
<1> <<a>> \in Seq(Msg) /\ <<a, b>> \in Seq(Msg) /\ <<>> \in Seq(Msg) /\ <<b>> \in Seq(Msg)
  OBVIOUS
<1>0. Len(<<a, b>>) = 2 /\ Len(<<a>>) = 1 /\ <<a, b>>[1] = a /\ <<a, b>>[2] = b
  OBVIOUS
<1>1. Append(<<>>, a) = <<a>> /\ Append(<<a>>, b) = <<a, b>>
  <2>1. Append(<<>>, a) = <<a>>
    OBVIOUS
  <2>2. /\ Append(<<a>>, b) \in Seq(Msg) /\ Len(Append(<<a>>, b)) = 2
        /\ Append(<<a>>, b)[1] = a /\ Append(<<a>>, b)[2] = b
    OBVIOUS
  <2>3. Append(<<a>>, b) = <<a, b>>
    <3> DEFINE u == Append(<<a>>, b)
               v == <<a, b>>
    <3>1. u \in Seq(Msg) /\ v \in Seq(Msg) /\ Len(u) = 2 /\ Len(v) = 2
      BY <1>0, <2>2
    <3>2. u[1] = v[1] /\ u[2] = v[2]
      BY <1>0, <2>2
    <3> HIDE DEF u, v
    <3>3. \A i \in 1..Len(u) : u[i] = v[i]
      BY <3>1, <3>2
    <3>4. u = v
      BY <3>1, <3>3, SeqEqual
    <3> QED  BY <3>4 DEF u, v
  <2> QED  BY <2>1, <2>3
<1>2. Head(<<a>>) = a /\ Head(<<a, b>>) = a /\ Tail(<<a>>) = <<>>
  OBVIOUS
<1>3. Tail(<<a, b>>) = <<b>>
  OBVIOUS
<1>4. <<>> \o <<a>> = <<a>>
  OBVIOUS
<1>5. <<a>> \o <<b>> = <<a, b>>
  BY <1>1, AppendIsConcat
<1>6. <<a>> # <<>> /\ <<a, b>> # <<>>
  OBVIOUS
<1> QED  BY <1>1, <1>2, <1>3, <1>4, <1>5, <1>6

\* ShortConn: a queue of one connection.
LEMMA ShortConn ==
    ASSUME NEW c \in Conn
    PROVE  /\ Append(<<>>, c) = <<c>> /\ Head(<<c>>) = c /\ Tail(<<c>>) = <<>>
           /\ <<c>> # <<>>
OBVIOUS

\* ReadableIs: when select() reports a descriptor, by what it refers to.
LEMMA ReadableIs ==
    ASSUME NEW fd
    PROVE  /\ fdt[fd] \in Conn =>
                 (Readable(fd) <=> inq[fdt[fd]] # <<>> \/ fdt[fd] \in fin)
           /\ \A p \in Port : fdt[fd] = Listener(p) =>
                 (Readable(fd) <=> backlog[p] # <<>>)
           /\ fdt[fd] = Free => ~Readable(fd)
BY Kinds DEF Readable

\* LowestIs: the number of the next call when all below it are taken.
LEMMA LowestIs ==
    ASSUME NEW ft, NEW k \in Fd, ft[k] = Free, \A fd \in 0..(k-1) : ft[fd] # Free
    PROVE  Lowest(ft) = k /\ k # NoFd
<1>1. \A fd \in Fd : ft[fd] = Free => k <= fd
  BY NetAssumption DEF Fd
<1>2. Lowest(ft) = CHOOSE fd \in Fd :
            ft[fd] = Free /\ \A e \in Fd : ft[e] = Free => fd <= e
  BY DEF Lowest
<1>3. \A fd \in Fd : (ft[fd] = Free /\ \A e \in Fd : ft[e] = Free => fd <= e) => fd = k
  BY <1>1, NetAssumption DEF Fd
<1> QED  BY <1>1, <1>2, <1>3, NetAssumption DEF Fd, NoFd

\* Said: a message sent is the last one on its connection.
LEMMA Said ==
    ASSUME NetOK, NEW c \in Conn, NEW m, Tell(c, m)
    PROVE  inq'[c] = Append(inq[c], m) /\ \A e \in Conn \ {c} : inq'[e] = inq[e]
BY DEF Tell, NetOK

\* Heard: reading a reply takes the first message of one queue.
LEMMA Heard ==
    ASSUME NetOK, NEW c \in Conn, Hear(c)
    PROVE  outq'[c] = Tail(outq[c]) /\ \A e \in Conn \ {c} : outq'[e] = outq[e]
BY DEF Hear, NetOK

\* Tables: what the invariant says of single descriptors.
LEMMA Tables ==
    ASSUME Orderly, Inv, Descriptors
    PROVE  /\ 0..9 \subseteq Fd /\ Fd \subseteq Nat
           /\ fdt[0] = Std /\ fdt[1] = Std /\ fdt[2] = Std
           /\ fdt[3] = Listener(CmdPort)
           /\ fdt[4] = Free <=> fdt[5] = Free
           /\ \A s \in Session : fdt[4] = sc(s) => fdt[5] = cc(s)
           /\ fdt[4] # Free => \E s \in Session : Pair(s)
<1>1. 0..9 \subseteq Fd /\ Fd \subseteq Nat
  BY NetAssumption DEF Orderly, Fd
<1>2. fdt[0] = Std /\ fdt[1] = Std /\ fdt[2] = Std /\ fdt[3] = Listener(CmdPort)
  BY DEF Descriptors
<1>3. fdt[4] # Free => \E s \in Session : Pair(s)
  BY DEF Descriptors
<1>4. \A s \in Session : Pair(s) => fdt[4] # Free /\ fdt[5] # Free
  BY ConnType, Kinds DEF Pair
<1>5. fdt[4] = Free => fdt[5] = Free
  BY <1>4 DEF Descriptors
<1> QED  BY <1>1, <1>2, <1>3, <1>4, <1>5, ConnType, Kinds, Distinct DEF Pair

-----------------------------------------------------------------------------
(***************************************************************************)
(* What a step leaves alone.                                               *)
(***************************************************************************)
Calm == Orderly /\ Inv /\ TurnsInv

\* A step leaves session q alone.
Same(q) ==
    /\ client'[q].ph = client[q].ph /\ client'[q].n = client[q].n
    /\ server'[q].ph = server[q].ph
    /\ inq'[cc(q)] = inq[cc(q)] /\ outq'[cc(q)] = outq[cc(q)]
    /\ inq'[sc(q)] = inq[sc(q)] /\ outq'[sc(q)] = outq[sc(q)]
    /\ \A c \in {cc(q), sc(q)} : (c \in est' <=> c \in est) /\ (c \in fin' <=> c \in fin)

\* SameStays: what is said of a session that is not served, after a step
\* that leaves its side of things alone.
LEMMA SameStays ==
    ASSUME NEW q \in Session, Same(q)
    PROVE  /\ Off(q) /\ Absent(q)' => Off(q)'
           /\ Over(q) /\ Absent(q)' => Over(q)'
           /\ Queued(q) /\ fdt'[4] = fdt[4] /\ backlog'[CmdPort] = backlog[CmdPort] =>
                 Queued(q)'
           /\ fdt'[4] = fdt[4] /\ backlog'[CmdPort] = backlog[CmdPort] =>
                 (Absent(q)' <=> Absent(q))
           /\ Numbered(q) /\ nop \in Nat /\ nop' \in Nat /\ nop' >= nop
                 /\ (\A n \in 1..nop : op'[n].s = op[n].s) =>
                 Numbered(q)'
<1>1. Quiet(q) => Quiet(q)'
  BY DEF Same, Quiet, Carried
<1>2. Off(q) /\ Absent(q)' => Off(q)'
  BY <1>1 DEF Same, Off
<1>3. Over(q) /\ Absent(q)' => Over(q)'
  BY DEF Same, Over
<1>4. Queued(q) /\ fdt'[4] = fdt[4] /\ backlog'[CmdPort] = backlog[CmdPort] => Queued(q)'
  BY <1>1 DEF Same, Queued
<1>5. fdt'[4] = fdt[4] /\ backlog'[CmdPort] = backlog[CmdPort] => (Absent(q)' <=> Absent(q))
  BY DEF Absent
<1>6. ASSUME Numbered(q), nop \in Nat, nop' \in Nat, nop' >= nop,
             \A n \in 1..nop : op'[n].s = op[n].s
      PROVE  Numbered(q)'
  BY <1>6 DEF Numbered, Same
<1> QED  BY <1>2, <1>3, <1>4, <1>5, <1>6

\* OnlyOne: the proxy serves one session, and then nobody waits at port 21.
LEMMA OnlyOne ==
    ASSUME Sessions, NEW s \in Session, Serving(s), NEW q \in Session, q # s
    PROVE  (Off(q) \/ Over(q)) /\ fdt[4] # Free /\ fdt[4] # sc(q)
<1>1. fdt[4] = sc(s) /\ fdt[4] # sc(q) /\ fdt[4] # Free
  BY Distinct, Kinds, ConnType DEF Serving, Pair
<1> QED  BY <1>1 DEF Sessions, Serving, Queued, Pair

\* ServingStays: only the session that is served moves, and is served on.
LEMMA ServingStays ==
    ASSUME Sessions, NEW s \in Session, Serving(s), Serving(s)',
           \A q \in Session \ {s} : Same(q),
           \A q \in Session : Numbered(q)'
    PROVE  Sessions'
<1>1. \A q \in Session \ {s} : (Off(q) \/ Over(q)) /\ fdt'[4] # sc(q)
  BY OnlyOne, Distinct DEF Serving, Pair
<1>2. fdt'[4] # Free /\ backlog'[CmdPort] = <<>>
  BY Kinds, ConnType DEF Serving, Pair
<1>3. ASSUME NEW q \in Session \ {s} PROVE Off(q)' \/ Over(q)'
  <2>1. cc(q) \in Conn /\ <<cc(q)>> # <<>>
    BY ConnType
  <2>2. Absent(q)'
    BY <1>1, <1>2, <2>1 DEF Absent
  <2> QED  BY <1>1, <2>2, SameStays
<1>4. client[s].ph # "off" /\ client'[s].ph # "off"
  <2>1. client[s].ph # "off"
    BY DEF Serving, Between, Preparing, Busy, Greeting, Resting, Quitting, Setup, Prepared
  <2>2. client'[s].ph # "off"
    BY DEF Serving, Between, Preparing, Busy, Greeting, Resting, Quitting, Setup, Prepared
  <2> QED  BY <2>1, <2>2
<1>5. \A q \in Session : client'[q].ph = "off" <=> client[q].ph = "off"
  BY <1>4 DEF Same
<1> QED  BY <1>2, <1>3, <1>5 DEF Sessions

\* DataStays: a step that touches neither the descriptors nor the data
\* connection of transfer n.
DataSame(n) ==
    /\ UNCHANGED <<fdt, backlog, est, cache>> /\ DOMAIN disk' = DOMAIN disk
    /\ op'[n].m = op[n].m /\ op'[n].mode = op[n].mode
    /\ cd(n) \in fin' <=> cd(n) \in fin
    /\ sd(n) \in fin' <=> sd(n) \in fin
    /\ \A h \in {"client", "server"} : n \in lsn[h] => n \in lsn'[h]

\* DataStays: the stages of a data connection, after a step that leaves it alone.
LEMMA DataStays ==
    ASSUME NEW n \in Op, DataSame(n)
    PROVE  /\ NoData => NoData'
           /\ Fresh(n) => Fresh(n)'
           /\ Expected(n, "client") => Expected(n, "client")'
           /\ Expected(n, "server") => Expected(n, "server")'
           /\ Unopened(n) => Unopened(n)'
           /\ Pending(n) => Pending(n)'
           /\ Relaying(n) => Relaying(n)'
           /\ HungUp(n) => HungUp(n)'
           /\ Late(n) => Late(n)'
           /\ Stored(n) => Stored(n)'
           /\ Missing(n) => Missing(n)'
           /\ IsGet(n)' = IsGet(n) /\ IsPut(n)' = IsPut(n) /\ Passive(n)' = Passive(n)
<1>1. IsGet(n)' = IsGet(n) /\ IsPut(n)' = IsPut(n) /\ Passive(n)' = Passive(n)
  BY DEF DataSame, IsGet, IsPut, Passive
<1>2. NoRelay' = NoRelay /\ NoData' = NoData
  BY DEF DataSame, NoRelay, NoData
<1>3. Fresh(n) => Fresh(n)'
  BY DEF DataSame, Fresh
<1>4. /\ Expected(n, "client") => Expected(n, "client")'
      /\ Expected(n, "server") => Expected(n, "server")'
  BY DEF DataSame, Expected
<1>5. First(n)' = First(n) /\ Second(n)' = Second(n)
  BY <1>1 DEF First, Second
<1>6. First(n) \in {cd(n), sd(n)} /\ Second(n) \in {cd(n), sd(n)}
  BY DEF First, Second
<1>7. Pending(n) => Pending(n)'
  BY <1>1, <1>2, <1>4, <1>5, <1>6 DEF DataSame, Pending
<1>8. (Stored(n) => Stored(n)') /\ (Missing(n) => Missing(n)')
  BY <1>1 DEF DataSame, Stored, Missing
<1>9. Relaying(n) => Relaying(n)'
  BY <1>1, <1>8 DEF DataSame, Relaying
<1>10. HungUp(n) => HungUp(n)'
  BY <1>1, <1>2, <1>8 DEF DataSame, HungUp
<1>11. Late(n) => Late(n)'
  BY <1>1, <1>9, <1>10 DEF DataSame, Late
<1> QED
  BY <1>1, <1>2, <1>3, <1>4, <1>7, <1>8, <1>9, <1>10, <1>11 DEF Unopened

\* PeerScan: a peer can only add to what the proxy may read.
LEMMA PeerScan ==
    ASSUME Calm, UNCHANGED proxyOwn,
           \A c \in Conn : inq[c] # <<>> => inq'[c] # <<>>,
           fin \subseteq fin', fin' \subseteq Conn,
           \A p \in Port : backlog[p] # <<>> => backlog'[p] # <<>>
    PROVE  Descriptors' /\ Numbers' /\ Scan'
<1>1. Descriptors'
  BY DEF Calm, TurnsInv, Descriptors, Pair, proxyOwn, scan, store
<1>2. Numbers'
  BY DEF Calm, TurnsInv, Numbers, proxyOwn, scan
<1>3. Scan'
  <2>1. ASSUME NEW fd \in 3..8, Readable(fd) PROVE Readable(fd)'
    <3>1. fdt' = fdt /\ (IsConn(fdt[fd]) => fdt[fd] \in Conn)
      BY Tables, ObjectKind DEF proxyOwn, Calm, TurnsInv, Inv, ProxyInv, ProcessOK
    <3> QED  BY <2>1, <3>1 DEF Readable
  <2> QED  BY <2>1 DEF Calm, TurnsInv, Scan, Ready, Due, At, Before, proxyOwn, scan, bufs
<1> QED  BY <1>1, <1>2, <1>3

-----------------------------------------------------------------------------
(***************************************************************************)
(* The stage of the session that is served.                                *)
(***************************************************************************)

\* Alone: at most one session has the control pair.
LEMMA Alone ==
    ASSUME NEW s \in Session, Serving(s), NEW q \in Session, Pair(q)
    PROVE  q = s
BY Distinct DEF Serving, Pair

\* LiveIs: only the session that is served can have a transfer under way.
LEMMA LiveIs ==
    ASSUME NEW s \in Session, Serving(s)
    PROVE  Live <=> client[s].ph \in {"setup", "ready", "busy"}
BY Alone DEF Live, Serving

\* WhoIsServed: only the session that is served has got anywhere.
LEMMA WhoIsServed ==
    ASSUME Sessions, NEW s \in Session
    PROVE  /\ client[s].ph \in {"idle", "setup", "ready", "busy"} => Serving(s)
           /\ server[s].ph \notin {"off", "gone"} => Serving(s)
           /\ client[s].ph = "greet" => Queued(s) \/ Serving(s)
           /\ client[s].ph \in {"quit", "gone"} => Serving(s) \/ Over(s)
           /\ client[s].ph = "off" => Off(s)
           /\ ~Quiet(s) => Serving(s) \/ Over(s)
<1>1. Off(s) \/ Queued(s) \/ Serving(s) \/ Over(s)
  BY DEF Sessions
<1>2. Serving(s) => client[s].ph # "off"
  BY DEF Serving, Between, Preparing, Busy, Greeting, Resting, Quitting, Setup, Prepared
<1> QED  BY <1>1, <1>2 DEF Off, Queued, Over

\* StageOf: the phases tell the stage.
LEMMA StageOf ==
    ASSUME NEW s \in Session, Serving(s)
    PROVE  /\ client[s].ph = "greet" => NoData /\ Greeting(s)
           /\ client[s].ph = "idle" => NoData /\ Resting(s)
           /\ client[s].ph \in {"quit", "gone"} => NoData /\ Quitting(s)
           /\ client[s].ph \in {"setup", "ready", "busy"} =>
                 \E n \in Op : n = nop /\ client[s].n = n /\
                    (Preparing(s, n) \/ Busy(s, n))
           /\ client[s].ph \in {"greet", "idle", "setup", "ready", "busy", "quit", "gone"}
<1>1. CASE NoData /\ Greeting(s)
  BY <1>1 DEF Greeting
<1>2. CASE NoData /\ Resting(s)
  BY <1>2 DEF Resting
<1>3. CASE NoData /\ Quitting(s)
  BY <1>3 DEF Quitting
<1>4. ASSUME NEW n \in Op, n = nop, client[s].n = n, Preparing(s, n) \/ Busy(s, n)
      PROVE  client[s].ph \in {"setup", "ready", "busy"}
  BY <1>4 DEF Preparing, Busy, Setup, Prepared
<1>5. \/ NoData /\ (Greeting(s) \/ Resting(s) \/ Quitting(s))
      \/ \E n \in Op : n = nop /\ client[s].n = n /\ (Preparing(s, n) \/ Busy(s, n))
  BY DEF Serving, Between
<1> QED  BY <1>1, <1>2, <1>3, <1>4, <1>5

\* Kind: the last transfer is a RETR or a STOR.
LEMMA Kind ==
    ASSUME Calm, NEW n \in Op, n = nop
    PROVE  /\ op[n].m \in Want /\ op[n].m \in Named /\ op[n].m \in Msg
           /\ IsGet(n) \/ IsPut(n)
           /\ ~(IsGet(n) /\ IsPut(n))
           /\ IsGet(n) => op[n].m.f \in OnServer
           /\ op[n].m.f \in File
           /\ op[n].mode \in {"PORT", "PASV"}
<1>1. n <= nop
  BY DEF Op
<1>2. op[n].m \in Want
  BY <1>1 DEF Calm, TurnsInv, Transfers
<1>3. op[n].m \in Named /\ (op[n].m.t = "RETR" => op[n].m.f \in OnServer)
  BY <1>2 DEF Calm, Orderly
<1>4. op[n].m \in Msg /\ op[n].mode \in {"PORT", "PASV"}
  BY DEF Calm, Inv, PeersOK, OpState
<1>5. op[n].m.t \in {"RETR", "STOR"} /\ op[n].m.f \in File
  BY <1>3 DEF Named
<1> QED  BY <1>2, <1>3, <1>4, <1>5 DEF IsGet, IsPut

-----------------------------------------------------------------------------
(***************************************************************************)
(* The transfers.                                                          *)
(***************************************************************************)
LEMMA TransfersStay ==
    ASSUME Transfers, nop' = nop, DOMAIN disk \subseteq DOMAIN disk',
           \A n \in Op : /\ op'[n].m = op[n].m
                         /\ n > nop => op'[n].reply = op[n].reply /\ Fresh(n)'
                         /\ cd(n) \in fin => cd(n) \in fin'
                         /\ inq[cd(n)] = <<>> /\ ~IsPut(n) => inq'[cd(n)] = <<>>
                         /\ inq[sd(n)] = <<>> /\ ~IsGet(n) => inq'[sd(n)] = <<>>,
           Live => Live' \/ \A n \in Op : n = nop => Past(n)'
    PROVE  Transfers'
<1> SUFFICES ASSUME NEW n \in Op
    PROVE  /\ n > nop => Fresh(n)' /\ op'[n].reply = "none" /\ op'[n].m = Junk
           /\ n <= nop => op'[n].m \in Want
           /\ n < nop \/ (n = nop /\ ~Live') => Past(n)'
           /\ ~IsPut(n)' => inq'[cd(n)] = <<>>
           /\ ~IsGet(n)' => inq'[sd(n)] = <<>>
  BY DEF Transfers
<1>1. IsPut(n)' = IsPut(n) /\ IsGet(n)' = IsGet(n)
  BY DEF IsPut, IsGet
<1>2. Past(n) => Past(n)'
  BY <1>1 DEF Past, Stored
<1>3. n < nop \/ (n = nop /\ ~Live) => Past(n)
  BY DEF Transfers
<1>4. n < nop \/ (n = nop /\ ~Live') => Past(n)'
  BY <1>2, <1>3
<1> QED  BY <1>1, <1>4 DEF Transfers

\* FetchesStay: a step that sends nothing leaves each file sent at most once,
\* unless it loses the transfer that is to bring the copy.
LEMMA FetchesStay ==
    ASSUME Fetches, fetches' = fetches, DOMAIN disk \subseteq DOMAIN disk',
           DOMAIN sdisk \subseteq DOMAIN sdisk',
           \A s \in Session, n \in Op :
              Pair(s) /\ client[s].ph = "busy" /\ n = nop /\ Pending(n) /\ ~Passive(n)
                      /\ IsGet(n) =>
                 \/ /\ Pair(s)' /\ client'[s].ph = "busy" /\ n = nop' /\ Pending(n)'
                    /\ ~Passive(n)' /\ IsGet(n)' /\ op'[n].m.f = op[n].m.f
                 \/ op[n].m.f \in Cacheable => op[n].m.f \in DOMAIN disk'
    PROVE  Fetches'
<1> SUFFICES ASSUME NEW f \in Cacheable
    PROVE  /\ fetches'[f] <= 1
           /\ \/ f \in DOMAIN disk' \/ fetches'[f] = 0
              \/ \E s \in Session, n \in Op :
                  /\ Pair(s)' /\ client'[s].ph = "busy" /\ n = nop'
                  /\ Pending(n)' /\ ~Passive(n)' /\ IsGet(n)' /\ op'[n].m.f = f
  BY DEF Fetches
<1>1. fetches[f] <= 1
  BY DEF Fetches
<1>2. CASE f \in DOMAIN disk \/ fetches[f] = 0
  BY <1>1, <1>2
<1>3. ASSUME NEW s \in Session, NEW n \in Op, Pair(s) /\ client[s].ph = "busy" /\ n = nop,
             Pending(n) /\ ~Passive(n) /\ IsGet(n) /\ op[n].m.f = f
      PROVE  \/ f \in DOMAIN disk'
             \/ /\ Pair(s)' /\ client'[s].ph = "busy" /\ n = nop'
                /\ Pending(n)' /\ ~Passive(n)' /\ IsGet(n)' /\ op'[n].m.f = f
  BY <1>3
<1>4. \/ f \in DOMAIN disk \/ fetches[f] = 0
      \/ \E s \in Session, n \in Op :
            /\ Pair(s) /\ client[s].ph = "busy" /\ n = nop
            /\ Pending(n) /\ ~Passive(n) /\ IsGet(n) /\ op[n].m.f = f
  BY DEF Fetches
<1> QED  BY <1>1, <1>2, <1>3, <1>4

\* TalkStep: the client or the server of the session that is served moves, and
\* nothing but its two control connections changes.
LEMMA TalkStep ==
    ASSUME Calm, Inv', NEW s \in Session, Serving(s), Serving(s)',
           UNCHANGED <<proxyOwn, backlog, est, nop, sdisk, fetches>>,
           \A q \in Session \ {s} : client'[q] = client[q] /\ server'[q] = server[q],
           client'[s].n = client[s].n,
           client[s].ph = "busy" => client'[s].ph = "busy",
           client[s].ph \in {"setup", "ready", "busy"} =>
              client'[s].ph \in {"setup", "ready", "busy"},
           \A n \in Op : /\ op'[n].m = op[n].m /\ op'[n].mode = op[n].mode
                         /\ op'[n].s = op[n].s
                         /\ n > nop => op'[n].reply = op[n].reply,
           client[s].ph = "busy" =>
              \A n \in Op : \A h \in {"client", "server"} :
                 n = nop /\ n \in lsn[h] => n \in lsn'[h],
           \A c \in Conn \ {cc(s), sc(s)} :
              inq'[c] = inq[c] /\ outq'[c] = outq[c] /\ (c \in fin' <=> c \in fin),
           fin \subseteq fin',
           \A c \in {cc(s), sc(s)} : inq[c] # <<>> => inq'[c] # <<>>
    PROVE  TurnsInv'
<1>1. Descriptors' /\ Numbers' /\ Scan'
  <2>1. \A c \in Conn : inq[c] # <<>> => inq'[c] # <<>>
    OBVIOUS
  <2>2. fin' \subseteq Conn
    BY DEF Inv, ProxyInv, NetOK
  <2> QED  BY <2>1, <2>2, PeerScan
<1>2. \A q \in Session \ {s} : Same(q)
  BY ConnType, Distinct DEF Same
<1>3. ASSUME NEW q \in Session PROVE Numbered(q)'
  <2>1. Numbered(q) /\ nop \in Nat /\ 1..nop \subseteq Op
    BY NetAssumption DEF Calm, TurnsInv, Sessions, Inv, PeersOK, Op
  <2> QED  BY <2>1 DEF Numbered
<1>4. Sessions'
  BY <1>2, <1>3, ServingStays DEF Calm, TurnsInv
<1>5. ASSUME NEW n \in Op
      PROVE  /\ inq'[cd(n)] = inq[cd(n)] /\ inq'[sd(n)] = inq[sd(n)]
             /\ cd(n) \in fin' <=> cd(n) \in fin
             /\ sd(n) \in fin' <=> sd(n) \in fin
             /\ n = nop /\ client[s].ph = "busy" => DataSame(n)
             /\ Fresh(n)' <=> Fresh(n)
  <2>1. cd(n) \in Conn \ {cc(s), sc(s)} /\ sd(n) \in Conn \ {cc(s), sc(s)}
    BY ConnType, Distinct
  <2>2. fdt' = fdt /\ cache' = cache /\ disk' = disk /\ est' = est
    BY DEF proxyOwn, store
  <2>3. /\ cd(n) \in fin' <=> cd(n) \in fin
        /\ sd(n) \in fin' <=> sd(n) \in fin
    BY <2>1
  <2>4. Fresh(n)' <=> Fresh(n)
    BY <2>2, <2>3 DEF Fresh
  <2> QED  BY <2>1, <2>2, <2>3, <2>4 DEF DataSame
<1>6. fdt' = fdt /\ disk' = disk
  BY DEF proxyOwn
<1>7. Live => Live'
  BY <1>6 DEF Live, Pair
<1>8. Transfers'
  BY <1>5, <1>6, <1>7, TransfersStay DEF Calm, TurnsInv, Transfers
<1>9. ASSUME NEW q \in Session, NEW n \in Op, Pair(q), client[q].ph = "busy", n = nop,
             Pending(n), ~Passive(n), IsGet(n)
      PROVE  /\ Pair(q)' /\ client'[q].ph = "busy" /\ n = nop' /\ Pending(n)'
             /\ ~Passive(n)' /\ IsGet(n)' /\ op'[n].m.f = op[n].m.f
  <2>1. Pending(n)' /\ ~Passive(n)' /\ IsGet(n)'
    BY <1>5, <1>9, Alone, DataStays
  <2> QED  BY <1>6, <1>9, <2>1, Alone DEF Pair
<1>10. Fetches'
  BY <1>6, <1>9, FetchesStay DEF Calm, TurnsInv
<1> QED  BY <1>1, <1>4, <1>8, <1>10 DEF TurnsInv

-----------------------------------------------------------------------------
(***************************************************************************)
(* The conversation.                                                       *)
(***************************************************************************)

\* Conversed: what sending and receiving does to the queues.
LEMMA Conversed ==
    ASSUME NetOK, NEW s \in Session
    PROVE  /\ \A m : Tell(cc(s), m) =>
                 /\ inq'[cc(s)] = Append(inq[cc(s)], m) /\ inq'[sc(s)] = inq[sc(s)]
                 /\ \A c \in Conn \ {cc(s), sc(s)} : inq'[c] = inq[c]
           /\ \A m : Tell(sc(s), m) =>
                 /\ inq'[sc(s)] = Append(inq[sc(s)], m) /\ inq'[cc(s)] = inq[cc(s)]
                 /\ \A c \in Conn \ {cc(s), sc(s)} : inq'[c] = inq[c]
           /\ Hear(cc(s)) =>
                 /\ outq'[cc(s)] = Tail(outq[cc(s)]) /\ outq'[sc(s)] = outq[sc(s)]
                 /\ \A c \in Conn \ {cc(s), sc(s)} : outq'[c] = outq[c]
           /\ Hear(sc(s)) =>
                 /\ outq'[sc(s)] = Tail(outq[sc(s)]) /\ outq'[cc(s)] = outq[cc(s)]
                 /\ \A c \in Conn \ {cc(s), sc(s)} : outq'[c] = outq[c]
<1>1. cc(s) \in Conn /\ sc(s) \in Conn /\ cc(s) # sc(s)
  BY ConnType, Distinct
<1> QED  BY <1>1, Said, Heard

\* Words: the replies and commands told apart.
LEMMA Words ==
    /\ Say("220").t = "220" /\ Say("200").t = "200" /\ Say("150").t = "150"
    /\ Say("226").t = "226" /\ Say("221").t = "221" /\ Say("QUIT").t = "QUIT"
    /\ Junk.t = "junk"
    /\ \A n, h : Agreed(n, h).t = "227" /\ Agreed(n, h).n = n /\ Agreed(n, h).at = h
    /\ \A n, h : Setting(n, h).t = op[n].mode /\ Setting(n, h).n = n /\ Setting(n, h).at = h
    /\ \A n \in Op, h \in Host : /\ Agreed(n, h) \in Msg
                                 /\ op[n].mode \in {"PORT", "PASV"} => Setting(n, h) \in Msg
BY DEF Say, Junk, Agreed, Setting, Msg, Address

\* Singles: a queue from which a reply is taken, and to which one is added.
LEMMA Singles ==
    \A m \in {Say("220"), Say("200"), Say("150"), Say("226"), Say("221"), Say("QUIT")} :
        Tail(<<m>>) = <<>> /\ Head(<<m>>) = m /\ Append(<<>>, m) = <<m>> /\ m \in Msg
BY Short, SayType

\* Silent: nothing on the four queues.
LEMMA Silent ==
    ASSUME NEW s, Quiet(s)
    PROVE  inq[cc(s)] = <<>> /\ outq[cc(s)] = <<>> /\ inq[sc(s)] = <<>> /\ outq[sc(s)] = <<>>
BY DEF Quiet, Carried

\* ServedOn: the session is served on, in the stage that the step leads to.
LEMMA ServedOn ==
    ASSUME NEW s \in Session, Serving(s),
           fdt' = fdt, backlog'[CmdPort] = backlog[CmdPort], est \subseteq est',
           cc(s) \in fin' <=> client'[s].ph = "gone",
           sc(s) \in fin' <=> server'[s].ph = "gone",
           \/ Between(s)'
           \/ \E n \in Op : n = nop' /\ client'[s].n = n /\ (Preparing(s, n)' \/ Busy(s, n)')
    PROVE  Serving(s)'
BY DEF Serving, Pair

\* Calmly: the parts of the invariants that the steps below use.
LEMMA Calmly ==
    ASSUME Calm
    PROVE  /\ ProcessOK /\ NetOK /\ PeersOK /\ PhaseInv
           /\ Descriptors /\ Numbers /\ Scan /\ Sessions /\ Transfers /\ Fetches
           /\ client \in [Session -> CliState] /\ server \in [Session -> SrvState]
           /\ op \in [Op -> OpState] /\ nop \in Nat
           /\ inq \in [Conn -> Seq(Msg)] /\ outq \in [Conn -> Seq(Msg)]
           /\ est \subseteq Conn /\ fin \subseteq Conn
           /\ NoData' = NoData \/ fdt' # fdt \/ backlog' # backlog
<1>1. NoData' = NoData \/ fdt' # fdt \/ backlog' # backlog
  BY DEF NoData, NoRelay
<1> QED  BY <1>1, NetAssumption DEF Calm, Inv, ProxyInv, TurnsInv, PeersOK, NetOK

-----------------------------------------------------------------------------
(***************************************************************************)
(* The client.                                                             *)
(***************************************************************************)
LEMMA CliGreetedTurn ==
    ASSUME Calm, Inv', NEW s \in Session, CliGreeted(s) PROVE TurnsInv'
<1> USE Calmly
<1>1. client[s].ph = "greet" /\ outq[cc(s)] # <<>> /\ Hear(cc(s))
  BY DEF CliGreeted, CliHear
<1>2. UNCHANGED <<proxyOwn, inq, fin, backlog, est, lsn, op, nop, server, sdisk, fetches>>
  BY DEF CliGreeted, remote
<1>3. Serving(s) /\ NoData /\ Greeting(s)
  BY <1>1, WhoIsServed, StageOf, Silent DEF Queued
<1>4. server[s].ph = "idle" /\ Carried(s, <<>>, <<>>, <<>>, <<Say("220")>>)
  BY <1>1, <1>3, Silent DEF Greeting, Carried
<1>5. /\ Carried(s, <<>>, <<>>, <<>>, <<>>)'
      /\ \A c \in Conn \ {cc(s), sc(s)} : outq'[c] = outq[c]
  BY <1>1, <1>2, <1>4, Conversed, Singles DEF Carried
<1>6. /\ client'[s].ph = "idle" /\ client'[s].n = client[s].n
      /\ \A q \in Session \ {s} : client'[q] = client[q]
  BY DEF CliGreeted, CliState
<1>7. Between(s)'
  BY <1>2, <1>3, <1>4, <1>5, <1>6 DEF Between, Resting, Quiet, proxyOwn
<1>8. Serving(s)'
  BY <1>1, <1>2, <1>3, <1>4, <1>6, <1>7, ServedOn DEF proxyOwn, Serving
<1> QED  BY <1>1, <1>2, <1>3, <1>5, <1>6, <1>8, TalkStep

\* CliReadyTurn: the client reads the answer to PASV or PORT.
LEMMA CliReadyTurn ==
    ASSUME Calm, Inv', NEW s \in Session, CliReady(s) PROVE TurnsInv'
<1> USE Calmly
<1>1. client[s].ph = "setup" /\ outq[cc(s)] # <<>> /\ Hear(cc(s))
  BY DEF CliReady, CliHear
<1>2. UNCHANGED <<proxyOwn, inq, fin, backlog, est, lsn, op, nop, server, sdisk, fetches>>
  BY DEF CliReady, remote
<1>3. PICK n \in Op : n = nop /\ client[s].n = n /\ Preparing(s, n) /\ Serving(s)
  BY <1>1, WhoIsServed, StageOf DEF Busy
<1>4. Setup(s, n)
  BY <1>1, <1>3 DEF Preparing, Prepared
<1>5. PICK m \in {Say("200"), Agreed(n, "proxy")} :
         /\ Carried(s, <<>>, <<>>, <<>>, <<m>>) /\ server[s].ph = "idle"
         /\ Told(s, n) /\ Armed(n) /\ Expected(n, "server")
  BY <1>1, <1>4 DEF Setup, Carried, Expected, Passive
<1>6. m \in Msg
  BY SayType, Words DEF Host
<1>7. /\ Carried(s, <<>>, <<>>, <<>>, <<>>)'
      /\ \A c \in Conn \ {cc(s), sc(s)} : outq'[c] = outq[c]
  <2>1. Tail(<<m>>) = <<>>
    BY <1>6, Short
  <2> QED  BY <1>1, <1>2, <1>5, <2>1, Conversed DEF Carried
<1>8. /\ client'[s].ph = "ready" /\ client'[s].n = client[s].n
      /\ \A q \in Session \ {s} : client'[q] = client[q]
  BY DEF CliReady, CliState
<1>9. DataSame(n)
  BY <1>2 DEF DataSame, proxyOwn, store
<1>10. Preparing(s, n)'
  <2>1. Told(s, n)' /\ Armed(n)'
    BY <1>2, <1>5 DEF Told, Armed, proxyOwn, dport
  <2>2. Expected(n, "server")' /\ Expected(n, "client")' /\ NoData' /\ Fresh(n)'
    BY <1>3, <1>5, <1>9, DataStays DEF Preparing
  <2> QED  BY <1>2, <1>3, <1>5, <1>7, <1>8, <2>1, <2>2 DEF Preparing, Prepared, Quiet
<1>11. Serving(s)'
  BY <1>1, <1>2, <1>3, <1>5, <1>8, <1>10, ServedOn DEF proxyOwn, Serving
<1> QED  BY <1>1, <1>2, <1>3, <1>7, <1>8, <1>11, TalkStep

\* NoneAhead: without a data connection no branch for data is due.
LEMMA NoneAhead ==
    ASSUME Calm, NoData
    PROVE  /\ ~(6 \in read_fds /\ pos[1] < 6) /\ ~(7 \in read_fds /\ pos[1] < 7)
           /\ ~(8 \in read_fds /\ pos[1] < 7)
<1> USE Calmly
<1>1. ~Readable(6) /\ ~Readable(7) /\ ~Readable(8)
  BY ReadableIs, NumType, Kinds DEF NoData, NoRelay, Descriptors
<1>2. 6 \in 3..8 /\ 7 \in 3..8 /\ 8 \in 3..8 /\ pos[1] \in Nat
  BY NetAssumption DEF ProcessOK
<1> QED  BY <1>1, <1>2 DEF Scan, Ready

\* CliCommandTurn: the client sends RETR or STOR.
LEMMA CliCommandTurn ==
    ASSUME Calm, Inv', NEW s \in Session, CliCommand(s) PROVE TurnsInv'
<1> USE Calmly
<1>1. client[s].ph = "ready" /\ Tell(cc(s), op[client[s].n].m)
  BY DEF CliCommand
<1>2. UNCHANGED <<proxyOwn, outq, fin, backlog, est, lsn, op, nop, server, sdisk, fetches>>
  BY DEF CliCommand, remote
<1>3. PICK n \in Op : n = nop /\ client[s].n = n /\ Preparing(s, n) /\ Serving(s)
  BY <1>1, WhoIsServed, StageOf DEF Busy
<1>4. Prepared(s, n)
  BY <1>1, <1>3 DEF Preparing, Setup
<1>5. PICK m \in Msg : m = op[n].m
  BY <1>3, Kind
<1>6. /\ Carried(s, <<m>>, <<>>, <<>>, <<>>)'
      /\ \A c \in Conn \ {cc(s), sc(s)} : inq'[c] = inq[c]
      /\ inq'[cc(s)] # <<>> /\ inq'[sc(s)] = inq[sc(s)]
  <2>1. Append(<<>>, m) = <<m>> /\ <<m>> # <<>>
    BY Short
  <2> QED  BY <1>1, <1>2, <1>3, <1>4, <1>5, <2>1, Conversed, Silent DEF Carried, Prepared
<1>7. /\ client'[s].ph = "busy" /\ client'[s].n = client[s].n
      /\ \A q \in Session \ {s} : client'[q] = client[q]
  BY DEF CliCommand, CliState
<1>8. DataSame(n)
  BY <1>2 DEF DataSame, proxyOwn, store
<1>9. Busy(s, n)'
  <2>1. Told(s, n)' /\ Armed(n)'
    BY <1>2, <1>4 DEF Prepared, Told, Armed, proxyOwn, dport
  <2>2. Unopened(n)
    BY <1>3, <1>4 DEF Preparing, Prepared, Unopened
  <2>3. ~(6 \in read_fds /\ pos[1] < 6)
    BY <1>3, NoneAhead DEF Preparing
  <2>4. Unopened(n)'
    BY <1>8, <2>2, DataStays
  <2>5. Asked(s, n)'
    BY <1>2, <1>3, <1>4, <1>5, <1>6, <2>3, <2>4 DEF Asked, Preparing, Prepared, proxyOwn, scan
  <2> QED  BY <1>7, <2>1, <2>5 DEF Busy
<1>10. Serving(s)'
  BY <1>1, <1>2, <1>3, <1>4, <1>7, <1>9, ServedOn DEF proxyOwn, Serving
<1> QED  BY <1>1, <1>2, <1>3, <1>6, <1>7, <1>10, TalkStep

\* CliQuitTurn: the client sends QUIT.
LEMMA CliQuitTurn ==
    ASSUME Calm, Inv', NEW s \in Session, CliQuit(s) PROVE TurnsInv'
<1> USE Calmly
<1>1. client[s].ph = "idle" /\ Tell(cc(s), Say("QUIT"))
  BY DEF CliQuit
<1>2. UNCHANGED <<proxyOwn, outq, fin, backlog, est, lsn, op, nop, server, sdisk, fetches>>
  BY DEF CliQuit, remote
<1>3. Serving(s) /\ NoData /\ Resting(s)
  BY <1>1, WhoIsServed, StageOf
<1>4. /\ Carried(s, <<Say("QUIT")>>, <<>>, <<>>, <<>>)'
      /\ \A c \in Conn \ {cc(s), sc(s)} : inq'[c] = inq[c]
      /\ inq[cc(s)] = <<>> /\ inq'[sc(s)] = inq[sc(s)]
  BY <1>1, <1>2, <1>3, Conversed, Singles, Silent DEF Carried, Resting
<1>5. /\ client'[s].ph = "quit" /\ client'[s].n = client[s].n
      /\ \A q \in Session \ {s} : client'[q] = client[q]
  BY DEF CliQuit, CliState
<1>6. Between(s)'
  BY <1>2, <1>3, <1>4, <1>5 DEF Between, Resting, Quitting, proxyOwn
<1>7. Serving(s)'
  BY <1>1, <1>2, <1>3, <1>5, <1>6, ServedOn DEF proxyOwn, Serving, Resting
<1> QED  BY <1>1, <1>2, <1>3, <1>4, <1>5, <1>7, TalkStep

\* Replied: what CliReply makes of a transfer.
LEMMA Replied ==
    ASSUME PeersOK, NEW s \in Session, CliReply(s), NEW n \in Op, client[s].n = n
    PROVE  /\ \A k \in Op \ {n} : op'[k] = op[k]
           /\ op'[n].m = op[n].m /\ op'[n].mode = op[n].mode /\ op'[n].s = op[n].s
           /\ Head(outq[cc(s)]).t = "226" => op'[n].reply = "ok"
           /\ Head(outq[cc(s)]).t = "150" => op'[n].reply = op[n].reply
BY DEF CliReply, PeersOK, OpState

\* BusyIs: the parts of the stage of a session with a transfer under way.
LEMMA BusyIs ==
    ASSUME Calm, NEW s \in Session, Serving(s), client[s].ph = "busy"
    PROVE  \E n \in Op : n = nop /\ client[s].n = n /\ Busy(s, n)
<1>1. PICK n \in Op : n = nop /\ client[s].n = n /\ (Preparing(s, n) \/ Busy(s, n))
  BY StageOf
<1> QED  BY <1>1 DEF Preparing, Setup, Prepared

\* CliReplyTurn: the client reads a reply of a transfer.
LEMMA CliReplyTurn ==
    ASSUME Calm, Inv', NEW s \in Session, CliReply(s) PROVE TurnsInv'
<1> USE Calmly
<1>1. client[s].ph = "busy" /\ outq[cc(s)] # <<>> /\ Hear(cc(s))
  BY DEF CliReply, CliHear
<1>2. UNCHANGED <<proxyOwn, inq, fin, backlog, est, lsn, client, nop, server, sdisk, fetches>>
  BY DEF CliReply, remote
<1>3. PICK n \in Op : n = nop /\ client[s].n = n /\ Busy(s, n) /\ Serving(s)
  BY <1>1, WhoIsServed, BusyIs
<1>4. /\ \A k \in Op \ {n} : op'[k] = op[k]
      /\ op'[n].m = op[n].m /\ op'[n].mode = op[n].mode /\ op'[n].s = op[n].s
      /\ Head(outq[cc(s)]).t = "226" => op'[n].reply = "ok"
      /\ Head(outq[cc(s)]).t = "150" => op'[n].reply = op[n].reply
  BY <1>3, Replied
<1>5. /\ outq'[cc(s)] = Tail(outq[cc(s)]) /\ outq'[sc(s)] = outq[sc(s)]
      /\ \A c \in Conn \ {cc(s), sc(s)} : outq'[c] = outq[c]
  BY <1>1, Conversed
<1>6. DataSame(n)
  BY <1>2, <1>4 DEF DataSame, proxyOwn, store
<1>7. Told(s, n)' /\ Armed(n)' /\ (Known(n) => Known(n)')
  BY <1>2, <1>3, <1>4 DEF Busy, Told, Armed, Known, IsGet, proxyOwn, dport, dfile
<1>8. Moving(s, n) \/ Answered(s, n)
  BY <1>1, <1>3, Silent DEF Busy, Asked, Sent, Hidden, Carried
<1>9. ASSUME Moving(s, n) PROVE Moving(s, n)'
  <2>1. Carried(s, <<>>, <<>>, <<>>, <<Say("150")>>)
    BY <1>1, <1>9, Silent DEF Moving, Carried
  <2>2. Quiet(s)'
    BY <1>2, <1>5, <2>1, Singles DEF Carried, Quiet
  <2>3. op'[n].reply = "none"
    BY <1>4, <1>9, <2>1, Singles, Words DEF Moving, Carried
  <2>4. (Missing(n) => Missing(n)') /\ (Pending(n) => Pending(n)') /\ (Late(n) => Late(n)')
        /\ Passive(n)' = Passive(n) /\ IsPut(n)' = IsPut(n)
    BY <1>6, DataStays
  <2> QED  BY <1>2, <1>4, <1>7, <1>9, <2>2, <2>3, <2>4 DEF Moving
<1>10. ASSUME Answered(s, n) PROVE Answered(s, n)'
  <2>1. Answering(s, n)'
    <3>1. op[n].reply = "none"
      BY <1>1, <1>10, Silent DEF Answered, Answering
    <3>2. CASE Carried(s, <<>>, <<>>, <<Say("226")>>, <<Say("150")>>)
      <4>1. Carried(s, <<>>, <<>>, <<Say("226")>>, <<>>)'
        BY <1>2, <1>5, <3>2, Singles DEF Carried
      <4>2. op'[n].reply = "none"
        BY <1>4, <3>1, <3>2, Singles, Words DEF Carried
      <4> QED  BY <4>1, <4>2 DEF Answering
    <3>3. CASE Carried(s, <<>>, <<>>, <<>>, <<Say("150"), Say("226")>>)
      <4>0. /\ Tail(<<Say("150"), Say("226")>>) = <<Say("226")>>
            /\ Head(<<Say("150"), Say("226")>>) = Say("150")
        BY Short, SayType
      <4>1. Carried(s, <<>>, <<>>, <<>>, <<Say("226")>>)'
        BY <1>2, <1>5, <3>3, <4>0 DEF Carried
      <4>2. op'[n].reply = "none"
        BY <1>4, <3>1, <3>3, <4>0, Words DEF Carried
      <4> QED  BY <4>1, <4>2 DEF Answering
    <3>4. CASE Carried(s, <<>>, <<>>, <<>>, <<Say("226")>>)
      <4>1. Quiet(s)'
        BY <1>2, <1>5, <3>4, Singles DEF Carried, Quiet
      <4>2. op'[n].reply = "ok"
        BY <1>4, <3>4, Singles, Words DEF Carried
      <4> QED  BY <4>1, <4>2 DEF Answering
    <3> QED  BY <1>1, <1>10, <3>1, <3>2, <3>3, <3>4, Silent DEF Answered, Answering, Carried
  <2>2. (Missing(n) => Missing(n)') /\ (Pending(n) => Pending(n)')
        /\ (Relaying(n) => Relaying(n)') /\ (HungUp(n) => HungUp(n)')
        /\ Passive(n)' = Passive(n) /\ IsGet(n)' = IsGet(n) /\ IsPut(n)' = IsPut(n)
    BY <1>6, DataStays
  <2> QED  BY <1>2, <1>7, <1>10, <2>1, <2>2 DEF Answered
<1>11. Busy(s, n)'
  BY <1>2, <1>3, <1>7, <1>8, <1>9, <1>10 DEF Busy
<1>12. Serving(s)'
  BY <1>1, <1>2, <1>3, <1>11, ServedOn DEF proxyOwn, Serving
<1>13. \A k \in Op : /\ op'[k].m = op[k].m /\ op'[k].mode = op[k].mode /\ op'[k].s = op[k].s
                     /\ k > nop => op'[k].reply = op[k].reply
  <2>1. ~(nop > nop)
    BY NetAssumption
  <2> TAKE k \in Op
  <2> QED  BY <1>3, <1>4, <2>1
<1> QED  BY <1>1, <1>2, <1>3, <1>5, <1>12, <1>13, TalkStep

(***************************************************************************)
(* Steps that leave a session in its stage.                                *)
(***************************************************************************)
LEMMA ServingKept ==
    ASSUME NEW s \in Session, Serving(s),
           UNCHANGED <<fdt, backlog, est, cmdbuf, dport, dfile, fetches, nop>>,
           client'[s].ph = client[s].ph, client'[s].n = client[s].n,
           server'[s].ph = server[s].ph, server'[s].n = server[s].n,
           server'[s].mode = server[s].mode, server'[s].m = server[s].m,
           inq'[cc(s)] = inq[cc(s)], outq'[cc(s)] = outq[cc(s)],
           inq'[sc(s)] = inq[sc(s)], outq'[sc(s)] = outq[sc(s)],
           cc(s) \in fin' <=> cc(s) \in fin, sc(s) \in fin' <=> sc(s) \in fin,
           \A n \in Op : n = nop /\ client[s].n = n
                         /\ client[s].ph \in {"setup", "ready", "busy"} =>
              DataSame(n) /\ op'[n].reply = op[n].reply,
           \A n \in Op : Asked(s, n) =>
              (6 \in read_fds' /\ pos'[1] < 6 => 5 \in read_fds' /\ pos'[1] < 5)
    PROVE  Serving(s)'
<1>1. \A x, y, z, w : Carried(s, x, y, z, w) => Carried(s, x, y, z, w)'
  BY DEF Carried
<1>2. Quiet(s) => Quiet(s)'
  BY DEF Quiet, Carried
<1>3. CASE Between(s)
  <2>1. NoData'
    BY <1>3 DEF Between, NoData, NoRelay
  <2>2. /\ (Greeting(s) => Greeting(s)') /\ (Resting(s) => Resting(s)')
        /\ (Quitting(s) => Quitting(s)')
    BY <1>1, <1>2 DEF Greeting, Resting, Quitting
  <2>3. Between(s)'
    BY <1>3, <2>1, <2>2 DEF Between
  <2> QED  BY <2>3 DEF Serving, Pair
<1>4. ASSUME NEW n \in Op, n = nop, client[s].n = n, Preparing(s, n) \/ Busy(s, n)
      PROVE  Serving(s)'
  <2>1. DataSame(n) /\ op'[n].reply = op[n].reply
    BY <1>4 DEF Preparing, Busy, Setup, Prepared
  <2>2. /\ NoData => NoData'
        /\ Fresh(n) => Fresh(n)'
        /\ Expected(n, "client") => Expected(n, "client")'
        /\ Expected(n, "server") => Expected(n, "server")'
        /\ Unopened(n) => Unopened(n)'
        /\ Pending(n) => Pending(n)'
        /\ Relaying(n) => Relaying(n)'
        /\ HungUp(n) => HungUp(n)'
        /\ Late(n) => Late(n)'
        /\ Stored(n) => Stored(n)'
        /\ Missing(n) => Missing(n)'
        /\ IsGet(n)' = IsGet(n) /\ IsPut(n)' = IsPut(n) /\ Passive(n)' = Passive(n)
    BY <2>1, DataStays
  <2>3. (Armed(n) => Armed(n)') /\ (Told(s, n) => Told(s, n)') /\ (Known(n) => Known(n)')
        /\ op'[n].m = op[n].m /\ op'[n].mode = op[n].mode
        /\ (n \in lsn.server => n \in lsn'.server)
    <3>1. /\ op'[n].m = op[n].m /\ op'[n].mode = op[n].mode
          /\ (n \in lsn.server => n \in lsn'.server)
      BY <2>1 DEF DataSame
    <3> QED  BY <2>2, <3>1 DEF Armed, Told, Known, dport, dfile
  <2>4. ASSUME Preparing(s, n) PROVE Preparing(s, n)'
    <3>1. ASSUME Setup(s, n) PROVE Setup(s, n)'
      <4>1. \A h : Setting(n, h)' = Setting(n, h) /\ Agreed(n, h)' = Agreed(n, h)
        BY <2>3 DEF Setting, Agreed
      <4>2. CASE Carried(s, <<Setting(n, "client")>>, <<>>, <<>>, <<>>)
        BY <2>3, <3>1, <4>1, <4>2 DEF Setup, Carried
      <4>3. ASSUME NEW h \in Host, Carried(s, <<>>, <<Setting(n, h)>>, <<>>, <<>>),
                   ~Passive(n) => Armed(n)
            PROVE  Setup(s, n)'
        <5>1. Carried(s, <<>>, <<Setting(n, h)>>, <<>>, <<>>)'
          BY <4>1, <4>3 DEF Carried
        <5> QED  BY <2>2, <2>3, <3>1, <4>3, <5>1 DEF Setup
      <4>4. CASE /\ Told(s, n) /\ ~Passive(n) /\ Armed(n)
                 /\ \/ Carried(s, <<>>, <<>>, <<Say("200")>>, <<>>)
                    \/ Carried(s, <<>>, <<>>, <<>>, <<Say("200")>>)
        <5>1. \/ Carried(s, <<>>, <<>>, <<Say("200")>>, <<>>)'
              \/ Carried(s, <<>>, <<>>, <<>>, <<Say("200")>>)'
          BY <4>4 DEF Carried
        <5> QED  BY <2>2, <2>3, <3>1, <4>4, <5>1 DEF Setup
      <4>5. CASE /\ Told(s, n) /\ Passive(n) /\ n \in lsn.server
                 /\ Carried(s, <<>>, <<>>, <<Agreed(n, "server")>>, <<>>)
        <5>1. Carried(s, <<>>, <<>>, <<Agreed(n, "server")>>, <<>>)'
          BY <4>1, <4>5 DEF Carried
        <5> QED  BY <2>2, <2>3, <3>1, <4>5, <5>1 DEF Setup
      <4>6. CASE /\ Told(s, n) /\ Passive(n) /\ n \in lsn.server
                 /\ Carried(s, <<>>, <<>>, <<>>, <<Agreed(n, "proxy")>>) /\ Armed(n)
        <5>1. Carried(s, <<>>, <<>>, <<>>, <<Agreed(n, "proxy")>>)'
          BY <4>1, <4>6 DEF Carried
        <5> QED  BY <2>2, <2>3, <3>1, <4>6, <5>1 DEF Setup
      <4> QED  BY <3>1, <4>2, <4>3, <4>4, <4>5, <4>6 DEF Setup
    <3>2. Prepared(s, n) => Prepared(s, n)'
      BY <1>2, <2>2, <2>3 DEF Prepared
    <3> QED  BY <2>1, <2>2, <2>4, <3>1, <3>2 DEF Preparing
  <2>5. ASSUME Busy(s, n) PROVE Busy(s, n)'
    <3>1. Asked(s, n) => Asked(s, n)'
      BY <1>1, <2>1, <2>2, <2>3 DEF Asked, Carried
    <3>2. Sent(s, n) => Sent(s, n)'
      BY <1>1, <1>2, <2>1, <2>2, <2>3 DEF Sent, Carried
    <3>3. Moving(s, n) => Moving(s, n)'
      <4>1. sd(n) \notin fin => sd(n) \notin fin'
        BY <2>1 DEF DataSame
      <4> QED  BY <1>1, <1>2, <2>1, <2>2, <2>3, <4>1 DEF Moving
    <3>4. Answered(s, n) => Answered(s, n)'
      <4>1. sd(n) \in fin => sd(n) \in fin'
        BY <2>1 DEF DataSame
      <4>2. Answering(s, n) => Answering(s, n)'
        BY <1>1, <1>2, <2>1 DEF Answering
      <4> QED  BY <2>2, <2>3, <4>1, <4>2 DEF Answered
    <3>5. Hidden(s, n) => Hidden(s, n)'
      BY <1>2, <2>1, <2>2, <2>3 DEF Hidden, DataSame
    <3> QED  BY <2>3, <2>5, <3>1, <3>2, <3>3, <3>4, <3>5 DEF Busy
  <2> QED  BY <1>4, <2>4, <2>5 DEF Serving, Pair
<1> QED  BY <1>3, <1>4 DEF Serving

\* SessionsAside: no session leaves its stage.
LEMMA SessionsAside ==
    ASSUME Sessions, UNCHANGED <<fdt, backlog>>,
           \A q \in Session :
              /\ Numbered(q)' /\ (client'[q].ph = "off" <=> client[q].ph = "off")
              /\ Same(q) \/ (Over(q) /\ Over(q)')
              /\ Serving(q) /\ Same(q) => Serving(q)'
    PROVE  Sessions'
<1>1. ASSUME NEW q \in Session
      PROVE  /\ Off(q) => Off(q)'
             /\ Queued(q) => Queued(q)'
             /\ Serving(q) => Serving(q)'
             /\ Over(q) => Over(q)'
  <2>1. Absent(q)' <=> Absent(q)
    BY DEF Absent
  <2>2. CASE Same(q)
    <3>1. (Off(q) => Absent(q)) /\ (Over(q) => Absent(q))
      BY DEF Off, Over
    <3> QED  BY <2>1, <2>2, <3>1, SameStays
  <2>3. CASE Over(q) /\ Over(q)'
    <3>1. ~Off(q) /\ ~Queued(q)
      BY <2>3 DEF Off, Queued, Over
    <3>2. ~Serving(q)
      BY <2>3 DEF Over, Absent, Serving, Pair
    <3> QED  BY <2>3, <3>1, <3>2
  <2> QED  BY <2>2, <2>3
<1>2. fdt'[4] = Free => NoData'
  BY DEF Sessions, NoData, NoRelay
<1>3. backlog'[CmdPort] = <<>> \/ \E q \in Session : Queued(q)'
  BY <1>1 DEF Sessions
<1> QED  BY <1>1, <1>2, <1>3 DEF Sessions

\* AsideStep: a step that moves data or a phase that no stage tells apart.
LEMMA AsideStep ==
    ASSUME Calm, Inv', UNCHANGED <<proxyOwn, backlog, est, fin, nop, fetches>>,
           DOMAIN sdisk \subseteq DOMAIN sdisk',
           \A q \in Session :
              /\ Same(q) /\ server'[q].n = server[q].n
              /\ server'[q].mode = server[q].mode /\ server'[q].m = server[q].m,
           \A n \in Op :
              /\ DataSame(n) /\ op'[n].s = op[n].s /\ op'[n].reply = op[n].reply
              /\ inq[cd(n)] = <<>> /\ ~IsPut(n) => inq'[cd(n)] = <<>>
              /\ inq[sd(n)] = <<>> /\ ~IsGet(n) => inq'[sd(n)] = <<>>,
           \A c \in Conn : inq[c] # <<>> => inq'[c] # <<>>
    PROVE  TurnsInv'
<1> USE Calmly
<1>1. Descriptors' /\ Numbers' /\ Scan'
  <2>1. fin' \subseteq Conn
    BY DEF Inv, ProxyInv, NetOK
  <2> QED  BY <2>1, PeerScan
<1>2. fdt' = fdt /\ disk' = disk
  BY DEF proxyOwn
<1>3. ASSUME NEW q \in Session, Serving(q) PROVE Serving(q)'
  <2>1. UNCHANGED <<fdt, backlog, est, cmdbuf, dport, dfile, fetches, nop, read_fds, pos>>
    BY DEF proxyOwn, bufs, scan
  <2>2. \A n \in Op : Asked(q, n) =>
            (6 \in read_fds' /\ pos'[1] < 6 => 5 \in read_fds' /\ pos'[1] < 5)
    BY <2>1 DEF Asked
  <2>3. \A n \in Op : DataSame(n) /\ op'[n].reply = op[n].reply
    OBVIOUS
  <2>4. Same(q) /\ server'[q].n = server[q].n
        /\ server'[q].mode = server[q].mode /\ server'[q].m = server[q].m
    OBVIOUS
  <2>5. cc(q) \in fin' <=> cc(q) \in fin
    OBVIOUS
  <2>6. sc(q) \in fin' <=> sc(q) \in fin
    OBVIOUS
  <2> QED  BY <1>3, <2>1, <2>2, <2>3, <2>4, <2>5, <2>6, ServingKept DEF Same
<1>4. ASSUME NEW q \in Session
      PROVE  Numbered(q)' /\ (client'[q].ph = "off" <=> client[q].ph = "off")
  <2>1. Numbered(q) /\ 1..nop \subseteq Op
    BY NetAssumption DEF Sessions, PeersOK, Op
  <2> QED  BY <2>1 DEF Numbered, Same
<1>5. Sessions'
  BY <1>2, <1>3, <1>4, SessionsAside
<1>6. Live => Live'
  BY <1>2 DEF Live, Pair, Same
<1>7. ASSUME NEW n \in Op
      PROVE  /\ op'[n].m = op[n].m /\ (Fresh(n) => Fresh(n)')
             /\ (Pending(n) => Pending(n)') /\ Passive(n)' = Passive(n) /\ IsGet(n)' = IsGet(n)
  <2>1. DataSame(n)
    OBVIOUS
  <2> QED  BY <2>1, DataStays DEF DataSame
<1>8. Transfers'
  <2>1. \A n \in Op : n > nop => Fresh(n)
    BY DEF Transfers
  <2> QED  BY <1>2, <1>6, <1>7, <2>1, TransfersStay
<1>9. Fetches'
  BY <1>2, <1>7, FetchesStay DEF Pair, Same
<1> QED  BY <1>1, <1>5, <1>8, <1>9 DEF TurnsInv

\* CliGetTurn: the client takes a block of a download.
LEMMA CliGetTurn ==
    ASSUME Calm, Inv', NEW n \in Op, CliGet(n) PROVE TurnsInv'
<1> USE Calmly
<1>1. UNCHANGED <<proxyOwn, inq, fin, backlog, est, lsn, client, nop, server, sdisk, fetches>>
  BY DEF CliGet, remote
<1>2. Hear(cd(n))
  BY DEF CliGet
<1>3. \A k \in Op : /\ op'[k].m = op[k].m /\ op'[k].mode = op[k].mode
                    /\ op'[k].s = op[k].s /\ op'[k].reply = op[k].reply
  BY DEF CliGet, OpState
<1>4. \A q \in Session : Same(q)
  <2> TAKE q \in Session
  <2>1. outq'[cc(q)] = outq[cc(q)] /\ outq'[sc(q)] = outq[sc(q)]
    BY <1>2, ConnType, Distinct, Heard
  <2> QED  BY <1>1, <2>1 DEF Same
<1>5. \A k \in Op : DataSame(k)
  BY <1>1, <1>3 DEF DataSame, proxyOwn, store
<1> QED  BY <1>1, <1>3, <1>4, <1>5, AsideStep

\* WhoUploads: only the last transfer is under way.
LEMMA WhoUploads ==
    ASSUME Calm, NEW n \in Op, cd(n) \in est, cd(n) \notin fin
    PROVE  n = nop /\ \E s \in Session : Serving(s) /\ client[s].ph = "busy"
<1> USE Calmly
<1>1. ~Fresh(n) /\ ~Past(n)
  BY DEF Fresh, Past
<1>2. n = nop /\ Live
  <2>1. n \in Nat
    BY DEF Op
  <2> QED  BY <1>1, <2>1 DEF Transfers
<1>3. PICK s \in Session : Pair(s) /\ client[s].ph \in {"setup", "ready", "busy"}
  BY <1>2 DEF Live
<1>4. Serving(s)
  BY <1>3, WhoIsServed
<1>5. client[s].ph # "busy" => FALSE
  <2> SUFFICES ASSUME client[s].ph # "busy" PROVE FALSE
    OBVIOUS
  <2>1. \E m \in Op : m = nop /\ client[s].n = m /\ (Preparing(s, m) \/ Busy(s, m))
    BY <1>3, <1>4, StageOf
  <2> QED  BY <1>1, <1>2, <2>1 DEF Preparing, Busy
<1> QED  BY <1>2, <1>4, <1>5

\* CliPutTurn: the client sends a block of an upload.
LEMMA CliPutTurn ==
    ASSUME Calm, Inv', NEW n \in Op, CliPut(n) PROVE TurnsInv'
<1> USE Calmly
<1>1. UNCHANGED <<proxyOwn, outq, fin, backlog, est, lsn, client, nop, server, sdisk, fetches>>
  BY DEF CliPut, remote
<1>2. PICK m : Tell(cd(n), m) /\ IsPut(n)
  BY DEF CliPut, IsPut
<1>3. \A k \in Op : /\ op'[k].m = op[k].m /\ op'[k].mode = op[k].mode
                    /\ op'[k].s = op[k].s /\ op'[k].reply = op[k].reply
  BY DEF CliPut, OpState
<1>4. \A q \in Session : Same(q)
  <2> TAKE q \in Session
  <2>1. inq'[cc(q)] = inq[cc(q)] /\ inq'[sc(q)] = inq[sc(q)]
    BY <1>2, ConnType, Distinct, Said
  <2> QED  BY <1>1, <2>1 DEF Same
<1>5. \A k \in Op : DataSame(k)
  BY <1>1, <1>3 DEF DataSame, proxyOwn, store
<1>6. cd(n) \in Conn /\ \A c \in Conn \ {cd(n)} : inq'[c] = inq[c]
  BY <1>2, ConnType, Said
<1>7. inq'[cd(n)] # <<>>
  <2>1. inq'[cd(n)] = Append(inq[cd(n)], m) /\ inq[cd(n)] \in Seq(Msg)
    BY <1>2, <1>6, Said
  <2>2. inq'[cd(n)] \in Seq(Msg)
    BY <1>6 DEF Inv, ProxyInv, NetOK
  <2>3. Len(inq'[cd(n)]) = Len(inq[cd(n)]) + 1 /\ Len(inq[cd(n)]) \in Nat
    BY <2>1
  <2>4. Len(<<>>) = 0
    OBVIOUS
  <2> QED  BY <2>3, <2>4
<1>8. \A k \in Op : /\ inq[cd(k)] = <<>> /\ ~IsPut(k) => inq'[cd(k)] = <<>>
                    /\ inq'[sd(k)] = inq[sd(k)]
  BY <1>2, <1>6, ConnType, Distinct
<1> QED  BY <1>1, <1>3, <1>4, <1>5, <1>6, <1>7, <1>8, AsideStep

\* LastStep: the last transfer moves, with the session it belongs to.
LEMMA LastStep ==
    ASSUME Calm, Inv', NEW s \in Session, Serving(s), Serving(s)',
           UNCHANGED <<proxyOwn, nop>>, DOMAIN sdisk \subseteq DOMAIN sdisk',
           client[s].ph = "busy", client'[s].ph = "busy", client'[s].n = client[s].n,
           \A q \in Session \ {s} : Same(q),
           \A n \in Op : /\ op'[n].m = op[n].m /\ op'[n].s = op[n].s
                         /\ op'[n].reply = op[n].reply
                         /\ n # nop => /\ Fresh(n) => Fresh(n)'
                                       /\ cd(n) \in fin => cd(n) \in fin'
                         /\ inq[cd(n)] = <<>> /\ ~IsPut(n) => inq'[cd(n)] = <<>>
                         /\ inq[sd(n)] = <<>> /\ ~IsGet(n) => inq'[sd(n)] = <<>>,
           \A c \in Conn : inq[c] # <<>> => inq'[c] # <<>>,
           fin \subseteq fin',
           \A p \in Port : backlog[p] # <<>> => backlog'[p] # <<>>,
           Fetches'
    PROVE  TurnsInv'
<1> USE Calmly
<1>1. Descriptors' /\ Numbers' /\ Scan'
  <2>1. fin' \subseteq Conn
    BY DEF Inv, ProxyInv, NetOK
  <2> QED  BY <2>1, PeerScan
<1>2. ASSUME NEW q \in Session PROVE Numbered(q)'
  <2>1. Numbered(q) /\ 1..nop \subseteq Op
    BY NetAssumption DEF Sessions, PeersOK, Op
  <2>2. client'[q].n = client[q].n
    BY DEF Same
  <2> QED  BY <2>1, <2>2 DEF Numbered
<1>3. Sessions'
  BY <1>2, ServingStays
<1>4. fdt' = fdt /\ disk' = disk
  BY DEF proxyOwn
<1>5. Live'
  BY DEF Live, Serving
<1>6. Transfers'
  <2>1. \A n \in Op : n > nop => Fresh(n) /\ n # nop
    BY DEF Transfers, Op
  <2>2. \A n \in Op : cd(n) \in fin => cd(n) \in fin'
    OBVIOUS
  <2>3. \A n \in Op : /\ op'[n].m = op[n].m
                      /\ n > nop => op'[n].reply = op[n].reply /\ Fresh(n)'
    BY <2>1
  <2> QED  BY <1>4, <1>5, <2>2, <2>3, TransfersStay
<1> QED  BY <1>1, <1>3, <1>6 DEF TurnsInv

\* CliPutEndTurn: the client closes the data connection of an upload.
LEMMA CliPutEndTurn ==
    ASSUME Calm, Inv', NEW n \in Op, CliPutEnd(n) PROVE TurnsInv'
<1> USE Calmly
<1>1. /\ UNCHANGED <<proxyOwn, inq, outq, backlog, est, lsn, client, op, nop,
                  server, sdisk, fetches>>
      /\ IsPut(n) /\ cd(n) \in est /\ cd(n) \notin fin /\ fin' = fin \cup {cd(n)}
  BY DEF CliPutEnd, remote, peers, IsPut
<1>2. PICK s \in Session : Serving(s) /\ client[s].ph = "busy" /\ n = nop
  BY <1>1, WhoUploads
<1>3. Busy(s, n) /\ client[s].n = n /\ ~IsGet(n)
  <2>1. \E k \in Op : k = nop /\ client[s].n = k /\ Busy(s, k)
    BY <1>2, BusyIs
  <2>2. ~IsGet(n)
    BY <1>1, <1>2, Kind
  <2> QED  BY <1>2, <2>1, <2>2
<1>4. \A q \in Session : Same(q)
  BY <1>1, Distinct DEF Same
<1>5. \A k \in Op : k # n => (cd(k) \in fin' <=> cd(k) \in fin)
  BY <1>1, Distinct
<1>6. /\ IsPut(n)' = IsPut(n) /\ IsGet(n)' = IsGet(n) /\ Passive(n)' = Passive(n)
      /\ sd(n) \in fin' <=> sd(n) \in fin
  BY <1>1, Distinct DEF IsPut, IsGet, Passive
<1>7. UNCHANGED <<fdt, cache, disk, dport, dfile, read_fds, pos>>
  BY <1>1 DEF proxyOwn, store, scan
<1>8. NoRelay' = NoRelay /\ NoData' = NoData /\ Expected(n, "client")' = Expected(n, "client")
      /\ Expected(n, "server")' = Expected(n, "server")
  BY <1>1, <1>7 DEF NoRelay, NoData, Expected
<1>9. ~Unopened(n) /\ ~HungUp(n) /\ (Pending(n) => Passive(n))
  BY <1>1, Distinct DEF Unopened, Fresh, HungUp, Pending, Second
<1>10. Pending(n) => Pending(n)'
  <2> SUFFICES ASSUME Pending(n) PROVE Pending(n)'
    OBVIOUS
  <2>1. /\ Passive(n) /\ First(n) = cd(n) /\ Second(n) = sd(n)
        /\ First(n)' = cd(n) /\ Second(n)' = sd(n)
    BY <1>6, <1>9 DEF First, Second
  <2> QED  BY <1>1, <1>3, <1>6, <1>7, <1>8, <2>1 DEF Pending
<1>11. (Relaying(n) => Relaying(n)') /\ (Late(n) => Late(n)') /\ (Missing(n) => Missing(n)')
  <2>1. Relaying(n) => Relaying(n)'
    BY <1>1, <1>3, <1>6, <1>7 DEF Relaying, Stored
  <2>2. Missing(n) => Missing(n)'
    BY <1>6, <1>3 DEF Missing
  <2> QED  BY <1>6, <1>9, <2>1, <2>2 DEF Late
<1>12. /\ Armed(n) => Armed(n)'
       /\ Told(s, n) => Told(s, n)'
       /\ Known(n) => Known(n)'
       /\ \A x, y, z, w : Carried(s, x, y, z, w) => Carried(s, x, y, z, w)'
  BY <1>1, <1>6, <1>7 DEF Armed, Told, Known, Carried, dport, dfile
<1>13. Busy(s, n)'
  <2>1. Asked(s, n) => Asked(s, n)'
    BY <1>1, <1>6, <1>7, <1>9, <1>10 DEF Asked, Carried
  <2>2. Sent(s, n) => Sent(s, n)'
    BY <1>1, <1>3, <1>6, <1>9, <1>10, <1>11, <1>12 DEF Sent, Quiet, Carried
  <2>3. Moving(s, n) => Moving(s, n)'
    BY <1>1, <1>6, <1>9, <1>10, <1>11, <1>12 DEF Moving, Quiet, Carried
  <2>4. ~Answered(s, n) /\ ~Hidden(s, n)
    BY <1>3, <1>9 DEF Answered, Hidden
  <2> QED  BY <1>1, <1>2, <1>3, <1>12, <2>1, <2>2, <2>3, <2>4 DEF Busy
<1>14. Serving(s)'
  <2>1. cc(s) # cd(n) /\ sc(s) # cd(n)
    BY Distinct
  <2> QED  BY <1>1, <1>2, <1>3, <1>7, <1>13, <2>1, ServedOn DEF Serving
<1>15. Fetches'
  <2>1. \A q \in Session, k \in Op : ~(Pair(q) /\ client[q].ph = "busy" /\ k = nop
                                       /\ Pending(k) /\ ~Passive(k) /\ IsGet(k))
    BY <1>2, <1>3
  <2> QED  BY <1>1, <1>7, <2>1, FetchesStay
<1> QED  BY <1>1, <1>2, <1>4, <1>5, <1>14, <1>15, LastStep DEF Fresh

\* CliDialTurn: the client connects for data to the port the proxy named.
LEMMA CliDialTurn ==
    ASSUME Calm, Inv', NEW s \in Session, CliDial(s) PROVE TurnsInv'
<1> USE Calmly
<1>1. client[s].ph = "busy"
  BY DEF CliDial, Calm, Orderly
<1>2. PICK n \in Op : n = nop /\ client[s].n = n /\ Busy(s, n) /\ Serving(s)
  BY <1>1, WhoIsServed, BusyIs
<1>3. /\ Passive(n) /\ op[n].reply = "none" /\ cd(n) \notin est
      /\ est' = est \cup {cd(n)} /\ backlog' = [backlog EXCEPT ![n] = Append(@, cd(n))]
      /\ UNCHANGED <<proxyOwn, inq, outq, fin, lsn, client, op, nop, server, sdisk, fetches>>
  BY <1>2 DEF CliDial, Connect, peers, Passive
<1>4. /\ n \in Port /\ n # CmdPort /\ backlog \in [Port -> Seq(Conn)]
      /\ cd(n) \in Conn /\ sd(n) \in Conn /\ cd(n) # sd(n)
  BY NumType, ConnType, Distinct DEF NetOK
<1>5. \A p \in Port \ {n} : backlog'[p] = backlog[p]
  BY <1>3, <1>4
<1>6. \A q \in Session : Same(q)
  BY <1>3, Distinct DEF Same
<1>7. UNCHANGED <<fdt, cache, disk, dport, dfile, read_fds, pos>>
  BY <1>3 DEF proxyOwn, store, scan
<1>8. ~Pending(n) /\ ~Relaying(n) /\ ~HungUp(n) /\ ~Late(n)
  BY <1>3 DEF Pending, First, Relaying, HungUp, Late
<1>9. Unopened(n)
  BY <1>2, <1>3, <1>8 DEF Busy, Asked, Sent, Moving, Answered, Hidden
<1>10. IsPut(n)' = IsPut(n) /\ IsGet(n)' = IsGet(n) /\ Passive(n)' = Passive(n)
  BY <1>3 DEF IsPut, IsGet, Passive
<1>11. Pending(n)'
  <2>1. NoRelay' /\ backlog'[n] = <<cd(n)>> /\ \A p \in Op \ {n} : backlog'[p] = <<>>
    <3>1. backlog[n] = <<>> /\ NoRelay /\ \A p \in Op : backlog[p] = <<>>
      BY <1>9 DEF Unopened, NoData
    <3>2. Append(<<>>, cd(n)) = <<cd(n)>>
      BY <1>4, ShortConn
    <3> QED  BY <1>3, <1>4, <1>5, <1>7, <3>1, <3>2, NumType DEF NoRelay
  <2>2. First(n)' = cd(n) /\ Second(n)' = sd(n)
    BY <1>3, <1>10 DEF First, Second
  <2>3. /\ cd(n) \in est' /\ cd(n) \notin fin' /\ sd(n) \notin est' \cup fin'
    BY <1>3, <1>4, <1>9 DEF Unopened, Fresh
  <2>4. Expected(n, "client")' /\ Expected(n, "server")'
    BY <1>3, <1>9 DEF Unopened, Expected
  <2> QED  BY <2>1, <2>2, <2>3, <2>4 DEF Pending
<1>12. Armed(n)' /\ Told(s, n)' /\ (Known(n) => Known(n)') /\ (Missing(n) => Missing(n)')
  BY <1>2, <1>3, <1>7, <1>10 DEF Busy, Armed, Told, Known, Missing, dport, dfile
<1>13. Busy(s, n)'
  <2>1. Asked(s, n) => Asked(s, n)'
    BY <1>3, <1>7, <1>10, <1>11 DEF Asked, Carried
  <2>2. Sent(s, n) => Sent(s, n)'
    BY <1>3, <1>8, <1>10, <1>11, <1>12 DEF Sent, Quiet, Carried
  <2>3. ~Moving(s, n) /\ ~Answered(s, n)
    BY <1>3, <1>8 DEF Moving, Answered
  <2>4. Hidden(s, n) => Hidden(s, n)'
    BY <1>3, <1>7, <1>10, <1>11, <1>12 DEF Hidden, Quiet, Carried
  <2> QED  BY <1>1, <1>2, <1>3, <1>12, <2>1, <2>2, <2>3, <2>4 DEF Busy
<1>14. Serving(s)'
  BY <1>2, <1>3, <1>4, <1>5, <1>7, <1>13, NumType, ServedOn DEF Serving
<1>15. Fetches'
  <2>1. \A q \in Session, k \in Op : ~(Pair(q) /\ client[q].ph = "busy" /\ k = nop
                                       /\ Pending(k) /\ ~Passive(k) /\ IsGet(k))
    BY <1>2, <1>3
  <2> QED  BY <1>3, <1>7, <2>1, FetchesStay
<1>16. \A p \in Port : backlog[p] # <<>> => backlog'[p] # <<>>
  <2>1. backlog'[n] # <<>>
    BY <1>4, <1>11, <1>10, <1>3, ShortConn DEF Pending, First
  <2> QED  BY <1>5, <2>1
<1>17. \A k \in Op : k # nop => (Fresh(k) => Fresh(k)')
  BY <1>2, <1>3, Distinct DEF Fresh
<1> QED  BY <1>1, <1>2, <1>3, <1>6, <1>14, <1>15, <1>16, <1>17, LastStep

\* NotPending: a data connection that waits is a data connection.
LEMMA NotPending ==
    ASSUME NEW n \in Op, NoData PROVE ~Pending(n)
<1>1. First(n) \in Conn
  BY ConnType DEF First
<1> QED  BY <1>1, ShortConn DEF Pending, NoData

\* CliDoneTurn: the client is through with a transfer.
LEMMA CliDoneTurn ==
    ASSUME Calm, Inv', NEW s \in Session, CliDone(s) PROVE TurnsInv'
<1> USE Calmly
<1>1. client[s].ph = "busy"
  BY DEF CliDone
<1>2. PICK n \in Op : n = nop /\ client[s].n = n /\ Busy(s, n) /\ Serving(s)
  BY <1>1, WhoIsServed, BusyIs
<1>3. /\ op[n].reply # "none" /\ (op[n].reply = "ok" => cd(n) \in fin \/ Ended(cd(n)))
      /\ fin' = fin \cup (est \cap {cd(n)}) /\ lsn' = [lsn EXCEPT !.client = @ \ {n}]
      /\ UNCHANGED <<proxyOwn, inq, outq, backlog, est, op, nop, server, sdisk, fetches>>
  BY <1>2 DEF CliDone
<1>4. Answered(s, n) /\ op[n].reply = "ok" /\ Quiet(s) /\ server[s].ph = "idle"
  BY <1>2, <1>3 DEF Busy, Asked, Sent, Moving, Hidden, Answered, Answering
<1>5. HungUp(n)
  <2>1. ~Relaying(n) \/ ~IsGet(n)
    <3> SUFFICES ASSUME Relaying(n), IsGet(n) PROVE FALSE
      OBVIOUS
    <3>1. fdt[7] = cd(n) \/ fdt[8] = cd(n)
      BY DEF Relaying
    <3>2. 7 \in Fd /\ 8 \in Fd
      BY NetAssumption DEF Calm, Orderly, Fd
    <3>3. Held(cd(n))
      BY <3>1, <3>2 DEF Held, Descriptors
    <3> QED  BY <1>3, <1>4, <3>3 DEF Relaying, Ended
  <2>2. ~(Pending(n) /\ ~Passive(n))
    BY <1>3, <1>4 DEF Pending, Second, Ended
  <2> QED  BY <1>4, <2>1, <2>2 DEF Answered
<1>6. cd(n) \in Conn /\ fin' = fin \cup {cd(n)} /\ NoData /\ Stored(n)
  BY <1>3, <1>5, ConnType DEF HungUp
<1>7. UNCHANGED <<fdt, disk>>
  BY <1>3 DEF proxyOwn
<1>8. Descriptors' /\ Numbers' /\ Scan'
  <2>1. fin' \subseteq Conn
    BY DEF Inv, ProxyInv, NetOK
  <2> QED  BY <1>3, <1>6, <2>1, PeerScan
<1>9. /\ client'[s].ph = "idle" /\ client'[s].n = n
      /\ \A q \in Session \ {s} : client'[q] = client[q]
  BY <1>2 DEF CliDone, CliState
<1>10. \A q \in Session \ {s} : Same(q)
  BY <1>3, <1>6, <1>9, Distinct DEF Same
<1>11. Between(s)'
  BY <1>3, <1>4, <1>6, <1>7, <1>9 DEF Between, Resting, Quiet, Carried, NoData, NoRelay
<1>12. Serving(s)'
  <2>1. cc(s) # cd(n) /\ sc(s) # cd(n)
    BY Distinct
  <2> QED  BY <1>1, <1>2, <1>3, <1>4, <1>6, <1>7, <1>9, <1>11, <2>1, ServedOn DEF Serving
<1>13. ASSUME NEW q \in Session PROVE Numbered(q)'
  <2>1. Numbered(q) /\ client'[q].n = client[q].n
    BY <1>2, <1>9 DEF Sessions
  <2> QED  BY <1>3, <2>1 DEF Numbered
<1>14. Sessions'
  BY <1>2, <1>10, <1>12, <1>13, ServingStays
<1>15. Past(n)'
  BY <1>3, <1>6, <1>7 DEF Past, Stored, IsGet
<1>16. Transfers'
  <2>1. \A k \in Op : k > nop => Fresh(k) /\ k # n
    BY <1>2 DEF Transfers, Op
  <2>2. \A k \in Op : k > nop => Fresh(k)'
    BY <1>2, <1>3, <1>6, <2>1, Distinct DEF Fresh
  <2> QED  BY <1>2, <1>3, <1>6, <1>7, <1>15, <2>2, TransfersStay
<1>17. Fetches'
  BY <1>3, <1>6, <1>7, NotPending, FetchesStay
<1> QED  BY <1>8, <1>14, <1>16, <1>17 DEF TurnsInv

\* CliStartTurn: the client begins a transfer with PASV or PORT.
LEMMA CliStartTurn ==
    ASSUME Calm, Inv', NEW s \in Session, NEW mode \in Mode, NEW m \in Want,
           CliStart(s, mode, m)
    PROVE  TurnsInv'
<1> USE Calmly
<1>1. client[s].ph = "idle"
  BY DEF CliStart
<1>2. PICK n \in Op : n = nop + 1
  BY NetAssumption DEF CliStart, Op
<1>3. /\ nop' = n /\ client' = [client EXCEPT ![s] = [ph |-> "setup", n |-> n]]
      /\ op' = [op EXCEPT ![n].s = s, ![n].mode = mode, ![n].m = m]
      /\ Tell(cc(s), [t |-> mode, n |-> n, at |-> "client"])
      /\ lsn' = IF mode = "PORT" THEN [lsn EXCEPT !.client = @ \cup {n}] ELSE lsn
      /\ UNCHANGED <<proxyOwn, outq, fin, backlog, est, server, sdisk, fetches>>
  BY <1>2 DEF CliStart
<1>4. Serving(s) /\ NoData /\ Resting(s) /\ ~Live
  BY <1>1, WhoIsServed, StageOf, LiveIs
<1>5. UNCHANGED <<fdt, disk>>
  BY <1>3 DEF proxyOwn
<1>6. /\ client'[s].ph = "setup" /\ client'[s].n = n
      /\ \A q \in Session \ {s} : client'[q] = client[q]
  BY <1>3
<1>7. /\ op'[n].s = s /\ op'[n].mode = mode /\ op'[n].m = m /\ op'[n].reply = op[n].reply
      /\ \A k \in Op \ {n} : op'[k] = op[k]
  BY <1>3 DEF OpState
<1>8. n > nop /\ (\A k \in Op : (k > n => k > nop /\ k # n) /\ (k <= n => k = n \/ k <= nop)
                                /\ (k < n => k # n /\ (k < nop \/ k = nop)))
  BY <1>2 DEF Op
<1>9. Fresh(n) /\ op[n].reply = "none" /\ op[n].m = Junk
  BY <1>8 DEF Transfers
<1>10. \A k \in Op : Fresh(k)' = Fresh(k)
  BY <1>3 DEF Fresh
<1>11. PICK w \in Msg : w = [t |-> mode, n |-> n, at |-> "client"]
  BY PeersAssumption DEF Msg, Address, Host
<1>12. /\ Carried(s, <<w>>, <<>>, <<>>, <<>>)' /\ inq'[cc(s)] # <<>>
       /\ \A c \in Conn \ {cc(s)} : inq'[c] = inq[c]
  <2>1. Append(<<>>, w) = <<w>> /\ <<w>> # <<>>
    BY Short
  <2>2. \A c \in Conn \ {cc(s)} : inq'[c] = inq[c]
    BY <1>3, ConnType, Said
  <2> QED  BY <1>3, <1>4, <1>11, <2>1, <2>2, Conversed, Silent DEF Carried, Resting
<1>13. Descriptors' /\ Numbers' /\ Scan'
  <2>1. fin' \subseteq Conn
    BY DEF Inv, ProxyInv, NetOK
  <2> QED  BY <1>3, <1>12, <2>1, PeerScan
<1>14. \A q \in Session \ {s} : Same(q)
  BY <1>3, <1>6, <1>12, ConnType, Distinct DEF Same
<1>15. Preparing(s, n)'
  <2>1. Expected(n, "client")'
    BY <1>3, <1>7 DEF Expected, NetOK
  <2>2. Setup(s, n)'
    <3>1. Setting(n, "client")' = w
      BY <1>7, <1>11 DEF Setting
    <3> QED  BY <1>3, <1>4, <1>6, <1>12, <3>1 DEF Setup, Resting
  <2>3. NoData'
    BY <1>3, <1>4, <1>5
  <2> QED  BY <1>7, <1>9, <1>10, <2>1, <2>2, <2>3 DEF Preparing
<1>16. Serving(s)'
  BY <1>1, <1>3, <1>4, <1>5, <1>6, <1>15, ServedOn DEF Serving, Resting
<1>17. ASSUME NEW q \in Session PROVE Numbered(q)'
  <2>1. CASE q = s
    BY <1>3, <1>6, <1>7, <2>1 DEF Numbered, Op
  <2>2. CASE q # s
    <3>1. Numbered(q) /\ client'[q].n = client[q].n
      BY <1>6, <2>2 DEF Sessions
    <3>2. \A k \in 1..nop : k \in Op /\ k # n /\ k \in 1..nop'
      BY <1>2, <1>3, NetAssumption DEF Op
    <3> QED  BY <1>7, <3>1, <3>2 DEF Numbered
  <2> QED  BY <2>1, <2>2
<1>18. Sessions'
  BY <1>4, <1>14, <1>16, <1>17, ServingStays
<1>19. Transfers'
  <2> SUFFICES ASSUME NEW k \in Op
      PROVE  /\ k > nop' => Fresh(k)' /\ op'[k].reply = "none" /\ op'[k].m = Junk
             /\ k <= nop' => op'[k].m \in Want
             /\ k < nop' \/ (k = nop' /\ ~Live') => Past(k)'
             /\ ~IsPut(k)' => inq'[cd(k)] = <<>>
             /\ ~IsGet(k)' => inq'[sd(k)] = <<>>
    BY DEF Transfers
  <2>1. k > nop' => Fresh(k)' /\ op'[k].reply = "none" /\ op'[k].m = Junk
    BY <1>3, <1>7, <1>8, <1>10 DEF Transfers
  <2>2. k <= nop' => op'[k].m \in Want
    BY <1>3, <1>7, <1>8 DEF Transfers
  <2>3. Live'
    BY <1>6, <1>16 DEF Live, Serving
  <2>4. k < nop' => Past(k)'
    <3> SUFFICES ASSUME k < nop' PROVE Past(k)'
      OBVIOUS
    <3>1. k # n /\ (k < nop \/ k = nop)
      BY <1>3, <1>8
    <3>2. Past(k)
      BY <1>4, <3>1 DEF Transfers
    <3> QED  BY <1>3, <1>5, <1>7, <3>1, <3>2 DEF Past, Stored, IsGet
  <2>5. inq'[cd(k)] = inq[cd(k)] /\ inq'[sd(k)] = inq[sd(k)]
    BY <1>12, ConnType, Distinct
  <2>6. (~IsPut(k)' => inq'[cd(k)] = <<>>) /\ (~IsGet(k)' => inq'[sd(k)] = <<>>)
    <3>1. CASE k = n
      BY <1>9, <2>5, <3>1, Words DEF Transfers, IsPut, IsGet
    <3>2. CASE k # n
      BY <1>7, <2>5, <3>2 DEF Transfers, IsPut, IsGet
    <3> QED  BY <3>1, <3>2
  <2> QED  BY <2>1, <2>2, <2>3, <2>4, <2>6
<1>20. Fetches'
  BY <1>3, <1>4, <1>5, NotPending, FetchesStay
<1> QED  BY <1>13, <1>18, <1>19, <1>20 DEF TurnsInv

\* NobodyHeld: the proxy has no client when nobody before s is held.
LEMMA NobodyHeld ==
    ASSUME Calm, NEW s \in Session, client[s].ph = "off",
           \A q \in Session : q < s => client[q].ph # "off" /\ ~Held(cc(q))
    PROVE  fdt[4] = Free /\ backlog[CmdPort] = <<>> /\ \A q \in Session : Off(q) \/ Over(q)
<1> USE Calmly
<1>1. ASSUME NEW q \in Session, client[q].ph # "off" PROVE ~Held(cc(q))
  <2>1. q # s /\ ~(s < q)
    BY <1>1 DEF Sessions
  <2>2. q < s
    BY <2>1 DEF Session
  <2> QED  BY <2>2
<1>2. ASSUME NEW q \in Session, Serving(q) PROVE FALSE
  <2>1. fdt[5] = cc(q) /\ 5 \in Fd /\ status = "running"
    BY <1>2, NetAssumption DEF Serving, Pair, Calm, Orderly, Fd, Descriptors
  <2>2. client[q].ph # "off"
    BY <1>2, StageOf
  <2> QED  BY <1>1, <2>1, <2>2 DEF Held
<1>3. ASSUME NEW q \in Session, Queued(q) PROVE FALSE
  <2>1. backlog[CmdPort] = <<cc(q)>> /\ status = "running" /\ client[q].ph # "off"
    BY <1>3 DEF Queued, Descriptors
  <2>2. 1 \in DOMAIN backlog[CmdPort] /\ backlog[CmdPort][1] = cc(q) /\ CmdPort \in Port
    BY <2>1, NumType
  <2> QED  BY <1>1, <2>1, <2>2 DEF Held
<1>4. \A q \in Session : Off(q) \/ Over(q)
  BY <1>2, <1>3 DEF Sessions
<1>5. \A q \in Session : ~Pair(q)
  BY <1>4 DEF Off, Over, Absent, Pair
<1> QED  BY <1>3, <1>4, <1>5 DEF Sessions, Descriptors

\* CliConnectTurn: a client connects to port 21.
LEMMA CliConnectTurn ==
    ASSUME Calm, Inv', NEW s \in Session, CliConnect(s) PROVE TurnsInv'
<1> USE Calmly
<1>1. /\ client[s].ph = "off" /\ client' = [client EXCEPT ![s].ph = "greet"]
      /\ est' = est \cup {cc(s)}
      /\ backlog' = [backlog EXCEPT ![CmdPort] = Append(@, cc(s))]
      /\ UNCHANGED <<proxyOwn, inq, outq, fin, lsn, op, nop, server, sdisk, fetches>>
      /\ \A q \in Session : q < s => client[q].ph # "off" /\ ~Held(cc(q))
  BY DEF CliConnect, Connect, Calm, Orderly
<1>2. fdt[4] = Free /\ backlog[CmdPort] = <<>> /\ \A q \in Session : Off(q) \/ Over(q)
  BY <1>1, NobodyHeld
<1>3. NoData
  BY <1>2 DEF Sessions
<1>4. /\ cc(s) \in Conn /\ CmdPort \in Port /\ backlog \in [Port -> Seq(Conn)]
      /\ \A n \in Op : n \in Port /\ n # CmdPort
  BY ConnType, NumType DEF NetOK
<1>5. backlog'[CmdPort] = <<cc(s)>> /\ \A p \in Port \ {CmdPort} : backlog'[p] = backlog[p]
  BY <1>1, <1>2, <1>4, ShortConn
<1>6. UNCHANGED <<fdt, disk>>
  BY <1>1 DEF proxyOwn
<1>7. /\ client'[s].ph = "greet" /\ client'[s].n = client[s].n
      /\ \A q \in Session \ {s} : client'[q] = client[q]
  BY <1>1 DEF CliState
<1>8. Descriptors' /\ Numbers' /\ Scan'
  <2>1. fin' \subseteq Conn
    BY DEF Inv, ProxyInv, NetOK
  <2>2. \A p \in Port : backlog[p] # <<>> => backlog'[p] # <<>>
    BY <1>2, <1>5
  <2> QED  BY <1>1, <2>1, <2>2, PeerScan
<1>9. \A q \in Session \ {s} : Same(q)
  BY <1>1, <1>7, Distinct DEF Same
<1>10. Queued(s)'
  <2>1. Off(s)
    BY <1>1, <1>2 DEF Over
  <2>2. Quiet(s)'
    BY <1>1, <2>1 DEF Off, Quiet, Carried
  <2>3. cc(s) # sc(s)
    BY Distinct
  <2> QED  BY <1>1, <1>2, <1>5, <1>6, <1>7, <2>1, <2>2, <2>3 DEF Off, Queued
<1>11. ASSUME NEW q \in Session \ {s} PROVE Off(q)' \/ Over(q)'
  <2>1. cc(q) \in Conn /\ sc(q) \in Conn /\ cc(q) # cc(s)
    BY ConnType, Distinct
  <2>2. <<cc(s)>> # <<cc(q)>>
    BY <1>4, <2>1, ShortConn
  <2>3. Absent(q)'
    BY <1>2, <1>5, <1>6, <2>1, <2>2, Kinds DEF Absent
  <2> QED  BY <1>2, <1>9, <2>3, SameStays
<1>12. \A q \in Session : Numbered(q)'
  BY <1>1, <1>7 DEF Sessions, Numbered
<1>13. NoData'
  BY <1>3, <1>4, <1>5, <1>6 DEF NoData, NoRelay
<1>14. \A a, b \in Session : b < a /\ client'[b].ph = "off" => client'[a].ph = "off"
  <2> SUFFICES ASSUME NEW a \in Session, NEW b \in Session, b < a, client'[b].ph = "off"
               PROVE  client'[a].ph = "off"
    OBVIOUS
  <2>1. b # s /\ client[b].ph = "off"
    BY <1>7
  <2>2. a # s
    BY <1>1, <2>1
  <2> QED  BY <1>7, <2>1, <2>2 DEF Sessions
<1>15. Sessions'
  BY <1>10, <1>11, <1>12, <1>13, <1>14 DEF Sessions
<1>16. \A q \in Session : ~Pair(q)
  BY <1>2, ConnType, Kinds DEF Pair
<1>17. Transfers'
  <2>1. \A n \in Op : Fresh(n) => Fresh(n)'
    BY <1>1, Distinct DEF Fresh
  <2>2. \A n \in Op : n > nop => Fresh(n)
    BY DEF Transfers
  <2> QED  BY <1>1, <1>6, <1>16, <2>1, <2>2, TransfersStay DEF Live
<1>18. Fetches'
  BY <1>1, <1>6, <1>16, FetchesStay
<1> QED  BY <1>8, <1>15, <1>17, <1>18 DEF TurnsInv

\* OwnTransfer: the last transfer, while it is under way, is that of the session
\* that is served.
LEMMA OwnTransfer ==
    ASSUME Calm, NEW s \in Session, NEW q \in Session, Serving(q),
           client[q].ph \in {"setup", "ready", "busy"}, client[s].n = nop
    PROVE  s = q
<1> USE Calmly
<1>1. client[q].n = nop /\ nop \in Op
  BY StageOf
<1>2. nop # 0
  BY <1>1 DEF Op
<1>3. op[nop].s = s /\ op[nop].s = q
  BY <1>1, <1>2 DEF Sessions, Numbered
<1> QED  BY <1>3

\* Left: a client that closes has finished its transfers.
LEMMA Left ==
    ASSUME Calm, NEW s \in Session, Leave(s),
           Over(s) \/ (Serving(s) /\ client[s].ph \in {"greet", "idle", "quit"})
    PROVE  fin' = fin \cup {cc(s)}
<1> USE Calmly
<1>1. CASE client[s].n = 0
  BY <1>1 DEF Leave
<1>2. CASE client[s].n # 0
  <2>1. PICK n \in Op : n = client[s].n /\ n <= nop
    BY <1>2, NetAssumption DEF Sessions, Numbered, PeersOK, Op
  <2>2. ASSUME n = nop PROVE ~Live
    <3>1. ASSUME NEW q \in Session, Pair(q), client[q].ph \in {"setup", "ready", "busy"}
          PROVE  FALSE
      <4>1. Serving(q)
        BY <3>1, WhoIsServed
      <4>2. s = q
        BY <2>1, <2>2, <3>1, <4>1, OwnTransfer
      <4> QED  BY <3>1, <4>2 DEF Over
    <3> QED  BY <3>1 DEF Live
  <2>3. n < nop \/ (n = nop /\ ~Live)
    BY <2>1, <2>2 DEF Op
  <2>4. cd(n) \in fin
    BY <2>3 DEF Transfers, Past
  <2> QED  BY <1>2, <2>1, <2>4 DEF Leave
<1> QED  BY <1>1, <1>2

\* CliCloseTurn: the client closes its control connection.
LEMMA CliCloseTurn ==
    ASSUME Calm, Inv', NEW s \in Session, CliClose(s) PROVE TurnsInv'
<1> USE Calmly
<1>1. /\ Leave(s) /\ client[s].ph \notin {"off", "gone"}
      /\ client' = [client EXCEPT ![s].ph = "gone"]
      /\ lsn' = [lsn EXCEPT !.client = @ \ {client[s].n}]
      /\ UNCHANGED <<proxyOwn, inq, outq, backlog, est, op, nop, server, sdisk, fetches>>
      /\ (client[s].ph = "quit" /\ outq[cc(s)] # <<>>) \/ ~Held(cc(s))
  BY DEF CliClose, Leave, Ended
<1>2. /\ client'[s].ph = "gone" /\ client'[s].n = client[s].n
      /\ \A q \in Session \ {s} : client'[q] = client[q]
  BY <1>1 DEF CliState
<1>3. UNCHANGED <<fdt, disk, cache, dport, dfile, cmdbuf, read_fds, pos>>
  BY <1>1 DEF proxyOwn, store, bufs, scan
<1>4. cc(s) \in Conn /\ sc(s) \in Conn /\ cc(s) # sc(s)
  BY ConnType, Distinct
<1>5. CASE Serving(s)
  <2>1. Held(cc(s))
    <3>1. fdt[5] = cc(s) /\ 5 \in Fd /\ status = "running"
      BY <1>5, NetAssumption DEF Serving, Pair, Calm, Orderly, Fd, Descriptors
    <3> QED  BY <3>1 DEF Held
  <2>2. client[s].ph = "quit" /\ outq[cc(s)] # <<>> /\ NoData /\ Quitting(s)
    BY <1>1, <1>5, <2>1, StageOf
  <2>3. server[s].ph = "gone" /\ cmdbuf = Say("QUIT")
        /\ Carried(s, <<>>, <<>>, <<>>, <<Say("221")>>)
    BY <2>2 DEF Quitting, Carried
  <2>4. fin' = fin \cup {cc(s)}
    BY <1>1, <1>5, <2>2, Left
  <2>5. Between(s)'
    <3>1. NoData'
      BY <1>1, <1>3, <2>2
    <3>2. Carried(s, <<>>, <<>>, <<>>, <<Say("221")>>)'
      BY <1>1, <2>3 DEF Carried
    <3> QED  BY <1>1, <1>2, <1>3, <2>3, <3>1, <3>2 DEF Between, Quitting
  <2>6. Serving(s)'
    BY <1>1, <1>2, <1>3, <1>4, <1>5, <2>4, <2>5, ServedOn DEF Serving
  <2> QED  BY <1>1, <1>2, <1>4, <1>5, <2>2, <2>4, <2>6, TalkStep
<1>6. CASE Over(s)
  <2>1. fin' = fin \cup {cc(s)}
    BY <1>1, <1>6, Left
  <2>2. ~Pair(s) /\ ~Serving(s)
    BY <1>6 DEF Over, Absent, Pair, Serving
  <2>3. Descriptors' /\ Numbers' /\ Scan'
    <3>1. fin' \subseteq Conn
      BY DEF Inv, ProxyInv, NetOK
    <3> QED  BY <1>1, <2>1, <3>1, PeerScan
  <2>4. \A q \in Session \ {s} : Same(q)
    BY <1>1, <1>2, <2>1, Distinct DEF Same
  <2>5. Over(s)'
    BY <1>1, <1>2, <1>3, <1>6 DEF Over, Absent
  <2>6. \A n \in Op : (cd(n) \in fin' <=> cd(n) \in fin) /\ (sd(n) \in fin' <=> sd(n) \in fin)
    BY <2>1, Distinct
  <2>7. ASSUME NEW q \in Session, Serving(q), NEW n \in Op, n = nop, client[q].n = n,
               client[q].ph \in {"setup", "ready", "busy"}
        PROVE  DataSame(n)
    <3>1. client[s].n # n
      BY <2>2, <2>7, OwnTransfer
    <3>2. \A h \in {"client", "server"} : n \in lsn[h] => n \in lsn'[h]
      BY <1>1, <3>1 DEF NetOK
    <3> QED  BY <1>1, <1>3, <2>6, <3>2 DEF DataSame
  <2>8. ASSUME NEW q \in Session, Serving(q) PROVE Serving(q)'
    <3>1. q # s
      BY <2>2, <2>8
    <3>2. Same(q) /\ server' = server
      BY <1>1, <2>4, <3>1
    <3>3. \A n \in Op : n = nop /\ client[q].n = n
                        /\ client[q].ph \in {"setup", "ready", "busy"} =>
              DataSame(n) /\ op'[n].reply = op[n].reply
      BY <1>1, <2>7, <2>8
    <3>4. \A n \in Op : Asked(q, n) =>
            (6 \in read_fds' /\ pos'[1] < 6 => 5 \in read_fds' /\ pos'[1] < 5)
      BY <1>3 DEF Asked
    <3>5. UNCHANGED <<fdt, backlog, est, cmdbuf, dport, dfile, fetches, nop>>
      BY <1>1, <1>3
    <3>6. cc(q) \in fin' <=> cc(q) \in fin
      BY <3>2 DEF Same
    <3>7. sc(q) \in fin' <=> sc(q) \in fin
      BY <3>2 DEF Same
    <3> QED  BY <2>8, <3>2, <3>3, <3>4, <3>5, <3>6, <3>7, ServingKept DEF Same
  <2>9. \A q \in Session : Numbered(q)' /\ (client'[q].ph = "off" <=> client[q].ph = "off")
    BY <1>1, <1>2 DEF Sessions, Numbered
  <2>10. Sessions'
    BY <1>1, <1>3, <1>6, <2>4, <2>5, <2>8, <2>9, SessionsAside
  <2>11. Transfers'
    <3>1. Live => Live'
      BY <1>2, <1>3, <2>2 DEF Live, Pair
    <3>2. \A n \in Op : n > nop => Fresh(n)'
      BY <1>1, <2>6 DEF Fresh, Transfers
    <3> QED  BY <1>1, <1>3, <2>1, <3>1, <3>2, TransfersStay
  <2>12. Fetches'
    <3> SUFFICES ASSUME NEW q \in Session, NEW n \in Op, Pair(q), client[q].ph = "busy",
                        n = nop, Pending(n), ~Passive(n), IsGet(n)
                 PROVE  /\ Pair(q)' /\ client'[q].ph = "busy" /\ n = nop' /\ Pending(n)'
                        /\ ~Passive(n)' /\ IsGet(n)' /\ op'[n].m.f = op[n].m.f
      BY <1>1, <1>3, FetchesStay
    <3>1. Serving(q) /\ q # s
      BY <2>2, WhoIsServed
    <3>2. client[q].n = n
      BY <3>1, StageOf
    <3>3. DataSame(n)
      BY <2>7, <3>1, <3>2
    <3>4. Pending(n)' /\ ~Passive(n)' /\ IsGet(n)'
      BY <3>3, DataStays
    <3> QED  BY <1>1, <1>2, <1>3, <3>1, <3>4 DEF Pair
  <2> QED  BY <2>3, <2>10, <2>11, <2>12 DEF TurnsInv
<1>7. ~Queued(s)
  <2> SUFFICES ASSUME Queued(s) PROVE FALSE
    OBVIOUS
  <2>1. backlog[CmdPort] = <<cc(s)>> /\ status = "running" /\ client[s].ph # "quit"
    BY DEF Queued, Descriptors
  <2>2. 1 \in DOMAIN backlog[CmdPort] /\ backlog[CmdPort][1] = cc(s) /\ CmdPort \in Port
    BY <2>1, NumType
  <2> QED  BY <1>1, <2>1, <2>2 DEF Held
<1> QED  BY <1>1, <1>5, <1>6, <1>7 DEF Sessions, Off

\* CliStepTurn: any step of a client on its control connection.
LEMMA CliStepTurn ==
    ASSUME Calm, Inv', NEW s \in Session, CliStep(s) PROVE TurnsInv'
<1>1. ~CliAbort(s)
  BY DEF CliAbort, Calm, Orderly
<1> QED  BY <1>1, CliConnectTurn, CliGreetedTurn, CliReadyTurn, CliCommandTurn,
            CliDialTurn, CliReplyTurn, CliDoneTurn, CliQuitTurn, CliCloseTurn,
            CliStartTurn DEF CliStep

\* CliDataTurn: any step of a client on a data connection.
LEMMA CliDataTurn ==
    ASSUME Calm, Inv', NEW n \in Op, CliData(n) PROVE TurnsInv'
BY CliGetTurn, CliPutTurn, CliPutEndTurn DEF CliData

-----------------------------------------------------------------------------
(***************************************************************************)
(* The server.                                                             *)
(***************************************************************************)

\* SrvWord: what the server does with the next command, and in which session.
LEMMA SrvWord ==
    ASSUME Calm, NEW s \in Session, NEW t, NEW reply, NEW st, SrvHear(s, t, reply, st)
    PROVE  /\ Serving(s) /\ server[s].ph = "idle" /\ server'[s] = st
           /\ \A q \in Session \ {s} : server'[q] = server[q]
           /\ outq[sc(s)] # <<>> /\ Head(outq[sc(s)]).t = t
           /\ outq'[sc(s)] = Tail(outq[sc(s)]) /\ outq'[cc(s)] = outq[cc(s)]
           /\ \A c \in Conn \ {cc(s), sc(s)} : outq'[c] = outq[c]
           /\ reply = <<>> => inq' = inq
           /\ reply # <<>> => Tell(sc(s), Head(reply))
<1> USE Calmly
<1>1. server[s].ph = "idle" /\ Hear(sc(s)) /\ server' = [server EXCEPT ![s] = st]
  BY DEF SrvHear
<1>2. Serving(s)
  BY <1>1, WhoIsServed
<1> QED  BY <1>1, <1>2, Conversed DEF SrvHear

\* Commanded: the command that waits for the server, by the stage.
LEMMA Commanded ==
    ASSUME Calm, NEW s \in Session, Serving(s), server[s].ph = "idle", outq[sc(s)] # <<>>
    PROVE  \/ /\ NoData /\ client[s].ph = "quit" /\ cmdbuf = Say("QUIT")
              /\ Carried(s, <<>>, <<Say("QUIT")>>, <<>>, <<>>)
           \/ \E n \in Op, h \in Host :
                /\ n = nop /\ client[s].n = n /\ Preparing(s, n) /\ client[s].ph = "setup"
                /\ Carried(s, <<>>, <<Setting(n, h)>>, <<>>, <<>>)
                /\ ~Passive(n) => Armed(n)
           \/ \E n \in Op :
                /\ n = nop /\ client[s].n = n /\ Busy(s, n) /\ Sent(s, n)
                /\ Carried(s, <<>>, <<op[n].m>>, <<>>, <<>>)
<1>1. CASE NoData /\ (Greeting(s) \/ Resting(s) \/ Quitting(s))
  BY <1>1, Silent DEF Greeting, Resting, Quitting, Carried
<1>2. ASSUME NEW n \in Op, n = nop, client[s].n = n, Preparing(s, n)
      PROVE  \E h \in Host : /\ client[s].ph = "setup"
                             /\ Carried(s, <<>>, <<Setting(n, h)>>, <<>>, <<>>)
                             /\ ~Passive(n) => Armed(n)
  BY <1>2, Silent DEF Preparing, Prepared, Setup, Carried
<1>3. ASSUME NEW n \in Op, n = nop, client[s].n = n, Busy(s, n)
      PROVE  Sent(s, n) /\ Carried(s, <<>>, <<op[n].m>>, <<>>, <<>>)
  BY <1>3, Silent DEF Busy, Asked, Sent, Moving, Answered, Answering, Hidden, Carried
<1> QED  BY <1>1, <1>2, <1>3 DEF Serving, Between

\* SrvGreetTurn: the server greets.
LEMMA SrvGreetTurn ==
    ASSUME Calm, Inv', NEW s \in Session, SrvGreet(s) PROVE TurnsInv'
<1> USE Calmly
<1>1. server[s].ph = "off" /\ sc(s) \in est /\ Tell(sc(s), Say("220"))
  BY DEF SrvGreet
<1>2. UNCHANGED <<proxyOwn, outq, fin, backlog, est, lsn, client, op, nop, sdisk, fetches>>
  BY DEF SrvGreet, remote
<1>3. Serving(s)
  BY <1>1 DEF Sessions, Off, Queued, Over
<1>4. client[s].ph = "greet" /\ NoData /\ Quiet(s)
  BY <1>1, <1>3 DEF Serving, Between, Greeting, Resting, Quitting, Preparing, Setup, Prepared,
                    Busy, Asked, Sent, Moving, Answered, Hidden
<1>5. /\ Carried(s, <<>>, <<>>, <<Say("220")>>, <<>>)' /\ inq'[sc(s)] # <<>>
      /\ inq'[cc(s)] = inq[cc(s)] /\ \A c \in Conn \ {cc(s), sc(s)} : inq'[c] = inq[c]
  <2>1. <<Say("220")>> # <<>>
    BY Short, SayType
  <2> QED  BY <1>1, <1>2, <1>4, <2>1, Conversed, Singles, Silent DEF Carried
<1>6. server'[s].ph = "idle" /\ \A q \in Session \ {s} : server'[q] = server[q]
  BY DEF SrvGreet, SrvState
<1>7. Between(s)'
  BY <1>2, <1>4, <1>5, <1>6 DEF Between, Greeting, proxyOwn
<1>8. Serving(s)'
  BY <1>1, <1>2, <1>3, <1>4, <1>6, <1>7, ServedOn DEF proxyOwn, Serving
<1> QED  BY <1>2, <1>3, <1>4, <1>5, <1>6, <1>8, TalkStep

\* SrvSetupTurn: the server answers PASV or PORT.
LEMMA SrvSetupTurn ==
    ASSUME Calm, Inv', NEW s \in Session, SrvSetup(s) PROVE TurnsInv'
<1> USE Calmly
<1>1. UNCHANGED <<proxyOwn, fin, backlog, est, client, op, nop, sdisk, fetches>>
  BY DEF SrvSetup
<1>2. PICK m : m = Head(outq[sc(s)])
  OBVIOUS
<1>3. \/ /\ SrvHear(s, "PASV", <<[t |-> "227", n |-> m.n, at |-> "server"]>>,
                    [server[s] EXCEPT !.mode = "PASV", !.n = m.n])
         /\ lsn' = [lsn EXCEPT !.server = (@ \ (Op \cap {server[s].n})) \cup {m.n}]
      \/ /\ SrvHear(s, "PORT", <<Say("200")>>,
                    [server[s] EXCEPT !.mode = "PORT", !.n = m.n])
         /\ lsn' = lsn
  BY <1>2 DEF SrvSetup
<1>4. /\ Serving(s) /\ server[s].ph = "idle" /\ outq[sc(s)] # <<>>
      /\ m.t \in {"PASV", "PORT"}
      /\ outq'[sc(s)] = Tail(outq[sc(s)]) /\ outq'[cc(s)] = outq[cc(s)]
      /\ \A c \in Conn \ {cc(s), sc(s)} : outq'[c] = outq[c]
      /\ \A q \in Session \ {s} : server'[q] = server[q]
  BY <1>2, <1>3, SrvWord
<1>5. PICK n \in Op, h \in Host :
         /\ n = nop /\ client[s].n = n /\ Preparing(s, n) /\ client[s].ph = "setup"
         /\ Carried(s, <<>>, <<Setting(n, h)>>, <<>>, <<>>)
         /\ ~Passive(n) => Armed(n)
  <2>1. ~Carried(s, <<>>, <<Say("QUIT")>>, <<>>, <<>>)
    BY <1>2, <1>4, Singles, Words DEF Carried
  <2>2. ASSUME NEW n \in Op, n = nop, Carried(s, <<>>, <<op[n].m>>, <<>>, <<>>) PROVE FALSE
    <3>1. PICK w \in Msg : w = op[n].m /\ w.t \in {"RETR", "STOR"}
      BY <2>2, Kind DEF IsGet, IsPut
    <3>2. Head(<<w>>) = w
      BY Short
    <3> QED  BY <1>2, <1>4, <2>2, <3>1, <3>2 DEF Carried
  <2> QED  BY <1>4, <2>1, <2>2, Commanded
<1>6. m = Setting(n, h) /\ m \in Msg /\ outq'[sc(s)] = <<>>
  <2>1. PICK w \in Msg : w = Setting(n, h)
    BY <1>5, Kind, Words
  <2>2. Head(<<w>>) = w /\ Tail(<<w>>) = <<>>
    BY Short
  <2> QED  BY <1>2, <1>4, <1>5, <2>1, <2>2 DEF Carried
<1>7. m.t = op[n].mode /\ m.n = n
  BY <1>6, Words
<1>8. DOMAIN lsn = {"client", "server"} /\ server[s] \in SrvState
  BY DEF NetOK
<1>9. NoData' /\ Fresh(n)' /\ op'[n].reply = "none" /\ Expected(n, "client")'
      /\ client'[s].ph = "setup" /\ client'[s].n = n
  <2>1. lsn'.client = lsn.client
    BY <1>3, <1>8
  <2> QED  BY <1>1, <1>5, <2>1 DEF Preparing, NoData, NoRelay, Fresh, Expected, proxyOwn
<1>10. Preparing(s, n)' /\ inq'[cc(s)] = inq[cc(s)] /\ server'[s].ph = "idle"
       /\ \A c \in Conn \ {cc(s), sc(s)} : inq'[c] = inq[c]
  <2>1. CASE /\ SrvHear(s, "PASV", <<[t |-> "227", n |-> m.n, at |-> "server"]>>,
                        [server[s] EXCEPT !.mode = "PASV", !.n = m.n])
             /\ lsn' = [lsn EXCEPT !.server = (@ \ (Op \cap {server[s].n})) \cup {m.n}]
    <3>1. PICK a \in Msg : a = Agreed(n, "server")
      BY Words DEF Host
    <3>2. <<a>> # <<>> /\ Head(<<a>>) = a /\ Append(<<>>, a) = <<a>>
      BY Short
    <3>3. [t |-> "227", n |-> m.n, at |-> "server"] = a
      BY <1>7, <3>1 DEF Agreed
    <3>4. Tell(sc(s), a) /\ m.t = "PASV"
      BY <1>2, <2>1, <3>2, <3>3, SrvWord
    <3>5. /\ inq'[sc(s)] = Append(inq[sc(s)], a) /\ inq'[cc(s)] = inq[cc(s)]
          /\ \A c \in Conn \ {cc(s), sc(s)} : inq'[c] = inq[c]
      BY <3>4, Conversed
    <3>6. /\ server'[s].n = n /\ server'[s].mode = "PASV" /\ server'[s].ph = "idle"
      <4>1. server'[s] = [server[s] EXCEPT !.mode = "PASV", !.n = m.n]
        BY <2>1 DEF SrvHear
      <4> QED  BY <1>4, <1>7, <1>8, <4>1 DEF SrvState
    <3>7. n \in lsn'.server
      BY <1>7, <1>8, <2>1
    <3>8. Told(s, n)' /\ Passive(n)' /\ Agreed(n, "server")' = a
      BY <1>1, <1>7, <3>1, <3>4, <3>6 DEF Told, Passive, Agreed
    <3>9. Carried(s, <<>>, <<>>, <<a>>, <<>>)'
      BY <1>4, <1>5, <1>6, <3>2, <3>5 DEF Carried
    <3>10. Setup(s, n)'
      BY <1>9, <3>6, <3>7, <3>8, <3>9 DEF Setup
    <3> QED  BY <1>9, <3>5, <3>6, <3>10 DEF Preparing
  <2>2. CASE /\ SrvHear(s, "PORT", <<Say("200")>>,
                        [server[s] EXCEPT !.mode = "PORT", !.n = m.n])
             /\ lsn' = lsn
    <3>1. Tell(sc(s), Say("200")) /\ m.t = "PORT"
      <4>1. <<Say("200")>> # <<>>
        BY Short, SayType
      <4>2. Head(<<Say("200")>>) = Say("200")
        BY Singles
      <4>3. Tell(sc(s), Head(<<Say("200")>>)) /\ m.t = "PORT"
        BY <1>2, <2>2, <4>1, SrvWord
      <4> QED  BY <4>2, <4>3
    <3>2. /\ inq'[sc(s)] = Append(inq[sc(s)], Say("200")) /\ inq'[cc(s)] = inq[cc(s)]
          /\ \A c \in Conn \ {cc(s), sc(s)} : inq'[c] = inq[c]
      BY <3>1, Conversed
    <3>3. /\ server'[s].n = n /\ server'[s].mode = "PORT" /\ server'[s].ph = "idle"
      <4>1. server'[s] = [server[s] EXCEPT !.mode = "PORT", !.n = m.n]
        BY <2>2 DEF SrvHear
      <4> QED  BY <1>4, <1>7, <1>8, <4>1 DEF SrvState
    <3>4. Told(s, n)' /\ ~Passive(n)'
      BY <1>1, <1>7, <3>1, <3>3 DEF Told, Passive
    <3>5. Armed(n)'
      BY <1>1, <1>5, <1>7, <3>1 DEF Armed, Passive, proxyOwn, dport
    <3>6. Carried(s, <<>>, <<>>, <<Say("200")>>, <<>>)'
      BY <1>4, <1>5, <1>6, <3>2, Singles DEF Carried
    <3>7. Setup(s, n)'
      BY <1>9, <3>3, <3>4, <3>5, <3>6 DEF Setup
    <3> QED  BY <1>9, <3>2, <3>3, <3>7 DEF Preparing
  <2> QED  BY <1>3, <2>1, <2>2
<1>11. Serving(s)'
  BY <1>1, <1>4, <1>5, <1>9, <1>10, ServedOn DEF proxyOwn, Serving
<1>12. inq[sc(s)] = <<>>
  BY <1>5 DEF Carried
<1> QED  BY <1>1, <1>4, <1>5, <1>9, <1>10, <1>11, <1>12, TalkStep

\* SrvCommandTurn: the server reads RETR or STOR.
LEMMA SrvCommandTurn ==
    ASSUME Calm, Inv', NEW s \in Session, SrvCommand(s) PROVE TurnsInv'
<1> USE Calmly
<1>1. UNCHANGED <<proxyOwn, fin, backlog, est, lsn, client, op, nop, sdisk, fetches>>
  BY DEF SrvCommand, remote
<1>2. PICK m, o : m = Head(outq[sc(s)])
                  /\ o = [server[s] EXCEPT !.ph = "open", !.m = m, !.k = 0, !.got = <<>>]
  OBVIOUS
<1>3. \/ SrvHear(s, "LIST", <<>>, o)
      \/ SrvHear(s, "STOR", <<>>, o)
      \/ SrvHear(s, "RETR", <<>>, o)
      \/ SrvHear(s, "RETR", <<Say("550")>>, server[s]) /\ m.f \notin DOMAIN sdisk
  BY <1>2 DEF SrvCommand
<1>4. /\ Serving(s) /\ server[s].ph = "idle" /\ outq[sc(s)] # <<>>
      /\ m.t \in {"LIST", "STOR", "RETR"}
      /\ outq'[sc(s)] = Tail(outq[sc(s)]) /\ outq'[cc(s)] = outq[cc(s)]
      /\ \A c \in Conn \ {cc(s), sc(s)} : outq'[c] = outq[c]
      /\ \A q \in Session \ {s} : server'[q] = server[q]
  BY <1>2, <1>3, SrvWord
<1>5. PICK n \in Op :
         /\ n = nop /\ client[s].n = n /\ Busy(s, n) /\ Sent(s, n)
         /\ Carried(s, <<>>, <<op[n].m>>, <<>>, <<>>)
  <2>1. ~Carried(s, <<>>, <<Say("QUIT")>>, <<>>, <<>>)
    BY <1>2, <1>4, Singles, Words DEF Carried
  <2>2. ASSUME NEW n \in Op, NEW h \in Host, n = nop,
               Carried(s, <<>>, <<Setting(n, h)>>, <<>>, <<>>) PROVE FALSE
    <3>1. PICK w \in Msg : w = Setting(n, h) /\ w.t \in {"PORT", "PASV"}
      BY <2>2, Kind, Words
    <3>2. Head(<<w>>) = w
      BY Short
    <3> QED  BY <1>2, <1>4, <2>2, <3>1, <3>2 DEF Carried
  <2> QED  BY <1>4, <2>1, <2>2, Commanded
<1>6. m = op[n].m /\ outq'[sc(s)] = <<>>
  <2>1. PICK w \in Msg : w = op[n].m
    BY <1>5, Kind
  <2>2. Head(<<w>>) = w /\ Tail(<<w>>) = <<>>
    BY Short
  <2> QED  BY <1>2, <1>4, <1>5, <2>1, <2>2 DEF Carried
<1>7. inq' = inq /\ server'[s] = o
  <2>1. ~(SrvHear(s, "RETR", <<Say("550")>>, server[s]) /\ m.f \notin DOMAIN sdisk)
    <3> SUFFICES ASSUME SrvHear(s, "RETR", <<Say("550")>>, server[s]) PROVE m.f \in DOMAIN sdisk
      OBVIOUS
    <3>1. m.t = "RETR"
      BY <1>2, SrvWord
    <3>2. m.f \in OnServer
      BY <1>5, <1>6, <3>1, Kind DEF IsGet
    <3> QED  BY <3>2 DEF Fetches
  <2> QED  BY <1>3, <2>1, SrvWord
<1>8. server'[s].ph = "open" /\ server'[s].m = op[n].m /\ server'[s].n = server[s].n
      /\ server'[s].mode = server[s].mode
  <2>1. server[s] \in SrvState
    OBVIOUS
  <2> QED  BY <1>2, <1>6, <1>7, <2>1 DEF SrvState
<1>9. DataSame(n)
  BY <1>1 DEF DataSame, proxyOwn, store
<1>10. Busy(s, n)'
  <2>1. Told(s, n)' /\ Armed(n)' /\ (Known(n) => Known(n)') /\ Quiet(s)'
    BY <1>1, <1>4, <1>5, <1>6, <1>7, <1>8 DEF Busy, Told, Armed, Known, IsGet, Quiet, Carried,
       proxyOwn, dport, dfile
  <2>2. /\ Missing(n) => Missing(n)'
        /\ Unopened(n) => Unopened(n)'
        /\ Pending(n) => Pending(n)'
        /\ Late(n) => Late(n)'
        /\ Passive(n)' = Passive(n) /\ IsGet(n)' = IsGet(n)
    BY <1>9, DataStays
  <2>3. Sent(s, n)'
    BY <1>1, <1>5, <1>8, <2>1, <2>2 DEF Sent
  <2> QED  BY <1>1, <1>5, <2>1, <2>3 DEF Busy
<1>11. Serving(s)'
  BY <1>1, <1>4, <1>5, <1>8, <1>10, ServedOn DEF proxyOwn, Serving
<1> QED  BY <1>1, <1>4, <1>5, <1>7, <1>11, TalkStep

\* Opening: only a session whose command the server has read is at "open".
LEMMA Opening ==
    ASSUME Calm, NEW s \in Session, server[s].ph \in {"open", "send", "recv"}
    PROVE  /\ Serving(s) /\ client[s].ph = "busy"
           /\ \E n \in Op : /\ n = nop /\ client[s].n = n /\ Busy(s, n) /\ server[s].n = n
                            /\ server[s].mode = op[n].mode /\ server[s].m = op[n].m
                            /\ server[s].ph = "open" => Sent(s, n) /\ Quiet(s)
                            /\ server[s].ph # "open" => Moving(s, n)
<1> USE Calmly
<1>1. Serving(s)
  BY WhoIsServed
<1>2. ~Between(s)
  BY DEF Between, Greeting, Resting, Quitting
<1>3. PICK n \in Op : n = nop /\ client[s].n = n /\ (Preparing(s, n) \/ Busy(s, n))
  BY <1>1, <1>2 DEF Serving
<1>4. Busy(s, n)
  BY <1>3 DEF Preparing, Setup, Prepared
<1>5. Sent(s, n) \/ Moving(s, n)
  BY <1>4 DEF Busy, Asked, Answered, Hidden
<1>6. /\ server[s].m = op[n].m
      /\ server[s].ph = "open" => Sent(s, n) /\ Quiet(s)
      /\ server[s].ph # "open" => Moving(s, n)
  BY <1>5 DEF Sent, Moving
<1> QED  BY <1>1, <1>3, <1>4, <1>6 DEF Busy, Told

\* SrvSendTurn: the server sends a block of a download.
LEMMA SrvSendTurn ==
    ASSUME Calm, Inv', NEW s \in Session, SrvSend(s) PROVE TurnsInv'
<1> USE Calmly
<1>1. UNCHANGED <<proxyOwn, outq, fin, backlog, est, lsn, client, op, nop, sdisk, fetches>>
      /\ server[s].ph = "send" /\ server' = [server EXCEPT ![s].k = @ + 1]
  BY DEF SrvSend, remote
<1>2. PICK n \in Op : n = nop /\ server[s].n = n /\ Moving(s, n)
  BY <1>1, Opening
<1>3. IsGet(n)
  BY <1>1, <1>2, Kind DEF Moving
<1>4. PICK m : Tell(sd(n), m)
  BY <1>2 DEF SrvSend
<1>5. \A q \in Session : /\ server'[q].ph = server[q].ph /\ server'[q].n = server[q].n
                         /\ server'[q].mode = server[q].mode /\ server'[q].m = server[q].m
  BY <1>1 DEF SrvState
<1>6. sd(n) \in Conn /\ inq'[sd(n)] = Append(inq[sd(n)], m)
      /\ \A c \in Conn \ {sd(n)} : inq'[c] = inq[c]
  BY <1>4, ConnType, Said
<1>7. \A q \in Session : Same(q)
  BY <1>1, <1>5, <1>6, ConnType, Distinct DEF Same
<1>8. \A k \in Op : DataSame(k)
  BY <1>1 DEF DataSame, proxyOwn, store
<1>9. inq'[sd(n)] # <<>>
  <2>1. inq[sd(n)] \in Seq(Msg) /\ inq'[sd(n)] \in Seq(Msg)
    BY <1>6 DEF Inv, ProxyInv, NetOK
  <2>2. Len(inq'[sd(n)]) = Len(inq[sd(n)]) + 1 /\ Len(inq[sd(n)]) \in Nat
    BY <1>6, <2>1
  <2>3. Len(<<>>) = 0
    OBVIOUS
  <2> QED  BY <2>2, <2>3
<1>10. \A k \in Op : /\ inq'[cd(k)] = inq[cd(k)]
                     /\ inq[sd(k)] = <<>> /\ ~IsGet(k) => inq'[sd(k)] = <<>>
  BY <1>3, <1>6, ConnType, Distinct
<1> QED  BY <1>1, <1>5, <1>6, <1>7, <1>8, <1>9, <1>10, AsideStep

\* SrvRecvTurn: the server takes a block of an upload.
LEMMA SrvRecvTurn ==
    ASSUME Calm, Inv', NEW s \in Session, SrvRecv(s) PROVE TurnsInv'
<1> USE Calmly
<1>1. UNCHANGED <<proxyOwn, inq, fin, backlog, est, lsn, client, op, nop, sdisk, fetches>>
      /\ server[s].ph = "recv" /\ Hear(sd(server[s].n))
  BY DEF SrvRecv, remote
<1>2. PICK n \in Op : n = server[s].n
  BY <1>1, Opening
<1>3. \A q \in Session : /\ server'[q].ph = server[q].ph /\ server'[q].n = server[q].n
                         /\ server'[q].mode = server[q].mode /\ server'[q].m = server[q].m
  BY DEF SrvRecv, SrvState
<1>4. \A q \in Session : Same(q)
  <2> TAKE q \in Session
  <2>1. outq'[cc(q)] = outq[cc(q)] /\ outq'[sc(q)] = outq[sc(q)]
    BY <1>1, <1>2, ConnType, Distinct, Heard
  <2> QED  BY <1>1, <1>3, <2>1 DEF Same
<1>5. \A k \in Op : DataSame(k)
  BY <1>1 DEF DataSame, proxyOwn, store
<1> QED  BY <1>1, <1>3, <1>4, <1>5, AsideStep

\* SrvQuitTurn: the server answers QUIT and closes.
LEMMA SrvQuitTurn ==
    ASSUME Calm, Inv', NEW s \in Session, SrvQuit(s) PROVE TurnsInv'
<1> USE Calmly
<1>1. UNCHANGED <<proxyOwn, backlog, est, lsn, client, op, nop, sdisk, fetches>>
      /\ fin' = fin \cup {sc(s)}
  BY DEF SrvQuit, remote
<1>2. SrvHear(s, "QUIT", <<Say("221")>>, [server[s] EXCEPT !.ph = "gone"])
  BY DEF SrvQuit
<1>3. /\ Serving(s) /\ server[s].ph = "idle" /\ outq[sc(s)] # <<>>
      /\ Head(outq[sc(s)]).t = "QUIT"
      /\ outq'[sc(s)] = Tail(outq[sc(s)]) /\ outq'[cc(s)] = outq[cc(s)]
      /\ \A c \in Conn \ {cc(s), sc(s)} : outq'[c] = outq[c]
      /\ \A q \in Session \ {s} : server'[q] = server[q]
      /\ server'[s] = [server[s] EXCEPT !.ph = "gone"]
  BY <1>2, SrvWord
<1>4. NoData /\ client[s].ph = "quit" /\ cmdbuf = Say("QUIT")
      /\ Carried(s, <<>>, <<Say("QUIT")>>, <<>>, <<>>)
  <2>1. ASSUME NEW n \in Op, n = nop, Carried(s, <<>>, <<op[n].m>>, <<>>, <<>>) PROVE FALSE
    <3>1. PICK w \in Msg : w = op[n].m /\ w.t \in {"RETR", "STOR"}
      BY <2>1, Kind DEF IsGet, IsPut
    <3>2. Head(<<w>>) = w
      BY Short
    <3> QED  BY <1>3, <2>1, <3>1, <3>2 DEF Carried
  <2>2. ASSUME NEW n \in Op, NEW h \in Host, n = nop,
               Carried(s, <<>>, <<Setting(n, h)>>, <<>>, <<>>) PROVE FALSE
    <3>1. PICK w \in Msg : w = Setting(n, h) /\ w.t \in {"PORT", "PASV"}
      BY <2>2, Kind, Words
    <3>2. Head(<<w>>) = w
      BY Short
    <3> QED  BY <1>3, <2>2, <3>1, <3>2 DEF Carried
  <2> QED  BY <1>3, <2>1, <2>2, Commanded
<1>5. Tell(sc(s), Say("221"))
  <2>1. <<Say("221")>> # <<>>
    BY Short, SayType
  <2>2. Head(<<Say("221")>>) = Say("221")
    BY Singles
  <2>3. Tell(sc(s), Head(<<Say("221")>>))
    BY <1>2, <2>1, SrvWord
  <2> QED  BY <2>2, <2>3
<1>6. /\ Carried(s, <<>>, <<>>, <<Say("221")>>, <<>>)' /\ inq[sc(s)] = <<>>
      /\ inq'[cc(s)] = inq[cc(s)] /\ \A c \in Conn \ {cc(s), sc(s)} : inq'[c] = inq[c]
  BY <1>3, <1>4, <1>5, Conversed, Singles DEF Carried
<1>7. server'[s].ph = "gone"
  BY <1>3 DEF SrvState
<1>8. Between(s)'
  BY <1>1, <1>4, <1>6, <1>7 DEF Between, Quitting, proxyOwn, bufs
<1>9. cc(s) # sc(s) /\ sc(s) \in Conn
  BY Distinct, ConnType
<1>10. Serving(s)'
  BY <1>1, <1>3, <1>4, <1>7, <1>8, <1>9, ServedOn DEF proxyOwn, Serving
<1> QED  BY <1>1, <1>3, <1>4, <1>6, <1>9, <1>10, TalkStep

\* SrvHangupNever: the server keeps a connection that the proxy keeps.
LEMMA SrvHangupNever ==
    ASSUME Calm, NEW s \in Session, SrvHangup(s) PROVE FALSE
<1> USE Calmly
<1>1. Serving(s)
  BY WhoIsServed DEF SrvHangup
<1>2. fdt[4] = sc(s) /\ 4 \in Fd /\ status = "running"
  BY <1>1, NetAssumption DEF Serving, Pair, Calm, Orderly, Fd, Descriptors
<1> QED  BY <1>2 DEF SrvHangup, Held

\* Counted: what SrvOpen adds to the count of the files sent.
LEMMA Counted ==
    ASSUME Calm, NEW s \in Session, NEW n \in Op, n = nop, Serving(s), client[s].ph = "busy",
           Serving(s)', client'[s].ph = "busy", nop' = nop, disk' = disk, sdisk' = sdisk,
           op'[n].m = op[n].m, op'[n].mode = op[n].mode, Sent(s, n),
           fetches' = IF IsGet(n) THEN [fetches EXCEPT ![op[n].m.f] = @ + 1] ELSE fetches,
           Stored(n) \/ (Pending(n)' /\ ~Passive(n)),
           Passive(n) \/ ~Pending(n)
    PROVE  Fetches'
<1> USE Calmly
<1>1. fetches \in [File -> Nat] /\ Cacheable \subseteq File /\ op[n].m.f \in File
  BY Kind, NetAssumption DEF PeersOK
<1>2. IsGet(n)' = IsGet(n) /\ Passive(n)' = Passive(n)
  BY DEF IsGet, Passive
<1> SUFFICES ASSUME NEW f \in Cacheable
    PROVE  /\ fetches'[f] <= 1
           /\ \/ f \in DOMAIN disk' \/ fetches'[f] = 0
              \/ \E q \in Session, k \in Op :
                  /\ Pair(q)' /\ client'[q].ph = "busy" /\ k = nop'
                  /\ Pending(k)' /\ ~Passive(k)' /\ IsGet(k)' /\ op'[k].m.f = f
  BY DEF Fetches
<1>3. CASE IsGet(n) /\ f = op[n].m.f
  <2>1. fetches[f] = 0 /\ fetches'[f] = 1
    BY <1>1, <1>3 DEF Sent
  <2>2. CASE Stored(n)
    BY <1>3, <2>1, <2>2 DEF Stored
  <2>3. CASE Pending(n)' /\ ~Passive(n)
    <3>1. Pair(s)'
      BY DEF Serving
    <3>2. Pair(s)' /\ client'[s].ph = "busy" /\ n = nop' /\ Pending(n)' /\ ~Passive(n)'
          /\ IsGet(n)' /\ op'[n].m.f = f
      BY <1>2, <1>3, <2>3, <3>1
    <3> QED  BY <2>1, <3>2
  <2> QED  BY <2>2, <2>3
<1>4. CASE ~(IsGet(n) /\ f = op[n].m.f)
  <2>1. fetches'[f] = fetches[f] /\ fetches[f] <= 1
    BY <1>1, <1>4 DEF Fetches
  <2>2. f \in DOMAIN disk \/ fetches[f] = 0
    BY <1>4 DEF Fetches
  <2> QED  BY <2>1, <2>2
<1> QED  BY <1>3, <1>4

\* SrvOpenTurn: the server opens the file and sends 150.
LEMMA SrvOpenTurn ==
    ASSUME Calm, Inv', NEW s \in Session, SrvOpen(s) PROVE TurnsInv'
<1> USE Calmly
<1>1. /\ UNCHANGED <<proxyOwn, outq, fin, lsn, client, op, nop, sdisk>>
      /\ server[s].ph = "open" /\ Tell(sc(s), Say("150"))
      /\ server' = [server EXCEPT ![s].ph = IF server[s].m.t = "STOR" THEN "recv" ELSE "send"]
  BY DEF SrvOpen
<1>2. PICK n \in Op :
         /\ n = nop /\ client[s].n = n /\ Busy(s, n) /\ server[s].n = n
         /\ server[s].mode = op[n].mode /\ server[s].m = op[n].m
         /\ Sent(s, n) /\ Quiet(s) /\ Serving(s) /\ client[s].ph = "busy"
  BY <1>1, Opening
<1>3. /\ IF Passive(n) THEN sd(n) \in est /\ UNCHANGED <<est, backlog>>
         ELSE Connect(sd(n), n)
      /\ fetches' = IF IsGet(n) THEN [fetches EXCEPT ![op[n].m.f] = @ + 1] ELSE fetches
  BY <1>2, Kind DEF SrvOpen, Passive, IsGet
<1>4. /\ n \in Port /\ n # CmdPort /\ CmdPort \in Port /\ backlog \in [Port -> Seq(Conn)]
      /\ cd(n) \in Conn /\ sd(n) \in Conn /\ cd(n) # sd(n)
      /\ cc(s) \in Conn /\ sc(s) \in Conn
  BY NumType, ConnType, Distinct DEF NetOK
<1>5. UNCHANGED <<fdt, cache, disk, dport, dfile, read_fds, pos>>
  BY <1>1 DEF proxyOwn, store, scan
<1>6. /\ server'[s].ph = (IF IsPut(n) THEN "recv" ELSE "send") /\ server'[s].m = op[n].m
      /\ server'[s].n = n /\ server'[s].mode = op[n].mode
      /\ \A q \in Session \ {s} : server'[q] = server[q]
  BY <1>1, <1>2 DEF SrvState, IsPut
<1>7. IsPut(n)' = IsPut(n) /\ IsGet(n)' = IsGet(n) /\ Passive(n)' = Passive(n)
  BY <1>1 DEF IsPut, IsGet, Passive
<1>8. /\ inq'[sc(s)] = <<Say("150")>> /\ inq'[cc(s)] = inq[cc(s)]
      /\ Carried(s, <<>>, <<>>, <<Say("150")>>, <<>>)' /\ inq'[sc(s)] # <<>>
      /\ \A c \in Conn \ {sc(s)} : inq'[c] = inq[c]
  <2>1. <<Say("150")>> # <<>>
    BY Short, SayType
  <2>2. \A c \in Conn \ {sc(s)} : inq'[c] = inq[c]
    BY <1>1, <1>4, Said
  <2> QED  BY <1>1, <1>2, <1>4, <2>1, <2>2, Conversed, Singles, Silent DEF Carried
<1>9. ASSUME ~Passive(n)
      PROVE  /\ Missing(n)' /\ Pending(n)' /\ sd(n) \notin fin' /\ ~Pending(n)
             /\ est' = est \cup {sd(n)}
             /\ \A p \in Port : p # n => backlog'[p] = backlog[p]
             /\ backlog'[n] # <<>>
  <2>1. Missing(n) /\ Unopened(n)
    BY <1>2, <1>9 DEF Sent
  <2>2. est' = est \cup {sd(n)} /\ backlog' = [backlog EXCEPT ![n] = Append(@, sd(n))]
    BY <1>3, <1>9 DEF Connect
  <2>3. NoRelay' /\ backlog'[n] = <<sd(n)>> /\ (\A p \in Port \ {n} : backlog'[p] = backlog[p])
        /\ (\A p \in Op \ {n} : backlog'[p] = <<>>) /\ backlog'[n] # <<>>
    <3>1. backlog[n] = <<>> /\ NoRelay /\ \A p \in Op : backlog[p] = <<>>
      BY <2>1 DEF Unopened, NoData
    <3>2. Append(<<>>, sd(n)) = <<sd(n)>> /\ <<sd(n)>> # <<>>
      BY <1>4, ShortConn
    <3> QED  BY <1>4, <1>5, <2>2, <3>1, <3>2, NumType DEF NoRelay
  <2>4. First(n)' = sd(n) /\ Second(n)' = cd(n)
    BY <1>7, <1>9 DEF First, Second
  <2>5. sd(n) \in est' /\ sd(n) \notin fin' /\ cd(n) \notin est' \cup fin'
    BY <1>1, <1>4, <2>1, <2>2 DEF Unopened, Fresh
  <2>6. Expected(n, "client")' /\ Expected(n, "server")'
    BY <1>1, <2>1 DEF Unopened, Expected
  <2>7. Missing(n)'
    BY <1>1, <1>5, <1>7, <2>1 DEF Missing
  <2>8. ~Pending(n)
    BY <2>1, NotPending DEF Unopened
  <2> QED  BY <1>7, <1>9, <2>2, <2>3, <2>4, <2>5, <2>6, <2>7, <2>8 DEF Pending
<1>10. ASSUME Passive(n)
       PROVE  Late(n)' /\ (IsGet(n) => Stored(n)) /\ UNCHANGED <<est, backlog>>
  <2>1. sd(n) \in est /\ UNCHANGED <<est, backlog>>
    BY <1>3, <1>10
  <2>2. ~Unopened(n) /\ ~Pending(n)
    BY <1>10, <2>1 DEF Unopened, Fresh, Pending, Second
  <2>3. Late(n)
    BY <1>2, <2>2 DEF Sent
  <2>4. DataSame(n)
    BY <1>1, <1>5, <2>1 DEF DataSame
  <2>5. Late(n)'
    BY <2>3, <2>4, DataStays
  <2> QED  BY <2>1, <2>3, <2>5 DEF Late, Relaying, HungUp
<1>11. Busy(s, n)'
  <2>1. Told(s, n)' /\ Armed(n)' /\ Known(n)'
    BY <1>1, <1>2, <1>5, <1>6, <1>7 DEF Busy, Sent, Told, Armed, Known, dport, dfile
  <2>2. Moving(s, n)'
    BY <1>1, <1>2, <1>6, <1>7, <1>8, <1>9, <1>10, <2>1 DEF Moving, Sent
  <2> QED  BY <1>1, <1>2, <2>1, <2>2 DEF Busy
<1>12. est \subseteq est' /\ backlog'[CmdPort] = backlog[CmdPort]
       /\ \A p \in Port : backlog[p] # <<>> => backlog'[p] # <<>>
  BY <1>4, <1>9, <1>10
<1>13. Serving(s)'
  <2>1. cc(s) \notin fin' /\ sc(s) \notin fin'
    BY <1>1, <1>2 DEF Serving
  <2>2. client'[s].ph = "busy" /\ server'[s].ph # "gone"
    BY <1>1, <1>2, <1>6
  <2>3. n = nop' /\ client'[s].n = n /\ Busy(s, n)'
    BY <1>1, <1>2, <1>11
  <2> QED  BY <1>2, <1>5, <1>12, <2>1, <2>2, <2>3, ServedOn
<1>14. Fetches'
  <2>1. Stored(n) \/ (Pending(n)' /\ ~Passive(n))
    BY <1>9, <1>10 DEF Stored
  <2>2. Passive(n) \/ ~Pending(n)
    BY <1>9
  <2> QED  BY <1>1, <1>2, <1>3, <1>5, <1>13, <2>1, <2>2, Counted
<1>15. \A q \in Session \ {s} : Same(q)
  <2> TAKE q \in Session \ {s}
  <2>1. \A c \in {cc(q), sc(q)} : c # sd(n) /\ c \in Conn \ {sc(s)}
    BY Distinct, ConnType
  <2>2. \A c \in {cc(q), sc(q)} : c \in est' <=> c \in est
    BY <1>9, <1>10, <2>1
  <2> QED  BY <1>1, <1>6, <1>8, <2>1, <2>2 DEF Same
<1>16. \A k \in Op : k # nop => (Fresh(k) => Fresh(k)')
  BY <1>1, <1>2, <1>9, <1>10, Distinct DEF Fresh
<1>17. \A k \in Op : inq'[cd(k)] = inq[cd(k)] /\ inq'[sd(k)] = inq[sd(k)]
  BY <1>8, ConnType, Distinct
<1> QED  BY <1>1, <1>2, <1>8, <1>12, <1>13, <1>14, <1>15, <1>16, <1>17, LastStep

\* DataHeld: the proxy holds the server's side of a data connection that waits
\* or is relayed.
LEMMA DataHeld ==
    ASSUME Calm, NEW n \in Op
    PROVE  /\ Relaying(n) => Held(sd(n))
           /\ Pending(n) /\ ~Passive(n) => Held(sd(n))
           /\ Armed(n) => Listens(n)
<1> USE Calmly
<1>1. status = "running" /\ 6 \in Fd /\ 7 \in Fd /\ 8 \in Fd /\ n \in Port
  BY NetAssumption, NumType DEF Descriptors, Calm, Orderly, Fd
<1>2. Relaying(n) => Held(sd(n))
  <2> SUFFICES ASSUME Relaying(n) PROVE Held(sd(n))
    OBVIOUS
  <2>1. fdt[7] = sd(n) \/ fdt[8] = sd(n)
    BY DEF Relaying
  <2> QED  BY <1>1, <2>1 DEF Held
<1>3. Pending(n) /\ ~Passive(n) => Held(sd(n))
  <2> SUFFICES ASSUME Pending(n), ~Passive(n) PROVE Held(sd(n))
    OBVIOUS
  <2>1. backlog[n] = <<sd(n)>>
    BY DEF Pending, First
  <2>2. 1 \in DOMAIN backlog[n] /\ backlog[n][1] = sd(n)
    BY <2>1
  <2> QED  BY <1>1, <2>2 DEF Held
<1>4. Armed(n) => Listens(n)
  BY <1>1 DEF Armed, Listens
<1> QED  BY <1>2, <1>3, <1>4

\* Concluded: the queues when the final reply joins them.
LEMMA Concluded ==
    ASSUME Calm, NEW s \in Session, NEW n \in Op, Moving(s, n), Tell(sc(s), Say("226")),
           outq' = outq, op'[n].reply = op[n].reply
    PROVE  Answering(s, n)' /\ inq'[sc(s)] # <<>>
<1> USE Calmly
<1>1. inq'[sc(s)] = Append(inq[sc(s)], Say("226")) /\ inq'[cc(s)] = inq[cc(s)]
  BY Conversed
<1>2. Append(<<Say("150")>>, Say("226")) = <<Say("150"), Say("226")>>
      /\ Append(<<>>, Say("226")) = <<Say("226")>>
      /\ <<Say("150"), Say("226")>> # <<>> /\ <<Say("226")>> # <<>>
  BY Short, SayType
<1>3. CASE Carried(s, <<>>, <<>>, <<Say("150")>>, <<>>)
  <2>1. Carried(s, <<>>, <<>>, <<Say("150"), Say("226")>>, <<>>)' /\ inq'[sc(s)] # <<>>
    BY <1>1, <1>2, <1>3 DEF Carried
  <2> QED  BY <2>1 DEF Moving, Answering
<1>4. CASE Carried(s, <<>>, <<>>, <<>>, <<Say("150")>>)
  <2>1. Carried(s, <<>>, <<>>, <<Say("226")>>, <<Say("150")>>)' /\ inq'[sc(s)] # <<>>
    BY <1>1, <1>2, <1>4 DEF Carried
  <2> QED  BY <2>1 DEF Moving, Answering
<1>5. CASE Quiet(s)
  <2>1. Carried(s, <<>>, <<>>, <<Say("226")>>, <<>>)' /\ inq'[sc(s)] # <<>>
    BY <1>1, <1>2, <1>5 DEF Carried, Quiet
  <2> QED  BY <2>1 DEF Moving, Answering
<1> QED  BY <1>3, <1>4, <1>5 DEF Moving

\* SrvEndTurn: the server closes the data connection and sends 226.
LEMMA SrvEndTurn ==
    ASSUME Calm, Inv', NEW s \in Session, SrvEnd(s, "226") PROVE TurnsInv'
<1> USE Calmly
<1>1. /\ UNCHANGED <<proxyOwn, outq, backlog, est, lsn, client, op, nop, fetches>>
      /\ Tell(sc(s), Say("226")) /\ server' = [server EXCEPT ![s].ph = "idle"]
      /\ fin' = fin \cup (est \cap {sd(server[s].n)})
      /\ server[s].ph = "send" \/ (server[s].ph = "recv" /\ ~Held(sd(server[s].n)))
      /\ DOMAIN sdisk \subseteq DOMAIN sdisk'
  BY DEF SrvEnd, remote, Ended
<1>2. PICK n \in Op :
         /\ n = nop /\ client[s].n = n /\ Busy(s, n) /\ server[s].n = n
         /\ Moving(s, n) /\ Serving(s) /\ client[s].ph = "busy"
  BY <1>1, Opening
<1>3. /\ cd(n) \in Conn /\ sd(n) \in Conn /\ cd(n) # sd(n)
      /\ cc(s) \in Conn /\ sc(s) \in Conn
  BY ConnType, Distinct
<1>4. UNCHANGED <<fdt, cache, disk, dport, dfile, read_fds, pos>>
  BY <1>1 DEF proxyOwn, store, scan
<1>5. /\ server'[s].ph = "idle" /\ server'[s].n = n /\ server'[s].mode = server[s].mode
      /\ \A q \in Session \ {s} : server'[q] = server[q]
  BY <1>1, <1>2 DEF SrvState
<1>6. IsPut(n)' = IsPut(n) /\ IsGet(n)' = IsGet(n) /\ Passive(n)' = Passive(n)
  BY <1>1 DEF IsPut, IsGet, Passive
<1>7. Answering(s, n)' /\ inq'[sc(s)] # <<>> /\ inq'[cc(s)] = inq[cc(s)]
      /\ \A c \in Conn \ {sc(s)} : inq'[c] = inq[c]
  <2>1. \A c \in Conn \ {sc(s)} : inq'[c] = inq[c]
    BY <1>1, <1>3, Said
  <2> QED  BY <1>1, <1>2, <2>1, Concluded, Conversed
<1>8. IsPut(n) => HungUp(n)
  <2> SUFFICES ASSUME IsPut(n) PROVE HungUp(n)
    OBVIOUS
  <2>1. ~Held(sd(n))
    BY <1>1, <1>2 DEF Moving
  <2> QED  BY <1>2, <2>1, DataHeld DEF Moving, Late
<1>9. sd(n) \in est /\ (IsGet(n) => Relaying(n) \/ (~Passive(n) /\ Missing(n) /\ Pending(n)))
  <2>1. CASE IsPut(n)
    BY <1>2, <1>8, <2>1, Kind DEF HungUp
  <2>2. CASE ~IsPut(n)
    <3>1. Relaying(n) \/ (~Passive(n) /\ Missing(n) /\ Pending(n))
      BY <1>2, <2>2 DEF Moving, Late
    <3> QED  BY <3>1 DEF Relaying, Pending, First
  <2> QED  BY <2>1, <2>2
<1>10. fin' = fin \cup {sd(n)}
  BY <1>1, <1>2, <1>9
<1>11. NoRelay' = NoRelay /\ NoData' = NoData /\ Expected(n, "client")' = Expected(n, "client")
       /\ Expected(n, "server")' = Expected(n, "server")
  BY <1>1, <1>4 DEF NoRelay, NoData, Expected
<1>12. Missing(n) => Missing(n)'
  BY <1>1, <1>4, <1>6 DEF Missing
<1>13. ASSUME Pending(n), ~Passive(n) PROVE Pending(n)'
  <2>1. First(n) = sd(n) /\ Second(n) = cd(n) /\ First(n)' = sd(n) /\ Second(n)' = cd(n)
    BY <1>6, <1>13 DEF First, Second
  <2>2. cd(n) \notin est' \cup fin'
    BY <1>1, <1>3, <1>10, <1>13, <2>1 DEF Pending
  <2> QED  BY <1>1, <1>6, <1>11, <1>13, <2>1, <2>2 DEF Pending
<1>14. ASSUME Relaying(n), IsGet(n) PROVE Relaying(n)'
  <2>1. ~IsPut(n)
    BY <1>2, <1>14, Kind
  <2>2. cd(n) \notin fin'
    BY <1>3, <1>10, <1>14 DEF Relaying
  <2>3. Stored(n)'
    BY <1>1, <1>4, <1>6, <1>14 DEF Relaying, Stored
  <2> QED  BY <1>1, <1>4, <1>6, <1>14, <2>1, <2>2, <2>3 DEF Relaying
<1>15. ASSUME IsPut(n) PROVE HungUp(n)'
  <2>1. HungUp(n) /\ ~IsGet(n)
    BY <1>2, <1>8, <1>15, Kind
  <2>2. Stored(n)'
    BY <1>6, <2>1 DEF Stored
  <2> QED  BY <1>1, <1>6, <1>10, <1>11, <2>1, <2>2 DEF HungUp
<1>16. Busy(s, n)'
  <2>1. Told(s, n)' /\ Armed(n)' /\ Known(n)'
    BY <1>1, <1>2, <1>4, <1>5, <1>6 DEF Busy, Moving, Told, Armed, Known, dport, dfile
  <2>2. IsGet(n) \/ IsPut(n)
    BY <1>2, Kind
  <2>3. sd(n) \in fin'
    BY <1>10
  <2>4. \/ IsGet(n)' /\ Relaying(n)'
        \/ IsGet(n)' /\ ~Passive(n)' /\ Missing(n)' /\ Pending(n)'
        \/ HungUp(n)' /\ sd(n) \in fin'
    BY <1>6, <1>9, <1>12, <1>13, <1>14, <1>15, <2>2, <2>3
  <2>5. Answered(s, n)'
    BY <1>5, <1>7, <2>1, <2>3, <2>4 DEF Answered
  <2> QED  BY <1>1, <1>2, <2>1, <2>5 DEF Busy
<1>17. cc(s) # sd(n) /\ sc(s) # sd(n)
  BY Distinct
<1>18. Serving(s)'
  <2>1. cc(s) \notin fin' /\ sc(s) \notin fin'
    BY <1>2, <1>10, <1>17 DEF Serving, Moving
  <2>2. client'[s].ph = "busy" /\ server'[s].ph # "gone"
    BY <1>1, <1>2, <1>5
  <2>3. n = nop' /\ client'[s].n = n /\ Busy(s, n)'
    BY <1>1, <1>2, <1>16
  <2> QED  BY <1>1, <1>2, <1>4, <2>1, <2>2, <2>3, ServedOn
<1>19. Fetches'
  <2> SUFFICES ASSUME NEW q \in Session, NEW k \in Op, Pair(q), client[q].ph = "busy",
                      k = nop, Pending(k), ~Passive(k), IsGet(k)
               PROVE  /\ Pair(q)' /\ client'[q].ph = "busy" /\ k = nop' /\ Pending(k)'
                      /\ ~Passive(k)' /\ IsGet(k)' /\ op'[k].m.f = op[k].m.f
    BY <1>1, <1>4, FetchesStay
  <2>1. k = n
    BY <1>2
  <2>2. Pair(q)'
    BY <1>4 DEF Pair
  <2> QED  BY <1>1, <1>2, <1>6, <1>13, <2>1, <2>2
<1>20. \A q \in Session \ {s} : Same(q)
  <2> TAKE q \in Session \ {s}
  <2>1. \A c \in {cc(q), sc(q)} : c # sd(n) /\ c \in Conn \ {sc(s)}
    BY Distinct, ConnType
  <2>2. \A c \in {cc(q), sc(q)} : c \in fin' <=> c \in fin
    BY <1>10, <2>1
  <2> QED  BY <1>1, <1>5, <1>7, <2>1, <2>2 DEF Same
<1>21. \A k \in Op : k # nop => (Fresh(k) => Fresh(k)')
  BY <1>1, <1>2, <1>10, Distinct DEF Fresh
<1>22. \A k \in Op : inq'[cd(k)] = inq[cd(k)] /\ inq'[sd(k)] = inq[sd(k)]
  BY <1>7, ConnType, Distinct
<1> QED  BY <1>1, <1>2, <1>7, <1>10, <1>18, <1>19, <1>20, <1>21, <1>22, LastStep

\* SrvFailNever: the proxy does not fail the server.
LEMMA SrvFailNever ==
    ASSUME Calm, NEW s \in Session, SrvEnd(s, "426") PROVE FALSE
<1> USE Calmly
<1>1. \/ server[s].ph = "send" /\ ~Held(sd(server[s].n))
      \/ server[s].ph = "open" /\ server[s].mode = "PORT" /\ ~Listens(server[s].n)
  BY DEF SrvEnd
<1>2. PICK n \in Op :
         /\ n = nop /\ Busy(s, n) /\ server[s].n = n
         /\ server[s].ph # "open" => Moving(s, n)
  BY <1>1, Opening
<1>3. server[s].ph # "send"
  <2> SUFFICES ASSUME server[s].ph = "send" PROVE Held(sd(n))
    BY <1>1, <1>2
  <2>1. Moving(s, n) /\ ~IsPut(n)
    BY <1>2 DEF Moving
  <2> QED  BY <2>1, DataHeld DEF Moving, Late
<1>4. Listens(n)
  BY <1>2, DataHeld DEF Busy
<1> QED  BY <1>1, <1>2, <1>3, <1>4

\* SrvStepTurn: any step of the server.
LEMMA SrvStepTurn ==
    ASSUME Calm, Inv', NEW s \in Session, SrvStep(s) PROVE TurnsInv'
BY SrvGreetTurn, SrvSetupTurn, SrvCommandTurn, SrvOpenTurn, SrvSendTurn, SrvRecvTurn,
   SrvEndTurn, SrvFailNever, SrvQuitTurn, SrvHangupNever DEF SrvStep

-----------------------------------------------------------------------------
(***************************************************************************)
(* The proxy.                                                              *)
(***************************************************************************)

\* LowFds: the process may hold ten descriptors.
LEMMA LowFds ==
    ASSUME Orderly
    PROVE  /\ 0 \in Fd /\ 1 \in Fd /\ 2 \in Fd /\ 3 \in Fd /\ 4 \in Fd
           /\ 5 \in Fd /\ 6 \in Fd /\ 7 \in Fd /\ 8 \in Fd /\ 9 \in Fd
           /\ 3..8 \subseteq Fd
BY NetAssumption DEF Orderly, Fd

\* Alike: two socket variables that select() reported are not equal.
LEMMA Alike ==
    ASSUME Numbers', sock' \in [Role -> Fd], read_fds' \subseteq 3..8,
           NEW q \in Role, NEW r \in Role, sock'[q] = sock'[r], sock'[q] \in read_fds'
    PROVE  q = r
<1>1. /\ sock'.proxy_cmd = 3 /\ sock'.connect_cmd \in {0, 4} /\ sock'.accept_cmd \in {0, 5}
      /\ sock'.proxy_data \in {0, 6}
      /\ sock'.accept_data \in {0, 7, 8} /\ sock'.connect_data \in {0, 7, 8}
      /\ (7 \in read_fds' \/ 8 \in read_fds') =>
            {sock'.accept_data, sock'.connect_data} = {7, 8}
  BY DEF Numbers
<1>2. 0 \notin read_fds'
  OBVIOUS
<1> QED  BY <1>1, <1>2 DEF Role

\* ScanOn: after a branch of role r, only greater descriptors are due.
LEMMA ScanOn ==
    ASSUME Numbers', ProcessOK', read_fds' \subseteq 3..8,
           NEW r \in Role, sock'[r] = pos'[1], pos'[1] \in read_fds', Order[r] <= pos'[2]
    PROVE  \A q \in Due' : pos'[1] < sock'[q]
<1> SUFFICES ASSUME NEW q \in Due' PROVE pos'[1] < sock'[q]
  OBVIOUS
<1>1. /\ q \in Role /\ sock'[q] \in read_fds'
      /\ pos'[1] < sock'[q] \/ (pos'[1] = sock'[q] /\ pos'[2] < Order[q])
  BY DEF Due, At, Before
<1>2. CASE pos'[1] = sock'[q] /\ pos'[2] < Order[q]
  <2>1. q = r
    BY <1>1, <1>2, Alike DEF ProcessOK
  <2>2. Order[r] \in Nat /\ pos'[2] \in Nat
    BY DEF ProcessOK, Order, Role
  <2> QED  BY <1>2, <2>1, <2>2
<1> QED  BY <1>1, <1>2

\* TurnIs: a branch runs for the least descriptor that select() reported and that
\* is still ahead.
LEMMA TurnIs ==
    ASSUME Calm, NEW r \in Role, Turn(r)
    PROVE  /\ sock[r] \in read_fds /\ pos[1] < sock[r] /\ sock[r] \in 3..8
           /\ read_fds' = read_fds /\ Ready(sock[r])
           /\ \A fd \in read_fds : sock[r] < fd => Readable(fd)
<1> USE Calmly
<1>1. r \in Due /\ read_fds' = read_fds
  BY DEF Turn
<1>2. sock[r] \in read_fds /\ pos[1] < sock[r] /\ sock[r] \in 3..8
  BY <1>1 DEF Due, Scan
<1>3. Ready(sock[r])
  BY <1>2 DEF Scan
<1>4. ASSUME NEW fd \in read_fds, sock[r] < fd PROVE Readable(fd)
  <2>1. fd \in 3..8 /\ pos[1] \in Nat
    BY NetAssumption DEF Scan, ProcessOK
  <2>2. pos[1] < fd
    BY <1>2, <1>4, <2>1
  <2>3. Ready(fd)
    BY <2>2 DEF Scan
  <2>4. <<fd, pos[1]>> \notin {<<5, 4>>, <<8, 7>>}
    BY <1>2, <1>4, <2>1
  <2> QED  BY <2>3, <2>4 DEF Ready
<1> QED  BY <1>1, <1>2, <1>3, <1>4

\* Scanned: what is left to prove of a branch about the scan.
LEMMA Scanned ==
    ASSUME Calm, Inv', Numbers', NEW r \in Role, Turn(r), pos' \in {At(r), <<sock[r], 6>>},
           sock'[r] = sock[r],
           \A fd \in read_fds : sock[r] < fd /\ Readable(fd) => Ready(fd)',
           fdt'[5] = Free => cmdbuf' \in {Junk, Say("QUIT")}
    PROVE  Scan'
<1> USE Calmly
<1>1. /\ sock[r] \in read_fds /\ read_fds' = read_fds /\ read_fds \subseteq 3..8
      /\ \A fd \in read_fds : sock[r] < fd => Readable(fd)
  BY TurnIs DEF Scan
<1>2. pos'[1] = sock[r] /\ Order[r] <= pos'[2]
  BY DEF At, Order, Role
<1>3. ProcessOK'
  BY DEF Inv, ProxyInv
<1>4. \A q \in Due' : pos'[1] < sock'[q]
  BY <1>1, <1>2, <1>3, ScanOn
<1>5. \A fd \in read_fds' : pos'[1] < fd => Ready(fd)'
  BY <1>1, <1>2
<1> QED  BY <1>1, <1>4, <1>5 DEF Scan

\* StillReadable: a descriptor whose object and its queue a step leaves alone.
LEMMA StillReadable ==
    ASSUME NEW fd \in 3..8, fdt \in [Fd -> Object], 3..8 \subseteq Fd,
           Readable(fd), fdt'[fd] = fdt[fd], fin' = fin,
           fdt[fd] \in Conn => inq'[fdt[fd]] = inq[fdt[fd]],
           \A p \in Port : fdt[fd] = Listener(p) => backlog'[p] = backlog[p]
    PROVE  Ready(fd)'
<1>1. IsConn(fdt[fd]) <=> fdt[fd] \in Conn
  BY ObjectKind
<1>2. Readable(fd)'
  BY <1>1 DEF Readable
<1> QED  BY <1>2 DEF Ready

\* Wrote: a message written to a connection whose other end is open.
LEMMA Wrote ==
    ASSUME ProcessOK, NetOK, NEW ft, NEW fd, NEW c \in Conn, ft[fd] = c, c \notin fin,
           NEW m \in Msg, Written(Put(Unwritten, ft, fd, <<m>>))
    PROVE  /\ outq'[c] = outq[c] \o <<m>> /\ \A e \in Conn \ {c} : outq'[e] = outq[e]
           /\ UNCHANGED <<disk, sigpipe, status>>
<1>1. IsConn(c) /\ c.k # "file" /\ c # Dead /\ c \notin fin \cup {Dead}
  BY Kinds
<1>2. /\ Put(Unwritten, ft, fd, <<m>>).q = [outq EXCEPT ![c] = @ \o <<m>>]
      /\ Put(Unwritten, ft, fd, <<m>>).d = disk
      /\ Put(Unwritten, ft, fd, <<m>>).hit = {}
  BY <1>1 DEF Put, Unwritten
<1>3. outq' = [outq EXCEPT ![c] = @ \o <<m>>] /\ disk' = disk /\ sigpipe' = sigpipe
      /\ status' = status
  BY <1>2 DEF Written
<1> QED  BY <1>3 DEF NetOK

\* LowestAt: the next call finds the least free number.
LEMMA LowestAt ==
    ASSUME Orderly, NEW ft, ft[0] # Free, ft[1] # Free, ft[2] # Free, ft[3] # Free
    PROVE  /\ ft[4] = Free => Lowest(ft) = 4 /\ 4 # NoFd
           /\ ft[4] # Free /\ ft[5] = Free => Lowest(ft) = 5 /\ 5 # NoFd
           /\ ft[4] # Free /\ ft[5] # Free /\ ft[6] = Free => Lowest(ft) = 6 /\ 6 # NoFd
           /\ ft[4] # Free /\ ft[5] # Free /\ ft[6] # Free =>
                 /\ ft[7] = Free => Lowest(ft) = 7 /\ 7 # NoFd
                 /\ ft[7] # Free /\ ft[8] = Free => Lowest(ft) = 8 /\ 8 # NoFd
                 /\ ft[7] # Free /\ ft[8] # Free /\ ft[9] = Free =>
                       Lowest(ft) = 9 /\ 9 # NoFd
<1>1. /\ 0..3 = {0, 1, 2, 3} /\ 0..4 = {0, 1, 2, 3, 4} /\ 0..5 = {0, 1, 2, 3, 4, 5}
      /\ 0..6 = {0, 1, 2, 3, 4, 5, 6} /\ 0..7 = {0, 1, 2, 3, 4, 5, 6, 7}
      /\ 0..8 = {0, 1, 2, 3, 4, 5, 6, 7, 8}
      /\ 4 - 1 = 3 /\ 5 - 1 = 4 /\ 6 - 1 = 5 /\ 7 - 1 = 6 /\ 8 - 1 = 7 /\ 9 - 1 = 8
  OBVIOUS
<1>2. \A k \in Fd : ft[k] = Free /\ (\A fd \in 0..(k-1) : ft[fd] # Free) =>
         Lowest(ft) = k /\ k # NoFd
  BY LowestIs
<1>3. ft[4] = Free => Lowest(ft) = 4 /\ 4 # NoFd
  BY <1>1, <1>2, LowFds
<1>4. ft[4] # Free /\ ft[5] = Free => Lowest(ft) = 5 /\ 5 # NoFd
  BY <1>1, <1>2, LowFds
<1>5. ft[4] # Free /\ ft[5] # Free /\ ft[6] = Free => Lowest(ft) = 6 /\ 6 # NoFd
  BY <1>1, <1>2, LowFds
<1>6. ft[4] # Free /\ ft[5] # Free /\ ft[6] # Free /\ ft[7] = Free =>
         Lowest(ft) = 7 /\ 7 # NoFd
  BY <1>1, <1>2, LowFds
<1>7. ft[4] # Free /\ ft[5] # Free /\ ft[6] # Free /\ ft[7] # Free /\ ft[8] = Free =>
         Lowest(ft) = 8 /\ 8 # NoFd
  BY <1>1, <1>2, LowFds
<1>8. ft[4] # Free /\ ft[5] # Free /\ ft[6] # Free /\ ft[7] # Free /\ ft[8] # Free
      /\ ft[9] = Free => Lowest(ft) = 9 /\ 9 # NoFd
  BY <1>1, <1>2, LowFds
<1> QED  BY <1>3, <1>4, <1>5, <1>6, <1>7, <1>8

\* ServedIs: the session whose control pair the proxy has is served.
LEMMA ServedIs ==
    ASSUME Calm, fdt[4] # Free \/ fdt[5] # Free \/ ~NoData
    PROVE  \E s \in Session : Serving(s)
<1> USE Calmly
<1>1. fdt[4] # Free
  BY Tables DEF Calm, Sessions
<1>2. PICK s \in Session : Pair(s)
  BY <1>1, Tables DEF Calm
<1>3. Serving(s)
  BY <1>1, <1>2 DEF Sessions, Off, Queued, Over, Absent, Pair
<1> QED  BY <1>3

\* ProxyStep: a branch that serves the session on.
LEMMA ProxyStep ==
    ASSUME Calm, NEW s \in Session, Serving(s), Serving(s)',
           UNCHANGED <<peers, fin>>, Descriptors', Numbers', Scan', Fetches',
           DOMAIN disk \subseteq DOMAIN disk',
           \A q \in Session \ {s} : Same(q),
           \A n \in Op : /\ n # nop => (Fresh(n) => Fresh(n)')
                         /\ inq[cd(n)] = <<>> /\ ~IsPut(n) => inq'[cd(n)] = <<>>
                         /\ inq[sd(n)] = <<>> /\ ~IsGet(n) => inq'[sd(n)] = <<>>
    PROVE  TurnsInv'
<1> USE Calmly
<1>1. \A q \in Session : Numbered(q)'
  BY DEF Sessions, Numbered, peers
<1>2. Sessions'
  BY <1>1, ServingStays
<1>3. Live => Live'
  <2>1. Pair(s)'
    BY DEF Serving
  <2> QED  BY <2>1, LiveIs DEF Live, peers
<1>4. Transfers'
  <2>1. \A n \in Op : n > nop => Fresh(n) /\ n # nop
    BY DEF Transfers, Op
  <2>2. nop' = nop /\ op' = op /\ fin' = fin
    BY DEF peers
  <2> QED  BY <1>3, <2>1, <2>2, TransfersStay
<1> QED  BY <1>2, <1>4 DEF TurnsInv

\* ProxyAside: a branch that only moves data, or nothing at all.
LEMMA ProxyAside ==
    ASSUME Calm, UNCHANGED <<peers, fin, fdt, backlog, est, lsn, cache, dport, dfile>>,
           DOMAIN disk' = DOMAIN disk, Descriptors', Numbers', Scan',
           \A q \in Session : Same(q),
           fdt[5] # Free => cmdbuf' = cmdbuf,
           \A n \in Op : /\ inq[cd(n)] = <<>> /\ ~IsPut(n) => inq'[cd(n)] = <<>>
                         /\ inq[sd(n)] = <<>> /\ ~IsGet(n) => inq'[sd(n)] = <<>>,
           \A q \in Session, n \in Op : Asked(q, n) /\ Pair(q) =>
              (6 \in read_fds' /\ pos'[1] < 6 => 5 \in read_fds' /\ pos'[1] < 5)
    PROVE  TurnsInv'
<1> USE Calmly
<1>1. UNCHANGED <<client, op, nop, server, sdisk, fetches>>
  BY DEF peers
<1>2. \A n \in Op : DataSame(n)
  BY <1>1 DEF DataSame
<1>3. ASSUME NEW q \in Session, Serving(q) PROVE Serving(q)'
  <2>1. cmdbuf' = cmdbuf
    BY <1>3, Tables, ConnType, Kinds DEF Serving, Pair
  <2>2. Pair(q)
    BY <1>3 DEF Serving
  <2> QED  BY <1>1, <1>2, <1>3, <2>1, <2>2, ServingKept DEF Same
<1>4. \A q \in Session : Numbered(q)'
  BY <1>1 DEF Sessions, Numbered
<1>5. Sessions'
  BY <1>1, <1>3, <1>4, SessionsAside
<1>6. Live => Live'
  BY <1>1 DEF Live, Pair
<1>7. Transfers'
  <2>1. \A n \in Op : n > nop => Fresh(n)
    BY DEF Transfers
  <2>2. \A n \in Op : Fresh(n) => Fresh(n)'
    BY DEF Fresh
  <2> QED  BY <1>1, <1>6, <2>1, <2>2, TransfersStay
<1>8. Fetches'
  <2>1. \A n \in Op : (Pending(n) => Pending(n)') /\ Passive(n)' = Passive(n)
                      /\ IsGet(n)' = IsGet(n)
    BY <1>2, DataStays
  <2>2. \A q \in Session : Pair(q) => Pair(q)'
    BY DEF Pair
  <2> QED  BY <1>1, <2>1, <2>2, FetchesStay
<1> QED  BY <1>5, <1>7, <1>8 DEF TurnsInv

\* SelectTurn: select() returns (ftp.c:144-157).
LEMMA SelectTurn ==
    ASSUME Calm, Inv', Select, UNCHANGED peers PROVE TurnsInv'
<1> USE Calmly
<1>1. /\ UNCHANGED <<bufs, inq, fds, dport, dfile, store, remote, written, fin>>
      /\ read_fds' = {fd \in master : fd < fdmax /\ Readable(fd)} /\ pos' = <<0, 0>>
  <2>1. \A fd \in master : fd < fdmax => fdt[fd] # Free
    BY DEF Descriptors
  <2> QED  BY <2>1 DEF Select
<1>2. UNCHANGED <<cmdbuf, fdt, master, sock, backlog, est, lsn, disk, status, outq, sigpipe,
                  cache, bytes_creat, dport, dfile>>
  BY <1>1 DEF bufs, fds, remote, written, store
<1>3. Descriptors'
  BY <1>2 DEF Descriptors, Pair
<1>4. read_fds' \subseteq 3..8 /\ \A fd \in read_fds' : fdt[fd] # Free /\ Readable(fd)
  BY <1>1 DEF Descriptors
<1>5. Numbers'
  <2>1. 7 \in read_fds' \/ 8 \in read_fds' => fdt[7] # Free
    BY <1>4 DEF Descriptors
  <2> QED  BY <1>2, <2>1 DEF Numbers
<1>6. Scan'
  <2>1. \A fd \in read_fds' : Ready(fd)'
    <3>1. \A fd : Readable(fd)' = Readable(fd)
      BY <1>1, <1>2 DEF Readable
    <3> QED  BY <1>4, <3>1 DEF Ready
  <2>2. \A r \in Due' : pos'[1] < sock'[r]
    <3>1. \A r \in Due' : sock'[r] \in read_fds'
      BY DEF Due
    <3>2. pos'[1] = 0 /\ \A fd \in read_fds' : 0 < fd
      BY <1>1, <1>4
    <3> QED  BY <3>1, <3>2
  <2> QED  BY <1>2, <1>4, <2>1, <2>2 DEF Scan
<1>7. \A q \in Session : Same(q)
  BY <1>1, <1>2 DEF Same, peers
<1>8. ASSUME NEW q \in Session, NEW n \in Op, Asked(q, n), Pair(q)
      PROVE  5 \in read_fds' /\ pos'[1] < 5
  <2>1. PICK m \in Msg : m = op[n].m
    BY DEF PeersOK, OpState
  <2>2. inq[cc(q)] # <<>>
    BY <1>8, <2>1, Short DEF Asked, Carried
  <2>3. fdt[5] = cc(q) /\ cc(q) \in Conn
    BY <1>8, ConnType DEF Pair
  <2>4. 5 \in master /\ Readable(5)
    BY <2>2, <2>3, Kinds, ReadableIs DEF Descriptors
  <2> QED  BY <1>1, <2>4 DEF fdmax
<1> QED  BY <1>1, <1>2, <1>3, <1>5, <1>6, <1>7, <1>8, ProxyAside

\* AcceptClientTurn: the proxy accepts a client and connects to the server
\* (ftp.c:161-174).
LEMMA AcceptClientTurn ==
    ASSUME Calm, Inv', AcceptClient, UNCHANGED peers PROVE TurnsInv'
<1> USE Calmly
<1>1. Turn("proxy_cmd") /\ "proxy_cmd" \in Role /\ sock["proxy_cmd"] = 3
  BY DEF AcceptClient, Numbers, Role
<1>2. fdt[3] = Listener(CmdPort) /\ backlog[CmdPort] # <<>>
  BY <1>1, NumType DEF AcceptClient, Descriptors
<1>3. PICK s \in Session : Queued(s)
  BY <1>2 DEF Sessions
<1>4. fdt[4] = Free /\ fdt[5] = Free /\ NoData /\ backlog[CmdPort] = <<cc(s)>>
  BY <1>3, Tables DEF Queued, Sessions, Calm
<1>5. cc(s) \in Conn /\ sc(s) \in Conn /\ cc(s) # sc(s) /\ cc(s).n = s
      /\ Head(backlog[CmdPort]) = cc(s) /\ Tail(backlog[CmdPort]) = <<>>
      /\ sc(s) = [k |-> "sc", n |-> s]
  <2>1. cc(s) \in Conn /\ sc(s) \in Conn /\ cc(s) # sc(s) /\ cc(s).n = s
        /\ sc(s) = [k |-> "sc", n |-> s]
    BY ConnType, Distinct DEF cc, sc
  <2> QED  BY <1>4, <2>1, ShortConn
<1>6. ControlPair \cap master = {}
  BY <1>4 DEF ControlPair, Numbers, Descriptors
<1>7. /\ 0 \in Fd /\ 1 \in Fd /\ 2 \in Fd /\ 3 \in Fd /\ 4 \in Fd
      /\ 5 \in Fd /\ 6 \in Fd /\ 7 \in Fd /\ 8 \in Fd /\ 9 \in Fd
      /\ 3..8 \subseteq Fd /\ fdt \in [Fd -> Object] /\ backlog \in [Port -> Seq(Conn)]
      /\ fdt[0] # Free /\ fdt[1] # Free /\ fdt[2] # Free /\ fdt[3] # Free
  BY LowFds, Tables, Kinds, NumType DEF Calm, ProcessOK, NetOK
<1>8. Closed(fdt, {}) = fdt /\ Dropped(backlog, fdt, {}) = backlog
  BY <1>7 DEF Closed, Dropped
<1>9. Lowest(fdt) = 4 /\ 4 # NoFd
  BY <1>4, <1>7, LowestAt DEF Calm
<1>10. Opened(fdt, sc(s)) = [fdt EXCEPT ![4] = sc(s)]
  BY <1>9 DEF Opened
<1>11. Lowest(Opened(fdt, sc(s))) = 5 /\ 5 # NoFd
  <2>1. PICK ft : ft = [fdt EXCEPT ![4] = sc(s)]
    OBVIOUS
  <2>2. /\ ft[0] # Free /\ ft[1] # Free /\ ft[2] # Free /\ ft[3] # Free
        /\ ft[4] # Free /\ ft[5] = Free
    BY <1>4, <1>5, <1>7, <2>1, Kinds
  <2>3. Lowest(ft) = 5 /\ 5 # NoFd
    BY <2>2, LowestAt DEF Calm
  <2> QED  BY <1>10, <2>1, <2>3
<1>12. /\ fdt' = [fdt EXCEPT ![4] = sc(s), ![5] = cc(s)]
       /\ sock' = [sock EXCEPT !.connect_cmd = 4, !.accept_cmd = 5]
       /\ master' = master \cup {4, 5}
       /\ backlog' = [backlog EXCEPT ![CmdPort] = <<>>]
       /\ est' = est \cup {sc(s)}
       /\ UNCHANGED <<lsn, dport, dfile, store, written, fin, bufs, inq>>
       /\ pos' = At("proxy_cmd")
  BY <1>1, <1>2, <1>5, <1>6, <1>8, <1>9, <1>11 DEF AcceptClient
<1>13. /\ fdt'[4] = sc(s) /\ fdt'[5] = cc(s) /\ \A fd \in Fd : fd > 5 => fdt'[fd] = fdt[fd]
       /\ fdt'[0] = fdt[0] /\ fdt'[1] = fdt[1] /\ fdt'[2] = fdt[2] /\ fdt'[3] = fdt[3]
       /\ fdt'[6] = fdt[6] /\ fdt'[7] = fdt[7] /\ fdt'[8] = fdt[8] /\ fdt'[9] = fdt[9]
       /\ backlog'[CmdPort] = <<>> /\ \A n \in Op : backlog'[n] = backlog[n]
       /\ sock'.connect_cmd = 4 /\ sock'.accept_cmd = 5
       /\ \A r \in Role \ {"connect_cmd", "accept_cmd"} : sock'[r] = sock[r]
       /\ read_fds' = read_fds
  <2>1. read_fds' = read_fds
    BY <1>1, TurnIs
  <2>2. fdt'[4] = sc(s) /\ fdt'[5] = cc(s) /\ \A fd \in Fd : fd > 5 => fdt'[fd] = fdt[fd]
    BY <1>7, <1>12 DEF Fd
  <2>5. /\ fdt'[0] = fdt[0] /\ fdt'[1] = fdt[1] /\ fdt'[2] = fdt[2] /\ fdt'[3] = fdt[3]
        /\ fdt'[6] = fdt[6] /\ fdt'[7] = fdt[7] /\ fdt'[8] = fdt[8] /\ fdt'[9] = fdt[9]
    BY <1>7, <1>12
  <2>3. backlog'[CmdPort] = <<>> /\ \A n \in Op : backlog'[n] = backlog[n]
    BY <1>7, <1>12, NumType
  <2>4. /\ sock'.connect_cmd = 4 /\ sock'.accept_cmd = 5
        /\ \A r \in Role \ {"connect_cmd", "accept_cmd"} : sock'[r] = sock[r]
    BY <1>12 DEF ProcessOK, Role
  <2> QED  BY <2>1, <2>2, <2>3, <2>4, <2>5
<1>14. UNCHANGED <<status, sigpipe, disk, outq, cache, bytes_creat, inq, fin, lsn, cmdbuf>>
  BY <1>12 DEF written, store, bufs
<1>15. Descriptors'
  <2>1. Pair(s)'
    BY <1>13 DEF Pair
  <2>2. master' = {fd \in 3..8 : fdt'[fd] # Free}
    BY <1>5, <1>7, <1>12, <1>13, Kinds DEF Descriptors
  <2>3. /\ \A fd \in 0..2 : fdt'[fd] = Std
        /\ fdt'[3] = fdt[3] /\ fdt'[6] = fdt[6] /\ fdt'[7] = fdt[7] /\ fdt'[8] = fdt[8]
    BY <1>13 DEF Descriptors
  <2>4. \A fd \in Fd : fd > 9 => fdt'[fd] = Free
    <3>1. \A fd \in Fd : fd > 9 => fd > 5
      BY DEF Fd
    <3> QED  BY <1>13, <3>1 DEF Descriptors
  <2> QED  BY <1>14, <2>1, <2>2, <2>3, <2>4 DEF Descriptors
<1>16. ASSUME NEW fd \in read_fds, 3 < fd, Readable(fd) PROVE FALSE
  <2>1. fd \in {4, 5, 6, 7, 8}
    BY <1>16 DEF Scan
  <2>2. fdt[7] = Free /\ fdt[8] = Free
    BY <1>4 DEF NoData, NoRelay, Descriptors
  <2>3. ~Readable(6)
    BY <1>4, ReadableIs, NumType DEF NoData, Descriptors
  <2> QED  BY <1>4, <1>16, <2>1, <2>2, <2>3, ReadableIs
<1>17. Numbers'
  <2>1. fdt'[6] = fdt[6] /\ fdt'[7] = fdt[7]
    BY <1>13
  <2>2. /\ sock'.proxy_cmd = sock.proxy_cmd /\ sock'.proxy_data = sock.proxy_data
        /\ sock'.accept_data = sock.accept_data /\ sock'.connect_data = sock.connect_data
    BY <1>13 DEF Role
  <2> QED  BY <1>13, <2>1, <2>2 DEF Numbers
<1>18. Scan'
  <2>1. sock'["proxy_cmd"] = sock["proxy_cmd"]
    BY <1>13 DEF Role
  <2>2. fdt'[5] # Free
    BY <1>5, <1>13, Kinds
  <2> QED  BY <1>1, <1>12, <1>16, <1>17, <2>1, <2>2, Scanned
<1>19. UNCHANGED <<client, op, nop, server, sdisk, fetches>>
  BY DEF peers
<1>20. NoData'
  BY <1>4, <1>13 DEF NoData, NoRelay
<1>21. Serving(s)'
  <2>1. Quiet(s)'
    BY <1>3, <1>14 DEF Queued, Quiet, Carried
  <2>2. Between(s)'
    BY <1>3, <1>19, <1>20, <2>1 DEF Queued, Between, Greeting
  <2>3. Pair(s)'
    BY <1>13 DEF Pair
  <2> QED  BY <1>3, <1>12, <1>13, <1>14, <1>19, <2>2, <2>3 DEF Serving, Queued
<1>22. ASSUME NEW q \in Session \ {s} PROVE Off(q)' \/ Over(q)'
  <2>1. cc(q) \in Conn /\ <<cc(q)>> # <<>> /\ <<cc(q)>> # <<cc(s)>> /\ sc(q) # sc(s)
    BY <1>5, ConnType, ShortConn, Distinct
  <2>2. Absent(q)'
    BY <1>13, <2>1 DEF Absent
  <2>3. Off(q) \/ Over(q)
    BY <1>4, <2>1, ConnType, Kinds DEF Sessions, Queued, Serving, Pair
  <2>4. Same(q)
    BY <1>12, <1>14, <1>19, Distinct DEF Same
  <2> QED  BY <2>2, <2>3, <2>4, SameStays
<1>23. \A q \in Session : Numbered(q)'
  BY <1>19 DEF Sessions, Numbered
<1>24. Sessions'
  BY <1>13, <1>19, <1>20, <1>21, <1>22, <1>23 DEF Sessions
<1>25. \A q \in Session : ~Pair(q)
  BY <1>4, ConnType, Kinds DEF Pair
<1>26. Transfers'
  <2>1. \A n \in Op : Fresh(n) => Fresh(n)'
    BY <1>12, <1>14, Distinct DEF Fresh
  <2>2. \A n \in Op : n > nop => Fresh(n)
    BY DEF Transfers
  <2> QED  BY <1>14, <1>19, <1>25, <2>1, <2>2, TransfersStay DEF Live
<1>27. Fetches'
  BY <1>14, <1>19, <1>25, FetchesStay
<1> QED  BY <1>15, <1>17, <1>18, <1>24, <1>26, <1>27 DEF TurnsInv

\* TableKept: a branch that opens and closes nothing.
LEMMA TableKept ==
    ASSUME Calm,
           UNCHANGED <<fdt, master, sock, read_fds, status, sigpipe, cache, bytes_creat>>
    PROVE  Descriptors' /\ Numbers'
<1>1. Descriptors'
  BY Calmly, Zenon DEF Descriptors, Pair
<1>2. Numbers'
  BY Calmly, Zenon DEF Numbers
<1> QED  BY <1>1, <1>2

\* ScanKept: nor does it empty a queue that is to be read later in the scan.
LEMMA ScanKept ==
    ASSUME Calm, Inv', Numbers', NEW r \in Role, Turn(r), pos' \in {At(r), <<sock[r], 6>>},
           UNCHANGED <<fdt, sock, fin, backlog>>,
           \A fd \in 3..8 : sock[r] < fd /\ fdt[fd] \in Conn => inq'[fdt[fd]] = inq[fdt[fd]],
           fdt[5] = Free => cmdbuf' \in {Junk, Say("QUIT")}
    PROVE  Scan'
<1> USE Calmly
<1>1. read_fds \subseteq 3..8 /\ 3..8 \subseteq Fd /\ fdt \in [Fd -> Object]
  BY LowFds DEF Scan, ProcessOK, Calm
<1>2. ASSUME NEW fd \in read_fds, sock[r] < fd, Readable(fd) PROVE Ready(fd)'
  BY <1>1, <1>2, StillReadable
<1> QED  BY <1>2, Scanned

\* DataPair: descriptors 7 and 8 are the two ends of the last transfer.
LEMMA DataPair ==
    ASSUME Calm, fdt[7] # Free \/ fdt[8] # Free
    PROVE  \E s \in Session, n \in Op :
              /\ Serving(s) /\ n = nop /\ client[s].n = n /\ client[s].ph = "busy"
              /\ Busy(s, n) /\ Relaying(n)
<1> USE Calmly
<1>1. fdt[7] # Free
  BY DEF Descriptors
<1>2. ~NoRelay /\ ~NoData
  BY <1>1 DEF NoRelay, NoData
<1>3. PICK s \in Session : Serving(s)
  BY <1>2, ServedIs
<1>4. PICK n \in Op : n = nop /\ client[s].n = n /\ Busy(s, n)
  BY <1>2, <1>3 DEF Serving, Between, Preparing
<1>5. ~Pending(n) /\ ~Unopened(n) /\ ~HungUp(n)
  BY <1>2 DEF Pending, Unopened, HungUp
<1>6. Relaying(n)
  BY <1>4, <1>5 DEF Busy, Asked, Sent, Moving, Answered, Hidden, Late
<1> QED  BY <1>3, <1>4, <1>6 DEF Busy

\* DataWaiting: who waits at a data port wants the last transfer.
LEMMA DataWaiting ==
    ASSUME Calm, NEW p \in Op, backlog[p] # <<>>
    PROVE  /\ p = nop /\ Pending(p)
           /\ \E s \in Session : /\ Serving(s) /\ client[s].n = p /\ client[s].ph = "busy"
                                 /\ Busy(s, p)
<1> USE Calmly
<1>2. ~NoData
  BY DEF NoData
<1>3. PICK s \in Session : Serving(s)
  BY <1>2, ServedIs
<1>4. PICK n \in Op : n = nop /\ client[s].n = n /\ Busy(s, n)
  BY <1>2, <1>3 DEF Serving, Between, Preparing
<1>5. ~Relaying(n) /\ ~Unopened(n) /\ ~HungUp(n)
  BY <1>2 DEF Relaying, Unopened, HungUp
<1>6. Pending(n)
  BY <1>4, <1>5 DEF Busy, Asked, Sent, Moving, Answered, Hidden, Late
<1>7. p = n
  BY <1>6 DEF Pending
<1> QED  BY <1>3, <1>4, <1>6, <1>7 DEF Busy

\* Asking: what the client that is served may have sent.
LEMMA Asking ==
    ASSUME Calm, NEW s \in Session, Serving(s), inq[cc(s)] # <<>>
    PROVE  \/ /\ NoData /\ client[s].ph = "quit" /\ server[s].ph = "idle"
              /\ Carried(s, <<Say("QUIT")>>, <<>>, <<>>, <<>>)
           \/ \E n \in Op :
                /\ n = nop /\ client[s].n = n /\ Preparing(s, n) /\ client[s].ph = "setup"
                /\ server[s].ph = "idle"
                /\ Carried(s, <<Setting(n, "client")>>, <<>>, <<>>, <<>>)
           \/ \E n \in Op :
                /\ n = nop /\ client[s].n = n /\ Busy(s, n) /\ client[s].ph = "busy"
                /\ Asked(s, n) /\ server[s].ph = "idle"
                /\ Carried(s, <<op[n].m>>, <<>>, <<>>, <<>>)
<1>1. ~Quiet(s) /\ \A y, z, w : ~Carried(s, <<>>, y, z, w)
  BY DEF Quiet, Carried
<1>2. CASE Between(s)
  BY <1>1, <1>2 DEF Between, Greeting, Resting, Quitting
<1>3. ASSUME NEW n \in Op, n = nop, client[s].n = n, Preparing(s, n)
      PROVE  /\ client[s].ph = "setup" /\ server[s].ph = "idle"
             /\ Carried(s, <<Setting(n, "client")>>, <<>>, <<>>, <<>>)
  BY <1>1, <1>3 DEF Preparing, Setup, Prepared
<1>4. ASSUME NEW n \in Op, n = nop, client[s].n = n, Busy(s, n)
      PROVE  /\ client[s].ph = "busy" /\ Asked(s, n) /\ server[s].ph = "idle"
             /\ Carried(s, <<op[n].m>>, <<>>, <<>>, <<>>)
  BY <1>1, <1>4 DEF Busy, Asked, Sent, Moving, Answered, Answering, Hidden
<1> QED  BY <1>2, <1>3, <1>4 DEF Serving

\* Hung: the proxy closes the control pair of a session that is over.
LEMMA Hung ==
    ASSUME Calm, Inv', UNCHANGED peers, NEW r \in {"accept_cmd", "connect_cmd"},
           Turn(r), pos' = At(r), NEW s \in Session, Serving(s), NoData, Quitting(s),
           server[s].ph = "gone", CloseAll(ControlPair, ControlPair),
           UNCHANGED <<dport, dfile, store, bufs, remote, written, fin, inq>>
    PROVE  TurnsInv'
<1> USE Calmly
<1>1. fdt[4] = sc(s) /\ fdt[5] = cc(s) /\ cc(s) \in Conn /\ sc(s) \in Conn
      /\ fdt[4] # Free /\ fdt[5] # Free
  BY ConnType, Kinds DEF Serving, Pair
<1>2. ControlPair = {4, 5} /\ sock.connect_cmd = 4 /\ sock.accept_cmd = 5
  BY <1>1 DEF ControlPair, Numbers
<1>3. /\ 0 \in Fd /\ 1 \in Fd /\ 2 \in Fd /\ 3 \in Fd /\ 4 \in Fd
      /\ 5 \in Fd /\ 6 \in Fd /\ 7 \in Fd /\ 8 \in Fd /\ 9 \in Fd
      /\ 3..8 \subseteq Fd /\ fdt \in [Fd -> Object] /\ backlog \in [Port -> Seq(Conn)]
  BY LowFds DEF Calm, ProcessOK, NetOK
<1>4. Dropped(backlog, fdt, {4, 5}) = backlog
  <2>1. \A p \in Port : \A fd \in {4, 5} \cap Fd : fdt[fd] # Listener(p)
    BY <1>1, Kinds
  <2> QED  BY <1>3, <2>1 DEF Dropped
<1>5. /\ fdt' = Closed(fdt, {4, 5}) /\ backlog' = backlog /\ master' = master \ {4, 5}
      /\ sock' = sock
  BY <1>2, <1>4 DEF CloseAll
<1>6. /\ fdt'[4] = Free /\ fdt'[5] = Free
      /\ fdt'[0] = fdt[0] /\ fdt'[1] = fdt[1] /\ fdt'[2] = fdt[2] /\ fdt'[3] = fdt[3]
      /\ fdt'[6] = fdt[6] /\ fdt'[7] = fdt[7] /\ fdt'[8] = fdt[8] /\ fdt'[9] = fdt[9]
      /\ \A fd \in Fd : fd > 9 => fdt'[fd] = fdt[fd]
  <2>1. \A fd \in Fd : fd > 9 => fd \notin {4, 5}
    BY DEF Fd
  <2> QED  BY <1>3, <1>5, <2>1 DEF Closed
<1>7. UNCHANGED <<status, sigpipe, disk, outq, cache, bytes_creat, lsn, est, cmdbuf>>
      /\ read_fds' = read_fds
  <2>1. read_fds' = read_fds
    BY DEF Turn
  <2> QED  BY <2>1 DEF written, store, bufs, remote
<1>8. Descriptors'
  <2>1. master' = {fd \in 3..8 : fdt'[fd] # Free}
    BY <1>5, <1>6, <1>1 DEF Descriptors
  <2>2. \A fd \in 0..2 : fdt'[fd] = Std
    BY <1>6 DEF Descriptors
  <2> QED  BY <1>6, <1>7, <2>1, <2>2 DEF Descriptors
<1>9. Numbers'
  BY <1>5, <1>6, <1>7 DEF Numbers
<1>10. cmdbuf = Say("QUIT")
  BY DEF Quitting
<1>11. Scan'
  <2>1. r \in Role /\ sock[r] \in {4, 5} /\ sock'[r] = sock[r]
    BY <1>2, <1>5 DEF Role
  <2>2. ASSUME NEW fd \in read_fds, sock[r] < fd, Readable(fd) PROVE Ready(fd)'
    <3>1. fd \in {5, 6, 7, 8} /\ pos[1] < sock[r]
      BY <2>1, <2>2, TurnIs DEF Scan
    <3>2. pos[1] \in Nat /\ sock[r] \in Nat
      BY <2>1, NetAssumption DEF ProcessOK
    <3>3. fd = 5 /\ sock[r] = 4
      BY <2>1, <2>2, <3>1, <3>2, NoneAhead, <1>6, ReadableIs DEF NoData, NoRelay, Descriptors
    <3> QED  BY <1>6, <3>3 DEF Ready, At
  <2> QED  BY <1>7, <1>9, <1>10, <2>1, <2>2, Scanned
<1>12. UNCHANGED <<client, op, nop, server, sdisk, fetches>>
  BY DEF peers
<1>13. \A q \in Session : Same(q)
  BY <1>7, <1>12 DEF Same
<1>14. NoData'
  BY <1>5, <1>6 DEF NoData, NoRelay
<1>15. \A q \in Session : Absent(q)'
  <2>1. backlog'[CmdPort] = <<>>
    BY <1>5 DEF Serving
  <2> QED  BY <1>6, <2>1, ConnType, Kinds, ShortConn DEF Absent
<1>16. client[s].ph \in {"quit", "gone"}
  BY DEF Quitting
<1>17. Over(s)'
  BY <1>12, <1>15, <1>16 DEF Over
<1>18. \A q \in Session \ {s} : Off(q)' \/ Over(q)'
  BY <1>13, <1>15, OnlyOne, SameStays
<1>19. Sessions'
  <2>1. \A q \in Session : Numbered(q)'
    BY <1>12 DEF Sessions, Numbered
  <2>2. backlog'[CmdPort] = <<>>
    BY <1>5 DEF Serving
  <2> QED  BY <1>12, <1>14, <1>17, <1>18, <2>1, <2>2 DEF Sessions
<1>20. ~Live
  BY <1>16, LiveIs
<1>21. Transfers'
  <2>1. \A n \in Op : n > nop => Fresh(n)
    BY DEF Transfers
  <2>2. \A n \in Op : Fresh(n) => Fresh(n)'
    BY <1>7 DEF Fresh
  <2> QED  BY <1>7, <1>12, <1>20, <2>1, <2>2, TransfersStay
<1>22. Fetches'
  <2>1. \A q \in Session : ~(Pair(q) /\ client[q].ph = "busy")
    BY <1>16, Alone
  <2> QED  BY <1>7, <1>12, <2>1, FetchesStay
<1> QED  BY <1>8, <1>9, <1>11, <1>19, <1>21, <1>22 DEF TurnsInv

\* CommandStale: a read of the closed control socket of a client that has quit.
LEMMA CommandStale ==
    ASSUME Calm, Inv', UNCHANGED peers, Command, fdt[5] = Free PROVE TurnsInv'
<1> USE Calmly
<1>1. /\ Turn("accept_cmd") /\ "accept_cmd" \in Role /\ sock["accept_cmd"] = 5
      /\ cmdbuf \in {Junk, Say("QUIT")}
  <2>1. Turn("accept_cmd") /\ "accept_cmd" \in Role
    BY DEF Command, Role
  <2>2. sock["accept_cmd"] \in 3..8
    BY <2>1, TurnIs
  <2> QED  BY <2>1, <2>2 DEF Numbers, Scan
<1>2. PICK x \in Fetched(5, cmdbuf) :
         /\ inq' = x.q
         /\ pos' = IF x.got # "eof" /\ x.m.t = "RETR"
                       /\ isFileExist(fdt, x.m.f)
                   THEN <<sock.accept_cmd, 6>>
                   ELSE At("accept_cmd")
         /\ \/ ClientGone(x)    \/ PortCommand(x) \/ RetrCached(x)
            \/ RetrForwarded(x) \/ OtherCommand(x)
  BY <1>1 DEF Command
<1>3. x.got = "error" /\ x.m \in {Junk, Say("QUIT")} /\ x.q = inq
  BY <1>1, <1>2, Kinds DEF Fetched
<1>4. x.m.t \in {"junk", "QUIT"}
  BY <1>3, Words
<1>5. OtherCommand(x) /\ pos' = At("accept_cmd") /\ inq' = inq
  BY <1>2, <1>3, <1>4 DEF ClientGone, PortCommand, RetrCached, RetrForwarded
<1>6. /\ UNCHANGED <<fdt, master, sock, backlog, est, lsn, cache, bytes_creat, fin, dport, dfile>>
      /\ cmdbuf' = x.m /\ Written(Unwritten) /\ read_fds' = read_fds
  <2>1. proxy_file_mode' = proxy_file_mode
    BY <1>4, <1>5 DEF OtherCommand
  <2>2. read_fds' = read_fds
    BY <1>1 DEF Turn
  <2> QED  BY <1>3, <1>5, <2>1, <2>2 DEF OtherCommand, PassOn, fds, store, remote, dfile
<1>7. UNCHANGED <<outq, disk, sigpipe, status>>
  BY <1>6 DEF Written, Unwritten
<1>8. Descriptors' /\ Numbers'
  BY <1>6, <1>7, TableKept
<1>9. Scan'
  BY <1>1, <1>3, <1>5, <1>6, <1>8, ScanKept
<1>10. \A q \in Session : Same(q) /\ ~Pair(q)
  <2>1. \A q \in Session : Same(q)
    BY <1>5, <1>6, <1>7 DEF Same, peers
  <2> QED  BY <2>1, Kinds, ConnType DEF Pair
<1> QED  BY <1>5, <1>6, <1>7, <1>8, <1>9, <1>10, ProxyAside

\* Forwarded: a command of the client that is served goes on to the server.
LEMMA Forwarded ==
    ASSUME Calm, Inv', UNCHANGED peers, UNCHANGED <<fds, dport, store, remote, fin>>,
           Turn("accept_cmd"), pos' = At("accept_cmd"),
           NEW s \in Session, Serving(s), server[s].ph = "idle",
           NEW m \in Msg, inq[cc(s)] = <<m>>, inq'[cc(s)] = Tail(inq[cc(s)]),
           \A c \in Conn \ {cc(s)} : inq'[c] = inq[c],
           Written(Put(Unwritten, fdt, sock["connect_cmd"], <<m>>))
    PROVE  /\ inq'[cc(s)] = <<>> /\ inq'[sc(s)] = inq[sc(s)]
           /\ outq'[sc(s)] = outq[sc(s)] \o <<m>> /\ outq'[cc(s)] = outq[cc(s)]
           /\ fdt' = fdt /\ backlog' = backlog
           /\ \A n \in Op : DataSame(n)
           /\ Serving(s)' => TurnsInv'
<1> USE Calmly
<1>1. /\ cc(s) \in Conn /\ sc(s) \in Conn /\ cc(s) # sc(s) /\ fdt[4] = sc(s) /\ fdt[5] = cc(s)
      /\ sc(s) \notin fin
  BY ConnType, Distinct DEF Serving, Pair
<1>2. sock["connect_cmd"] = 4 /\ sock["accept_cmd"] = 5
  BY <1>1, Kinds DEF Numbers
<1>3. /\ outq'[sc(s)] = outq[sc(s)] \o <<m>> /\ \A c \in Conn \ {sc(s)} : outq'[c] = outq[c]
      /\ UNCHANGED <<disk, sigpipe, status>>
  BY <1>1, <1>2, Wrote
<1>4. UNCHANGED <<fdt, master, sock, backlog, est, lsn, cache, bytes_creat>>
      /\ read_fds' = read_fds
  BY DEF Turn, fds, store, remote
<1>5. Descriptors' /\ Numbers'
  BY <1>3, <1>4, TableKept
<1>6. UNCHANGED <<client, op, nop, server, sdisk, fetches>>
  BY DEF peers
<1>7. Scan'
  <2>1. "accept_cmd" \in Role
    BY DEF Role
  <2>2. ASSUME NEW fd \in 3..8, 5 < fd, fdt[fd] \in Conn PROVE inq'[fdt[fd]] = inq[fdt[fd]]
    <3>1. fd \in {6, 7, 8}
      BY <2>2
    <3>2. fdt[6] \notin Conn
      BY Kinds, NumType DEF Descriptors
    <3>3. fdt[7] # Free \/ fdt[8] # Free => \E n \in Op : Relaying(n)
      BY DataPair
    <3>4. fdt[fd] # Free
      BY <2>2, Kinds
    <3>5. fdt[fd] # cc(s)
      <4>1. PICK n \in Op : Relaying(n)
        BY <2>2, <3>1, <3>2, <3>3, <3>4
      <4>2. fdt[7] \in {cd(n), sd(n)} /\ fdt[8] \in {cd(n), sd(n)}
        BY <4>1 DEF Relaying
      <4> QED  BY <2>2, <3>1, <3>2, <4>2, Distinct
    <3> QED  BY <2>2, <3>5
  <2> QED  BY <1>1, <1>2, <1>4, <1>5, <2>1, <2>2, ScanKept, Kinds
<1>8. \A n \in Op : DataSame(n)
  BY <1>3, <1>4, <1>6 DEF DataSame
<1>9. ASSUME Serving(s)' PROVE TurnsInv'
  <2>1. \A q \in Session \ {s} : Same(q)
    <3> TAKE q \in Session \ {s}
    <3>1. \A c \in {cc(q), sc(q)} : c \in Conn \ {cc(s), sc(s)}
      BY ConnType, Distinct
    <3> QED  BY <1>3, <1>4, <1>6, <3>1 DEF Same
  <2>2. Fetches'
    <3>1. \A n \in Op : (Pending(n) => Pending(n)') /\ Passive(n)' = Passive(n)
                        /\ IsGet(n)' = IsGet(n)
      BY <1>8, DataStays
    <3>2. \A q \in Session : Pair(q) => Pair(q)'
      BY <1>4 DEF Pair
    <3> QED  BY <1>3, <1>6, <3>1, <3>2, FetchesStay
  <2>3. \A n \in Op : (Fresh(n) => Fresh(n)') /\ inq'[cd(n)] = inq[cd(n)]
                      /\ inq'[sd(n)] = inq[sd(n)]
    BY <1>8, DataStays, ConnType, Distinct
  <2> QED  BY <1>3, <1>5, <1>7, <1>9, <2>1, <2>2, <2>3, ProxyStep
<1>10. inq'[cc(s)] = <<>>
  BY Short
<1> QED  BY <1>1, <1>3, <1>4, <1>8, <1>9, <1>10

\* What is left to show that a session is served on by a branch.
LEMMA ServedStill ==
    ASSUME Calm, NEW s \in Session, Serving(s), UNCHANGED <<peers, fin>>,
           fdt'[4] = fdt[4], fdt'[5] = fdt[5], backlog'[CmdPort] = backlog[CmdPort],
           est \subseteq est',
           \/ Between(s)'
           \/ \E n \in Op : n = nop /\ client[s].n = n /\ (Preparing(s, n)' \/ Busy(s, n)')
    PROVE  Serving(s)'
<1>1. client' = client /\ server' = server /\ nop' = nop
  BY DEF peers
<1> QED  BY <1>1 DEF Serving, Pair

\* Listened: the listener for data is replaced while no data connection is there.
LEMMA Listened ==
    ASSUME Calm, Inv', UNCHANGED peers,
           NEW r \in {"accept_cmd", "connect_cmd"}, Turn(r), pos' = At(r),
           NEW role \in {"accept_cmd", "connect_cmd"},
           NEW s \in Session, Serving(s), NoData,
           NEW n \in Op, NEW mode \in {"PORT", "PASV"}, NEW m,
           DataListener(n, mode, role, m),
           NEW w \in Msg, w = [m EXCEPT !.at = "proxy"],
           NEW c \in Conn, c = (IF role = "connect_cmd" THEN sc(s) ELSE cc(s)), c \notin fin,
           NEW e \in Conn, e = (IF r = "connect_cmd" THEN sc(s) ELSE cc(s)),
           \A d \in Conn \ {e} : inq'[d] = inq[d]
    PROVE  /\ outq'[c] = outq[c] \o <<w>> /\ \A d \in Conn \ {c} : outq'[d] = outq[d]
           /\ UNCHANGED <<backlog, est, lsn, fin, cache, dfile, disk>>
           /\ fdt'[4] = fdt[4] /\ fdt'[5] = fdt[5] /\ fdt'[6] = Listener(n) /\ NoData'
           /\ proxy_data_mode' = mode /\ proxy_data_port' = n
           /\ Serving(s)' => TurnsInv'
<1> USE Calmly
<1>1. /\ cc(s) \in Conn /\ sc(s) \in Conn /\ cc(s) # sc(s) /\ fdt[4] = sc(s) /\ fdt[5] = cc(s)
      /\ fdt[4] # Free /\ fdt[5] # Free
  BY ConnType, Distinct, Kinds DEF Serving, Pair
<1>2. sock["connect_cmd"] = 4 /\ sock["accept_cmd"] = 5 /\ sock[r] \in {4, 5}
  BY <1>1 DEF Numbers
<1>3. /\ 0 \in Fd /\ 1 \in Fd /\ 2 \in Fd /\ 3 \in Fd /\ 4 \in Fd
      /\ 5 \in Fd /\ 6 \in Fd /\ 7 \in Fd /\ 8 \in Fd /\ 9 \in Fd
      /\ 3..8 \subseteq Fd /\ fdt \in [Fd -> Object] /\ backlog \in [Port -> Seq(Conn)]
      /\ fdt[0] # Free /\ fdt[1] # Free /\ fdt[2] # Free /\ fdt[3] # Free
      /\ fdt[0] = Std /\ fdt[1] = Std /\ fdt[2] = Std /\ fdt[3] = Listener(CmdPort)
  BY LowFds, Tables, Kinds, NumType DEF Calm, ProcessOK, NetOK
<1>4. fdt[7] = Free /\ fdt[8] = Free /\ fdt[9] = Free /\ \A fd \in Fd : fd > 9 => fdt[fd] = Free
  BY DEF NoData, NoRelay, Descriptors
<1>5. /\ fdt[6] = Free => OldListener = {}
      /\ fdt[6] # Free => OldListener = {6}
  <2>1. sock.proxy_data \in {0, 6} /\ 0 \notin master /\ (6 \in master <=> fdt[6] # Free)
    BY DEF Numbers, Descriptors
  <2>2. fdt[6] # Free => sock.proxy_data = 6
    BY DEF Numbers
  <2> QED  BY <2>1, <2>2 DEF OldListener
<1>6. PICK ft : ft = Closed(fdt, OldListener)
  OBVIOUS
<1>7. /\ ft[6] = Free /\ ft \in [Fd -> Object]
      /\ \A fd \in Fd : fd # 6 => ft[fd] = fdt[fd]
      /\ ft[0] = fdt[0] /\ ft[1] = fdt[1] /\ ft[2] = fdt[2] /\ ft[3] = fdt[3]
      /\ ft[4] = fdt[4] /\ ft[5] = fdt[5]
  <2>1. \A fd \in Fd : ft[fd] = IF fd \in OldListener THEN Free ELSE fdt[fd]
    BY <1>6 DEF Closed
  <2>2. ft \in [Fd -> Object]
    BY <1>3, <1>6, ObjectKind DEF Closed
  <2> QED  BY <1>3, <1>5, <2>1, <2>2
<1>8. Lowest(ft) = 6 /\ 6 # NoFd
  BY <1>1, <1>3, <1>7, LowestAt DEF Calm
<1>9. Opened(ft, Listener(n)) = [ft EXCEPT ![6] = Listener(n)]
  BY <1>8 DEF Opened
<1>10. Dropped(backlog, fdt, OldListener) = backlog
  <2>1. \A p \in Port : \A fd \in OldListener : fdt[fd] = Listener(p) => backlog[p] = <<>>
    <3>1. fdt[6] # Free => \E p \in Op : fdt[6] = Listener(p)
      BY DEF Descriptors
    <3>2. \A p \in Op : backlog[p] = <<>>
      BY DEF NoData
    <3> QED  BY <1>5, <3>1, <3>2, Kinds, NumType
  <2> QED  BY <1>3, <2>1 DEF Dropped
<1>11. \A fd \in Fd : ft[fd] \notin {Listener(n), [k |-> IF mode = "PASV" THEN "cd" ELSE "sd",
                                                   n |-> n]}
  <2>1. [k |-> IF mode = "PASV" THEN "cd" ELSE "sd", n |-> n] \in {cd(n), sd(n)}
    BY DEF cd, sd
  <2>2. \A fd \in Fd : ft[fd] \in {Std, Listener(CmdPort), sc(s), cc(s), Free}
    <3>1. \A fd \in Fd : fd \in {0, 1, 2, 3, 4, 5, 6, 7, 8, 9} \/ fd > 9
      <4>1. \A i \in Nat : i \in {0, 1, 2, 3, 4, 5, 6, 7, 8, 9} \/ i > 9
        OBVIOUS
      <4>2. Fd \subseteq Nat
        BY NetAssumption DEF Fd
      <4> QED  BY <4>1, <4>2
    <3>2. /\ ft[0] = Std /\ ft[1] = Std /\ ft[2] = Std /\ ft[3] = Listener(CmdPort)
          /\ ft[4] = sc(s) /\ ft[5] = cc(s) /\ ft[6] = Free /\ ft[7] = Free
          /\ ft[8] = Free /\ ft[9] = Free
      BY <1>1, <1>3, <1>4, <1>7
    <3>3. \A fd \in Fd : fd > 9 => ft[fd] = Free
      <4>1. \A fd \in Fd : fd > 9 => fd # 6
        BY DEF Fd
      <4> QED  BY <1>4, <1>7, <4>1
    <3> QED  BY <3>1, <3>2, <3>3
  <2>3. /\ Listener(n) \notin {Std, Listener(CmdPort), sc(s), cc(s), Free}
        /\ cd(n) \notin {Std, Listener(CmdPort), sc(s), cc(s), Free}
        /\ sd(n) \notin {Std, Listener(CmdPort), sc(s), cc(s), Free}
    BY <1>1, Kinds, NumType, Distinct, ConnType
  <2> QED  BY <2>1, <2>2, <2>3
<1>12. /\ fdt' = [ft EXCEPT ![6] = Listener(n)] /\ backlog' = backlog
       /\ master' = (master \ OldListener) \cup {6}
       /\ sock' = [sock EXCEPT !.proxy_data = 6]
       /\ proxy_data_mode' = mode /\ proxy_data_port' = n
       /\ Written(Put(Unwritten, [ft EXCEPT ![6] = Listener(n)], sock[role], <<w>>))
       /\ UNCHANGED <<dfile, store, remote, fin>>
  <2> QED  BY <1>6, <1>8, <1>9, <1>10, <1>11 DEF DataListener
<1>13. /\ fdt'[6] = Listener(n) /\ \A fd \in Fd : fd > 6 => fdt'[fd] = fdt[fd]
       /\ fdt'[0] = fdt[0] /\ fdt'[1] = fdt[1] /\ fdt'[2] = fdt[2] /\ fdt'[3] = fdt[3]
       /\ fdt'[4] = fdt[4] /\ fdt'[5] = fdt[5]
       /\ fdt'[7] = fdt[7] /\ fdt'[8] = fdt[8] /\ fdt'[9] = fdt[9]
  <2>1. \A fd \in Fd : fd > 6 => fd # 6
    BY DEF Fd
  <2> QED  BY <1>3, <1>7, <1>12, <2>1
<1>14. /\ outq'[c] = outq[c] \o <<w>> /\ \A d \in Conn \ {c} : outq'[d] = outq[d]
       /\ UNCHANGED <<disk, sigpipe, status>>
  <2>1. PICK ft1 : ft1 = [ft EXCEPT ![6] = Listener(n)]
    OBVIOUS
  <2> PICK fd : fd = sock[role]
    OBVIOUS
  <2>2. ft1[fd] = c
    BY <1>1, <1>2, <1>3, <1>7, <2>1
  <2>3. Written(Put(Unwritten, ft1, fd, <<w>>))
    BY <1>12, <2>1
  <2>4. ProcessOK /\ NetOK
    OBVIOUS
  <2>5. /\ outq'[c] = outq[c] \o <<w>> /\ \A d \in Conn \ {c} : outq'[d] = outq[d]
        /\ UNCHANGED <<disk, sigpipe, status>>
    BY ONLY <2>2, <2>3, <2>4, Wrote, c \in Conn, c \notin fin, w \in Msg
  <2> QED  BY <2>5
<1>15. UNCHANGED <<est, lsn, cache, bytes_creat>> /\ read_fds' = read_fds
  BY <1>12 DEF remote, store, Turn
<1>16. /\ sock'.proxy_data = 6 /\ sock'[r] = sock[r]
       /\ sock'.proxy_cmd = sock.proxy_cmd /\ sock'.accept_cmd = sock.accept_cmd
       /\ sock'.connect_cmd = sock.connect_cmd /\ sock'.accept_data = sock.accept_data
       /\ sock'.connect_data = sock.connect_data
  BY <1>12 DEF ProcessOK, Role
<1>17. Descriptors'
  <2>1. master' = {fd \in 3..8 : fdt'[fd] # Free}
    <3>1. master = {fd \in 3..8 : fdt[fd] # Free} /\ OldListener \subseteq {6}
      BY <1>5 DEF Descriptors
    <3>2. Listener(n) # Free
      BY Kinds, NumType
    <3> QED  BY <1>12, <1>13, <3>1, <3>2
  <2>2. Pair(s)'
    BY <1>1, <1>13 DEF Pair
  <2>3. \A fd \in 0..2 : fdt'[fd] = Std
    BY <1>3, <1>13
  <2>4. \A fd \in Fd : fd > 9 => fdt'[fd] = Free
    <3>1. \A fd \in Fd : fd > 9 => fd > 6
      BY DEF Fd
    <3> QED  BY <1>4, <1>13, <3>1
  <2> QED  BY <1>3, <1>4, <1>13, <1>14, <1>15, <2>1, <2>2, <2>3, <2>4 DEF Descriptors
<1>18. Numbers'
  BY <1>13, <1>15, <1>16 DEF Numbers
<1>19. Scan'
  <2>1. r \in Role
    BY DEF Role
  <2>2. ASSUME NEW fd \in read_fds, sock[r] < fd, Readable(fd) PROVE Ready(fd)'
    <3>1. fd \in {5, 6, 7, 8} /\ pos[1] < sock[r]
      <4>1. pos[1] < sock[r]
        BY <2>1, TurnIs
      <4>2. fd \in 3..8
        BY DEF Scan
      <4> QED  BY <1>2, <2>2, <4>1, <4>2
    <3>2. pos[1] \in Nat /\ sock[r] \in Nat
      BY <1>2, NetAssumption DEF ProcessOK
    <3>3. fd = 5 /\ sock[r] = 4
      BY <1>2, <1>4, <2>2, <3>1, <3>2, NoneAhead, ReadableIs
    <3>4. e # cc(s)
      BY <1>1, <1>2, <3>3
    <3>5. inq'[fdt[5]] = inq[fdt[5]]
      BY <1>1, <3>4
    <3>6. \A p \in Port : fdt[5] = Listener(p) => backlog'[p] = backlog[p]
      BY <1>12
    <3>7. /\ fdt'[5] = fdt[5] /\ fin' = fin /\ 5 \in 3..8 /\ fdt \in [Fd -> Object]
          /\ 3..8 \subseteq Fd
      BY <1>3, <1>12, <1>13
    <3> QED  BY <2>2, <3>3, <3>5, <3>6, <3>7, StillReadable
  <2>3. fdt'[5] # Free
    BY <1>1, <1>13
  <2> QED  BY <1>16, <1>18, <2>1, <2>2, <2>3, Scanned
<1>20. NoData'
  BY <1>12, <1>13 DEF NoData, NoRelay
<1>21. UNCHANGED <<client, op, nop, server, sdisk, fetches>>
  BY DEF peers
<1>22. ASSUME Serving(s)' PROVE TurnsInv'
  <2>1. \A q \in Session \ {s} : Same(q)
    <3> TAKE q \in Session \ {s}
    <3>1. \A d \in {cc(q), sc(q)} : d \in Conn \ {cc(s), sc(s)}
      BY ConnType, Distinct
    <3>2. c \in {cc(s), sc(s)} /\ e \in {cc(s), sc(s)}
      OBVIOUS
    <3> QED  BY <1>12, <1>14, <1>15, <1>21, <3>1, <3>2 DEF Same
  <2>2. Fetches'
    <3>1. \A k \in Op : ~Pending(k)
      BY NotPending
    <3> QED  BY <1>14, <1>21, <3>1, FetchesStay
  <2>3. \A k \in Op : (Fresh(k) => Fresh(k)') /\ inq'[cd(k)] = inq[cd(k)]
                      /\ inq'[sd(k)] = inq[sd(k)]
    <3> TAKE k \in Op
    <3>1. Fresh(k) => Fresh(k)'
      BY <1>12, <1>15 DEF Fresh
    <3>2. cd(k) \in Conn \ {e} /\ sd(k) \in Conn \ {e}
      BY ConnType, Distinct
    <3> QED  BY <3>1, <3>2
  <2> QED  BY <1>12, <1>14, <1>17, <1>18, <1>19, <1>22, <2>1, <2>2, <2>3, ProxyStep
<1> QED  BY <1>12, <1>13, <1>14, <1>15, <1>20, <1>22

\* The command m of session s has been read.
Received(s, x, m) ==
    /\ Turn("accept_cmd") /\ x.got = "message" /\ x.m = m /\ inq[cc(s)] = <<m>>
    /\ inq'[cc(s)] = Tail(inq[cc(s)])
    /\ \A c \in Conn \ {cc(s)} : inq'[c] = inq[c]

\* Others: a command that is neither PORT nor RETR.
LEMMA Others ==
    ASSUME Calm, Inv', UNCHANGED peers, NEW s \in Session, Serving(s), server[s].ph = "idle",
           NEW x, NEW m \in Msg, Received(s, x, m), OtherCommand(x) \/ RetrForwarded(x),
           pos' = At("accept_cmd")
    PROVE  /\ inq'[cc(s)] = <<>> /\ inq'[sc(s)] = inq[sc(s)]
           /\ outq'[sc(s)] = outq[sc(s)] \o <<m>> /\ outq'[cc(s)] = outq[cc(s)]
           /\ fdt' = fdt /\ backlog' = backlog /\ cmdbuf' = m /\ UNCHANGED <<dport, est>>
           /\ \A n \in Op : DataSame(n)
           /\ Serving(s)' => TurnsInv'
<1>1. UNCHANGED <<fds, dport, store, remote, fin>> /\ cmdbuf' = m /\ PassOn(x, "connect_cmd")
  BY DEF OtherCommand, RetrForwarded, Received
<1>2. Written(Put(Unwritten, fdt, sock["connect_cmd"], <<m>>))
  BY <1>1 DEF PassOn, Received
<1>3. /\ Turn("accept_cmd") /\ inq[cc(s)] = <<m>> /\ inq'[cc(s)] = Tail(inq[cc(s)])
      /\ \A c \in Conn \ {cc(s)} : inq'[c] = inq[c]
  BY DEF Received
<1>4. est' = est
  BY <1>1 DEF remote
<1> QED  BY <1>1, <1>2, <1>3, <1>4, Forwarded

\* QuitTurn: QUIT is passed on.
LEMMA QuitTurn ==
    ASSUME Calm, Inv', UNCHANGED peers, NEW s \in Session, Serving(s), NoData,
           client[s].ph = "quit", server[s].ph = "idle",
           Carried(s, <<Say("QUIT")>>, <<>>, <<>>, <<>>),
           NEW x, Received(s, x, Say("QUIT")), OtherCommand(x), pos' = At("accept_cmd")
    PROVE  TurnsInv'
<1>1. Say("QUIT") \in Msg /\ <<>> \o <<Say("QUIT")>> = <<Say("QUIT")>>
  BY SayType, Short
<1>2. /\ inq'[cc(s)] = <<>> /\ inq'[sc(s)] = inq[sc(s)]
      /\ outq'[sc(s)] = outq[sc(s)] \o <<Say("QUIT")>> /\ outq'[cc(s)] = outq[cc(s)]
      /\ fdt' = fdt /\ backlog' = backlog /\ cmdbuf' = Say("QUIT") /\ UNCHANGED <<dport, est>>
      /\ Serving(s)' => TurnsInv'
  BY <1>1, Others
<1>3. UNCHANGED fin /\ client' = client /\ server' = server
  BY DEF OtherCommand, peers
<1>4. Carried(s, <<>>, <<Say("QUIT")>>, <<>>, <<>>)'
  BY <1>1, <1>2 DEF Carried
<1>5. Between(s)'
  BY <1>2, <1>3, <1>4 DEF Between, Quitting, NoData, NoRelay
<1> QED  BY <1>2, <1>3, <1>5, ServedStill

\* PassiveTurn: PASV is passed on.
LEMMA PassiveTurn ==
    ASSUME Calm, Inv', UNCHANGED peers, NEW s \in Session, Serving(s),
           NEW n \in Op, n = nop, client[s].n = n, Preparing(s, n),
           client[s].ph = "setup", server[s].ph = "idle",
           Carried(s, <<Setting(n, "client")>>, <<>>, <<>>, <<>>), Passive(n),
           NEW x, Received(s, x, Setting(n, "client")), OtherCommand(x),
           pos' = At("accept_cmd")
    PROVE  TurnsInv'
<1>1. PICK m \in Msg : m = Setting(n, "client")
  BY Kind, Words DEF Host
<1>2. <<>> \o <<m>> = <<m>>
  BY Short
<1>3. /\ inq'[cc(s)] = <<>> /\ inq'[sc(s)] = inq[sc(s)]
      /\ outq'[sc(s)] = outq[sc(s)] \o <<m>> /\ outq'[cc(s)] = outq[cc(s)]
      /\ fdt' = fdt /\ backlog' = backlog /\ UNCHANGED <<dport, est>>
      /\ DataSame(n) /\ (Serving(s)' => TurnsInv')
  BY <1>1, Others
<1>4. UNCHANGED fin /\ client' = client /\ server' = server /\ op' = op
  BY DEF OtherCommand, peers
<1>5. Carried(s, <<>>, <<Setting(n, "client")>>, <<>>, <<>>)'
  <2>1. Setting(n, "client")' = Setting(n, "client")
    BY <1>4 DEF Setting
  <2>2. Carried(s, <<>>, <<m>>, <<>>, <<>>)'
    BY <1>2, <1>3 DEF Carried
  <2> QED  BY <1>1, <1>3, <1>2, <2>1 DEF Carried
<1>6. Setup(s, n)'
  <2>1. "client" \in Host /\ Passive(n)'
    BY <1>4 DEF Host, Passive
  <2> QED  BY <1>4, <1>5, <2>1 DEF Setup
<1>7. Preparing(s, n)'
  <2>1. op[n].reply = "none" /\ NoData /\ Fresh(n) /\ Expected(n, "client")
    BY DEF Preparing
  <2> QED  BY <1>3, <1>4, <1>6, <2>1, DataStays DEF Preparing
<1> QED  BY <1>3, <1>4, <1>7, ServedStill

\* PortTurn: PORT is passed on with the proxy's own port.
LEMMA PortTurn ==
    ASSUME Calm, Inv', UNCHANGED peers, NEW s \in Session, Serving(s),
           NEW n \in Op, n = nop, client[s].n = n, Preparing(s, n),
           client[s].ph = "setup", server[s].ph = "idle",
           Carried(s, <<Setting(n, "client")>>, <<>>, <<>>, <<>>), ~Passive(n),
           NEW x, Received(s, x, Setting(n, "client")), PortCommand(x),
           pos' = At("accept_cmd")
    PROVE  TurnsInv'
<1> USE Calmly
<1>1. op[n].mode = "PORT" /\ NoData /\ op[n].reply = "none" /\ Fresh(n) /\ Expected(n, "client")
  BY Kind DEF Passive, Preparing
<1>2. PICK m \in Msg : m = Setting(n, "client") /\ m.n = n
  BY Kind, Words DEF Host
<1>3. PICK w \in Msg : w = Setting(n, "proxy") /\ w = [m EXCEPT !.at = "proxy"]
  <2>1. Setting(n, "proxy") \in Msg
    BY Kind, Words DEF Host
  <2>2. Setting(n, "proxy") = [m EXCEPT !.at = "proxy"]
    <3>1. m = [t |-> op[n].mode, n |-> n, at |-> "client"]
      BY <1>2 DEF Setting
    <3>2. [m EXCEPT !.at = "proxy"] = [t |-> op[n].mode, n |-> n, at |-> "proxy"]
      BY <3>1
    <3> QED  BY <3>2 DEF Setting
  <2> QED  BY <2>1, <2>2
<1>4. cc(s) \in Conn /\ sc(s) \in Conn /\ cc(s) # sc(s) /\ sc(s) \notin fin
  BY ConnType, Distinct DEF Serving
<1>5. Turn("accept_cmd") /\ inq[cc(s)] = <<m>> /\ inq'[cc(s)] = Tail(inq[cc(s)])
      /\ (\A c \in Conn \ {cc(s)} : inq'[c] = inq[c])
      /\ DataListener(n, "PORT", "connect_cmd", m)
  BY <1>2 DEF Received, PortCommand
<1>6. /\ outq'[sc(s)] = outq[sc(s)] \o <<w>> /\ \A d \in Conn \ {sc(s)} : outq'[d] = outq[d]
      /\ UNCHANGED <<backlog, est, lsn, fin, cache, dfile, disk>>
      /\ fdt'[4] = fdt[4] /\ fdt'[5] = fdt[5] /\ fdt'[6] = Listener(n) /\ NoData'
      /\ proxy_data_mode' = "PORT" /\ proxy_data_port' = n
      /\ Serving(s)' => TurnsInv'
  <2>1. /\ sc(s) = (IF "connect_cmd" = "connect_cmd" THEN sc(s) ELSE cc(s))
        /\ cc(s) = (IF "accept_cmd" = "connect_cmd" THEN sc(s) ELSE cc(s))
        /\ "PORT" \in {"PORT", "PASV"} /\ "accept_cmd" \in {"accept_cmd", "connect_cmd"}
        /\ "connect_cmd" \in {"accept_cmd", "connect_cmd"}
    OBVIOUS
  <2>2. pos' = At("accept_cmd") /\ w \in Msg /\ n \in Op
    OBVIOUS
  <2> QED
    BY ONLY Calm, Inv', UNCHANGED peers, s \in Session, Serving(s), <1>1, <1>3, <1>4, <1>5,
            <2>1, <2>2, Listened
<1>7. client' = client /\ server' = server /\ op' = op
  BY DEF peers
<1>8. Setting(n, "proxy")' = w
  BY <1>3, <1>7 DEF Setting
<1>9. inq'[cc(s)] = <<>> /\ <<>> \o <<w>> = <<w>>
  BY <1>5, Short
<1>10. Carried(s, <<>>, <<w>>, <<>>, <<>>)'
  BY <1>4, <1>5, <1>6, <1>9 DEF Carried
<1>11. Setup(s, n)'
  <2>1. Armed(n)'
    BY <1>1, <1>6, <1>7 DEF Armed
  <2>2. "proxy" \in Host /\ Carried(s, <<>>, <<Setting(n, "proxy")>>, <<>>, <<>>)'
    BY <1>8, <1>10 DEF Host, Carried
  <2> QED  BY <1>7, <2>1, <2>2 DEF Setup
<1>12. Preparing(s, n)'
  BY <1>1, <1>6, <1>7, <1>11 DEF Preparing, Fresh, Expected
<1> QED  BY <1>6, <1>12, ServedStill

\* Vacant: the next descriptor when no data is relayed.
LEMMA Vacant ==
    ASSUME Calm, NEW s \in Session, Serving(s), NEW n \in Op, Armed(n), NoRelay
    PROVE  /\ Lowest(fdt) = 7 /\ 7 # NoFd
           /\ fdt[7] = Free /\ fdt[8] = Free /\ fdt[9] = Free
           /\ \A ft : ft = [fdt EXCEPT ![7] = ft[7]] /\ ft[7] # Free =>
                 Lowest(ft) = 8 /\ 8 # NoFd
<1> USE Calmly
<1>1. /\ fdt[0] # Free /\ fdt[1] # Free /\ fdt[2] # Free /\ fdt[3] # Free
      /\ fdt[4] # Free /\ fdt[5] # Free /\ fdt[6] # Free
  <2>1. fdt[4] = sc(s) /\ fdt[5] = cc(s) /\ fdt[6] = Listener(n)
    BY DEF Serving, Pair, Armed
  <2>2. fdt[0] = Std /\ fdt[1] = Std /\ fdt[2] = Std /\ fdt[3] = Listener(CmdPort)
    BY Tables DEF Calm
  <2>3. Std # Free /\ Listener(CmdPort) # Free /\ Listener(n) # Free
    BY Kinds, NumType
  <2>4. sc(s) # Free /\ cc(s) # Free
    BY Kinds, ConnType
  <2> QED  BY <2>1, <2>2, <2>3, <2>4
<1>2. fdt[7] = Free /\ fdt[8] = Free /\ fdt[9] = Free
  BY DEF NoRelay, Descriptors
<1>3. Lowest(fdt) = 7 /\ 7 # NoFd
  BY <1>1, <1>2, LowestAt DEF Calm
<1>4. ASSUME NEW ft, ft = [fdt EXCEPT ![7] = ft[7]], ft[7] # Free
      PROVE  Lowest(ft) = 8 /\ 8 # NoFd
  <2>1. fdt \in [Fd -> Object] /\ 0 \in Fd /\ 1 \in Fd /\ 2 \in Fd /\ 3 \in Fd /\ 4 \in Fd
        /\ 5 \in Fd /\ 6 \in Fd /\ 8 \in Fd
    BY LowFds DEF ProcessOK, Calm
  <2>2. \A k \in Fd : k # 7 => ft[k] = fdt[k]
    BY <1>4, <2>1
  <2>3. /\ ft[0] # Free /\ ft[1] # Free /\ ft[2] # Free /\ ft[3] # Free /\ ft[4] # Free
        /\ ft[5] # Free /\ ft[6] # Free /\ ft[8] = Free
    BY <1>1, <1>2, <2>1, <2>2
  <2> QED  BY <1>4, <2>3, LowestAt DEF Calm
<1> QED  BY <1>2, <1>3, <1>4

\* AskedIs: what is there when the command of a transfer is read.
LEMMA AskedIs ==
    ASSUME Calm, NEW s \in Session, Serving(s), NEW n \in Op, n = nop, Busy(s, n), Asked(s, n)
    PROVE  /\ NoRelay /\ Armed(n) /\ Told(s, n) /\ op[n].reply = "none"
           /\ Lowest(fdt) = 7 /\ 7 # NoFd
           /\ \A f : isFileExist(fdt, f) <=> f \in DOMAIN disk
           /\ Unopened(n) \/ (Passive(n) /\ Pending(n))
<1>1. NoRelay /\ Armed(n)
  BY DEF Asked, Unopened, Pending, NoData, Busy
<1>2. Lowest(fdt) = 7 /\ 7 # NoFd
  BY <1>1, Vacant
<1> QED  BY <1>1, <1>2 DEF Asked, Busy, isFileExist

\* StorTurn: STOR is passed on.
LEMMA StorTurn ==
    ASSUME Calm, Inv', UNCHANGED peers, NEW s \in Session, Serving(s),
           NEW n \in Op, n = nop, client[s].n = n, Busy(s, n), client[s].ph = "busy",
           Asked(s, n), server[s].ph = "idle", IsPut(n),
           NEW x, Received(s, x, op[n].m), OtherCommand(x), pos' = At("accept_cmd")
    PROVE  TurnsInv'
<1>1. PICK m \in Msg : m = op[n].m /\ m.t = "STOR" /\ ~IsGet(n)
  BY Kind DEF IsPut
<1>2. <<>> \o <<m>> = <<m>>
  BY Short
<1>3. /\ inq'[cc(s)] = <<>> /\ inq'[sc(s)] = inq[sc(s)]
      /\ outq'[sc(s)] = outq[sc(s)] \o <<m>> /\ outq'[cc(s)] = outq[cc(s)]
      /\ fdt' = fdt /\ backlog' = backlog /\ UNCHANGED <<dport, est>>
      /\ DataSame(n) /\ (Serving(s)' => TurnsInv')
  BY <1>1, Others
<1>4. UNCHANGED fin /\ client' = client /\ server' = server /\ op' = op
  BY DEF OtherCommand, peers
<1>5. IsPut(n)' = IsPut(n) /\ IsGet(n)' = IsGet(n) /\ Passive(n)' = Passive(n)
  BY <1>4 DEF IsPut, IsGet, Passive
<1>6. Carried(s, <<>>, <<m>>, <<>>, <<>>) '
  BY <1>2, <1>3 DEF Carried, Asked
<1>7. Known(n)' /\ Missing(n)'
  <2>1. proxy_file_mode' = "STOR"
    BY <1>1 DEF OtherCommand, Received
  <2> QED  BY <1>1, <1>4, <1>5, <2>1 DEF Known, Missing
<1>8. Unopened(n)' \/ (Passive(n)' /\ Pending(n)')
  BY <1>3, <1>5, DataStays, AskedIs
<1>9. Busy(s, n)'
  <2>1. Armed(n)' /\ Told(s, n)'
    BY <1>3, <1>4, AskedIs DEF Armed, Told, dport
  <2>2. Sent(s, n)'
    <3>1. op'[n].reply = "none" /\ server'[s].ph = "idle"
      BY <1>4, AskedIs
    <3>2. Carried(s, <<>>, <<op[n].m>>, <<>>, <<>>)'
      BY <1>1, <1>4, <1>6 DEF Carried
    <3> QED  BY <1>1, <1>5, <1>7, <1>8, <3>1, <3>2 DEF Sent
  <2> QED  BY <1>4, <2>1, <2>2 DEF Busy
<1> QED  BY <1>3, <1>4, <1>9, ServedStill

\* MissTurn: RETR of a file that is not in the cache is passed on.
LEMMA MissTurn ==
    ASSUME Calm, Inv', UNCHANGED peers, NEW s \in Session, Serving(s),
           NEW n \in Op, n = nop, client[s].n = n, Busy(s, n), client[s].ph = "busy",
           Asked(s, n), server[s].ph = "idle", IsGet(n),
           NEW x, Received(s, x, op[n].m), RetrForwarded(x), pos' = At("accept_cmd")
    PROVE  TurnsInv'
<1> USE Calmly
<1>1. PICK m \in Msg : m = op[n].m /\ m.t = "RETR" /\ ~IsPut(n)
  BY Kind DEF IsGet
<1>2. <<>> \o <<m>> = <<m>>
  BY Short
<1>3. /\ inq'[cc(s)] = <<>> /\ inq'[sc(s)] = inq[sc(s)]
      /\ outq'[sc(s)] = outq[sc(s)] \o <<m>> /\ outq'[cc(s)] = outq[cc(s)]
      /\ fdt' = fdt /\ backlog' = backlog /\ UNCHANGED <<dport, est>>
      /\ DataSame(n) /\ (Serving(s)' => TurnsInv')
  BY <1>1, Others
<1>4. UNCHANGED fin /\ client' = client /\ server' = server /\ op' = op /\ fetches' = fetches
  BY DEF RetrForwarded, peers
<1>5. IsPut(n)' = IsPut(n) /\ IsGet(n)' = IsGet(n) /\ Passive(n)' = Passive(n)
  BY <1>4 DEF IsPut, IsGet, Passive
<1>6. Carried(s, <<>>, <<m>>, <<>>, <<>>)'
  BY <1>2, <1>3 DEF Carried, Asked
<1>7. Known(n)'
  <2>1. proxy_file_mode' = "RETR" /\ file' = m.f
    BY <1>1 DEF RetrForwarded, Received
  <2> QED  BY <1>1, <1>4, <1>5, <2>1 DEF Known
<1>8. op[n].m.f \notin DOMAIN disk
  <2>1. ~isFileExist(fdt, op[n].m.f)
    BY DEF RetrForwarded, Received
  <2> QED  BY <2>1, AskedIs
<1>9. Missing(n)'
  <2>1. Missing(n)
    BY <1>8 DEF Missing
  <2> QED  BY <1>3, <2>1, DataStays
<1>10. Unopened(n)' \/ (Passive(n)' /\ Pending(n)')
  BY <1>3, <1>5, DataStays, AskedIs
<1>11. op[n].m.f \in Cacheable => fetches'[op'[n].m.f] = 0
  <2> SUFFICES ASSUME op[n].m.f \in Cacheable PROVE fetches[op[n].m.f] = 0
    BY <1>4
  <2>1. ASSUME NEW k \in Op, k = nop, Pending(k), ~Passive(k) PROVE FALSE
    <3>1. k = n
      BY <2>1
    <3> QED  BY <2>1, <3>1, AskedIs, NotPending DEF Unopened
  <2> QED  BY <1>8, <2>1 DEF Fetches
<1>12. Busy(s, n)'
  <2>1. Armed(n)' /\ Told(s, n)'
    BY <1>3, <1>4, AskedIs DEF Armed, Told, dport
  <2>2. Sent(s, n)'
    <3>1. op'[n].reply = "none" /\ server'[s].ph = "idle"
      BY <1>4, AskedIs
    <3>2. Carried(s, <<>>, <<op[n].m>>, <<>>, <<>>)'
      BY <1>1, <1>4, <1>6 DEF Carried
    <3> QED  BY <1>4, <1>5, <1>7, <1>9, <1>10, <1>11, <3>1, <3>2 DEF Sent
  <2> QED  BY <1>4, <2>1, <2>2 DEF Busy
<1> QED  BY <1>3, <1>4, <1>12, ServedStill

\* HiddenTurn: a passive RETR of a file in the cache is answered to nobody yet.
LEMMA HiddenTurn ==
    ASSUME Calm, Inv', UNCHANGED peers, NEW s \in Session, Serving(s),
           NEW n \in Op, n = nop, client[s].n = n, Busy(s, n), client[s].ph = "busy",
           Asked(s, n), server[s].ph = "idle", IsGet(n), Passive(n),
           NEW x, Received(s, x, op[n].m), RetrCached(x),
           pos' = <<sock["accept_cmd"], 6>>
    PROVE  TurnsInv'
<1> USE Calmly
<1>1. PICK m \in Msg : m = op[n].m /\ m.t = "RETR" /\ m.f \in DOMAIN disk /\ ~IsPut(n)
  <2>1. isFileExist(fdt, op[n].m.f)
    BY DEF RetrCached, Received
  <2> QED  BY <2>1, AskedIs, Kind DEF IsGet
<1>2. proxy_data_mode = "PASV"
  BY AskedIs DEF Armed, Passive
<1>3. /\ UNCHANGED <<fdt, sock, remote, written, dport, store, fin, master, backlog>>
      /\ proxy_file_mode' = "RETR" /\ file' = m.f
  BY <1>1, <1>2 DEF RetrCached, Received
<1>4. UNCHANGED <<est, lsn, status, outq, disk, sigpipe, cache, bytes_creat>>
      /\ read_fds' = read_fds
  BY <1>3 DEF remote, written, store, Received, Turn
<1>5. UNCHANGED <<client, op, nop, server, sdisk, fetches>>
  BY DEF peers
<1>6. /\ cc(s) \in Conn /\ sc(s) \in Conn /\ cc(s) # sc(s) /\ fdt[5] = cc(s)
  BY ConnType, Distinct DEF Serving, Pair
<1>7. /\ inq'[cc(s)] = <<>> /\ \A c \in Conn \ {cc(s)} : inq'[c] = inq[c]
      /\ Turn("accept_cmd")
  BY <1>1, Short DEF Received
<1>8. Descriptors' /\ Numbers'
  BY <1>3, <1>4, TableKept
<1>9. Scan'
  <2>1. "accept_cmd" \in Role /\ sock["accept_cmd"] = 5
    <3>1. fdt[4] # Free
      BY <1>6, Kinds, Tables DEF Calm
    <3> QED  BY <3>1 DEF Role, Numbers
  <2>2. ASSUME NEW fd \in 3..8, 5 < fd, fdt[fd] \in Conn PROVE FALSE
    <3>1. fd \in {6, 7, 8}
      BY <2>2
    <3>2. fdt[6] \notin Conn /\ fdt[7] \notin Conn /\ fdt[8] \notin Conn
      BY AskedIs, Kinds, NumType DEF Descriptors, NoRelay
    <3> QED  BY <2>2, <3>1, <3>2
  <2>3. fdt[5] # Free
    BY <1>6, Kinds
  <2> QED  BY <1>3, <1>7, <1>8, <2>1, <2>2, <2>3, ScanKept
<1>10. \A k \in Op : DataSame(k)
  BY <1>3, <1>4, <1>5 DEF DataSame
<1>11. Serving(s)'
  <2>1. Quiet(s)'
    BY <1>4, <1>6, <1>7 DEF Asked, Quiet, Carried
  <2>2. Known(n)' /\ Armed(n)' /\ Told(s, n)'
    BY <1>1, <1>3, <1>5, AskedIs DEF Known, Armed, Told, IsGet, dport
  <2>3. Passive(n)' /\ IsGet(n)' /\ (Unopened(n)' \/ Pending(n)')
    BY <1>10, AskedIs, DataStays
  <2>4. Hidden(s, n)'
    BY <1>1, <1>4, <1>5, <2>1, <2>2, <2>3, AskedIs DEF Hidden
  <2>5. Busy(s, n)'
    BY <1>5, <2>2, <2>4 DEF Busy
  <2> QED  BY <1>3, <1>4, <2>5, ServedStill
<1>12. \A q \in Session \ {s} : Same(q)
  <2> TAKE q \in Session \ {s}
  <2>1. \A c \in {cc(q), sc(q)} : c \in Conn \ {cc(s)}
    BY ConnType, Distinct
  <2> QED  BY <1>3, <1>4, <1>5, <1>7, <2>1 DEF Same
<1>13. Fetches'
  <2>1. \A k \in Op : (Pending(k) => Pending(k)') /\ Passive(k)' = Passive(k)
                      /\ IsGet(k)' = IsGet(k)
    BY <1>10, DataStays
  <2>2. \A q \in Session : Pair(q) => Pair(q)'
    BY <1>3 DEF Pair
  <2> QED  BY <1>4, <1>5, <2>1, <2>2, FetchesStay
<1>14. \A k \in Op : (Fresh(k) => Fresh(k)') /\ inq'[cd(k)] = inq[cd(k)]
                     /\ inq'[sd(k)] = inq[sd(k)]
  BY <1>7, <1>10, DataStays, ConnType, Distinct
<1> QED  BY <1>3, <1>4, <1>8, <1>9, <1>11, <1>12, <1>13, <1>14, ProxyStep

\* WroteCached: the replies made up for the client and the file from the cache.
LEMMA WroteCached ==
    ASSUME ProcessOK, NetOK, NEW ft1, NEW ft2, NEW a, NEW d, NEW c \in Conn, NEW e \in Conn,
           c # e, ft1[a] = c, ft2[a] = c, ft2[d] = e, c \notin fin, e \notin fin,
           outq[c] = <<>>, NEW ms,
           Written(Put(Put(Put(Unwritten, ft1, a, <<Say("150")>>), ft2, d, ms), ft2, a,
                       <<Say("226")>>))
    PROVE  /\ outq'[c] = <<Say("150"), Say("226")>>
           /\ \A k \in Conn \ {c, e} : outq'[k] = outq[k]
           /\ UNCHANGED <<disk, sigpipe, status>>
<1>1. /\ IsConn(c) /\ c.k # "file" /\ c # Dead /\ c \notin fin \cup {Dead}
      /\ IsConn(e) /\ e.k # "file" /\ e # Dead /\ e \notin fin \cup {Dead}
  BY Kinds
<1>2. PICK w1 : w1 = Put(Unwritten, ft1, a, <<Say("150")>>)
  OBVIOUS
<1>3. PICK w2 : w2 = Put(w1, ft2, d, ms)
  OBVIOUS
<1>4. PICK w3 : w3 = Put(w2, ft2, a, <<Say("226")>>)
  OBVIOUS
<1>5. w1.q = [outq EXCEPT ![c] = @ \o <<Say("150")>>] /\ w1.d = disk /\ w1.hit = {}
  BY <1>1, <1>2 DEF Put, Unwritten
<1>6. w2.q = [w1.q EXCEPT ![e] = @ \o ms] /\ w2.d = disk /\ w2.hit = {}
  BY <1>1, <1>3, <1>5 DEF Put
<1>7. w3.q = [w2.q EXCEPT ![c] = @ \o <<Say("226")>>] /\ w3.d = disk /\ w3.hit = {}
  BY <1>1, <1>4, <1>6 DEF Put
<1>8. Written(w3)
  BY <1>2, <1>3, <1>4
<1>9. outq' = w3.q /\ disk' = disk /\ sigpipe' = sigpipe /\ status' = status
  BY <1>7, <1>8 DEF Written
<1>10. <<>> \o <<Say("150")>> = <<Say("150")>>
       /\ <<Say("150")>> \o <<Say("226")>> = <<Say("150"), Say("226")>>
  BY Short, SayType
<1>11. outq \in [Conn -> Seq(Msg)]
  BY DEF NetOK
<1>12. w1.q[c] = <<Say("150")>> /\ DOMAIN w1.q = Conn
       /\ \A k \in Conn \ {c, e} : w1.q[k] = outq[k]
  BY <1>5, <1>10, <1>11
<1>13. w2.q[c] = <<Say("150")>> /\ DOMAIN w2.q = Conn
       /\ \A k \in Conn \ {c, e} : w2.q[k] = outq[k]
  BY <1>6, <1>12
<1>14. w3.q[c] = <<Say("150"), Say("226")>> /\ \A k \in Conn \ {c, e} : w3.q[k] = outq[k]
  BY <1>7, <1>10, <1>13
<1> QED  BY <1>9, <1>14

\* AnsweredTurn: an active RETR of a file in the cache is answered at once.
LEMMA AnsweredTurn ==
    ASSUME Calm, Inv', UNCHANGED peers, NEW s \in Session, Serving(s),
           NEW n \in Op, n = nop, client[s].n = n, Busy(s, n), client[s].ph = "busy",
           Asked(s, n), server[s].ph = "idle", IsGet(n), ~Passive(n),
           NEW x, Received(s, x, op[n].m), RetrCached(x),
           pos' = <<sock["accept_cmd"], 6>>
    PROVE  TurnsInv'
<1> USE Calmly
<1>1. PICK m \in Msg : m = op[n].m /\ m.t = "RETR" /\ m.f \in DOMAIN disk /\ ~IsPut(n)
  <2>1. isFileExist(fdt, op[n].m.f)
    BY DEF RetrCached, Received
  <2> QED  BY <2>1, AskedIs, Kind DEF IsGet
<1>2. /\ op[n].mode = "PORT" /\ proxy_data_mode = "PORT" /\ proxy_data_port = n
      /\ n \in lsn["client"] /\ Unopened(n) /\ NoData /\ Fresh(n)
  <2>1. op[n].mode = "PORT"
    BY Kind DEF Passive
  <2>2. Unopened(n) /\ Armed(n)
    BY AskedIs
  <2> QED  BY <2>1, <2>2 DEF Armed, Unopened, Expected
<1>3. /\ cc(s) \in Conn /\ sc(s) \in Conn /\ cc(s) # sc(s) /\ fdt[4] = sc(s) /\ fdt[5] = cc(s)
      /\ cd(n) \in Conn /\ cd(n) # cc(s) /\ cd(n) # sc(s) /\ fdt[4] # Free
  BY ConnType, Distinct, Kinds DEF Serving, Pair
<1>4. sock["accept_cmd"] = 5 /\ sock["connect_cmd"] = 4 /\ "accept_cmd" \in Role
  BY <1>3 DEF Numbers, Role
<1>5. Connected("client", n) = cd(n)
  BY <1>2 DEF Connected, cd
<1>6. /\ 4 \in Fd /\ 5 \in Fd /\ 7 \in Fd /\ 3..8 \subseteq Fd /\ fdt \in [Fd -> Object]
      /\ fdt[7] = Free /\ fdt[8] = Free
  BY <1>2, LowFds DEF Calm, ProcessOK, NoData, NoRelay, Descriptors
<1>7. PICK ft : ft = [fdt EXCEPT ![7] = cd(n)]
  OBVIOUS
<1>8. /\ ft[7] = cd(n) /\ ft[5] = cc(s) /\ ft = [fdt EXCEPT ![7] = ft[7]] /\ ft[7] # Free
      /\ Closed(ft, {7}) = fdt
  <2>1. ft[7] = cd(n) /\ ft[5] = cc(s) /\ ft = [fdt EXCEPT ![7] = ft[7]]
    BY <1>3, <1>6, <1>7
  <2>2. Closed(ft, {7}) = fdt
    BY <1>6, <1>7 DEF Closed
  <2> QED  BY <1>3, <2>1, <2>2, Kinds
<1>9. Lowest(fdt) = 7 /\ Lowest(ft) = 8 /\ 8 # NoFd
  BY <1>2, <1>8, Vacant, AskedIs
<1>10. Opened(fdt, cd(n)) = ft
  BY <1>7, <1>9 DEF Opened
<1>11. /\ Dial("client", n) /\ sock' = [sock EXCEPT !.connect_data = 7] /\ fdt' = fdt
       /\ Written(Put(Put(Put(Unwritten, fdt, sock["accept_cmd"], <<Say("150")>>), ft, 7,
                          proxy_rw(m.f)), ft, sock["accept_cmd"], <<Say("226")>>))
       /\ UNCHANGED <<dport, store, fin, master, backlog>>
       /\ proxy_file_mode' = "RETR" /\ file' = m.f
  <2>1. "PORT" # "PASV"
    OBVIOUS
  <2> QED  BY <1>1, <1>2, <1>5, <1>8, <1>9, <1>10, <2>1 DEF RetrCached, Received
<1>12. cc(s) \notin fin /\ cd(n) \notin fin /\ outq[cc(s)] = <<>> /\ outq[sc(s)] = <<>>
       /\ inq[sc(s)] = <<>>
  BY <1>2 DEF Serving, Fresh, Asked, Carried
<1>13. /\ outq'[cc(s)] = <<Say("150"), Say("226")>>
       /\ \A k \in Conn \ {cc(s), cd(n)} : outq'[k] = outq[k]
       /\ UNCHANGED <<disk, sigpipe, status>>
  <2>1. fdt[sock["accept_cmd"]] = cc(s) /\ ft[sock["accept_cmd"]] = cc(s) /\ cc(s) # cd(n)
    BY <1>3, <1>4, <1>8
  <2>2. ProcessOK /\ NetOK /\ ft[7] = cd(n)
    BY <1>8
  <2> QED  BY ONLY <1>3, <1>11, <1>12, <2>1, <2>2, WroteCached
<1>14. est' = est \cup {cd(n)} /\ lsn' = [lsn EXCEPT !["client"] = @ \ {n}]
  BY <1>2, <1>5, <1>11 DEF Dial
<1>15. UNCHANGED <<client, op, nop, server, sdisk, fetches>>
  BY DEF peers
<1>16. /\ inq'[cc(s)] = <<>> /\ \A c \in Conn \ {cc(s)} : inq'[c] = inq[c]
       /\ Turn("accept_cmd")
  BY <1>1, Short DEF Received
<1>17. UNCHANGED <<cache, bytes_creat>> /\ read_fds' = read_fds
  BY <1>11, <1>16 DEF store, Turn
<1>18. Descriptors'
  BY <1>11, <1>13, <1>17 DEF Descriptors, Pair
<1>19. 5 \in read_fds /\ pos[1] < 5 /\ pos[1] \in Nat
       /\ \A fd \in read_fds : 5 < fd => Readable(fd)
  BY <1>4, <1>16, TurnIs, NetAssumption DEF ProcessOK
<1>20. 6 \notin read_fds /\ 7 \notin read_fds /\ 8 \notin read_fds
  <2>1. pos[1] < 6 /\ pos[1] < 7
    BY <1>19
  <2> QED  BY <1>2, <2>1, NoneAhead
<1>21. /\ sock'.connect_data = 7 /\ sock'.proxy_cmd = sock.proxy_cmd
       /\ sock'.accept_cmd = sock.accept_cmd /\ sock'.connect_cmd = sock.connect_cmd
       /\ sock'.proxy_data = sock.proxy_data /\ sock'.accept_data = sock.accept_data
       /\ sock'["accept_cmd"] = sock["accept_cmd"]
  BY <1>11 DEF ProcessOK, Role
<1>22. Numbers'
  BY <1>6, <1>11, <1>17, <1>20, <1>21 DEF Numbers
<1>23. Scan'
  <2>1. \A fd \in read_fds : ~(5 < fd)
    <3>1. read_fds \subseteq 3..8 /\ \A fd \in 3..8 : 5 < fd => fd \in {6, 7, 8}
      BY DEF Scan
    <3> QED  BY <1>20, <3>1
  <2>2. fdt'[5] # Free
    BY <1>3, <1>11, Kinds
  <2> QED  BY <1>4, <1>16, <1>21, <1>22, <2>1, <2>2, Scanned
<1>24. NoData'
  BY <1>2, <1>11 DEF NoData, NoRelay
<1>25. Serving(s)'
  <2>1. Carried(s, <<>>, <<>>, <<>>, <<Say("150"), Say("226")>>)'
    BY <1>3, <1>12, <1>13, <1>16 DEF Carried
  <2>2. Known(n)' /\ Armed(n)' /\ Told(s, n)'
    BY <1>1, <1>11, <1>15, AskedIs DEF Known, Armed, Told, IsGet, dport
  <2>3. HungUp(n)'
    <3>1. cd(n) \in est' /\ cd(n) \notin fin'
      BY <1>11, <1>12, <1>14
    <3>2. IsGet(n)' /\ ~IsPut(n)'
      BY <1>1, <1>15 DEF IsGet, IsPut
    <3>3. Stored(n)'
      BY <1>1, <1>13, <1>15 DEF Stored
    <3> QED  BY <1>24, <3>1, <3>2, <3>3 DEF HungUp
  <2>4. Answered(s, n)'
    <3>1. ~IsPut(n)'
      BY <1>1, <1>15 DEF IsGet, IsPut
    <3> QED  BY <1>15, <2>1, <2>2, <2>3, <3>1, AskedIs DEF Answered, Answering
  <2>5. Busy(s, n)'
    BY <1>15, <2>2, <2>4 DEF Busy
  <2>6. est \subseteq est' /\ fdt'[4] = fdt[4] /\ fdt'[5] = fdt[5] /\ fin' = fin
    BY <1>11, <1>14
  <2> QED  BY <1>11, <2>5, <2>6, ServedStill
<1>26. \A q \in Session \ {s} : Same(q)
  <2> TAKE q \in Session \ {s}
  <2>1. \A c \in {cc(q), sc(q)} : c \in Conn \ {cc(s), cd(n)}
    BY ConnType, Distinct
  <2>2. \A c \in {cc(q), sc(q)} : c \in est' <=> c \in est
    BY <1>14, <2>1
  <2> QED  BY <1>11, <1>13, <1>15, <1>16, <2>1, <2>2 DEF Same
<1>27. Fetches'
  <2>1. \A k \in Op : ~Pending(k)
    BY <1>2, NotPending
  <2> QED  BY <1>13, <1>15, <2>1, FetchesStay
<1>28. \A k \in Op : (k # nop => (Fresh(k) => Fresh(k)')) /\ inq'[cd(k)] = inq[cd(k)]
                     /\ inq'[sd(k)] = inq[sd(k)]
  <2> TAKE k \in Op
  <2>1. k # nop => (Fresh(k) => Fresh(k)')
    BY <1>11, <1>14, Distinct DEF Fresh
  <2> QED  BY <1>16, <2>1, ConnType, Distinct
<1> QED  BY <1>11, <1>13, <1>18, <1>22, <1>23, <1>25, <1>26, <1>27, <1>28, ProxyStep

\* CommandTurn: any command of the client (ftp.c:176-237).
LEMMA CommandTurn ==
    ASSUME Calm, Inv', UNCHANGED peers, Command PROVE TurnsInv'
<1> USE Calmly
<1>1. CASE fdt[5] = Free
  BY <1>1, CommandStale
<1>2. CASE fdt[5] # Free
  <2>1. PICK s \in Session : Serving(s)
    BY <1>2, ServedIs
  <2>2. /\ cc(s) \in Conn /\ fdt[4] # Free /\ fdt[5] = cc(s) /\ sock["accept_cmd"] = 5
    BY <2>1, ConnType, Kinds DEF Serving, Pair, Numbers
  <2>3. Turn("accept_cmd")
    BY DEF Command
  <2>4. PICK x \in Fetched(5, cmdbuf) :
         /\ inq' = x.q
         /\ pos' = IF x.got # "eof" /\ x.m.t = "RETR"
                       /\ isFileExist(fdt, x.m.f)
                   THEN <<sock["accept_cmd"], 6>>
                   ELSE At("accept_cmd")
         /\ \/ ClientGone(x)    \/ PortCommand(x) \/ RetrCached(x)
            \/ RetrForwarded(x) \/ OtherCommand(x)
    BY <2>2 DEF Command
  <2>5. \/ x.got = "eof" /\ x.q = inq /\ inq[cc(s)] = <<>> /\ cc(s) \in fin
        \/ /\ x.got = "message" /\ inq[cc(s)] # <<>> /\ x.m = Head(inq[cc(s)])
           /\ x.q[cc(s)] = Tail(inq[cc(s)])
           /\ \A e \in Conn \ {cc(s)} : x.q[e] = inq[e]
    <3>1. x \in Fetched(5, cmdbuf)
      OBVIOUS
    <3> QED  BY <2>2, <3>1, Kinds DEF Fetched, NetOK
  <2>6. CASE x.got = "eof" /\ x.q = inq /\ cc(s) \in fin
    <3>1. ClientGone(x) /\ pos' = At("accept_cmd") /\ inq' = inq
      BY <2>4, <2>6 DEF PortCommand, RetrCached, RetrForwarded, OtherCommand
    <3>2. NoData /\ Quitting(s) /\ server[s].ph = "gone"
      <4>1. client[s].ph = "gone"
        BY <2>1, <2>6 DEF Serving
      <4>2. NoData /\ Quitting(s)
        BY <2>1, <4>1, StageOf
      <4> QED  BY <4>1, <4>2 DEF Quitting
    <3> QED  BY <2>1, <2>3, <3>1, <3>2, Hung DEF ClientGone
  <2>7. CASE /\ x.got = "message" /\ inq[cc(s)] # <<>> /\ x.m = Head(inq[cc(s)])
             /\ x.q[cc(s)] = Tail(inq[cc(s)])
             /\ \A e \in Conn \ {cc(s)} : x.q[e] = inq[e]
    <3>1. ASSUME NEW m \in Msg, inq[cc(s)] = <<m>>
          PROVE  Received(s, x, m)
      BY <2>3, <2>4, <2>7, <3>1, Short DEF Received
    <3>2. CASE /\ NoData /\ client[s].ph = "quit" /\ server[s].ph = "idle"
               /\ Carried(s, <<Say("QUIT")>>, <<>>, <<>>, <<>>)
      <4>1. Received(s, x, Say("QUIT")) /\ x.m = Say("QUIT") /\ Say("QUIT").t = "QUIT"
        BY <3>1, <3>2, SayType, Words DEF Carried, Received
      <4>2. OtherCommand(x) /\ pos' = At("accept_cmd")
        BY <2>4, <2>7, <4>1 DEF ClientGone, PortCommand, RetrCached, RetrForwarded
      <4> QED  BY <2>1, <3>2, <4>1, <4>2, QuitTurn
    <3>3. ASSUME NEW n \in Op, n = nop, client[s].n = n, Preparing(s, n),
                 client[s].ph = "setup", server[s].ph = "idle",
                 Carried(s, <<Setting(n, "client")>>, <<>>, <<>>, <<>>)
          PROVE  TurnsInv'
      <4>1. PICK m \in Msg : m = Setting(n, "client") /\ m.t = op[n].mode
        BY <3>3, Kind, Words DEF Host
      <4>2. Received(s, x, m) /\ x.m = m
        BY <3>1, <3>3, <4>1 DEF Carried, Received
      <4>3. CASE Passive(n)
        <5>1. OtherCommand(x) /\ pos' = At("accept_cmd")
          BY <2>4, <2>7, <4>1, <4>2, <4>3 DEF ClientGone, PortCommand, RetrCached,
             RetrForwarded, Passive
        <5> QED  BY <2>1, <3>3, <4>1, <4>2, <4>3, <5>1, PassiveTurn
      <4>4. CASE ~Passive(n)
        <5>1. op[n].mode = "PORT"
          BY <3>3, <4>4, Kind DEF Passive
        <5>2. PortCommand(x) /\ pos' = At("accept_cmd")
          BY <2>4, <2>7, <4>1, <4>2, <5>1 DEF ClientGone, OtherCommand, RetrCached,
             RetrForwarded
        <5> QED  BY <2>1, <3>3, <4>1, <4>2, <4>4, <5>2, PortTurn
      <4> QED  BY <4>3, <4>4
    <3>4. ASSUME NEW n \in Op, n = nop, client[s].n = n, Busy(s, n), client[s].ph = "busy",
                 Asked(s, n), server[s].ph = "idle",
                 Carried(s, <<op[n].m>>, <<>>, <<>>, <<>>)
          PROVE  TurnsInv'
      <4>1. PICK m \in Msg : m = op[n].m
        BY <3>4, Kind
      <4>2. Received(s, x, m) /\ x.m = m
        BY <3>1, <3>4, <4>1 DEF Carried, Received
      <4>3. CASE IsPut(n)
        <5>1. m.t = "STOR"
          BY <4>1, <4>3 DEF IsPut
        <5>2. OtherCommand(x) /\ pos' = At("accept_cmd")
          BY <2>4, <2>7, <4>2, <5>1 DEF ClientGone, PortCommand, RetrCached, RetrForwarded
        <5> QED  BY <2>1, <3>4, <4>1, <4>2, <4>3, <5>2, StorTurn
      <4>4. CASE IsGet(n) /\ RetrForwarded(x)
        <5>1. pos' = At("accept_cmd")
          BY <2>4, <4>4 DEF RetrForwarded
        <5> QED  BY <2>1, <3>4, <4>1, <4>2, <4>4, <5>1, MissTurn
      <4>5. CASE IsGet(n) /\ RetrCached(x)
        <5>1. pos' = <<sock["accept_cmd"], 6>>
          BY <2>4, <4>5 DEF RetrCached
        <5> QED  BY <2>1, <3>4, <4>1, <4>2, <4>5, <5>1, HiddenTurn, AnsweredTurn
      <4>6. IsGet(n) => RetrForwarded(x) \/ RetrCached(x)
        BY <2>4, <2>7, <4>1, <4>2 DEF ClientGone, PortCommand, OtherCommand, IsGet
      <4> QED  BY <3>4, <4>3, <4>4, <4>5, <4>6, Kind
    <3> QED  BY <2>1, <2>7, <3>2, <3>3, <3>4, Asking
  <2> QED  BY <2>5, <2>6, <2>7
<1> QED  BY <1>1, <1>2

\* Telling: what the server may have told the session that is served.
LEMMA Telling ==
    ASSUME Calm, NEW s \in Session, Serving(s), inq[sc(s)] # <<>>
    PROVE  \/ /\ NoData /\ client[s].ph = "greet" /\ server[s].ph = "idle"
              /\ Carried(s, <<>>, <<>>, <<Say("220")>>, <<>>)
           \/ /\ NoData /\ client[s].ph = "quit" /\ server[s].ph = "gone"
              /\ cmdbuf = Say("QUIT") /\ Carried(s, <<>>, <<>>, <<Say("221")>>, <<>>)
           \/ \E n \in Op :
                /\ n = nop /\ client[s].n = n /\ Preparing(s, n) /\ client[s].ph = "setup"
                /\ server[s].ph = "idle" /\ Told(s, n)
                /\ \/ /\ ~Passive(n) /\ Armed(n)
                      /\ Carried(s, <<>>, <<>>, <<Say("200")>>, <<>>)
                   \/ /\ Passive(n) /\ n \in lsn["server"]
                      /\ Carried(s, <<>>, <<>>, <<Agreed(n, "server")>>, <<>>)
           \/ \E n \in Op :
                /\ n = nop /\ client[s].n = n /\ Busy(s, n) /\ client[s].ph = "busy"
                /\ op[n].reply = "none"
                /\ \/ Moving(s, n) /\ Carried(s, <<>>, <<>>, <<Say("150")>>, <<>>)
                   \/ /\ Answered(s, n)
                      /\ \/ Carried(s, <<>>, <<>>, <<Say("150"), Say("226")>>, <<>>)
                         \/ Carried(s, <<>>, <<>>, <<Say("226")>>, <<Say("150")>>)
                         \/ Carried(s, <<>>, <<>>, <<Say("226")>>, <<>>)
<1>1. ~Quiet(s) /\ \A y, z, w : ~Carried(s, y, z, <<>>, w)
  BY DEF Quiet, Carried
<1>2. CASE Between(s)
  BY <1>1, <1>2 DEF Between, Greeting, Resting, Quitting
<1>3. ASSUME NEW n \in Op, n = nop, client[s].n = n, Preparing(s, n)
      PROVE  /\ client[s].ph = "setup" /\ server[s].ph = "idle" /\ Told(s, n)
             /\ \/ /\ ~Passive(n) /\ Armed(n)
                   /\ Carried(s, <<>>, <<>>, <<Say("200")>>, <<>>)
                \/ /\ Passive(n) /\ n \in lsn["server"]
                   /\ Carried(s, <<>>, <<>>, <<Agreed(n, "server")>>, <<>>)
  BY <1>1, <1>3 DEF Preparing, Setup, Prepared
<1>4. ASSUME NEW n \in Op, n = nop, client[s].n = n, Busy(s, n)
      PROVE  /\ client[s].ph = "busy" /\ op[n].reply = "none"
             /\ \/ Moving(s, n) /\ Carried(s, <<>>, <<>>, <<Say("150")>>, <<>>)
                \/ /\ Answered(s, n)
                   /\ \/ Carried(s, <<>>, <<>>, <<Say("150"), Say("226")>>, <<>>)
                      \/ Carried(s, <<>>, <<>>, <<Say("226")>>, <<Say("150")>>)
                      \/ Carried(s, <<>>, <<>>, <<Say("226")>>, <<>>)
  BY <1>1, <1>4 DEF Busy, Asked, Sent, Moving, Answered, Answering, Hidden
<1> QED  BY <1>2, <1>3, <1>4 DEF Serving

\* Relayed: a reply of the server goes on to the client that is served.
LEMMA Relayed ==
    ASSUME Calm, Inv', UNCHANGED peers,
           UNCHANGED <<fds, dport, dfile, store, remote, fin, cmdbuf>>,
           Turn("connect_cmd"), pos' = At("connect_cmd"),
           NEW s \in Session, Serving(s), client[s].ph # "gone",
           NEW m \in Msg, inq'[sc(s)] = Tail(inq[sc(s)]),
           \A c \in Conn \ {sc(s)} : inq'[c] = inq[c],
           Written(Put(Unwritten, fdt, sock["accept_cmd"], <<m>>))
    PROVE  /\ inq'[cc(s)] = inq[cc(s)]
           /\ outq'[cc(s)] = outq[cc(s)] \o <<m>> /\ outq'[sc(s)] = outq[sc(s)]
           /\ fdt' = fdt /\ backlog' = backlog
           /\ \A n \in Op : DataSame(n)
           /\ Serving(s)' => TurnsInv'
<1> USE Calmly
<1>1. /\ cc(s) \in Conn /\ sc(s) \in Conn /\ cc(s) # sc(s) /\ fdt[4] = sc(s) /\ fdt[5] = cc(s)
      /\ cc(s) \notin fin /\ fdt[4] # Free
  BY ConnType, Distinct, Kinds DEF Serving, Pair
<1>2. sock["connect_cmd"] = 4 /\ sock["accept_cmd"] = 5
  BY <1>1 DEF Numbers
<1>3. /\ outq'[cc(s)] = outq[cc(s)] \o <<m>> /\ \A c \in Conn \ {cc(s)} : outq'[c] = outq[c]
      /\ UNCHANGED <<disk, sigpipe, status>>
  BY <1>1, <1>2, Wrote
<1>4. UNCHANGED <<fdt, master, sock, backlog, est, lsn, cache, bytes_creat>>
      /\ read_fds' = read_fds
  BY DEF Turn, fds, store, remote
<1>5. Descriptors' /\ Numbers'
  BY <1>3, <1>4, TableKept
<1>6. UNCHANGED <<client, op, nop, server, sdisk, fetches>>
  BY DEF peers
<1>7. Scan'
  <2>1. "connect_cmd" \in Role
    BY DEF Role
  <2>2. ASSUME NEW fd \in 3..8, 4 < fd, fdt[fd] \in Conn PROVE inq'[fdt[fd]] = inq[fdt[fd]]
    <3>1. fd \in {5, 6, 7, 8}
      BY <2>2
    <3>2. fdt[6] \notin Conn
      BY Kinds, NumType DEF Descriptors
    <3>3. fdt[7] # Free \/ fdt[8] # Free => \E n \in Op : Relaying(n)
      BY DataPair
    <3>4. fdt[fd] # Free
      BY <2>2, Kinds
    <3>5. fdt[fd] # sc(s)
      <4>1. CASE fd = 5
        BY <1>1, <4>1
      <4>2. CASE fd # 5
        <5>1. PICK n \in Op : Relaying(n)
          BY <2>2, <3>1, <3>2, <3>3, <3>4, <4>2
        <5>2. fdt[7] \in {cd(n), sd(n)} /\ fdt[8] \in {cd(n), sd(n)}
          BY <5>1 DEF Relaying
        <5> QED  BY <2>2, <3>1, <3>2, <4>2, <5>2, Distinct
      <4> QED  BY <4>1, <4>2
    <3> QED  BY <2>2, <3>5
  <2>3. fdt[5] # Free
    BY <1>1, Kinds
  <2> QED  BY <1>2, <1>4, <1>5, <2>1, <2>2, <2>3, ScanKept
<1>8. \A n \in Op : DataSame(n)
  BY <1>3, <1>4, <1>6 DEF DataSame
<1>9. ASSUME Serving(s)' PROVE TurnsInv'
  <2>1. \A q \in Session \ {s} : Same(q)
    <3> TAKE q \in Session \ {s}
    <3>1. \A c \in {cc(q), sc(q)} : c \in Conn \ {cc(s), sc(s)}
      BY ConnType, Distinct
    <3> QED  BY <1>3, <1>4, <1>6, <3>1 DEF Same
  <2>2. Fetches'
    <3>1. \A n \in Op : (Pending(n) => Pending(n)') /\ Passive(n)' = Passive(n)
                        /\ IsGet(n)' = IsGet(n)
      BY <1>8, DataStays
    <3>2. \A q \in Session : Pair(q) => Pair(q)'
      BY <1>4 DEF Pair
    <3> QED  BY <1>3, <1>6, <3>1, <3>2, FetchesStay
  <2>3. \A n \in Op : (Fresh(n) => Fresh(n)') /\ inq'[cd(n)] = inq[cd(n)]
                      /\ inq'[sd(n)] = inq[sd(n)]
    BY <1>8, DataStays, ConnType, Distinct
  <2> QED  BY <1>3, <1>5, <1>7, <1>9, <2>1, <2>2, <2>3, ProxyStep
<1> QED  BY <1>1, <1>3, <1>4, <1>8, <1>9

\* The reply m of the server's session s has been read.
Replying(s, x, m) ==
    /\ Turn("connect_cmd") /\ pos' = At("connect_cmd")
    /\ x.got = "message" /\ x.m = m /\ Head(inq[sc(s)]) = m
    /\ inq'[sc(s)] = Tail(inq[sc(s)])
    /\ \A c \in Conn \ {sc(s)} : inq'[c] = inq[c]

\* Replies: a reply other than 227.
LEMMA Replies ==
    ASSUME Calm, Inv', UNCHANGED peers, NEW s \in Session, Serving(s),
           client[s].ph # "gone",
           NEW x, NEW m \in Msg, Replying(s, x, m), OtherReply(x)
    PROVE  /\ inq'[cc(s)] = inq[cc(s)] /\ inq'[sc(s)] = Tail(inq[sc(s)])
           /\ outq'[cc(s)] = outq[cc(s)] \o <<m>> /\ outq'[sc(s)] = outq[sc(s)]
           /\ fdt' = fdt /\ backlog' = backlog
           /\ UNCHANGED <<dport, dfile, est, lsn, cmdbuf, fin>>
           /\ \A n \in Op : DataSame(n)
           /\ Serving(s)' => TurnsInv'
<1>1. /\ UNCHANGED <<fds, dport, dfile, store, remote, fin, cmdbuf>>
      /\ PassOn(x, "accept_cmd")
  BY DEF OtherReply
<1>2. Written(Put(Unwritten, fdt, sock["accept_cmd"], <<m>>))
  BY <1>1 DEF PassOn, Replying
<1>3. /\ Turn("connect_cmd") /\ inq'[sc(s)] = Tail(inq[sc(s)]) /\ pos' = At("connect_cmd")
      /\ \A c \in Conn \ {sc(s)} : inq'[c] = inq[c]
  BY DEF Replying
<1>4. UNCHANGED <<est, lsn>>
  BY <1>1 DEF remote
<1> QED  BY <1>1, <1>2, <1>3, <1>4, Relayed

\* GreetingTurn: the greeting is passed on.
LEMMA GreetingTurn ==
    ASSUME Calm, Inv', UNCHANGED peers, NEW s \in Session, Serving(s), NoData,
           client[s].ph = "greet", server[s].ph = "idle",
           Carried(s, <<>>, <<>>, <<Say("220")>>, <<>>),
           NEW x, Replying(s, x, Say("220")), OtherReply(x)
    PROVE  TurnsInv'
<1>1. Say("220") \in Msg /\ <<>> \o <<Say("220")>> = <<Say("220")>>
      /\ Tail(<<Say("220")>>) = <<>>
  BY SayType, Short
<1>2. /\ inq'[cc(s)] = inq[cc(s)] /\ inq'[sc(s)] = Tail(inq[sc(s)])
      /\ outq'[cc(s)] = outq[cc(s)] \o <<Say("220")>> /\ outq'[sc(s)] = outq[sc(s)]
      /\ fdt' = fdt /\ backlog' = backlog /\ UNCHANGED <<est, fin>>
      /\ Serving(s)' => TurnsInv'
  BY <1>1, Replies
<1>3. client' = client /\ server' = server
  BY DEF peers
<1>4. Carried(s, <<>>, <<>>, <<>>, <<Say("220")>>)'
  BY <1>1, <1>2 DEF Carried
<1>5. Between(s)'
  BY <1>2, <1>3, <1>4 DEF Between, Greeting, NoData, NoRelay
<1> QED  BY <1>2, <1>5, ServedStill

\* FarewellTurn: the answer to QUIT is passed on.
LEMMA FarewellTurn ==
    ASSUME Calm, Inv', UNCHANGED peers, NEW s \in Session, Serving(s), NoData,
           client[s].ph = "quit", server[s].ph = "gone", cmdbuf = Say("QUIT"),
           Carried(s, <<>>, <<>>, <<Say("221")>>, <<>>),
           NEW x, Replying(s, x, Say("221")), OtherReply(x)
    PROVE  TurnsInv'
<1>1. Say("221") \in Msg /\ <<>> \o <<Say("221")>> = <<Say("221")>>
      /\ Tail(<<Say("221")>>) = <<>>
  BY SayType, Short
<1>2. /\ inq'[cc(s)] = inq[cc(s)] /\ inq'[sc(s)] = Tail(inq[sc(s)])
      /\ outq'[cc(s)] = outq[cc(s)] \o <<Say("221")>> /\ outq'[sc(s)] = outq[sc(s)]
      /\ fdt' = fdt /\ backlog' = backlog /\ UNCHANGED <<est, fin, cmdbuf>>
      /\ Serving(s)' => TurnsInv'
  BY <1>1, Replies
<1>3. client' = client /\ server' = server
  BY DEF peers
<1>4. Carried(s, <<>>, <<>>, <<>>, <<Say("221")>>)'
  BY <1>1, <1>2 DEF Carried
<1>5. Between(s)'
  BY <1>2, <1>3, <1>4 DEF Between, Quitting, NoData, NoRelay
<1> QED  BY <1>2, <1>5, ServedStill

\* ReadyTurn: the 200 of PORT is passed on.
LEMMA ReadyTurn ==
    ASSUME Calm, Inv', UNCHANGED peers, NEW s \in Session, Serving(s),
           NEW n \in Op, n = nop, client[s].n = n, Preparing(s, n),
           client[s].ph = "setup", server[s].ph = "idle", Told(s, n), ~Passive(n), Armed(n),
           Carried(s, <<>>, <<>>, <<Say("200")>>, <<>>),
           NEW x, Replying(s, x, Say("200")), OtherReply(x)
    PROVE  TurnsInv'
<1>1. Say("200") \in Msg /\ <<>> \o <<Say("200")>> = <<Say("200")>>
      /\ Tail(<<Say("200")>>) = <<>>
  BY SayType, Short
<1>2. /\ inq'[cc(s)] = inq[cc(s)] /\ inq'[sc(s)] = Tail(inq[sc(s)])
      /\ outq'[cc(s)] = outq[cc(s)] \o <<Say("200")>> /\ outq'[sc(s)] = outq[sc(s)]
      /\ fdt' = fdt /\ backlog' = backlog /\ UNCHANGED <<dport, est, fin>>
      /\ DataSame(n) /\ (Serving(s)' => TurnsInv')
  BY <1>1, Replies
<1>3. client' = client /\ server' = server /\ op' = op
  BY DEF peers
<1>4. Carried(s, <<>>, <<>>, <<>>, <<Say("200")>>)'
  BY <1>1, <1>2 DEF Carried
<1>5. Setup(s, n)'
  <2>1. Told(s, n)' /\ Armed(n)' /\ ~Passive(n)'
    BY <1>2, <1>3 DEF Told, Armed, Passive, dport
  <2> QED  BY <1>3, <1>4, <2>1 DEF Setup
<1>6. Preparing(s, n)'
  <2>1. op[n].reply = "none" /\ NoData /\ Fresh(n) /\ Expected(n, "client")
    BY DEF Preparing
  <2> QED  BY <1>2, <1>3, <1>5, <2>1, DataStays DEF Preparing
<1> QED  BY <1>2, <1>6, ServedStill

\* AgreedTurn: the 227 of PASV is passed on with the proxy's own port.
LEMMA AgreedTurn ==
    ASSUME Calm, Inv', UNCHANGED peers, NEW s \in Session, Serving(s),
           NEW n \in Op, n = nop, client[s].n = n, Preparing(s, n),
           client[s].ph = "setup", server[s].ph = "idle", Told(s, n), Passive(n),
           n \in lsn["server"], Carried(s, <<>>, <<>>, <<Agreed(n, "server")>>, <<>>),
           NEW x, Replying(s, x, Agreed(n, "server")), PassiveReply(x)
    PROVE  TurnsInv'
<1> USE Calmly
<1>1. op[n].mode = "PASV" /\ NoData /\ op[n].reply = "none" /\ Fresh(n) /\ Expected(n, "client")
  BY DEF Passive, Preparing
<1>2. PICK m \in Msg : m = Agreed(n, "server") /\ m.n = n
  BY Words DEF Host
<1>3. PICK w \in Msg : w = Agreed(n, "proxy") /\ w = [m EXCEPT !.at = "proxy"]
  <2>1. Agreed(n, "proxy") \in Msg
    BY Words DEF Host
  <2>2. Agreed(n, "proxy") = [m EXCEPT !.at = "proxy"]
    <3>1. m = [t |-> "227", n |-> n, at |-> "server"]
      BY <1>2 DEF Agreed
    <3>2. [m EXCEPT !.at = "proxy"] = [t |-> "227", n |-> n, at |-> "proxy"]
      BY <3>1
    <3> QED  BY <3>2 DEF Agreed
  <2> QED  BY <2>1, <2>2
<1>4. cc(s) \in Conn /\ sc(s) \in Conn /\ cc(s) # sc(s) /\ cc(s) \notin fin
  BY ConnType, Distinct DEF Serving
<1>5. Turn("connect_cmd") /\ inq[sc(s)] = <<m>> /\ inq'[sc(s)] = Tail(inq[sc(s)])
      /\ (\A c \in Conn \ {sc(s)} : inq'[c] = inq[c])
      /\ DataListener(n, "PASV", "accept_cmd", m) /\ pos' = At("connect_cmd")
      /\ cmdbuf' = cmdbuf
  BY <1>2 DEF Replying, PassiveReply, Carried
<1>6. /\ outq'[cc(s)] = outq[cc(s)] \o <<w>> /\ \A d \in Conn \ {cc(s)} : outq'[d] = outq[d]
      /\ UNCHANGED <<backlog, est, lsn, fin, cache, dfile, disk>>
      /\ fdt'[4] = fdt[4] /\ fdt'[5] = fdt[5] /\ fdt'[6] = Listener(n) /\ NoData'
      /\ proxy_data_mode' = "PASV" /\ proxy_data_port' = n
      /\ Serving(s)' => TurnsInv'
  <2>1. /\ cc(s) = (IF "accept_cmd" = "connect_cmd" THEN sc(s) ELSE cc(s))
        /\ sc(s) = (IF "connect_cmd" = "connect_cmd" THEN sc(s) ELSE cc(s))
        /\ "PASV" \in {"PORT", "PASV"} /\ "accept_cmd" \in {"accept_cmd", "connect_cmd"}
        /\ "connect_cmd" \in {"accept_cmd", "connect_cmd"}
    OBVIOUS
  <2>2. w \in Msg /\ n \in Op
    OBVIOUS
  <2> QED
    BY ONLY Calm, Inv', UNCHANGED peers, s \in Session, Serving(s), <1>1, <1>3, <1>4, <1>5,
            <2>1, <2>2, Listened
<1>7. client' = client /\ server' = server /\ op' = op
  BY DEF peers
<1>8. Agreed(n, "proxy") = w
  BY <1>3
<1>9. inq'[sc(s)] = <<>> /\ <<>> \o <<w>> = <<w>>
  BY <1>5, Short
<1>10. Carried(s, <<>>, <<>>, <<>>, <<Agreed(n, "proxy")>>)'
  BY <1>4, <1>5, <1>6, <1>8, <1>9 DEF Carried
<1>11. Setup(s, n)'
  <2>1. Armed(n)' /\ Told(s, n)' /\ Passive(n)' /\ n \in lsn'["server"]
    BY <1>1, <1>6, <1>7 DEF Armed, Told, Passive
  <2> QED  BY <1>7, <1>10, <2>1 DEF Setup
<1>12. Preparing(s, n)'
  BY <1>1, <1>6, <1>7, <1>11 DEF Preparing, Fresh, Expected
<1> QED  BY <1>6, <1>12, ServedStill

\* MarkTurn: the 150 of a transfer is passed on.
LEMMA MarkTurn ==
    ASSUME Calm, Inv', UNCHANGED peers, NEW s \in Session, Serving(s),
           NEW n \in Op, n = nop, client[s].n = n, Busy(s, n), client[s].ph = "busy",
           op[n].reply = "none", Moving(s, n), Carried(s, <<>>, <<>>, <<Say("150")>>, <<>>),
           NEW x, Replying(s, x, Say("150")), OtherReply(x)
    PROVE  TurnsInv'
<1>1. Say("150") \in Msg /\ <<>> \o <<Say("150")>> = <<Say("150")>>
      /\ Tail(<<Say("150")>>) = <<>>
  BY SayType, Short
<1>2. /\ inq'[cc(s)] = inq[cc(s)] /\ inq'[sc(s)] = Tail(inq[sc(s)])
      /\ outq'[cc(s)] = outq[cc(s)] \o <<Say("150")>> /\ outq'[sc(s)] = outq[sc(s)]
      /\ fdt' = fdt /\ backlog' = backlog /\ UNCHANGED <<dport, dfile, est, fin>>
      /\ DataSame(n) /\ (Serving(s)' => TurnsInv')
  BY <1>1, Replies
<1>3. client' = client /\ server' = server /\ op' = op
  BY DEF peers
<1>4. Carried(s, <<>>, <<>>, <<>>, <<Say("150")>>)'
  BY <1>1, <1>2 DEF Carried
<1>5. IsPut(n)' = IsPut(n) /\ Passive(n)' = Passive(n) /\ IsGet(n)' = IsGet(n)
  BY <1>3 DEF IsPut, Passive, IsGet
<1>6. Armed(n)' /\ Told(s, n)' /\ Known(n)'
  BY <1>2, <1>3, <1>5 DEF Busy, Armed, Told, Known, Moving, dport, dfile
<1>7. \/ ~Passive(n)' /\ Missing(n)' /\ Pending(n)' /\ sd(n) \notin fin'
      \/ Late(n)'
  BY <1>2, <1>5, DataStays DEF Moving
<1>8. Moving(s, n)'
  BY <1>3, <1>4, <1>5, <1>6, <1>7 DEF Moving
<1>9. Busy(s, n)'
  BY <1>3, <1>6, <1>8 DEF Busy
<1> QED  BY <1>2, <1>9, ServedStill

\* AnsweringTurn: the replies of a transfer whose data has been sent are passed on.
LEMMA AnsweringTurn ==
    ASSUME Calm, Inv', UNCHANGED peers, NEW s \in Session, Serving(s),
           NEW n \in Op, n = nop, client[s].n = n, Busy(s, n), client[s].ph = "busy",
           op[n].reply = "none", Answered(s, n),
           \/ Carried(s, <<>>, <<>>, <<Say("150"), Say("226")>>, <<>>)
           \/ Carried(s, <<>>, <<>>, <<Say("226")>>, <<Say("150")>>)
           \/ Carried(s, <<>>, <<>>, <<Say("226")>>, <<>>),
           NEW x, NEW m \in Msg, m = Head(inq[sc(s)]), Replying(s, x, m), OtherReply(x)
    PROVE  TurnsInv'
<1>1. /\ <<>> \o <<Say("150")>> = <<Say("150")>> /\ <<>> \o <<Say("226")>> = <<Say("226")>>
      /\ Tail(<<Say("226")>>) = <<>> /\ Head(<<Say("226")>>) = Say("226")
      /\ Tail(<<Say("150"), Say("226")>>) = <<Say("226")>>
      /\ Head(<<Say("150"), Say("226")>>) = Say("150")
      /\ <<Say("150")>> \o <<Say("226")>> = <<Say("150"), Say("226")>>
  BY SayType, Short
<1>2. /\ inq'[cc(s)] = inq[cc(s)] /\ inq'[sc(s)] = Tail(inq[sc(s)])
      /\ outq'[cc(s)] = outq[cc(s)] \o <<m>> /\ outq'[sc(s)] = outq[sc(s)]
      /\ fdt' = fdt /\ backlog' = backlog /\ UNCHANGED <<dport, dfile, est, fin>>
      /\ DataSame(n) /\ (Serving(s)' => TurnsInv')
  BY Replies
<1>3. client' = client /\ server' = server /\ op' = op
  BY DEF peers
<1>4. \/ Carried(s, <<>>, <<>>, <<Say("226")>>, <<Say("150")>>)'
      \/ Carried(s, <<>>, <<>>, <<>>, <<Say("150"), Say("226")>>)'
      \/ Carried(s, <<>>, <<>>, <<>>, <<Say("226")>>)'
  <2>1. CASE Carried(s, <<>>, <<>>, <<Say("150"), Say("226")>>, <<>>)
    <3>1. Carried(s, <<>>, <<>>, <<Say("226")>>, <<Say("150")>>)'
      BY <1>1, <1>2, <2>1 DEF Carried
    <3> QED  BY <3>1
  <2>2. CASE Carried(s, <<>>, <<>>, <<Say("226")>>, <<Say("150")>>)
    <3>1. Carried(s, <<>>, <<>>, <<>>, <<Say("150"), Say("226")>>)'
      BY <1>1, <1>2, <2>2 DEF Carried
    <3> QED  BY <3>1
  <2>3. CASE Carried(s, <<>>, <<>>, <<Say("226")>>, <<>>)
    <3>1. Carried(s, <<>>, <<>>, <<>>, <<Say("226")>>)'
      BY <1>1, <1>2, <2>3 DEF Carried
    <3> QED  BY <3>1
  <2> QED  BY <2>1, <2>2, <2>3
<1>5. IsPut(n)' = IsPut(n) /\ Passive(n)' = Passive(n) /\ IsGet(n)' = IsGet(n)
  BY <1>3 DEF IsPut, Passive, IsGet
<1>6. Armed(n)' /\ Told(s, n)' /\ Known(n)'
  BY <1>2, <1>3, <1>5 DEF Busy, Armed, Told, Known, Answered, dport, dfile
<1>7. Answering(s, n)'
  BY <1>3, <1>4 DEF Answering
<1>8. \/ IsGet(n)' /\ Relaying(n)' /\ sd(n) \in fin'
      \/ IsGet(n)' /\ ~Passive(n)' /\ Missing(n)' /\ Pending(n)' /\ sd(n) \in fin'
      \/ HungUp(n)' /\ (IsPut(n)' => sd(n) \in fin')
  BY <1>2, <1>5, DataStays DEF Answered
<1>9. Answered(s, n)'
  BY <1>3, <1>6, <1>7, <1>8 DEF Answered
<1>10. Busy(s, n)'
  BY <1>3, <1>6, <1>9 DEF Busy
<1> QED  BY <1>2, <1>10, ServedStill

\* ReplyTurn: any reply of the server.
LEMMA ReplyTurn ==
    ASSUME Calm, Inv', UNCHANGED peers, Reply PROVE TurnsInv'
<1> USE Calmly
<1>1. Turn("connect_cmd") /\ "connect_cmd" \in Role /\ pos' = At("connect_cmd")
  BY DEF Reply, Role
<1>2. sock["connect_cmd"] = 4 /\ Ready(4)
  <2>1. sock["connect_cmd"] \in 3..8 /\ Ready(sock["connect_cmd"])
    BY <1>1, TurnIs
  <2> QED  BY <2>1 DEF Numbers
<1>3. fdt[4] # Free
  <2>1. <<4, pos[1]>> \notin {<<5, 4>>, <<8, 7>>}
    OBVIOUS
  <2> QED  BY <1>2, <2>1, ReadableIs DEF Ready
<1>4. PICK s \in Session : Serving(s)
  BY <1>3, ServedIs
<1>5. sc(s) \in Conn /\ fdt[4] = sc(s)
  BY <1>4, ConnType DEF Serving, Pair
<1>6. PICK x \in Fetched(4, repbuf) :
         /\ inq' = x.q
         /\ ServerGone(x) \/ PassiveReply(x) \/ OtherReply(x)
  BY <1>2 DEF Reply
<1>7. \/ x.got = "eof" /\ x.q = inq /\ inq[sc(s)] = <<>> /\ sc(s) \in fin
      \/ /\ x.got = "message" /\ inq[sc(s)] # <<>> /\ x.m = Head(inq[sc(s)])
         /\ x.q[sc(s)] = Tail(inq[sc(s)])
         /\ \A e \in Conn \ {sc(s)} : x.q[e] = inq[e]
  <2>1. x \in Fetched(4, repbuf)
    OBVIOUS
  <2> QED  BY <1>5, <2>1, Kinds DEF Fetched, NetOK
<1>8. CASE x.got = "eof" /\ x.q = inq /\ sc(s) \in fin
  <2>1. ServerGone(x) /\ inq' = inq
    BY <1>6, <1>8 DEF PassiveReply, OtherReply
  <2>2. NoData /\ Quitting(s) /\ server[s].ph = "gone"
    <3>1. server[s].ph = "gone"
      BY <1>4, <1>8 DEF Serving
    <3>2. NoData /\ Quitting(s)
      BY <1>4, <3>1 DEF Serving, Between, Greeting, Resting, Preparing, Setup, Prepared, Busy,
         Asked, Sent, Moving, Answered, Hidden
    <3> QED  BY <3>1, <3>2
  <2> QED  BY <1>1, <1>4, <2>1, <2>2, Hung DEF ServerGone
<1>9. CASE /\ x.got = "message" /\ inq[sc(s)] # <<>> /\ x.m = Head(inq[sc(s)])
           /\ x.q[sc(s)] = Tail(inq[sc(s)])
           /\ \A e \in Conn \ {sc(s)} : x.q[e] = inq[e]
  <2>1. Replying(s, x, Head(inq[sc(s)])) /\ Head(inq[sc(s)]) = x.m
    BY <1>1, <1>6, <1>9 DEF Replying
  <2>2. \A m \in {Say("220"), Say("221"), Say("200"), Say("150")} : Head(<<m>>) = m
    BY Singles
  <2>3. x.m.t # "227" => OtherReply(x)
    BY <1>6, <1>9 DEF ServerGone, PassiveReply
  <2>4. CASE /\ NoData /\ client[s].ph = "greet" /\ server[s].ph = "idle"
             /\ Carried(s, <<>>, <<>>, <<Say("220")>>, <<>>)
    <3>1. Replying(s, x, Say("220")) /\ x.m.t # "227"
      BY <2>1, <2>2, <2>4, Words DEF Carried
    <3> QED  BY <1>4, <2>3, <2>4, <3>1, GreetingTurn
  <2>5. CASE /\ NoData /\ client[s].ph = "quit" /\ server[s].ph = "gone"
             /\ cmdbuf = Say("QUIT") /\ Carried(s, <<>>, <<>>, <<Say("221")>>, <<>>)
    <3>1. Replying(s, x, Say("221")) /\ x.m.t # "227"
      BY <2>1, <2>2, <2>5, Words DEF Carried
    <3> QED  BY <1>4, <2>3, <2>5, <3>1, FarewellTurn
  <2>6. ASSUME NEW n \in Op, n = nop, client[s].n = n, Preparing(s, n),
               client[s].ph = "setup", server[s].ph = "idle", Told(s, n), ~Passive(n),
               Armed(n), Carried(s, <<>>, <<>>, <<Say("200")>>, <<>>)
        PROVE  TurnsInv'
    <3>1. Replying(s, x, Say("200")) /\ x.m.t # "227"
      BY <2>1, <2>2, <2>6, Words DEF Carried
    <3> QED  BY <1>4, <2>3, <2>6, <3>1, ReadyTurn
  <2>7. ASSUME NEW n \in Op, n = nop, client[s].n = n, Preparing(s, n),
               client[s].ph = "setup", server[s].ph = "idle", Told(s, n), Passive(n),
               n \in lsn["server"], Carried(s, <<>>, <<>>, <<Agreed(n, "server")>>, <<>>)
        PROVE  TurnsInv'
    <3>1. PICK m \in Msg : m = Agreed(n, "server") /\ m.t = "227"
      BY Words DEF Host
    <3>2. Head(<<m>>) = m
      BY Short
    <3>3. Replying(s, x, Agreed(n, "server")) /\ x.m.t = "227"
      BY <2>1, <2>7, <3>1, <3>2 DEF Carried
    <3>4. PassiveReply(x)
      BY <1>6, <1>9, <3>3 DEF ServerGone, OtherReply
    <3> QED  BY <1>4, <2>7, <3>3, <3>4, AgreedTurn
  <2>8. ASSUME NEW n \in Op, n = nop, client[s].n = n, Busy(s, n), client[s].ph = "busy",
               op[n].reply = "none", Moving(s, n),
               Carried(s, <<>>, <<>>, <<Say("150")>>, <<>>)
        PROVE  TurnsInv'
    <3>1. Replying(s, x, Say("150")) /\ x.m.t # "227"
      BY <2>1, <2>2, <2>8, Words DEF Carried
    <3> QED  BY <1>4, <2>3, <2>8, <3>1, MarkTurn
  <2>9. ASSUME NEW n \in Op, n = nop, client[s].n = n, Busy(s, n), client[s].ph = "busy",
               op[n].reply = "none", Answered(s, n),
               \/ Carried(s, <<>>, <<>>, <<Say("150"), Say("226")>>, <<>>)
               \/ Carried(s, <<>>, <<>>, <<Say("226")>>, <<Say("150")>>)
               \/ Carried(s, <<>>, <<>>, <<Say("226")>>, <<>>)
        PROVE  TurnsInv'
    <3>1. Head(<<Say("150"), Say("226")>>) = Say("150") /\ Head(<<Say("226")>>) = Say("226")
      BY Short, SayType
    <3>2. Head(inq[sc(s)]) \in {Say("150"), Say("226")}
      BY <2>9, <3>1 DEF Carried
    <3>3. PICK m \in Msg : m = Head(inq[sc(s)]) /\ m.t # "227"
      BY <3>2, SayType, Words
    <3>4. Replying(s, x, m) /\ x.m.t # "227"
      BY <2>1, <3>3
    <3> QED  BY <1>4, <2>3, <2>9, <3>3, <3>4, AnsweringTurn
  <2> QED  BY <1>4, <1>9, <2>4, <2>5, <2>6, <2>7, <2>8, <2>9, Telling
<1> QED  BY <1>7, <1>8, <1>9

\* TurnFirst: no smaller descriptor is due.
LEMMA TurnFirst ==
    ASSUME Calm, NEW r \in Role, Turn(r), NEW q \in Role, sock[q] \in read_fds,
           pos[1] < sock[q]
    PROVE  sock[r] <= sock[q]
<1> USE Calmly
<1>1. q \in Due
  BY DEF Due, Before, At
<1>2. q # r => Before(At(r), At(q))
  BY <1>1 DEF Turn
<1>3. sock[r] \in Nat /\ sock[q] \in Nat
  BY NetAssumption DEF ProcessOK, Fd
<1> QED  BY <1>2, <1>3 DEF Before, At

\* Dialling: what there is when the proxy accepts a data connection.
LEMMA Dialling ==
    ASSUME Calm, Turn("proxy_data")
    PROVE  /\ sock["proxy_data"] = 6 /\ 7 \notin read_fds /\ 8 \notin read_fds
           /\ \E s \in Session, n \in Op :
                 /\ n = nop /\ Serving(s) /\ client[s].n = n /\ client[s].ph = "busy"
                 /\ Busy(s, n) /\ Pending(n) /\ fdt[6] = Listener(n) /\ Known(n)
                 /\ \/ Sent(s, n) /\ Passive(n) /\ Missing(n)
                    \/ Moving(s, n) /\ ~Passive(n) /\ Missing(n) /\ sd(n) \notin fin
                    \/ /\ Answered(s, n) /\ ~Passive(n) /\ Missing(n) /\ IsGet(n)
                       /\ sd(n) \in fin
                    \/ Hidden(s, n)
<1> USE Calmly
<1>1. "proxy_data" \in Role /\ "accept_cmd" \in Role
  BY DEF Role
<1>2. /\ sock["proxy_data"] = 6 /\ Ready(6) /\ 6 \in read_fds /\ pos[1] < 6
      /\ \A fd \in read_fds : 6 < fd => Readable(fd)
  <2>1. sock["proxy_data"] \in 3..8
    BY <1>1, TurnIs
  <2>2. sock["proxy_data"] = 6
    BY <2>1 DEF Numbers
  <2> QED  BY <1>1, <2>2, TurnIs
<1>3. Readable(6)
  <2>1. <<6, pos[1]>> \notin {<<5, 4>>, <<8, 7>>}
    OBVIOUS
  <2> QED  BY <1>2, <2>1 DEF Ready
<1>4. PICK p \in Op : fdt[6] = Listener(p)
  BY <1>3, ReadableIs DEF Descriptors
<1>5. backlog[p] # <<>>
  BY <1>3, <1>4, ReadableIs, NumType
<1>6. PICK s \in Session :
         /\ p = nop /\ Pending(p) /\ Serving(s) /\ client[s].n = p
         /\ client[s].ph = "busy" /\ Busy(s, p)
  BY <1>5, DataWaiting
<1>7. ~Unopened(p) /\ ~Relaying(p) /\ ~HungUp(p) /\ ~Late(p) /\ NoRelay
  <2>1. ~NoData
    BY <1>5 DEF NoData
  <2> QED  BY <1>5, <1>6, <2>1 DEF Unopened, Relaying, HungUp, Late, Pending
<1>8. ~Asked(s, p)
  <2> SUFFICES ASSUME Asked(s, p) PROVE FALSE
    OBVIOUS
  <2>1. 5 \in read_fds /\ pos[1] < 5
    BY <1>2 DEF Asked
  <2>2. sock["accept_cmd"] = 5
    <3>1. fdt[4] # Free
      BY <1>6, ConnType, Kinds DEF Serving, Pair
    <3> QED  BY <3>1 DEF Numbers
  <2>3. sock["proxy_data"] <= sock["accept_cmd"]
    BY <1>1, <2>1, <2>2, TurnFirst
  <2> QED  BY <1>2, <2>2, <2>3
<1>9. 7 \notin read_fds /\ 8 \notin read_fds
  <2>1. fdt[7] = Free /\ fdt[8] = Free
    BY <1>7 DEF NoRelay, Descriptors
  <2> QED  BY <1>2, <2>1, ReadableIs
<1>10. /\ Known(p)
       /\ \/ Sent(s, p) /\ Passive(p) /\ Missing(p)
          \/ Moving(s, p) /\ ~Passive(p) /\ Missing(p) /\ sd(p) \notin fin
          \/ /\ Answered(s, p) /\ ~Passive(p) /\ Missing(p) /\ IsGet(p)
             /\ sd(p) \in fin
          \/ Hidden(s, p)
  BY <1>6, <1>7, <1>8 DEF Busy, Sent, Moving, Answered, Hidden
<1> QED  BY <1>2, <1>4, <1>6, <1>9, <1>10

\* RelayTable: what a relay of the last transfer opens.
LEMMA RelayTable ==
    ASSUME Calm, NEW s \in Session, Serving(s), NEW n \in Op, n = nop, Armed(n), Pending(n),
           sock["proxy_data"] = 6, Known(n), Missing(n),
           NEW r1 \in {"accept_data", "connect_data"},
           NEW r2 \in {"accept_data", "connect_data"}, r1 # r2,
           r1 = "connect_data" <=> Passive(n) /\ IsGet(n),
           NEW host, host = (IF Passive(n) THEN "server" ELSE "client"),
           NEW asks \in BOOLEAN, ~asks <=> Passive(n) /\ IsPut(n),
           Relay(r1, r2, host, asks),
           NEW caching \in BOOLEAN, caching <=> IsGet(n) /\ op[n].m.f \in Cacheable,
           NEW a, a = (IF Passive(n) /\ IsPut(n) THEN cd(n) ELSE sd(n)),
           NEW b, b = (IF Passive(n) /\ IsPut(n) THEN sd(n) ELSE cd(n)),
           NEW k, k = (IF caching THEN CacheFile(op[n].m.f) ELSE Free)
    PROVE  /\ fdt' = [fdt EXCEPT ![7] = a, ![8] = b, ![9] = k]
           /\ sock' = [sock EXCEPT ![r1] = 7, ![r2] = 8]
           /\ master' = master \cup {7, 8}
           /\ backlog' = [backlog EXCEPT ![n] = <<>>]
           /\ est' = est \cup {Second(n)} /\ lsn' = [lsn EXCEPT ![host] = @ \ {n}]
           /\ DOMAIN disk \subseteq DOMAIN disk' /\ (caching => op[n].m.f \in DOMAIN disk')
           /\ cache' = (IF asks THEN caching ELSE cache)
           /\ bytes_creat' = (IF caching THEN 9 ELSE bytes_creat)
           /\ UNCHANGED <<dport, dfile, status, outq, sigpipe, fin>>
<1> USE Calmly
<1>1. (IsGet(n) \/ IsPut(n)) /\ ~(IsGet(n) /\ IsPut(n)) /\ op[n].mode \in {"PORT", "PASV"}
  BY Kind
<1>2. host \in {"client", "server"} /\ n \in lsn[host]
  BY <1>1 DEF Pending, Expected, Passive
<1>3. Connected(host, n) = Second(n)
  BY <1>2 DEF Connected, Second, cd, sd
<1>4. caching <=> /\ asks /\ proxy_file_mode = "RETR" /\ file \notin DOMAIN disk
                  /\ file \in Cacheable
  BY <1>1 DEF Known, Missing, IsGet, IsPut
<1>5. caching => file = op[n].m.f
  BY DEF Known
<1>6. /\ a \in Conn /\ a = (IF r1 = "accept_data" THEN First(n) ELSE Second(n))
      /\ b \in Conn /\ b = (IF r2 = "accept_data" THEN First(n) ELSE Second(n))
  BY <1>1, ConnType DEF First, Second
<1>7. /\ fdt' = IF caching
                THEN [fdt EXCEPT ![7] = a, ![8] = b, ![9] = CacheFile(file)]
                ELSE [fdt EXCEPT ![7] = a, ![8] = b]
      /\ sock' = [sock EXCEPT ![r1] = 7, ![r2] = 8]
      /\ master' = master \cup {7, 8}
      /\ backlog' = [backlog EXCEPT ![n] = <<>>]
      /\ est' = est \cup {Second(n)} /\ lsn' = [lsn EXCEPT ![host] = @ \ {n}]
      /\ DOMAIN disk' = DOMAIN disk \cup (IF caching THEN {file} ELSE {})
      /\ cache' = (IF asks THEN caching ELSE cache)
      /\ bytes_creat' = (IF caching THEN 9 ELSE bytes_creat)
      /\ UNCHANGED <<dport, dfile, status, outq, sigpipe, fin>>
  <2> USE <1>2, <1>3, <1>4, <1>6
  <2>1. /\ fdt[6] = Listener(n) /\ proxy_data_port = n /\ NoRelay /\ n \in Port
        /\ backlog[n] = <<First(n)>> /\ First(n) \in Conn /\ Second(n) \in Conn
    BY NumType, ConnType DEF Armed, Pending, First, Second
  <2>2. Head(backlog[n]) = First(n) /\ Tail(backlog[n]) = <<>> /\ backlog[n] # <<>>
    BY <2>1, ShortConn
  <2>3. (CHOOSE q \in Port : fdt[sock.proxy_data] = Listener(q)) = n
    BY <2>1, <2>2, Waiting DEF Calm, Inv
  <2>4. /\ 0 \in Fd /\ 1 \in Fd /\ 2 \in Fd /\ 3 \in Fd /\ 4 \in Fd
        /\ 5 \in Fd /\ 6 \in Fd /\ 7 \in Fd /\ 8 \in Fd /\ 9 \in Fd
        /\ fdt \in [Fd -> Object]
        /\ fdt[0] # Free /\ fdt[1] # Free /\ fdt[2] # Free /\ fdt[3] # Free
        /\ fdt[4] # Free /\ fdt[5] # Free /\ fdt[6] # Free
        /\ fdt[7] = Free /\ fdt[8] = Free /\ fdt[9] = Free
    <3>1. fdt[0] # Free /\ fdt[1] # Free /\ fdt[2] # Free /\ fdt[3] # Free
      BY Tables, Kinds, NumType DEF Calm
    <3>2. fdt[4] # Free /\ fdt[5] # Free /\ fdt[6] # Free
      BY <2>1, Kinds, NumType, ConnType DEF Serving, Pair
    <3> QED  BY <2>1, <3>1, <3>2, LowFds DEF Calm, ProcessOK, NoRelay, Descriptors
  <2>5. Lowest(fdt) = 7
    BY <2>1, Vacant
  <2>6. PICK ft1 : ft1 = [fdt EXCEPT ![7] = a]
    OBVIOUS
  <2>7. PICK ft2 : ft2 = [ft1 EXCEPT ![8] = b]
    OBVIOUS
  <2>8. a # Free /\ b # Free
    BY Kinds
  <2>9. /\ ft1[7] = a /\ ft1[8] = Free
        /\ ft1[0] # Free /\ ft1[1] # Free /\ ft1[2] # Free /\ ft1[3] # Free
        /\ ft1[4] # Free /\ ft1[5] # Free /\ ft1[6] # Free
        /\ DOMAIN ft1 = Fd /\ ft1[9] = Free
    BY <2>4, <2>6
  <2>10. Lowest(ft1) = 8 /\ 8 # NoFd
    BY <2>8, <2>9, LowestAt DEF Calm
  <2>11. /\ ft2[7] = a /\ ft2[8] = b /\ ft2[9] = Free
         /\ ft2[0] # Free /\ ft2[1] # Free /\ ft2[2] # Free /\ ft2[3] # Free
         /\ ft2[4] # Free /\ ft2[5] # Free /\ ft2[6] # Free
    BY <2>4, <2>7, <2>9
  <2>12. Lowest(ft2) = 9 /\ 9 # NoFd
    BY <2>8, <2>11, LowestAt DEF Calm
  <2>13. Opened(fdt, a) = ft1 /\ Opened(ft1, b) = ft2
         /\ \A o : Opened(ft2, o) = [ft2 EXCEPT ![9] = o]
    BY <2>5, <2>6, <2>7, <2>10, <2>12 DEF Opened
  <2>14. /\ [accept_data  |-> Head(backlog[n]),
             connect_data |-> Connected(host, proxy_data_port)][r1] = a
         /\ [accept_data  |-> Head(backlog[n]),
             connect_data |-> Connected(host, proxy_data_port)][r2] = b
    BY <2>1, <2>2
  <2>15. caching <=> asks /\ isCacheExist(ft2)
    BY <2>12 DEF isCacheExist, isFileExist
  <2>16. Room(ft1, ft2, caching)
    BY <2>10, <2>12 DEF Room
  <2>17. Room(ft1, ft2, asks /\ isCacheExist(ft2))
    BY <2>10, <2>12 DEF Room
  <2>18. /\ sock' = [sock EXCEPT ![r1] = 7, ![r2] = 8]
         /\ master' = master \cup {7, 8}
         /\ backlog' = [backlog EXCEPT ![n] = Tail(@)]
         /\ Dial(host, n)
         /\ fdt' = IF asks /\ isCacheExist(ft2) THEN Opened(ft2, CacheFile(file)) ELSE ft2
         /\ disk' = IF asks /\ isCacheExist(ft2)
                    THEN [f \in DOMAIN disk \cup {file} |->
                             IF f = file THEN <<>> ELSE disk[f]]
                    ELSE disk
         /\ cache' = IF asks THEN asks /\ isCacheExist(ft2) ELSE cache
         /\ bytes_creat' = IF asks /\ isCacheExist(ft2) THEN Lowest(ft2) ELSE bytes_creat
         /\ UNCHANGED <<dport, dfile, status, outq, sigpipe, fin>>
    BY <2>1, <2>3, <2>5, <2>10, <2>13, <2>14, <2>17 DEF Relay
  <2>19. fdt' = IF caching
                THEN [fdt EXCEPT ![7] = a, ![8] = b, ![9] = CacheFile(file)]
                ELSE [fdt EXCEPT ![7] = a, ![8] = b]
    <3>1. ft2 = [fdt EXCEPT ![7] = a, ![8] = b]
      BY <2>6, <2>7
    <3>2. CASE caching
      <4>1. fdt' = [ft2 EXCEPT ![9] = CacheFile(file)]
        BY <2>13, <2>15, <2>18, <3>2
      <4> QED  BY <3>1, <3>2, <4>1
    <3>3. CASE ~caching
      BY <2>15, <2>18, <3>1, <3>3
    <3> QED  BY <3>2, <3>3
  <2>20. est' = est \cup {Second(n)} /\ lsn' = [lsn EXCEPT ![host] = @ \ {n}]
    BY <2>18 DEF Dial
  <2>21. backlog' = [backlog EXCEPT ![n] = <<>>]
    BY <2>2, <2>18
  <2>22. DOMAIN disk' = DOMAIN disk \cup (IF caching THEN {file} ELSE {})
    <3>1. CASE caching
      BY <2>15, <2>18, <3>1
    <3>2. CASE ~caching
      BY <2>15, <2>18, <3>2
    <3> QED  BY <3>1, <3>2
  <2>23. cache' = (IF asks THEN caching ELSE cache)
         /\ bytes_creat' = (IF caching THEN 9 ELSE bytes_creat)
    <3>1. CASE caching
      BY <2>12, <2>15, <2>18, <3>1
    <3>2. CASE ~caching
      BY <2>12, <2>15, <2>18, <3>2
    <3> QED  BY <3>1, <3>2
  <2> QED  BY <2>18, <2>19, <2>20, <2>21, <2>22, <2>23
<1>8. fdt' = [fdt EXCEPT ![7] = a, ![8] = b, ![9] = k]
  <2>1. fdt[9] = Free /\ fdt \in [Fd -> Object] /\ 9 \in Fd /\ 7 \in Fd /\ 8 \in Fd
    BY LowFds DEF Pending, NoRelay, ProcessOK, Calm
  <2>2. CASE caching
    <3>1. k = CacheFile(file)
      BY <1>5, <2>2
    <3>2. fdt' = [fdt EXCEPT ![7] = a, ![8] = b, ![9] = CacheFile(file)]
      BY <1>7, <2>2
    <3> QED  BY ONLY <3>1, <3>2
  <2>3. CASE ~caching
    <3>1. PICK ft : ft = [fdt EXCEPT ![7] = a, ![8] = b]
      OBVIOUS
    <3>2. ft \in [Fd -> Object \cup {a, b}] /\ ft[9] = Free
      BY <2>1, <3>1
    <3>3. ft = [ft EXCEPT ![9] = Free]
      BY <2>1, <3>2
    <3>4. fdt' = ft /\ k = Free
      BY <1>7, <2>3, <3>1
    <3>5. ft = [fdt EXCEPT ![7] = a, ![8] = b, ![9] = k]
      BY ONLY <3>1, <3>3, <3>4
    <3> QED  BY <3>4, <3>5
  <2> QED  BY <2>2, <2>3
<1> QED  BY <1>5, <1>7, <1>8

\* RelayTurn: the two sides of the last transfer are joined.
LEMMA RelayTurn ==
    ASSUME Calm, Inv', UNCHANGED <<peers, bufs, inq>>,
           Turn("proxy_data"), pos' = At("proxy_data"),
           NEW s \in Session, Serving(s), NEW n \in Op, n = nop, client[s].n = n,
           client[s].ph = "busy", Busy(s, n), Pending(n),
           sock["proxy_data"] = 6, 7 \notin read_fds, 8 \notin read_fds,
           Known(n), Missing(n),
           NEW r1 \in {"accept_data", "connect_data"},
           NEW r2 \in {"accept_data", "connect_data"}, r1 # r2,
           r1 = "connect_data" <=> Passive(n) /\ IsGet(n),
           NEW host, host = (IF Passive(n) THEN "server" ELSE "client"),
           NEW asks \in BOOLEAN, ~asks <=> Passive(n) /\ IsPut(n),
           Relay(r1, r2, host, asks)
    PROVE  /\ Relaying(n)' /\ est \subseteq est'
           /\ fdt'[4] = fdt[4] /\ fdt'[5] = fdt[5] /\ fdt'[6] = fdt[6]
           /\ backlog'[CmdPort] = backlog[CmdPort]
           /\ UNCHANGED <<dport, dfile, outq, fin>>
           /\ Serving(s)' => TurnsInv'
<1> USE Calmly
<1>1. (IsGet(n) \/ IsPut(n)) /\ ~(IsGet(n) /\ IsPut(n)) /\ Armed(n)
  BY Kind DEF Busy
<1>2. PICK caching \in BOOLEAN : caching <=> IsGet(n) /\ op[n].m.f \in Cacheable
  OBVIOUS
<1>3. PICK a : a = (IF Passive(n) /\ IsPut(n) THEN cd(n) ELSE sd(n))
  OBVIOUS
<1>4. PICK b : b = (IF Passive(n) /\ IsPut(n) THEN sd(n) ELSE cd(n))
  OBVIOUS
<1>5. PICK k : k = (IF caching THEN CacheFile(op[n].m.f) ELSE Free)
  OBVIOUS
<1>6. /\ fdt' = [fdt EXCEPT ![7] = a, ![8] = b, ![9] = k]
      /\ sock' = [sock EXCEPT ![r1] = 7, ![r2] = 8]
      /\ master' = master \cup {7, 8}
      /\ backlog' = [backlog EXCEPT ![n] = <<>>]
      /\ est' = est \cup {Second(n)} /\ lsn' = [lsn EXCEPT ![host] = @ \ {n}]
      /\ DOMAIN disk \subseteq DOMAIN disk' /\ (caching => op[n].m.f \in DOMAIN disk')
      /\ cache' = (IF asks THEN caching ELSE cache)
      /\ bytes_creat' = (IF caching THEN 9 ELSE bytes_creat)
      /\ UNCHANGED <<dport, dfile, status, outq, sigpipe, fin>>
  <2>1. /\ Calm /\ s \in Session /\ Serving(s) /\ n \in Op /\ n = nop /\ Armed(n)
        /\ Pending(n) /\ sock["proxy_data"] = 6 /\ Known(n) /\ Missing(n)
        /\ r1 # r2 /\ asks \in BOOLEAN /\ caching \in BOOLEAN
        /\ r1 \in {"accept_data", "connect_data"} /\ r2 \in {"accept_data", "connect_data"}
        /\ Relay(r1, r2, host, asks)
    BY <1>1
  <2>2. (r1 = "connect_data") <=> (Passive(n) /\ IsGet(n))
    OBVIOUS
  <2>3. host = (IF Passive(n) THEN "server" ELSE "client")
    OBVIOUS
  <2>4. ~asks <=> (Passive(n) /\ IsPut(n))
    OBVIOUS
  <2> QED  BY ONLY <1>2, <1>3, <1>4, <1>5, <2>1, <2>2, <2>3, <2>4, RelayTable
<1>7. /\ fdt'[7] = a /\ fdt'[8] = b /\ fdt'[9] = k
      /\ fdt'[0] = fdt[0] /\ fdt'[1] = fdt[1] /\ fdt'[2] = fdt[2] /\ fdt'[3] = fdt[3]
      /\ fdt'[4] = fdt[4] /\ fdt'[5] = fdt[5] /\ fdt'[6] = fdt[6]
      /\ \A fd \in Fd : fd > 9 => fdt'[fd] = fdt[fd]
  <2>1. /\ 0 \in Fd /\ 1 \in Fd /\ 2 \in Fd /\ 3 \in Fd /\ 4 \in Fd
        /\ 5 \in Fd /\ 6 \in Fd /\ 7 \in Fd /\ 8 \in Fd /\ 9 \in Fd
        /\ fdt \in [Fd -> Object]
    BY LowFds DEF ProcessOK, Calm
  <2>2. \A fd \in Fd : fd > 9 => fd # 7 /\ fd # 8 /\ fd # 9
    BY DEF Fd
  <2>3. fdt' = [fdt EXCEPT ![7] = a, ![8] = b, ![9] = k]
    BY <1>6
  <2>4. \A fd \in Fd : fd \notin {7, 8, 9} => fdt'[fd] = fdt[fd]
    BY <2>1, <2>3
  <2>5. fdt'[7] = a /\ fdt'[8] = b /\ fdt'[9] = k
    BY <2>1, <2>3
  <2>6. /\ fdt'[0] = fdt[0] /\ fdt'[1] = fdt[1] /\ fdt'[2] = fdt[2] /\ fdt'[3] = fdt[3]
        /\ fdt'[4] = fdt[4] /\ fdt'[5] = fdt[5] /\ fdt'[6] = fdt[6]
    BY ONLY <2>1, <2>4
  <2>7. \A fd \in Fd : fd > 9 => fdt'[fd] = fdt[fd]
    BY ONLY <2>2, <2>4
  <2> QED  BY ONLY <2>5, <2>6, <2>7
<1>8. a \in Conn /\ b \in Conn /\ a # Free /\ b # Free
  BY <1>3, <1>4, ConnType, Kinds
<1>9. UNCHANGED <<client, op, nop, server, sdisk, fetches>> /\ UNCHANGED <<cmdbuf>>
      /\ read_fds' = read_fds
  BY DEF peers, bufs, Turn
<1>10. IsGet(n)' = IsGet(n) /\ IsPut(n)' = IsPut(n) /\ Passive(n)' = Passive(n)
  BY <1>9 DEF IsGet, IsPut, Passive
<1>11. /\ backlog'[CmdPort] = backlog[CmdPort] /\ \A p \in Op : backlog'[p] = <<>>
       /\ backlog[n] # <<>>
  <2>1. backlog \in [Port -> Seq(Conn)] /\ n \in Port /\ CmdPort \in Port /\ n # CmdPort
        /\ Op \subseteq Port
    BY NumType DEF NetOK, Port
  <2>2. First(n) \in Conn
    BY ConnType DEF First
  <2> QED  BY <1>6, <2>1, <2>2, ShortConn DEF Pending
<1>12. Relaying(n)'
  <2>1. cd(n) \in est' /\ sd(n) \in est'
    BY <1>6 DEF Pending, First, Second
  <2>2. fdt'[9] = IF IsGet(n) /\ op[n].m.f \in Cacheable THEN CacheFile(op[n].m.f) ELSE Free
    BY <1>2, <1>5, <1>7
  <2>3. IsGet(n) => (cache' <=> op[n].m.f \in Cacheable) /\ cd(n) \notin fin
    BY <1>1, <1>2, <1>6 DEF Pending, Second
  <2>4. IsPut(n) => sd(n) \notin fin
    <3>1. CASE Passive(n)
      BY <3>1 DEF Pending, Second
    <3>2. CASE ~Passive(n)
      <4> SUFFICES ASSUME IsPut(n), sd(n) \in fin PROVE FALSE
        OBVIOUS
      <4>1. ~Relaying(n) /\ ~HungUp(n) /\ ~Late(n) /\ ~NoData
        BY <1>11 DEF Relaying, HungUp, Late, NoData
      <4>2. ~Fresh(n)
        BY DEF Fresh
      <4> QED  BY <1>1, <3>2, <4>1, <4>2 DEF Busy, Asked, Sent, Moving, Answered, Hidden,
                  Unopened
    <3> QED  BY <3>1, <3>2
  <2>5. Stored(n)'
    BY <1>2, <1>6, <1>9, <1>10 DEF Stored
  <2>6. IF Passive(n) /\ IsPut(n) THEN fdt'[7] = cd(n) /\ fdt'[8] = sd(n)
        ELSE fdt'[7] = sd(n) /\ fdt'[8] = cd(n)
    BY <1>3, <1>4, <1>7
  <2> QED  BY <1>6, <1>9, <1>10, <1>11, <2>1, <2>2, <2>3, <2>4, <2>5, <2>6 DEF Relaying
<1>13. Descriptors'
  <2>1. master' = {fd \in 3..8 : fdt'[fd] # Free}
    BY <1>6, <1>7, <1>8 DEF Descriptors
  <2>2. \A fd \in 0..2 : fdt'[fd] = Std
    BY <1>7 DEF Descriptors
  <2>3. bytes_creat' \in {0, 9} /\ (cache' => bytes_creat' = 9)
    BY <1>6 DEF Descriptors
  <2> QED  BY <1>6, <1>7, <1>8, <2>1, <2>2, <2>3 DEF Descriptors, Pair
<1>14. /\ {sock'.accept_data, sock'.connect_data} = {7, 8}
       /\ sock'.proxy_cmd = sock.proxy_cmd /\ sock'.proxy_data = sock.proxy_data
       /\ sock'.accept_cmd = sock.accept_cmd /\ sock'.connect_cmd = sock.connect_cmd
       /\ sock'["proxy_data"] = sock["proxy_data"]
  BY <1>6 DEF ProcessOK, Role
<1>15. Numbers'
  <2>1. sock'.accept_data \in {7, 8} /\ sock'.connect_data \in {7, 8}
    BY <1>14
  <2> QED  BY <1>7, <1>14, <2>1 DEF Numbers
<1>16. Scan'
  <2>1. "proxy_data" \in Role
    BY DEF Role
  <2>2. \A fd \in read_fds : ~(6 < fd)
    <3>1. read_fds \subseteq 3..8 /\ \A fd \in 3..8 : 6 < fd => fd \in {7, 8}
      BY DEF Scan
    <3> QED  BY <3>1
  <2>3. fdt'[5] # Free
    BY <1>7, ConnType, Kinds DEF Serving, Pair
  <2> QED  BY <1>14, <1>15, <2>1, <2>2, <2>3, Scanned
<1>17. ASSUME Serving(s)' PROVE TurnsInv'
  <2>1. Second(n) \in {cd(n), sd(n)}
    BY DEF Second
  <2>2. \A q \in Session \ {s} : Same(q)
    <3> TAKE q \in Session \ {s}
    <3>1. \A c \in {cc(q), sc(q)} : c # Second(n)
      BY <2>1, Distinct
    <3>2. \A c \in {cc(q), sc(q)} : c \in est' <=> c \in est
      BY <1>6, <3>1
    <3> QED  BY <1>6, <1>9, <3>2 DEF Same
  <2>3. Fetches'
    <3>1. \A q \in Session, p \in Op :
             p = nop /\ IsGet(p) /\ op[p].m.f \in Cacheable => op[p].m.f \in DOMAIN disk'
      BY <1>2, <1>6
    <3> QED  BY <1>6, <1>9, <3>1, FetchesStay
  <2>4. \A p \in Op : p # nop => (Fresh(p) => Fresh(p)')
    BY <1>6, <2>1, Distinct DEF Fresh
  <2> QED  BY <1>6, <1>13, <1>15, <1>16, <1>17, <2>2, <2>3, <2>4, ProxyStep
<1> QED  BY <1>6, <1>7, <1>11, <1>12, <1>17

\* ServeTurn: the data connection of a client that wants a file of the cache.
LEMMA ServeTurn ==
    ASSUME Calm, Inv', UNCHANGED <<peers, bufs, inq>>,
           Turn("proxy_data"), pos' = At("proxy_data"),
           NEW s \in Session, Serving(s), NEW n \in Op, n = nop, client[s].n = n,
           client[s].ph = "busy", Busy(s, n), Pending(n), Hidden(s, n),
           sock["proxy_data"] = 6, 7 \notin read_fds, 8 \notin read_fds, ServeCached
    PROVE  TurnsInv'
<1> USE Calmly
<1>1. /\ Passive(n) /\ IsGet(n) /\ ~IsPut(n) /\ Known(n) /\ Quiet(s)
      /\ op[n].m.f \in DOMAIN disk /\ op[n].reply = "none" /\ server[s].ph = "idle"
      /\ Armed(n) /\ Told(s, n) /\ NoRelay
  BY Kind DEF Hidden, Busy, Pending
<1>2. /\ fdt[6] = Listener(n) /\ n \in Port /\ First(n) = cd(n) /\ cd(n) \in est
      /\ backlog[n] = <<cd(n)>> /\ cd(n) \notin fin
  BY <1>1, NumType DEF Armed, Pending, First
<1>3. /\ cc(s) \in Conn /\ sc(s) \in Conn /\ cc(s) # sc(s) /\ fdt[4] = sc(s) /\ fdt[5] = cc(s)
      /\ cd(n) \in Conn /\ cd(n) # cc(s) /\ cd(n) # sc(s) /\ fdt[4] # Free
      /\ cc(s) \notin fin
  BY ConnType, Distinct, Kinds DEF Serving, Pair
<1>4. /\ sock["accept_cmd"] = 5
      /\ Head(backlog[n]) = cd(n) /\ Tail(backlog[n]) = <<>> /\ backlog[n] # <<>>
  BY <1>2, <1>3, ShortConn DEF Numbers
<1>5. (CHOOSE q \in Port : fdt[sock.proxy_data] = Listener(q)) = n
  BY <1>2, <1>4, Waiting DEF Calm, Inv
<1>6. /\ 4 \in Fd /\ 5 \in Fd /\ 6 \in Fd /\ 7 \in Fd /\ 3..8 \subseteq Fd
      /\ fdt \in [Fd -> Object] /\ fdt[7] = Free /\ fdt[8] = Free
  BY <1>1, LowFds DEF Calm, ProcessOK, NoRelay, Descriptors
<1>7. PICK ft : ft = [fdt EXCEPT ![7] = cd(n)]
  OBVIOUS
<1>8. /\ ft[7] = cd(n) /\ ft[5] = cc(s) /\ ft = [fdt EXCEPT ![7] = ft[7]] /\ ft[7] # Free
      /\ Closed(ft, {7}) = fdt
  <2>1. ft[7] = cd(n) /\ ft[5] = cc(s) /\ ft = [fdt EXCEPT ![7] = ft[7]]
    BY <1>3, <1>6, <1>7
  <2>2. Closed(ft, {7}) = fdt
    BY <1>6, <1>7 DEF Closed
  <2> QED  BY <1>3, <2>1, <2>2, Kinds
<1>9. Lowest(fdt) = 7 /\ Lowest(ft) = 8 /\ 8 # NoFd
  BY <1>1, <1>8, Vacant
<1>10. Opened(fdt, cd(n)) = ft
  BY <1>7, <1>9 DEF Opened
<1>11. /\ sock' = [sock EXCEPT !.accept_data = 7] /\ fdt' = fdt
       /\ backlog' = [backlog EXCEPT ![n] = <<>>]
       /\ Written(Put(Put(Put(Unwritten, ft, sock["accept_cmd"], <<Say("150")>>), ft, 7,
                          proxy_rw(file)), ft, sock["accept_cmd"], <<Say("226")>>))
       /\ UNCHANGED <<master, dport, dfile, store, remote, fin>>
  BY <1>4, <1>5, <1>8, <1>9, <1>10 DEF ServeCached
<1>12. /\ outq'[cc(s)] = <<Say("150"), Say("226")>>
       /\ \A k \in Conn \ {cc(s), cd(n)} : outq'[k] = outq[k]
       /\ UNCHANGED <<disk, sigpipe, status>>
  <2>1. ft[sock["accept_cmd"]] = cc(s) /\ cc(s) # cd(n) /\ outq[cc(s)] = <<>>
    BY <1>1, <1>3, <1>4, <1>8, Silent
  <2>2. ProcessOK /\ NetOK /\ ft[7] = cd(n)
    BY <1>8
  <2> QED  BY ONLY <1>2, <1>3, <1>11, <2>1, <2>2, WroteCached
<1>13. UNCHANGED <<client, op, nop, server, sdisk, fetches>> /\ UNCHANGED <<cmdbuf, inq>>
       /\ UNCHANGED <<cache, bytes_creat, est, lsn>> /\ read_fds' = read_fds
  BY <1>11 DEF peers, bufs, Turn, store, remote
<1>14. /\ backlog'[CmdPort] = backlog[CmdPort] /\ \A p \in Op : backlog'[p] = <<>>
  <2>1. backlog \in [Port -> Seq(Conn)] /\ CmdPort \in Port /\ n # CmdPort /\ Op \subseteq Port
    BY NumType DEF NetOK, Port
  <2> QED  BY <1>2, <1>11, <2>1 DEF Pending
<1>15. Descriptors'
  BY <1>11, <1>12, <1>13 DEF Descriptors, Pair
<1>16. /\ sock'.accept_data = 7 /\ sock'.proxy_cmd = sock.proxy_cmd
       /\ sock'.accept_cmd = sock.accept_cmd /\ sock'.connect_cmd = sock.connect_cmd
       /\ sock'.proxy_data = sock.proxy_data /\ sock'.connect_data = sock.connect_data
       /\ sock'["proxy_data"] = sock["proxy_data"]
  BY <1>11 DEF ProcessOK, Role
<1>17. Numbers'
  BY <1>6, <1>11, <1>13, <1>16 DEF Numbers
<1>18. Scan'
  <2>1. "proxy_data" \in Role
    BY DEF Role
  <2>2. \A fd \in read_fds : ~(6 < fd)
    <3>1. read_fds \subseteq 3..8 /\ \A fd \in 3..8 : 6 < fd => fd \in {7, 8}
      BY DEF Scan
    <3> QED  BY <3>1
  <2>3. fdt'[5] # Free
    BY <1>3, <1>11, Kinds
  <2> QED  BY <1>16, <1>17, <2>1, <2>2, <2>3, Scanned
<1>19. NoData'
  BY <1>1, <1>11, <1>14 DEF NoData, NoRelay
<1>20. Serving(s)'
  <2>1. Carried(s, <<>>, <<>>, <<>>, <<Say("150"), Say("226")>>)'
    BY <1>1, <1>3, <1>12, <1>13 DEF Quiet, Carried
  <2>2. Known(n)' /\ Armed(n)' /\ Told(s, n)'
    BY <1>1, <1>11, <1>13 DEF Known, Armed, Told, IsGet, dport, dfile
  <2>3. HungUp(n)'
    <3>1. cd(n) \in est' /\ cd(n) \notin fin'
      BY <1>2, <1>11, <1>13
    <3>2. IsGet(n)' /\ ~IsPut(n)'
      BY <1>1, <1>13 DEF IsGet, IsPut
    <3>3. Stored(n)'
      BY <1>1, <1>12, <1>13 DEF Stored
    <3> QED  BY <1>19, <3>1, <3>2, <3>3 DEF HungUp
  <2>4. Answered(s, n)'
    <3>1. ~IsPut(n)'
      BY <1>1, <1>13 DEF IsGet, IsPut
    <3> QED  BY <1>1, <1>13, <2>1, <2>2, <2>3, <3>1 DEF Answered, Answering
  <2>5. Busy(s, n)'
    BY <1>13, <2>2, <2>4 DEF Busy
  <2>6. est \subseteq est' /\ fdt'[4] = fdt[4] /\ fdt'[5] = fdt[5] /\ fin' = fin
    BY <1>11, <1>13
  <2> QED  BY <1>14, <2>5, <2>6, ServedStill
<1>21. \A q \in Session \ {s} : Same(q)
  <2> TAKE q \in Session \ {s}
  <2>1. \A c \in {cc(q), sc(q)} : c \in Conn \ {cc(s), cd(n)}
    BY ConnType, Distinct
  <2> QED  BY <1>11, <1>12, <1>13, <2>1 DEF Same
<1>22. Fetches'
  <2>1. \A q \in Session, p \in Op : p = nop => Passive(p)
    BY <1>1
  <2> QED  BY <1>12, <1>13, <2>1, FetchesStay
<1>23. \A p \in Op : Fresh(p) => Fresh(p)'
  BY <1>11, <1>13 DEF Fresh
<1> QED  BY <1>11, <1>12, <1>13, <1>15, <1>17, <1>18, <1>20, <1>21, <1>22, <1>23, ProxyStep

\* Joined: the stage in which a relay leaves the transfer.
LEMMA Joined ==
    ASSUME Calm, UNCHANGED <<peers, inq, dport, dfile, outq, fin>>,
           NEW s \in Session, NEW n \in Op, client[s].ph = "busy", Busy(s, n), Known(n),
           fdt'[6] = fdt[6], Relaying(n)',
           \/ Sent(s, n) /\ Passive(n) /\ Missing(n) /\ sd(n) \notin fin
           \/ Moving(s, n) /\ ~Passive(n) /\ Missing(n) /\ sd(n) \notin fin
           \/ Answered(s, n) /\ ~Passive(n) /\ Missing(n) /\ IsGet(n) /\ sd(n) \in fin
    PROVE  Busy(s, n)'
<1>1. UNCHANGED <<client, op, nop, server, sdisk, fetches>>
  BY DEF peers
<1>2. IsGet(n)' = IsGet(n) /\ IsPut(n)' = IsPut(n) /\ Passive(n)' = Passive(n)
  BY <1>1 DEF IsGet, IsPut, Passive
<1>3. Known(n)' /\ Armed(n)' /\ Told(s, n)'
  BY <1>1, <1>2 DEF Known, Armed, Told, Busy, dport, dfile
<1>4. \A x, y, z, w : Carried(s, x, y, z, w) => Carried(s, x, y, z, w)'
  BY DEF Carried
<1>5. Quiet(s) => Quiet(s)'
  BY DEF Quiet, Carried
<1>6. CASE Sent(s, n) /\ Passive(n) /\ sd(n) \notin fin
  <2>1. Late(n)'
    BY <1>6 DEF Late
  <2>2. Sent(s, n)'
    <3>1. \/ Carried(s, <<>>, <<op[n].m>>, <<>>, <<>>)' /\ server'[s].ph = "idle"
          \/ Quiet(s)' /\ server'[s].ph = "open" /\ server'[s].m = op'[n].m
      BY <1>1, <1>4, <1>5, <1>6 DEF Sent
    <3> QED  BY <1>1, <1>2, <1>3, <1>6, <2>1, <3>1 DEF Sent, Carried
  <2> QED  BY <1>1, <1>3, <2>2 DEF Busy
<1>7. CASE Moving(s, n) /\ sd(n) \notin fin
  <2>1. Late(n)'
    BY <1>7 DEF Late
  <2>2. Moving(s, n)'
    BY <1>1, <1>2, <1>3, <1>4, <1>5, <1>7, <2>1 DEF Moving
  <2> QED  BY <1>1, <1>3, <2>2 DEF Busy
<1>8. CASE Answered(s, n) /\ IsGet(n) /\ sd(n) \in fin
  <2>1. Answering(s, n)'
    BY <1>1, <1>4, <1>5, <1>8 DEF Answered, Answering
  <2>2. Answered(s, n)'
    BY <1>1, <1>2, <1>3, <1>8, <2>1 DEF Answered
  <2> QED  BY <1>1, <1>3, <2>2 DEF Busy
<1> QED  BY <1>6, <1>7, <1>8

\* DataConnectionTurn: the proxy accepts a data connection and opens the other.
LEMMA DataConnectionTurn ==
    ASSUME Calm, Inv', UNCHANGED peers, DataConnection PROVE TurnsInv'
<1> USE Calmly
<1>1. /\ Turn("proxy_data") /\ pos' = At("proxy_data") /\ UNCHANGED <<bufs, inq>>
      /\ sock["proxy_data"] = 6 /\ 7 \notin read_fds /\ 8 \notin read_fds
  BY Dialling DEF DataConnection
<1>2. PICK s \in Session :
         \E n \in Op :
            /\ n = nop /\ Serving(s) /\ client[s].n = n /\ client[s].ph = "busy"
            /\ Busy(s, n) /\ Pending(n) /\ fdt[6] = Listener(n) /\ Known(n)
            /\ \/ Sent(s, n) /\ Passive(n) /\ Missing(n)
               \/ Moving(s, n) /\ ~Passive(n) /\ Missing(n) /\ sd(n) \notin fin
               \/ /\ Answered(s, n) /\ ~Passive(n) /\ Missing(n) /\ IsGet(n)
                  /\ sd(n) \in fin
               \/ Hidden(s, n)
  BY <1>1, Dialling
<1>3. PICK n \in Op :
            /\ n = nop /\ Serving(s) /\ client[s].n = n /\ client[s].ph = "busy"
            /\ Busy(s, n) /\ Pending(n) /\ fdt[6] = Listener(n) /\ Known(n)
            /\ \/ Sent(s, n) /\ Passive(n) /\ Missing(n)
               \/ Moving(s, n) /\ ~Passive(n) /\ Missing(n) /\ sd(n) \notin fin
               \/ /\ Answered(s, n) /\ ~Passive(n) /\ Missing(n) /\ IsGet(n)
                  /\ sd(n) \in fin
               \/ Hidden(s, n)
  BY <1>2
<1>4. RelayActive \/ RelayPassive \/ ServeCached \/ RelayMiss
  <2>1. \E p \in Port : fdt[sock.proxy_data] = Listener(p)
    BY <1>1, <1>3, NumType
  <2> QED  BY <2>1 DEF DataConnection
<1>5. /\ proxy_data_mode = "PASV" <=> Passive(n)
      /\ proxy_data_mode = "PORT" <=> ~Passive(n)
      /\ proxy_file_mode = "RETR" <=> IsGet(n)
      /\ IsGet(n) => file = op[n].m.f
      /\ (IsGet(n) \/ IsPut(n)) /\ ~(IsGet(n) /\ IsPut(n))
  <2>1. proxy_data_mode = op[n].mode /\ op[n].mode \in {"PORT", "PASV"}
    BY <1>3, Kind DEF Busy, Armed
  <2>2. (IsGet(n) \/ IsPut(n)) /\ ~(IsGet(n) /\ IsPut(n))
    BY <1>3, Kind
  <2>3. proxy_file_mode = op[n].m.t /\ (IsGet(n) => file = op[n].m.f)
    BY <1>3 DEF Known
  <2>4. proxy_file_mode = "RETR" <=> IsGet(n)
    BY <2>3 DEF IsGet
  <2> QED  BY <2>1, <2>2, <2>3, <2>4 DEF Passive
<1>6. isFileExist(fdt, file) <=> file \in DOMAIN disk
  <2>1. Lowest(fdt) = 7 /\ 7 # NoFd
    BY <1>3, Vacant DEF Busy, Pending
  <2> QED  BY <2>1 DEF isFileExist
<1>7. ASSUME ~ServeCached PROVE Missing(n) /\ ~Hidden(s, n)
  <2>1. IsGet(n) /\ Passive(n) => op[n].m.f \notin DOMAIN disk
    BY <1>4, <1>5, <1>6, <1>7 DEF RelayActive, RelayPassive, RelayMiss
  <2>2. ~Hidden(s, n)
    BY <2>1 DEF Hidden
  <2> QED  BY <1>3, <2>2
<1>8. ASSUME Missing(n), ~Hidden(s, n),
             NEW r1 \in {"accept_data", "connect_data"},
             NEW r2 \in {"accept_data", "connect_data"}, r1 # r2,
             (r1 = "connect_data") <=> (Passive(n) /\ IsGet(n)),
             NEW host, host = (IF Passive(n) THEN "server" ELSE "client"),
             NEW asks \in BOOLEAN, ~asks <=> (Passive(n) /\ IsPut(n)),
             Relay(r1, r2, host, asks)
      PROVE  TurnsInv'
  <2>1. /\ Relaying(n)' /\ est \subseteq est'
        /\ fdt'[4] = fdt[4] /\ fdt'[5] = fdt[5] /\ fdt'[6] = fdt[6]
        /\ backlog'[CmdPort] = backlog[CmdPort]
        /\ UNCHANGED <<dport, dfile, outq, fin>>
        /\ Serving(s)' => TurnsInv'
    BY <1>1, <1>3, <1>8, RelayTurn
  <2>2. Passive(n) => sd(n) \notin fin
    BY <1>3 DEF Pending, Second
  <2>3. Busy(s, n)'
    BY <1>1, <1>3, <1>8, <2>1, <2>2, Joined
  <2> QED  BY <1>3, <2>1, <2>3, ServedStill
<1>9. CASE ServeCached
  <2>1. Passive(n) /\ IsGet(n) /\ ~Missing(n)
    BY <1>5, <1>6, <1>9 DEF ServeCached, Missing
  <2>2. Hidden(s, n)
    BY <1>3, <2>1
  <2> QED  BY <1>1, <1>3, <1>9, <2>2, ServeTurn
<1>10. CASE ~ServeCached /\ RelayActive
  <2>1. Missing(n) /\ ~Hidden(s, n) /\ ~Passive(n)
    BY <1>5, <1>7, <1>10 DEF RelayActive
  <2>2. Relay("accept_data", "connect_data", "client", TRUE)
    BY <1>10 DEF RelayActive
  <2> QED  BY <1>8, <2>1, <2>2
<1>11. CASE ~ServeCached /\ RelayPassive
  <2>1. Missing(n) /\ ~Hidden(s, n) /\ Passive(n) /\ ~IsGet(n) /\ IsPut(n)
    BY <1>5, <1>7, <1>11 DEF RelayPassive
  <2>2. Relay("accept_data", "connect_data", "server", FALSE)
    BY <1>11 DEF RelayPassive
  <2> QED  BY <1>8, <2>1, <2>2
<1>12. CASE ~ServeCached /\ RelayMiss
  <2>1. Missing(n) /\ ~Hidden(s, n) /\ Passive(n) /\ IsGet(n) /\ ~IsPut(n)
    BY <1>5, <1>7, <1>12 DEF RelayMiss
  <2>2. Relay("connect_data", "accept_data", "server", TRUE)
    BY <1>12 DEF RelayMiss
  <2> QED  BY <1>8, <2>1, <2>2
<1> QED  BY <1>4, <1>9, <1>10, <1>11, <1>12

\* Side: the end of the relay from which there is something to read, and the
\* other end, which is still open.
LEMMA Side ==
    ASSUME Calm, NEW n \in Op, n = nop, Relaying(n),
           NEW i \in {7, 8}, NEW j \in {7, 8}, i # j,
           inq[fdt[i]] # <<>> \/ fdt[i] \in fin
    PROVE  /\ fdt[i] = (IF IsGet(n) THEN sd(n) ELSE cd(n))
           /\ fdt[j] = (IF IsGet(n) THEN cd(n) ELSE sd(n))
           /\ fdt[j] \notin fin
<1> USE Calmly
<1>1. (IsGet(n) \/ IsPut(n)) /\ ~(IsGet(n) /\ IsPut(n))
  BY Kind
<1>2. (IsGet(n) => inq[cd(n)] = <<>>) /\ (IsPut(n) => inq[sd(n)] = <<>>)
  BY <1>1 DEF Transfers
<1>3. (IsGet(n) => cd(n) \notin fin) /\ (IsPut(n) => sd(n) \notin fin)
  BY DEF Relaying
<1>4. \/ fdt[7] = cd(n) /\ fdt[8] = sd(n)
      \/ fdt[7] = sd(n) /\ fdt[8] = cd(n)
  BY DEF Relaying
<1>5. \/ fdt[i] = cd(n) /\ fdt[j] = sd(n)
      \/ fdt[i] = sd(n) /\ fdt[j] = cd(n)
  BY <1>4
<1> QED  BY <1>1, <1>2, <1>3, <1>5

\* Parted: the stage in which the end of a relay leaves the transfer.
LEMMA Parted ==
    ASSUME Calm, UNCHANGED <<peers, inq, dport, dfile, outq, fin>>,
           NEW s \in Session, NEW n \in Op, n = nop, client[s].ph = "busy", Busy(s, n),
           fdt'[6] = fdt[6], Relaying(n), HungUp(n)', IsGet(n) => sd(n) \in fin
    PROVE  Busy(s, n)'
<1>1. UNCHANGED <<client, op, nop, server, sdisk, fetches>>
  BY DEF peers
<1>2. IsGet(n)' = IsGet(n) /\ IsPut(n)' = IsPut(n) /\ Passive(n)' = Passive(n)
  BY <1>1 DEF IsGet, IsPut, Passive
<1>3. Armed(n)' /\ Told(s, n)' /\ (Known(n) => Known(n)')
  BY <1>1, <1>2 DEF Known, Armed, Told, Busy, dport, dfile
<1>4. \A x, y, z, w : Carried(s, x, y, z, w) => Carried(s, x, y, z, w)'
  BY DEF Carried
<1>5. Quiet(s) => Quiet(s)'
  BY DEF Quiet, Carried
<1>6. (IsGet(n) \/ IsPut(n)) /\ ~(IsGet(n) /\ IsPut(n))
  BY Kind
<1>7. ~NoRelay /\ ~NoData
  <2>1. fdt[7] # Free
    BY ConnType, Kinds DEF Relaying
  <2> QED  BY <2>1 DEF NoRelay, NoData
<1>8. ~Unopened(n) /\ ~Pending(n) /\ ~HungUp(n)
  BY <1>7 DEF Unopened, Pending, HungUp
<1>9. ~Asked(s, n) /\ ~Hidden(s, n)
  BY <1>8 DEF Asked, Hidden
<1>10. Late(n) => Late(n)'
  BY <1>2, <1>6 DEF Late
<1>11. CASE Sent(s, n)
  <2>1. Late(n) /\ Passive(n)
    BY <1>8, <1>11 DEF Sent
  <2>2. Sent(s, n)'
    BY <1>1, <1>2, <1>3, <1>4, <1>5, <1>10, <1>11, <2>1 DEF Sent, Carried
  <2> QED  BY <1>1, <1>3, <2>2 DEF Busy
<1>12. CASE Moving(s, n)
  <2>1. Late(n)
    BY <1>8, <1>12 DEF Moving
  <2>2. Moving(s, n)'
    BY <1>1, <1>2, <1>3, <1>4, <1>5, <1>10, <1>12, <2>1 DEF Moving
  <2> QED  BY <1>1, <1>3, <2>2 DEF Busy
<1>13. CASE Answered(s, n)
  <2>1. Answering(s, n)'
    BY <1>1, <1>4, <1>5, <1>13 DEF Answered, Answering
  <2>2. ~IsPut(n)'
    BY <1>2, <1>6, <1>8, <1>13 DEF Answered
  <2>3. Answered(s, n)'
    BY <1>1, <1>3, <1>13, <2>1, <2>2 DEF Answered
  <2> QED  BY <1>1, <1>3, <2>3 DEF Busy
<1> QED  BY <1>9, <1>11, <1>12, <1>13 DEF Busy

\* BlockWritten: a block goes to the other side, and to the file of the cache
\* if there is one.
LEMMA BlockWritten ==
    ASSUME Calm, NEW n \in Op, n = nop, Relaying(n), NEW other \in Role, NEW o \in Conn,
           fdt[sock[other]] = o, o \notin fin, NEW m, Written(Copied(other, m))
    PROVE  /\ \A c \in Conn \ {o} : outq'[c] = outq[c]
           /\ DOMAIN disk' = DOMAIN disk /\ UNCHANGED <<sigpipe, status>>
<1> USE Calmly
<1>1. /\ IsConn(o) /\ o.k # "file" /\ o \notin fin \cup {Dead}
  BY Kinds
<1>2. PICK w1 : w1 = (IF cache THEN Put(Unwritten, fdt, bytes_creat, <<m>>) ELSE Unwritten)
  OBVIOUS
<1>3. PICK w2 : w2 = Put(w1, fdt, sock[other], <<m>>)
  OBVIOUS
<1>4. w1.q = outq /\ DOMAIN w1.d = DOMAIN disk /\ w1.hit = {}
  <2>1. CASE ~cache
    BY <1>2, <2>1 DEF Unwritten
  <2>2. CASE cache
    <3>1. bytes_creat = 9 /\ w1 = Put(Unwritten, fdt, 9, <<m>>)
      BY <1>2, <2>2 DEF Descriptors
    <3>2. fdt[9] = Free \/ \E f \in File : fdt[9] = CacheFile(f)
      BY Kind DEF Relaying
    <3>3. ~IsConn(fdt[9]) /\ fdt[9] \notin fin \cup {Dead}
      BY <3>2, Kinds
    <3> QED  BY <3>1, <3>3 DEF Put, Unwritten
  <2> QED  BY <2>1, <2>2
<1>5. w2.q = [outq EXCEPT ![o] = @ \o <<m>>] /\ DOMAIN w2.d = DOMAIN disk /\ w2.hit = {}
  BY <1>1, <1>3, <1>4 DEF Put
<1>6. Written(w2)
  BY <1>2, <1>3 DEF Copied
<1> QED  BY <1>5, <1>6 DEF Written, NetOK

\* BlockTurn: a read on a data connection that is not its end.
LEMMA BlockTurn ==
    ASSUME Calm, Inv', UNCHANGED <<peers, fds, dport, dfile, store, bufs, remote, fin>>,
           NEW r \in Role, Turn(r), pos' = At(r), sock[r] \in {7, 8},
           DOMAIN disk' = DOMAIN disk, UNCHANGED <<sigpipe, status>>,
           \A q \in Session : /\ inq'[cc(q)] = inq[cc(q)] /\ inq'[sc(q)] = inq[sc(q)]
                              /\ outq'[cc(q)] = outq[cc(q)] /\ outq'[sc(q)] = outq[sc(q)],
           \A n \in Op : /\ inq[cd(n)] = <<>> => inq'[cd(n)] = <<>>
                         /\ inq[sd(n)] = <<>> => inq'[sd(n)] = <<>>,
           sock[r] = 7 /\ fdt[8] \in Conn => inq'[fdt[8]] = inq[fdt[8]]
    PROVE  TurnsInv'
<1> USE Calmly
<1>1. /\ UNCHANGED <<fdt, master, sock, backlog, est, lsn, cache, bytes_creat, cmdbuf>>
      /\ read_fds' = read_fds
  BY DEF Turn, fds, store, bufs, remote
<1>2. Descriptors' /\ Numbers'
  BY <1>1, TableKept
<1>3. Scan'
  <2>1. \A fd \in 3..8 : sock[r] < fd /\ fdt[fd] \in Conn => inq'[fdt[fd]] = inq[fdt[fd]]
    OBVIOUS
  <2>2. fdt[5] = Free => cmdbuf' \in {Junk, Say("QUIT")}
    BY <1>1 DEF Scan
  <2> QED  BY <1>1, <1>2, <2>1, <2>2, ScanKept
<1>4. \A q \in Session : Same(q)
  BY <1>1 DEF Same, peers
<1>5. pos'[1] = sock[r] /\ ~(pos'[1] < 6)
  BY DEF At
<1> QED  BY <1>1, <1>2, <1>3, <1>4, <1>5, ProxyAside

\* EndTurn: one side of a data connection is closed, and the proxy closes both.
LEMMA EndTurn ==
    ASSUME Calm, Inv', UNCHANGED <<peers, inq>>, NEW r \in Role, Turn(r), pos' = At(r),
           sock[r] \in {7, 8}, NEW S, S = {7, 8} \cup (IF cache THEN {bytes_creat} ELSE {}),
           CloseAll(S, {7, 8}),
           UNCHANGED <<dport, dfile, store, bufs, remote, written, fin>>,
           NEW s \in Session, Serving(s), NEW n \in Op, n = nop, client[s].n = n,
           client[s].ph = "busy", Busy(s, n), Relaying(n),
           IsGet(n) => sd(n) \in fin, IsPut(n) => cd(n) \in fin
    PROVE  TurnsInv'
<1> USE Calmly
<1>1. /\ 0 \in Fd /\ 1 \in Fd /\ 2 \in Fd /\ 3 \in Fd /\ 4 \in Fd
      /\ 5 \in Fd /\ 6 \in Fd /\ 7 \in Fd /\ 8 \in Fd /\ 9 \in Fd
      /\ 3..8 \subseteq Fd /\ fdt \in [Fd -> Object] /\ backlog \in [Port -> Seq(Conn)]
  BY LowFds DEF Calm, ProcessOK, NetOK
<1>2. /\ S \subseteq {7, 8, 9} /\ 7 \in S /\ 8 \in S /\ (cache => 9 \in S)
  BY DEF Descriptors
<1>3. /\ IsGet(n) \/ IsPut(n)
      /\ ~(IsGet(n) /\ IsPut(n))
      /\ fdt[7] \in Conn /\ fdt[8] \in Conn /\ fdt[7] # Free
      /\ fdt[9] = Free \/ (cache /\ \E f \in File : fdt[9] = CacheFile(f))
  <2>1. (IsGet(n) \/ IsPut(n)) /\ ~(IsGet(n) /\ IsPut(n)) /\ op[n].m.f \in File
    BY Kind
  <2>2. fdt[7] \in Conn /\ fdt[8] \in Conn
    BY ConnType DEF Relaying
  <2>3. fdt[9] = Free \/ (cache /\ \E f \in File : fdt[9] = CacheFile(f))
    BY <2>1 DEF Relaying
  <2> QED  BY <2>1, <2>2, <2>3, Kinds
<1>4. Dropped(backlog, fdt, S) = backlog
  <2>1. \A p \in Port : fdt[7] # Listener(p) /\ fdt[8] # Listener(p) /\ fdt[9] # Listener(p)
    BY <1>3, Kinds
  <2>2. \A p \in Port : \A fd \in S \cap Fd : fdt[fd] # Listener(p)
    BY <1>2, <2>1
  <2> QED  BY <1>1, <2>2 DEF Dropped
<1>5. /\ fdt' = Closed(fdt, S) /\ backlog' = backlog /\ master' = master \ {7, 8}
      /\ sock' = sock
  BY <1>4 DEF CloseAll
<1>6. /\ fdt'[7] = Free /\ fdt'[8] = Free /\ fdt'[9] = Free
      /\ fdt'[0] = fdt[0] /\ fdt'[1] = fdt[1] /\ fdt'[2] = fdt[2] /\ fdt'[3] = fdt[3]
      /\ fdt'[4] = fdt[4] /\ fdt'[5] = fdt[5] /\ fdt'[6] = fdt[6]
      /\ \A fd \in Fd : fd > 9 => fdt'[fd] = fdt[fd]
  <2>1. \A fd \in Fd : fd > 9 => fd \notin S
    BY <1>2 DEF Fd
  <2>2. /\ 0 \notin S /\ 1 \notin S /\ 2 \notin S /\ 3 \notin S /\ 4 \notin S /\ 5 \notin S
        /\ 6 \notin S
    BY <1>2
  <2>3. fdt'[9] = Free
    BY <1>1, <1>2, <1>3, <1>5 DEF Closed
  <2> QED  BY <1>1, <1>2, <1>5, <2>1, <2>2, <2>3 DEF Closed
<1>7. UNCHANGED <<status, sigpipe, disk, outq, cache, bytes_creat, lsn, est, cmdbuf>>
      /\ read_fds' = read_fds
  BY DEF written, store, bufs, remote, Turn
<1>8. Descriptors'
  <2>1. master' = {fd \in 3..8 : fdt'[fd] # Free}
    BY <1>5, <1>6 DEF Descriptors
  <2>2. \A fd \in 0..2 : fdt'[fd] = Std
    BY <1>6 DEF Descriptors
  <2> QED  BY <1>6, <1>7, <2>1, <2>2 DEF Descriptors, Pair
<1>9. Numbers'
  BY <1>3, <1>5, <1>6, <1>7 DEF Numbers
<1>10. Scan'
  <2>1. ASSUME NEW fd \in read_fds, sock[r] < fd PROVE Ready(fd)'
    <3>1. fd = 8 /\ sock[r] = 7
      <4>1. fd \in 3..8
        BY DEF Scan
      <4> QED  BY <2>1, <4>1
    <3> QED  BY <1>6, <3>1 DEF Ready, At
  <2>2. fdt'[5] # Free
    BY <1>6, ConnType, Kinds DEF Serving, Pair
  <2> QED  BY <1>5, <1>9, <2>1, <2>2, Scanned
<1>11. UNCHANGED <<client, op, nop, server, sdisk, fetches>>
  BY DEF peers
<1>12. HungUp(n)'
  <2>1. NoData'
    BY <1>5, <1>6 DEF NoData, NoRelay, Relaying
  <2>2. IsGet(n)' = IsGet(n) /\ IsPut(n)' = IsPut(n)
    BY <1>11 DEF IsGet, IsPut
  <2>3. Stored(n)'
    BY <1>7, <1>11 DEF Stored, Relaying, IsGet
  <2> QED  BY <1>7, <2>1, <2>2, <2>3 DEF HungUp, Relaying
<1>13. Serving(s)'
  <2>1. Busy(s, n)'
    BY <1>6, <1>7, <1>12, Parted
  <2> QED  BY <1>5, <1>6, <1>7, <2>1, ServedStill
<1>14. \A q \in Session \ {s} : Same(q)
  BY <1>7, <1>11 DEF Same
<1>15. Fetches'
  <2>1. \A p \in Op : ~Pending(p)
    BY <1>3 DEF Pending, NoRelay
  <2> QED  BY <1>7, <1>11, <2>1, FetchesStay
<1>16. \A p \in Op : Fresh(p) => Fresh(p)'
  BY <1>7 DEF Fresh
<1> QED  BY <1>7, <1>8, <1>9, <1>10, <1>13, <1>14, <1>15, <1>16, ProxyStep

\* TransferTurn: a branch for one of the two data sockets.
LEMMA TransferTurn ==
    ASSUME Calm, Inv', UNCHANGED peers,
           NEW r \in {"accept_data", "connect_data"},
           NEW other \in {"accept_data", "connect_data"}, r # other, Transfer(r, other)
    PROVE  TurnsInv'
<1> USE Calmly
<1>1. /\ r \in Role /\ other \in Role /\ Turn(r) /\ pos' = At(r)
      /\ sock[r] \in {7, 8} /\ sock[other] \in {7, 8} /\ sock[r] # sock[other]
      /\ Ready(sock[r])
  <2>1. r \in Role /\ other \in Role /\ Turn(r) /\ pos' = At(r)
    BY DEF Transfer, Role
  <2>2. sock[r] \in read_fds /\ sock[r] \in 3..8 /\ Ready(sock[r])
    BY <2>1, TurnIs
  <2>3. sock[r] \in {7, 8}
    BY <2>2 DEF Numbers
  <2>4. {sock["accept_data"], sock["connect_data"]} = {7, 8}
    BY <2>2, <2>3 DEF Numbers
  <2>5. {sock[r], sock[other]} = {7, 8}
    BY <2>4
  <2>6. sock[other] \in {7, 8} /\ sock[r] # sock[other]
    <3>1. sock[other] \in {sock[r], sock[other]}
      OBVIOUS
    <3>2. 7 \in {sock[r], sock[other]} /\ 8 \in {sock[r], sock[other]}
      BY <2>5
    <3> QED  BY <2>5, <3>1, <3>2
  <2> QED  BY <2>1, <2>2, <2>3, <2>6
<1>2. PICK x \in Fetched(sock[r], Junk) :
         inq' = x.q /\ (DataEnd(r, other, x) \/ DataBlock(r, other, x))
  BY DEF Transfer
<1>3. x \in Fetched(sock[r], Junk)
  OBVIOUS
<1>4. CASE fdt[sock[r]] = Free
  <2>1. x.got = "error" /\ x.q = inq
    BY <1>3, <1>4, Kinds DEF Fetched
  <2>2. /\ UNCHANGED <<fds, dport, dfile, store, bufs, remote, fin>>
        /\ Written(Unwritten)
    BY <1>2, <2>1 DEF DataEnd, DataBlock
  <2>3. UNCHANGED <<outq, disk, sigpipe, status>>
    BY <2>2 DEF Written, Unwritten
  <2> QED  BY <1>1, <1>2, <2>1, <2>2, <2>3, BlockTurn
<1>5. CASE fdt[sock[r]] # Free
  <2>1. PICK s \in Session :
           \E n \in Op : /\ Serving(s) /\ n = nop /\ client[s].n = n
                         /\ client[s].ph = "busy" /\ Busy(s, n) /\ Relaying(n)
    BY <1>1, <1>5, DataPair
  <2>2. PICK n \in Op : /\ Serving(s) /\ n = nop /\ client[s].n = n
                        /\ client[s].ph = "busy" /\ Busy(s, n) /\ Relaying(n)
    BY <2>1
  <2>3. PICK c \in Conn : fdt[sock[r]] = c
    BY <1>1, <2>2, ConnType DEF Relaying
  <2>4. PICK o \in Conn : fdt[sock[other]] = o
    BY <1>1, <2>2, ConnType DEF Relaying
  <2>5. \/ x.got = "eof" /\ x.q = inq /\ inq[c] = <<>> /\ c \in fin
        \/ /\ x.got = "message" /\ inq[c] # <<>> /\ x.m = Head(inq[c])
           /\ x.q[c] = Tail(inq[c]) /\ \A e \in Conn \ {c} : x.q[e] = inq[e]
    BY <1>3, <2>3, Kinds DEF Fetched, NetOK
  <2>6. /\ c = (IF IsGet(n) THEN sd(n) ELSE cd(n))
        /\ o = (IF IsGet(n) THEN cd(n) ELSE sd(n)) /\ o \notin fin
    BY <1>1, <2>2, <2>3, <2>4, <2>5, Side
  <2>7. CASE x.got = "eof" /\ x.q = inq /\ c \in fin
    <3>1. DataEnd(r, other, x)
      BY <1>2, <2>7 DEF DataBlock
    <3>2. {sock[r], sock[other]} = {7, 8}
      BY <1>1
    <3>3. /\ CloseAll({7, 8} \cup (IF cache THEN {bytes_creat} ELSE {}), {7, 8})
          /\ UNCHANGED <<dport, dfile, store, bufs, remote, written, fin>>
      BY <3>1, <3>2 DEF DataEnd
    <3>4. (IsGet(n) => sd(n) \in fin) /\ (IsPut(n) => cd(n) \in fin)
      BY <2>2, <2>6, <2>7, Kind
    <3> QED  BY <1>1, <1>2, <2>2, <2>7, <3>3, <3>4, EndTurn
  <2>8. CASE /\ x.got = "message" /\ inq[c] # <<>> /\ x.m = Head(inq[c])
             /\ x.q[c] = Tail(inq[c]) /\ \A e \in Conn \ {c} : x.q[e] = inq[e]
    <3>1. /\ UNCHANGED <<fds, dport, dfile, store, bufs, remote, fin>>
          /\ Written(Copied(other, x.m))
      BY <1>2, <2>8 DEF DataEnd, DataBlock
    <3>2. /\ \A e \in Conn \ {o} : outq'[e] = outq[e]
          /\ DOMAIN disk' = DOMAIN disk /\ UNCHANGED <<sigpipe, status>>
      BY <1>1, <2>2, <2>4, <2>6, <3>1, BlockWritten
    <3>3. c \in {cd(n), sd(n)} /\ o \in {cd(n), sd(n)}
      BY <2>6
    <3>4. \A e \in Conn \ {c} : inq'[e] = inq[e]
      BY <1>2, <2>8
    <3>5. \A q \in Session : /\ inq'[cc(q)] = inq[cc(q)] /\ inq'[sc(q)] = inq[sc(q)]
                             /\ outq'[cc(q)] = outq[cc(q)] /\ outq'[sc(q)] = outq[sc(q)]
      <4> TAKE q \in Session
      <4>1. \A e \in {cc(q), sc(q)} : e \in Conn \ {c, o}
        BY <3>3, ConnType, Distinct
      <4> QED  BY <3>2, <3>4, <4>1
    <3>6. \A p \in Op : /\ inq[cd(p)] = <<>> => inq'[cd(p)] = <<>>
                        /\ inq[sd(p)] = <<>> => inq'[sd(p)] = <<>>
      BY <2>8, <3>4, ConnType
    <3>7. sock[r] = 7 /\ fdt[8] \in Conn => inq'[fdt[8]] = inq[fdt[8]]
      <4>1. c # o
        BY <2>6, Distinct
      <4>2. sock[r] = 7 => fdt[8] = o
        BY <1>1, <2>4
      <4> QED  BY <3>4, <4>1, <4>2
    <3> QED  BY <1>1, <3>1, <3>2, <3>5, <3>6, <3>7, BlockTurn
  <2> QED  BY <2>5, <2>7, <2>8
<1> QED  BY <1>4, <1>5

-----------------------------------------------------------------------------
(***************************************************************************)
(* Every reachable state, and what it guarantees.                          *)
(***************************************************************************)
LEMMA InitTurns == ASSUME Orderly, SysInit, Inv PROVE TurnsInv
<1> USE DEF SysInit, Init, PeersInit
<1>1. /\ 0 \in Fd /\ 1 \in Fd /\ 2 \in Fd /\ 3 \in Fd /\ 4 \in Fd
      /\ 5 \in Fd /\ 6 \in Fd /\ 7 \in Fd /\ 8 \in Fd /\ 9 \in Fd
  BY LowFds
<1>2. /\ fdt[0] = Std /\ fdt[1] = Std /\ fdt[2] = Std /\ fdt[3] = Listener(CmdPort)
      /\ fdt[4] = Free /\ fdt[5] = Free /\ fdt[6] = Free /\ fdt[7] = Free
      /\ fdt[8] = Free /\ fdt[9] = Free /\ \A fd \in Fd : fd > 9 => fdt[fd] = Free
  <2>1. \A fd \in Fd : fd > 9 => ~(fd < 3) /\ fd # 3
    BY DEF Fd
  <2> QED  BY <1>1, <2>1
<1>3. Descriptors
  <2>1. Listener(CmdPort) # Free
    BY Kinds, NumType
  <2>2. master = {fd \in 3..8 : fdt[fd] # Free}
    <3>1. 3..8 = {3, 4, 5, 6, 7, 8} /\ master = {3}
      OBVIOUS
    <3> QED  BY <1>2, <2>1, <3>1
  <2>3. \A fd \in 0..2 : fdt[fd] = Std
    <3>1. 0..2 = {0, 1, 2}
      OBVIOUS
    <3> QED  BY <1>2, <3>1
  <2> QED  BY <1>2, <2>2, <2>3 DEF Descriptors
<1>4. Numbers
  BY <1>2 DEF Numbers, Role
<1>5. Scan
  BY DEF Scan, Due
<1>6. NoData
  <2>1. \A p \in Op : p \in Port
    BY NumType
  <2> QED  BY <1>2, <2>1 DEF NoData, NoRelay
<1>7. ASSUME NEW s \in Session PROVE Numbered(s) /\ Off(s)
  <2>1. cc(s) \in Conn /\ sc(s) \in Conn /\ CmdPort \in Port
    BY ConnType, NumType
  <2>2. sc(s) # Free /\ <<cc(s)>> # <<>>
    BY <2>1, Kinds, ShortConn
  <2>3. Absent(s) /\ Quiet(s)
    BY <1>2, <2>1, <2>2 DEF Absent, Quiet, Carried
  <2> QED  BY <2>3 DEF Numbered, Off
<1>8. Sessions
  <2>1. backlog[CmdPort] = <<>>
    BY NumType
  <2>2. \A s \in Session : client[s].ph = "off"
    OBVIOUS
  <2> QED  BY <1>6, <1>7, <2>1, <2>2 DEF Sessions
<1>9. Transfers
  <2>1. \A n \in Op : ~(n < 0) /\ n # 0 /\ ~(n <= 0)
    BY DEF Op
  <2>2. \A n \in Op : cd(n) \in Conn /\ sd(n) \in Conn
    BY ConnType
  <2>3. \A n \in Op : Fresh(n)
    BY DEF Fresh
  <2> QED  BY <2>1, <2>2, <2>3 DEF Transfers
<1>10. Fetches
  BY NetAssumption DEF Fetches
<1> QED  BY <1>3, <1>4, <1>5, <1>8, <1>9, <1>10 DEF TurnsInv

\* NextTurns: every step keeps the invariant.
LEMMA NextTurns == ASSUME Calm, Inv', [Next]_vars PROVE TurnsInv'
<1>1. CASE UNCHANGED vars
  <2>1. /\ UNCHANGED <<fdt, master, sock, backlog, read_fds, pos, status, sigpipe, cache,
                       bytes_creat, disk, cmdbuf, inq, outq, est, fin, lsn>>
        /\ UNCHANGED <<dport, dfile, peers>>
    BY <1>1 DEF vars, proxyVars, scan, fds, store, bufs, remote, written
  <2>2. Descriptors' /\ Numbers'
    BY <2>1, TableKept
  <2>3. Scan'
    <3>1. Scan
      BY Calmly
    <3>2. \A fd : Ready(fd)' = Ready(fd)
      BY <2>1 DEF Ready, Readable
    <3>3. Due' = Due
      BY <2>1 DEF Due, At, Before
    <3> QED  BY <2>1, <3>1, <3>2, <3>3 DEF Scan
  <2>4. \A q \in Session : Same(q)
    BY <2>1 DEF Same, peers
  <2>5. \A q \in Session, n \in Op : Asked(q, n) /\ Pair(q) =>
              (6 \in read_fds' /\ pos'[1] < 6 => 5 \in read_fds' /\ pos'[1] < 5)
    BY <2>1 DEF Asked
  <2> QED  BY <2>1, <2>2, <2>3, <2>4, <2>5, ProxyAside
<1>2. CASE Next
  BY <1>2, SelectTurn, AcceptClientTurn, CommandTurn, ReplyTurn, DataConnectionTurn,
     TransferTurn, CliStepTurn, SrvStepTurn, CliDataTurn DEF Next
<1> QED  BY <1>1, <1>2

\* TurnsHold: the invariant of the turns, with the types that it rests on.
LEMMA TurnsHold == ASSUME Orderly PROVE Spec => [](Inv /\ ListenerInv /\ TurnsInv)
<1>1. SysInit => Inv /\ ListenerInv /\ TurnsInv
  BY InitInv, InitListener, InitTurns
<1>2. Inv /\ ListenerInv /\ TurnsInv /\ [Next]_vars => (Inv /\ ListenerInv /\ TurnsInv)'
  BY NextInv, NextListener, NextTurns DEF Calm
<1> QED  BY <1>1, <1>2, PTL DEF Spec

\* ProxySurvivesHolds: while clients take turns the proxy never exits, on no path
\* from a failed call, a descriptor that select() refuses or a second write to a
\* closed connection.
THEOREM ProxySurvivesHolds == ASSUME Orderly PROVE Spec => []ProxySurvives
<1>1. TurnsInv => ProxySurvives
  BY DEF TurnsInv, Descriptors, ProxySurvives
<1> QED  BY <1>1, TurnsHold, PTL

\* SelectSafeHolds: then select() is never given a closed descriptor (line 147).
THEOREM SelectSafeHolds == ASSUME Orderly PROVE Spec => []SelectSafe
<1>1. TurnsInv => SelectSafe
  BY DEF TurnsInv, Descriptors, SelectSafe
<1> QED  BY <1>1, TurnsHold, PTL

\* InWindowHolds: and no descriptor it is given is beyond the fixed bound of the
\* loop (lines 131, 159), however many the process may hold.
THEOREM InWindowHolds == ASSUME Orderly PROVE Spec => []InWindow
<1>1. TurnsInv => InWindow
  <2>1. \A fd \in 3..8 : fd < 10
    OBVIOUS
  <2> QED  BY <2>1 DEF TurnsInv, Descriptors, InWindow, fdmax
<1> QED  BY <1>1, TurnsHold, PTL

\* FetchedOnceHolds: the server sends a cacheable file at most once.
THEOREM FetchedOnceHolds == ASSUME Orderly PROVE Spec => []FetchedOnce
<1>1. TurnsInv => FetchedOnce
  BY DEF TurnsInv, Fetches, FetchedOnce
<1> QED  BY <1>1, TurnsHold, PTL

\* NeverBlocksHolds: the branch that is next finds something to read or to
\* accept, so no peer can hold up the process.
THEOREM NeverBlocksHolds == ASSUME Orderly PROVE Spec => []NeverBlocks
<1>1. ASSUME TurnsInv PROVE NeverBlocks
  <2> SUFFICES ASSUME NEW r \in Due, ~Readable(sock[r]),
                      IsConn(fdt[sock[r]]) \/ fdt[sock[r]].k = "lsn"
               PROVE  FALSE
    BY DEF NeverBlocks
  <2>1. sock[r] \in read_fds /\ pos[1] < sock[r]
    BY <1>1 DEF TurnsInv, Scan, Due
  <2>2. Ready(sock[r])
    BY <1>1, <2>1 DEF TurnsInv, Scan
  <2>3. fdt[sock[r]] = Free
    BY <2>2 DEF Ready
  <2> QED  BY <2>3, Kinds
<1> QED  BY <1>1, TurnsHold, PTL

\* RolesMatchHolds: an open socket variable is a connection of its role, and the
\* two of a pair belong together.
THEOREM RolesMatchHolds == ASSUME Orderly PROVE Spec => []RolesMatch
<1>1. ASSUME Calm PROVE RolesMatch
  <2> USE Calmly
  <2>1. /\ sock["connect_cmd"] \in {0, 4} /\ sock["accept_cmd"] \in {0, 5}
        /\ sock["accept_data"] \in {0, 7, 8} /\ sock["connect_data"] \in {0, 7, 8}
        /\ \A fd \in master : fdt[fd] # Free /\ fd # 0
    BY <1>1 DEF Numbers, Descriptors
  <2>2. sock["accept_cmd"] \in master => fdt[sock["accept_cmd"]].k = "cc"
    <3> SUFFICES ASSUME sock["accept_cmd"] \in master PROVE fdt[5].k = "cc"
      BY <2>1
    <3>1. fdt[5] # Free
      BY <2>1
    <3>2. PICK s \in Session : Pair(s)
      BY <1>1, <3>1 DEF Descriptors
    <3> QED  BY <3>2 DEF Pair, cc
  <2>3. sock["connect_cmd"] \in master =>
           fdt[sock["connect_cmd"]] \in {Dead, sc(fdt[sock["accept_cmd"]].n)}
    <3> SUFFICES ASSUME sock["connect_cmd"] \in master
                 PROVE  fdt[4] = sc(fdt[sock["accept_cmd"]].n)
      BY <2>1
    <3>1. fdt[4] # Free
      BY <2>1
    <3>2. PICK s \in Session : Pair(s)
      BY <1>1, <3>1 DEF Descriptors
    <3>3. sock["accept_cmd"] = 5
      BY <1>1, <3>1 DEF Numbers
    <3>4. cc(s).n = s
      BY DEF cc
    <3> QED  BY <3>2, <3>3, <3>4 DEF Pair
  <2>4. ASSUME fdt[7] # Free \/ fdt[8] # Free
        PROVE  /\ fdt[sock["accept_data"]].k \in {"cd", "sd"}
               /\ fdt[sock["connect_data"]] \in {cd(fdt[sock["accept_data"]].n),
                                                 sd(fdt[sock["accept_data"]].n)}
    <3>1. {sock["accept_data"], sock["connect_data"]} \subseteq {7, 8}
      BY <1>1, <2>4 DEF Numbers, Descriptors
    <3>2. PICK n \in Op : Relaying(n)
      BY <1>1, <2>4, DataPair
    <3>3. fdt[7] \in {cd(n), sd(n)} /\ fdt[8] \in {cd(n), sd(n)}
      BY <3>2 DEF Relaying
    <3>4. /\ fdt[sock["accept_data"]] \in {cd(n), sd(n)}
          /\ fdt[sock["connect_data"]] \in {cd(n), sd(n)}
      BY <3>1, <3>3
    <3>5. \A c \in {cd(n), sd(n)} : c.k \in {"cd", "sd"} /\ c.n = n
      BY DEF cd, sd
    <3> QED  BY <3>4, <3>5
  <2>5. /\ sock["accept_data"] \in master => fdt[7] # Free \/ fdt[8] # Free
        /\ sock["connect_data"] \in master => fdt[7] # Free \/ fdt[8] # Free
    BY <2>1
  <2> QED  BY <2>2, <2>3, <2>4, <2>5 DEF RolesMatch
<1> QED  BY <1>1, TurnsHold, PTL DEF Calm

\* CacheHandleHolds: while the flag cache is set for a data connection,
\* bytes_creat is the open file of the cache or a closed descriptor.
THEOREM CacheHandleHolds == ASSUME Orderly PROVE Spec => []CacheHandle
<1>1. ASSUME Calm PROVE CacheHandle
  <2> USE Calmly
  <2> SUFFICES ASSUME cache, sock["accept_data"] \in master
               PROVE  fdt[bytes_creat].k \in {"free", "file"}
    BY DEF CacheHandle
  <2>1. bytes_creat = 9
    BY <1>1 DEF Descriptors
  <2>2. fdt[7] # Free \/ fdt[8] # Free
    BY <1>1 DEF Numbers, Descriptors
  <2>3. PICK n \in Op : n = nop /\ Relaying(n)
    BY <1>1, <2>2, DataPair
  <2>4. fdt[9] = Free \/ \E f \in File : fdt[9] = CacheFile(f)
    BY <1>1, <2>3, Kind DEF Relaying
  <2> QED  BY <2>1, <2>4, Kinds
<1> QED  BY <1>1, TurnsHold, PTL DEF Calm

\* CacheFilledHolds: a completed download of a cacheable file left it in the
\* cache, whichever side connected and whoever answered.
THEOREM CacheFilledHolds == ASSUME Orderly PROVE Spec => []CacheFilled
<1>1. ASSUME Calm PROVE CacheFilled
  <2> USE Calmly
  <2> SUFFICES ASSUME NEW n \in Op, Finished(n, "RETR"), op[n].m.f \in Cacheable
               PROVE  op[n].m.f \in DOMAIN disk
    BY DEF CacheFilled
  <2>1. op[n].m.t = "RETR" /\ op[n].reply = "ok" /\ (cd(n) \in fin \/ cd(n) \in est)
    BY DEF Finished, Ended
  <2>2. SUFFICES Stored(n)
    BY <2>1 DEF Stored, IsGet
  <2>3. n <= nop
    <3>1. ~(n > nop)
      BY <1>1, <2>1 DEF Transfers
    <3> QED  BY <1>1, <3>1 DEF Op
  <2>4. CASE n < nop \/ ~Live
    <3>1. n < nop \/ n = nop
      BY <1>1, <2>3 DEF Op
    <3> QED  BY <1>1, <2>4, <3>1 DEF Transfers, Past
  <2>5. CASE n = nop /\ Live
    <3>1. PICK s \in Session : Pair(s) /\ client[s].ph \in {"setup", "ready", "busy"}
      BY <2>5 DEF Live
    <3>2. Serving(s)
      BY <1>1, <3>1, WhoIsServed
    <3>3. Preparing(s, n) \/ Busy(s, n)
      BY <2>5, <3>1, <3>2, StageOf
    <3>4. Answered(s, n)
      BY <2>1, <3>3 DEF Preparing, Busy, Asked, Sent, Moving, Hidden
    <3>5. ~(~Passive(n) /\ Pending(n))
      BY <2>1 DEF Pending, Second
    <3> QED  BY <3>4, <3>5 DEF Answered, Relaying, HungUp
  <2> QED  BY <1>1, <2>3, <2>4, <2>5 DEF Op
<1> QED  BY <1>1, TurnsHold, PTL DEF Calm
=============================================================================
