------------------------------ MODULE FtpProxy ------------------------------
(***************************************************************************)
(* The proxy process: main() of ftp-project/ftp.c, one action per branch   *)
(* of the loop over the descriptors that select() returned.  A branch is   *)
(* one step, because the process has one thread and its peers see only     *)
(* what it writes, opens and closes; a branch whose read() or accept()     *)
(* would block is disabled, and with it the whole process.                 *)
(*                                                                         *)
(* Left out: the segmentation of control messages (one read delivers one   *)
(* command or reply), malformed PORT and 227 arguments, the 600 s timeout  *)
(* (the code only prints), and the time a RST needs to arrive.             *)
(***************************************************************************)
EXTENDS FtpNet

VARIABLES
    status,            \* "running" or "exited"
    fdt,               \* the descriptor table: what each descriptor refers to
    master, read_fds,  \* the two fd_sets of main()
    pos,               \* <<i, branch>> of the scan: the last branch executed
    sock,              \* the six *_socket variables
    proxy_data_mode, proxy_data_port,
    proxy_file_mode, file,
    cache, bytes_creat,
    disk,              \* the files of the working directory that exist
    cmdbuf, repbuf,    \* what the client and the server branch left in "buf"
    inq, outq,         \* per connection: messages to the proxy and from it
    est, fin,          \* connections ever established; closed by the peer
    sigpipe,           \* sockets on which a write raises SIGPIPE
    backlog,           \* per port: connections waiting for accept()
    lsn                \* the data ports on which client and server hosts listen

scan   == <<read_fds, pos>>
fds    == <<fdt, master, sock, backlog>>
dport  == <<proxy_data_mode, proxy_data_port>>
dfile  == <<proxy_file_mode, file>>
store  == <<cache, bytes_creat>>
bufs   == <<cmdbuf, repbuf>>
remote == <<est, lsn>>
written == <<status, outq, disk, sigpipe>>
proxyVars == <<scan, fds, dport, dfile, store, bufs, remote, written, inq, fin>>

-----------------------------------------------------------------------------
Role  == {"proxy_cmd", "accept_cmd", "connect_cmd",
          "proxy_data", "accept_data", "connect_data"}
Order == [proxy_cmd |-> 1, accept_cmd |-> 2, connect_cmd |-> 3,
          proxy_data |-> 4, accept_data |-> 5, connect_data |-> 6]
fdmax == 10

Init ==
    /\ status = "running"
    /\ fdt = [fd \in Fd |-> IF fd < 3 THEN Std
                            ELSE IF fd = 3 THEN Listener(CmdPort) ELSE Free]
    /\ master = {3} /\ read_fds = {} /\ pos = <<0, 0>>
    /\ sock = [r \in Role |-> IF r = "proxy_cmd" THEN 3 ELSE 0]
    /\ proxy_data_mode \in {"PORT", "PASV"}     \* uninitialised in main()
    /\ proxy_file_mode \in {"RETR", "STOR"}     \* uninitialised in main()
    /\ proxy_data_port = 0 /\ file = NoName
    /\ cache = FALSE /\ bytes_creat = 0
    /\ disk = [f \in {} |-> <<>>]
    /\ cmdbuf = Junk /\ repbuf = Junk
    /\ inq = [c \in Conn |-> <<>>] /\ outq = [c \in Conn |-> <<>>]
    /\ est = {} /\ fin = {} /\ sigpipe = {Dead}
    /\ backlog = [p \in Port |-> <<>>]
    /\ lsn = [client |-> {}, server |-> {}]

-----------------------------------------------------------------------------
(* The loop "for (i = 0; i < fdmax; i++)" over the snapshot read_fds. *)

\* Mutant of Before: a branch already executed is due again.
Before_Again(x, y) == x[1] < y[1] \/ (x[1] = y[1] /\ x[2] <= y[2])

Before(x, y) == x[1] < y[1] \/ (x[1] = y[1] /\ x[2] < y[2])
At(r)   == <<sock[r], Order[r]>>
Due     == {r \in Role : sock[r] \in read_fds /\ Before(pos, At(r))}
Turn(r) == /\ status = "running"
           /\ r \in Due
           /\ \A q \in Due \ {r} : Before(At(r), At(q))
           /\ UNCHANGED read_fds

Readable(fd) ==
    LET o == fdt[fd] IN
    \/ IsConn(o) /\ (inq[o] # <<>> \/ o \in fin)
    \/ o = Dead
    \/ \E p \in Port : o = Listener(p) /\ backlog[p] # <<>>

Exit == /\ status' = "exited"
        /\ UNCHANGED <<fds, dport, dfile, store, remote, fin, outq, disk, sigpipe>>

\* The scan is over and select() returns with something to read, or fails with
\* EBADF and the process exits.
Select ==
    /\ status = "running" /\ Due = {}
    /\ UNCHANGED <<bufs, inq>>
    /\ IF \A fd \in master : fd < fdmax => fdt[fd] # Free
       THEN /\ read_fds' = {fd \in master : fd < fdmax /\ Readable(fd)}
            /\ read_fds' # {}
            /\ pos' = <<0, 0>>
            /\ UNCHANGED <<fds, dport, dfile, store, remote, written, fin>>
       ELSE Exit /\ UNCHANGED scan

-----------------------------------------------------------------------------
(* The calls a branch makes. *)

\* read(): the next message, the end of the stream, or an error that leaves
\* "buf" as it was, uninitialised or with an earlier message in it.  No
\* element when the call blocks.
Fetched(fd, last) ==
    LET o == fdt[fd] IN
    IF ~IsConn(o) THEN [got : {"error"}, m : {Junk, last}, q : {inq}]
    ELSE IF inq[o] # <<>>
         THEN {[got |-> "message", m |-> Head(inq[o]),
                q |-> [inq EXCEPT ![o] = Tail(@)]]}
         ELSE IF o \in fin THEN [got : {"eof"}, m : {Junk}, q : {inq}] ELSE {}

\* write() of the messages ms, one call each, on descriptor fd of table ft.
\* w collects what a branch has written so far.
Unwritten == [q |-> outq, d |-> disk, hit |-> {}]
Put(w, ft, fd, ms) ==
    LET o == ft[fd] IN
    [q   |-> IF IsConn(o) /\ o \notin fin
             THEN [w.q EXCEPT ![o] = @ \o ms] ELSE w.q,
     d   |-> IF o.k = "file" THEN [w.d EXCEPT ![o.n] = @ \o ms] ELSE w.d,
     hit |-> IF o \in fin \cup {Dead} /\ ms # <<>>
             THEN w.hit \cup {o} ELSE w.hit]

\* A write to a connection its peer has closed is answered by a RST, and the
\* next write to it kills the process: SIGPIPE is not ignored.
Written(w) ==
    /\ outq' = w.q /\ disk' = w.d
    /\ sigpipe' = sigpipe \cup w.hit
    /\ status' = IF w.hit \cap sigpipe # {} THEN "exited" ELSE status

\* Mutant of CloseAll: close() without FD_CLR.
CloseAll_Selected(S, M) ==
    /\ fdt' = Closed(fdt, S)
    /\ backlog' = Dropped(backlog, fdt, S)
    /\ UNCHANGED <<master, sock>>

\* close() of the descriptors S and FD_CLR of M.
CloseAll(S, M) ==
    /\ fdt' = Closed(fdt, S)
    /\ backlog' = Dropped(backlog, fdt, S)
    /\ master' = master \ M
    /\ UNCHANGED sock

\* Mutant of proxy_rw: "if" for "while", one block only.
proxy_rw_If(f) == SubSeq(disk[f], 1, 1)

\* proxy_rw(): what it writes to the socket, the blocks of the file.
proxy_rw(f) == disk[f]

\* connectTo(): what its socket refers to, and the port it takes up.  The
\* socket is returned whether or not connect() succeeded.
Connected(host, p) ==
    IF p \in lsn[host]
    THEN [k |-> IF host = "client" THEN "cd" ELSE "sd", n |-> p]
    ELSE Dead
Dial(host, p) == /\ est' = IF p \in lsn[host]
                          THEN est \cup {Connected(host, p)} ELSE est
                 /\ lsn' = [lsn EXCEPT ![host] = @ \ {p}]

\* Mutant of isFileExist: the file is also compared with the last one asked for.
isFileExist_Last(ft, f) == f \in DOMAIN disk /\ Lowest(ft) # NoFd /\ f = file

\* isFileExist() opens the file, so it also answers no at the open-file limit.
isFileExist(ft, f)  == f \in DOMAIN disk /\ Lowest(ft) # NoFd

\* Mutants of isCacheExist: the test for an existing file is inverted, or only
\* the extension is looked at.
isCacheExist_Inverted(ft) == /\ proxy_file_mode = "RETR" /\ isFileExist(ft, file)
                             /\ file \in Cacheable
isCacheExist_ByName(ft)   == file \in Cacheable

\* "This transfer is to be cached": what isCacheExist() really answers.
isCacheExist(ft)    == /\ proxy_file_mode = "RETR"
                       /\ ~isFileExist(ft, file)
                       /\ file \in Cacheable

-----------------------------------------------------------------------------
(* if (i == proxy_cmd_socket): a client connects; it replaces the one being *)
(* served.  The server's port 21 always listens.                            *)

\* The two control connections of the client being served.
ControlPair == {sock.accept_cmd, sock.connect_cmd}

AcceptClient ==
    /\ Turn("proxy_cmd") /\ pos' = At("proxy_cmd")
    /\ \A p \in Port : fdt[sock.proxy_cmd] = Listener(p) => backlog[p] # <<>>
    /\ LET old == ControlPair \cap master
           ft  == Closed(fdt, old)
           new == Head(backlog[CmdPort])
           srv == [k |-> "sc", n |-> new.n]
           s   == Lowest(ft)
           c   == Lowest(Opened(ft, srv))
       IN  IF fdt[sock.proxy_cmd] = Listener(CmdPort) /\ c # NoFd
           THEN /\ fdt' = [ft EXCEPT ![s] = srv, ![c] = new]
                /\ sock' = [sock EXCEPT !.connect_cmd = s, !.accept_cmd = c]
                /\ master' = (master \ old) \cup {s, c}
                /\ backlog' = [Dropped(backlog, fdt, old)
                                   EXCEPT ![CmdPort] = Tail(@)]
                /\ est' = est \cup {srv}
                /\ UNCHANGED <<lsn, dport, dfile, store, written, fin>>
           ELSE Exit
    /\ UNCHANGED <<bufs, inq>>

-----------------------------------------------------------------------------
(* if (i == accept_cmd_socket): a command of the client.  x is the result of *)
(* the read.                                                                 *)

\* Mutant of OldListener: the last listener is left open.
OldListener_None == {}

\* The listener of the last data connection, if there is one.
OldListener == {sock.proxy_data} \cap master

\* Open the listener of the next data connection in place of the last one.
\* bind() fails, and the process exits, if the port is in use: SO_REUSEADDR is
\* not set, so a connection accepted on the port is enough.
DataListener(p, mode, role, m) ==
    LET old == OldListener
        ft  == Closed(fdt, old)
        new == Lowest(ft)
        ft1 == Opened(ft, Listener(p))
        inUse == {Listener(p), [k |-> IF mode = "PASV" THEN "cd" ELSE "sd", n |-> p]}
        rewritten == [m EXCEPT !.at = "proxy"]
    IN  IF new # NoFd /\ \A fd \in Fd : ft[fd] \notin inUse
        THEN /\ fdt' = ft1
             /\ backlog' = Dropped(backlog, fdt, old)
             /\ master' = (master \ old) \cup {new}
             /\ sock' = [sock EXCEPT !.proxy_data = new]
             /\ proxy_data_mode' = mode /\ proxy_data_port' = p
             /\ Written(Put(Unwritten, ft1, sock[role], <<rewritten>>))
             /\ UNCHANGED <<dfile, store, remote, fin>>
        ELSE Exit

\* The rewritten or untouched line goes on; after a failed read bytes_read is
\* -1 and write() fails.
PassOn(x, role) ==
    Written(IF x.got = "message" THEN Put(Unwritten, fdt, sock[role], <<x.m>>)
            ELSE Unwritten)

\* Mutant of ClientGone: one *_cmd_socket taken for another.
ClientGone_Proxy(x) ==
    /\ x.got = "eof"
    /\ CloseAll({sock.accept_cmd, sock.proxy_cmd}, ControlPair)
    /\ UNCHANGED <<dport, dfile, store, bufs, remote, written, fin>>

ClientGone(x) ==
    /\ x.got = "eof"
    /\ CloseAll(ControlPair, ControlPair)
    /\ UNCHANGED <<dport, dfile, store, bufs, remote, written, fin>>

PortCommand(x) ==
    /\ x.got # "eof" /\ x.m.t = "PORT"
    /\ cmdbuf' = [x.m EXCEPT !.at = "proxy"] /\ UNCHANGED repbuf
    /\ DataListener(x.m.n, "PORT", "connect_cmd", x.m)

\* RETR of a file the proxy has: in active mode it is sent from the cache at
\* once, in passive mode the data connection will ask for it.  Either way the
\* command is not forwarded.
RetrCached(x) ==
    /\ x.got # "eof" /\ x.m.t = "RETR" /\ isFileExist(fdt, x.m.f)
    /\ proxy_file_mode' = "RETR" /\ file' = x.m.f
    /\ cmdbuf' = x.m /\ UNCHANGED <<repbuf, dport, store, fin, master, backlog>>
    /\ LET d   == Lowest(fdt)
           ft  == Opened(fdt, Connected("client", proxy_data_port))
           w1  == Put(Unwritten, fdt, sock.accept_cmd, <<Say("150")>>)
           w2  == Put(w1, ft, d, proxy_rw(x.m.f))
           w3  == Put(w2, ft, sock.accept_cmd, <<Say("226")>>)
       IN  IF proxy_data_mode = "PASV"
           THEN UNCHANGED <<fdt, sock, remote, written>>
           ELSE /\ Dial("client", proxy_data_port)
                /\ sock' = [sock EXCEPT !.connect_data = d]
                /\ fdt' = Closed(ft, {d})
                /\ IF Lowest(ft) # NoFd THEN Written(w3)
                   ELSE /\ status' = "exited"
                        /\ outq' = w1.q /\ UNCHANGED <<disk, sigpipe>>

\* The name that strtok() cut out, and with it a NUL for the CR, stays in the
\* buffer that is forwarded; servers are taken to read "RETR f" all the same.
RetrForwarded(x) ==
    /\ x.got # "eof" /\ x.m.t = "RETR" /\ ~isFileExist(fdt, x.m.f)
    /\ proxy_file_mode' = "RETR" /\ file' = x.m.f
    /\ cmdbuf' = x.m
    /\ PassOn(x, "connect_cmd")
    /\ UNCHANGED <<repbuf, fds, dport, store, remote, fin>>

OtherCommand(x) ==
    /\ x.got # "eof" /\ x.m.t \notin {"PORT", "RETR"}
    /\ proxy_file_mode' = IF x.m.t = "STOR" THEN "STOR" ELSE proxy_file_mode
    /\ cmdbuf' = x.m
    /\ PassOn(x, "connect_cmd")
    /\ UNCHANGED <<file, repbuf, fds, dport, store, remote, fin>>

Command ==
    /\ Turn("accept_cmd")
    /\ \E x \in Fetched(sock.accept_cmd, cmdbuf) :
         /\ inq' = x.q
         /\ pos' = IF x.got # "eof" /\ x.m.t = "RETR"
                       /\ isFileExist(fdt, x.m.f)
                   THEN <<sock.accept_cmd, 6>>            \* continue
                   ELSE At("accept_cmd")
         /\ \/ ClientGone(x)    \/ PortCommand(x) \/ RetrCached(x)
            \/ RetrForwarded(x) \/ OtherCommand(x)

-----------------------------------------------------------------------------
(* if (i == connect_cmd_socket): a reply of the server. *)

ServerGone(x) ==
    /\ x.got = "eof"
    /\ CloseAll(ControlPair, ControlPair)
    /\ UNCHANGED <<dport, dfile, store, bufs, remote, written, fin>>

PassiveReply(x) ==
    /\ x.got # "eof" /\ x.m.t = "227"
    /\ repbuf' = [x.m EXCEPT !.at = "proxy"] /\ UNCHANGED cmdbuf
    /\ DataListener(x.m.n, "PASV", "accept_cmd", x.m)

OtherReply(x) ==
    /\ x.got # "eof" /\ x.m.t # "227"
    /\ repbuf' = x.m /\ UNCHANGED cmdbuf
    /\ PassOn(x, "accept_cmd")
    /\ UNCHANGED <<fds, dport, dfile, store, remote, fin>>

Reply ==
    /\ Turn("connect_cmd") /\ pos' = At("connect_cmd")
    /\ \E x \in Fetched(sock.connect_cmd, repbuf) :
         /\ inq' = x.q
         /\ ServerGone(x) \/ PassiveReply(x) \/ OtherReply(x)

-----------------------------------------------------------------------------
(* if (i == proxy_data_socket): somebody opens a data connection. *)

\* Mutant of Room: the result of creat() is not checked.
Room_Unchecked(ft1, ft2, caching) == Lowest(ft1) # NoFd

\* Every call of a relaying branch gets its descriptor.
Room(ft1, ft2, caching) == /\ Lowest(ft1) # NoFd
                           /\ caching => Lowest(ft2) # NoFd

\* accept() on the listener and connectTo() the other side, in the order the
\* branch makes them (r1 is the socket variable it assigns first), then
\* isCacheExist() and creat().  A branch that asks isCacheExist() sets the flag
\* cache; the passive one for LIST and STOR does not, and leaves it as it was.
Relay(r1, r2, host, asks) ==
    LET p   == CHOOSE q \in Port : fdt[sock.proxy_data] = Listener(q)
        new == [accept_data  |-> Head(backlog[p]),
                connect_data |-> Connected(host, proxy_data_port)]
        ft1 == Opened(fdt, new[r1])
        ft2 == Opened(ft1, new[r2])
        caching == asks /\ isCacheExist(ft2)
    IN  IF Room(ft1, ft2, caching)
        THEN /\ sock' = [sock EXCEPT ![r1] = Lowest(fdt), ![r2] = Lowest(ft1)]
             /\ master' = master \cup {Lowest(fdt), Lowest(ft1)}
             /\ backlog' = [backlog EXCEPT ![p] = Tail(@)]
             /\ Dial(host, proxy_data_port)
             /\ fdt' = IF caching THEN Opened(ft2, CacheFile(file)) ELSE ft2
             /\ disk' = IF caching
                        THEN [f \in DOMAIN disk \cup {file} |->
                                 IF f = file THEN <<>> ELSE disk[f]]
                        ELSE disk
             /\ cache' = IF asks THEN caching ELSE cache
             /\ bytes_creat' = IF caching THEN Lowest(ft2) ELSE bytes_creat
             /\ UNCHANGED <<dport, dfile, status, outq, sigpipe, fin>>
        ELSE Exit

RelayActive ==
    /\ proxy_data_mode = "PORT"
    /\ Relay("accept_data", "connect_data", "client", TRUE)

RelayPassive ==
    /\ proxy_data_mode = "PASV" /\ proxy_file_mode # "RETR"
    /\ Relay("accept_data", "connect_data", "server", FALSE)

\* The file is in the cache: the client gets it with replies the proxy makes up.
ServeCached ==
    /\ proxy_data_mode = "PASV" /\ proxy_file_mode = "RETR"
    /\ isFileExist(fdt, file)
    /\ LET p  == CHOOSE q \in Port : fdt[sock.proxy_data] = Listener(q)
           a  == Lowest(fdt)
           ft == Opened(fdt, Head(backlog[p]))
           w1 == Put(Unwritten, ft, sock.accept_cmd, <<Say("150")>>)
           w2 == Put(w1, ft, a, proxy_rw(file))
           w3 == Put(w2, ft, sock.accept_cmd, <<Say("226")>>)
       IN  /\ sock' = [sock EXCEPT !.accept_data = a]
           /\ backlog' = [backlog EXCEPT ![p] = Tail(@)]
           /\ fdt' = Closed(ft, {a})
           /\ IF Lowest(ft) # NoFd THEN Written(w3)
              ELSE /\ status' = "exited"
                   /\ outq' = w1.q /\ UNCHANGED <<disk, sigpipe>>
           /\ UNCHANGED <<master, dport, dfile, store, remote, fin>>

RelayMiss ==
    /\ proxy_data_mode = "PASV" /\ proxy_file_mode = "RETR"
    /\ ~isFileExist(fdt, file)
    /\ Relay("connect_data", "accept_data", "server", TRUE)

DataConnection ==
    /\ Turn("proxy_data") /\ pos' = At("proxy_data")
    /\ UNCHANGED <<bufs, inq>>
    /\ IF \E p \in Port : fdt[sock.proxy_data] = Listener(p)
       THEN /\ \A p \in Port : fdt[sock.proxy_data] = Listener(p) => backlog[p] # <<>>
            /\ RelayActive \/ RelayPassive \/ ServeCached \/ RelayMiss
       ELSE Exit                            \* accept() fails

-----------------------------------------------------------------------------
(* if (i == accept_data_socket) and if (i == connect_data_socket): the same  *)
(* code with the roles exchanged.                                            *)

\* Mutant of DataEnd: the other side is not closed.
DataEnd_Leak(r, other, x) ==
    /\ x.got = "eof"
    /\ CloseAll({sock[r]} \cup IF cache THEN {bytes_creat} ELSE {},
                {sock[r], sock[other]})
    /\ UNCHANGED <<dport, dfile, store, bufs, remote, written, fin>>

DataEnd(r, other, x) ==
    /\ x.got = "eof"
    /\ CloseAll({sock[r], sock[other]} \cup IF cache THEN {bytes_creat} ELSE {},
                {sock[r], sock[other]})
    /\ UNCHANGED <<dport, dfile, store, bufs, remote, written, fin>>

\* Mutants of Copied: the cache instead of the other side, or only uploads
\* and active downloads into the cache.
Copied_Else(other, m) ==
    Put(Unwritten, fdt, IF cache THEN bytes_creat ELSE sock[other], <<m>>)
Copied_OneWay(other, m) ==
    Put(IF cache /\ other = "connect_data"
        THEN Put(Unwritten, fdt, bytes_creat, <<m>>) ELSE Unwritten,
        fdt, sock[other], <<m>>)

\* A block goes to the cache, if the flag is set, and to the other side.
Copied(other, m) ==
    Put(IF cache THEN Put(Unwritten, fdt, bytes_creat, <<m>>) ELSE Unwritten,
        fdt, sock[other], <<m>>)

DataBlock(r, other, x) ==
    /\ x.got # "eof"
    /\ Written(IF x.got = "message" THEN Copied(other, x.m) ELSE Unwritten)
    /\ UNCHANGED <<fds, dport, dfile, store, bufs, remote, fin>>

Transfer(r, other) ==
    /\ Turn(r) /\ pos' = At(r)
    /\ \E x \in Fetched(sock[r], Junk) :
         /\ inq' = x.q
         /\ DataEnd(r, other, x) \/ DataBlock(r, other, x)

-----------------------------------------------------------------------------
ProxyNext ==
    \/ Select
    \/ AcceptClient
    \/ Command
    \/ Reply
    \/ DataConnection
    \/ Transfer("accept_data", "connect_data")
    \/ Transfer("connect_data", "accept_data")

=============================================================================
