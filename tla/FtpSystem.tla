----------------------------- MODULE FtpSystem -----------------------------
(***************************************************************************)
(* The proxy between its clients and its server, and what the three        *)
(* together must guarantee.                                                *)
(***************************************************************************)
EXTENDS FtpPeers

vars == <<proxyVars, peers>>

SysInit == Init /\ PeersInit

CliStep(s) ==
    \/ CliConnect(s) \/ CliGreeted(s) \/ CliReady(s) \/ CliCommand(s)
    \/ CliDial(s) \/ CliReply(s) \/ CliDone(s) \/ CliQuit(s) \/ CliClose(s)
    \/ CliAbort(s)
    \/ \E mode \in Mode : \E m \in Want : CliStart(s, mode, m)
CliData(n) == CliGet(n) \/ CliPut(n) \/ CliPutEnd(n)
SrvStep(s) ==
    \/ SrvGreet(s) \/ SrvSetup(s) \/ SrvCommand(s) \/ SrvOpen(s) \/ SrvSend(s)
    \/ SrvRecv(s) \/ SrvEnd(s, "226") \/ SrvEnd(s, "426") \/ SrvQuit(s)
    \/ SrvHangup(s)

Next == \/ Select         /\ UNCHANGED peers
        \/ AcceptClient   /\ UNCHANGED peers
        \/ Command        /\ UNCHANGED peers
        \/ Reply          /\ UNCHANGED peers
        \/ DataConnection /\ UNCHANGED peers
        \/ Transfer("accept_data", "connect_data") /\ UNCHANGED peers
        \/ Transfer("connect_data", "accept_data") /\ UNCHANGED peers
        \/ \E s \in Session : CliStep(s) \/ SrvStep(s)
        \/ \E n \in Op : CliData(n)

Spec == SysInit /\ [][Next]_vars

(***************************************************************************)
(* Fairness.  The proxy is a thread the scheduler runs whenever a call it  *)
(* is in can return.  Clients and server answer what they are sent; a      *)
(* client need not connect, start another transfer, quit or abort, but it  *)
(* notices that its connection was closed.                                 *)
(***************************************************************************)
CliDuty(s) == CliGreeted(s) \/ CliReady(s) \/ CliCommand(s) \/ CliDial(s)
              \/ CliReply(s) \/ CliDone(s) \/ CliClose(s)
Fairness ==
    /\ WF_vars(ProxyNext /\ UNCHANGED peers)
    /\ \A s \in Session : WF_vars(CliDuty(s)) /\ WF_vars(SrvStep(s))
    /\ \A n \in Op : WF_vars(CliData(n))
FairSpec == Spec /\ Fairness

-----------------------------------------------------------------------------
(***************************************************************************)
(* Types.                                                                  *)
(***************************************************************************)
FilesOK(d) == DOMAIN d \subseteq File /\ \A f \in DOMAIN d : d[f] \in Seq(Msg)

ProcessOK ==
    /\ status \in {"running", "exited"}
    /\ fdt \in [Fd -> Object]
    /\ master \subseteq Fd /\ read_fds \subseteq Fd
    /\ pos \in (0..NFd) \X (0..6)
    /\ sock \in [Role -> Fd]
    /\ proxy_data_mode \in {"PORT", "PASV"}
    /\ proxy_data_port \in Port
    /\ proxy_file_mode \in {"RETR", "STOR"}
    /\ file \in File \cup {NoName}
    /\ cache \in BOOLEAN /\ bytes_creat \in Fd
    /\ cmdbuf \in Msg /\ repbuf \in Msg
    /\ FilesOK(disk)

NetOK ==
    /\ inq \in [Conn -> Seq(Msg)] /\ outq \in [Conn -> Seq(Msg)]
    /\ est \subseteq Conn /\ fin \subseteq Conn
    /\ sigpipe \subseteq Conn \cup {Dead}
    /\ backlog \in [Port -> Seq(Conn)]
    /\ lsn \in [{"client", "server"} -> SUBSET Op]

CliState == [ph : {"off", "greet", "idle", "setup", "ready", "busy", "quit", "gone"},
             n : 0..NOp]
OpState  == [s : 0..NSession, mode : {"PORT", "PASV"}, m : Msg,
             reply : {"none", "ok", "failed"}, got : Seq(Msg), put : 0..NChunk]
SrvState == [ph : {"off", "idle", "open", "send", "recv", "gone"}, n : 0..NOp,
             mode : {"PORT", "PASV"}, m : Msg, k : Nat, got : Seq(Msg)]

PeersOK ==
    /\ client \in [Session -> CliState]
    /\ op \in [Op -> OpState]
    /\ nop \in 0..NOp
    /\ server \in [Session -> SrvState]
    /\ FilesOK(sdisk)
    /\ fetches \in [File -> Nat]

\* TypeOK: every variable has the type its C counterpart has, descriptors stay
\* in the table's range, no failed call leaves its -1 in a socket variable, and
\* messages are well formed.
TypeOK == ProcessOK /\ NetOK /\ PeersOK

-----------------------------------------------------------------------------
(***************************************************************************)
(* Safety.                                                                 *)
(***************************************************************************)
Whole(f, blocks) == \E v \in {0} \cup Op : blocks = Contents(f, v)
Finished(n, t)   == op[n].m.t = t /\ op[n].reply = "ok"
                    /\ (cd(n) \in fin \/ Ended(cd(n)))
CacheOpen(f)     == \E fd \in Fd : fdt[fd] = CacheFile(f)

\* DownloadWhole: a download that the client sees completed (226 and the end
\* of the data) delivered one whole version of the file asked for, in order,
\* whether ftp.c relayed it (lines 354-373) or sent it from the cache
\* (215-226, 301-311).
DownloadWhole == \A n \in Op : Finished(n, "RETR") => Whole(op[n].m.f, op[n].got)

\* UploadWhole: what an upload through the relay (lines 332-352) leaves on
\* the server is one whole version, never a mixture or a part.
UploadWhole == \A f \in DOMAIN sdisk : Whole(f, sdisk[f])

\* ListingFaithful: a completed LIST delivered the server's listing.
ListingFaithful ==
    \A n \in Op : Finished(n, "LIST") =>
        op[n].got = <<[t |-> "data", f |-> Listing, v |-> 0, k |-> 1]>>

\* CacheWhole: a file of the cache that is not being written holds one whole
\* version of the file of that name, so serving it is right (lines 215, 301).
CacheWhole ==
    status = "running" =>
        \A f \in DOMAIN disk : CacheOpen(f) \/ Whole(f, disk[f])

\* CacheFilled: a completed download of a cacheable file left it in the cache
\* (lines 283-291, 317-326).
CacheFilled ==
    \A n \in Op : Finished(n, "RETR") /\ op[n].m.f \in Cacheable =>
        op[n].m.f \in DOMAIN disk

\* FetchedOnce: the server is asked for a cacheable file at most once; after
\* that the cache answers (lines 215, 301).
FetchedOnce == \A f \in Cacheable : fetches[f] <= 1

\* ListenerAlive: whatever is closed, stale or aliased, the proxy's port-21
\* socket stays open, listening and selected (lines 139-140, 161).
ListenerAlive ==
    /\ fdt[sock.proxy_cmd] = Listener(CmdPort)
    /\ sock.proxy_cmd \in master

\* SelectSafe: while clients take turns, no closed descriptor stays in master,
\* where it would make select() fail with EBADF and the proxy exit (147-152).
SelectSafe == status = "running" => \A fd \in master : fdt[fd] # Free

\* RolesMatch: an open socket variable refers to a connection of its role, and
\* both control sockets to the same session: no handler acts on the
\* descriptor of another because a number was reused.
RolesMatch ==
    LET o(r) == fdt[sock[r]] IN
    status = "running" =>
        /\ sock.accept_cmd \in master => o("accept_cmd").k = "cc"
        /\ sock.connect_cmd \in master =>
              o("connect_cmd") \in {Dead, sc(o("accept_cmd").n)}
        /\ sock.accept_data \in master => o("accept_data").k \in {"cd", "sd"}
        /\ sock.connect_data \in master =>
              o("connect_data") \in {Dead, cd(o("accept_data").n),
                                      sd(o("accept_data").n)}

\* CacheHandle: while clients take turns and the flag "cache" is set for a data
\* connection, bytes_creat is the open cache file or, left over from an earlier
\* transfer (line 294 does not reset the flag), a closed descriptor: lines 347
\* and 369 never write into somebody else's descriptor.
CacheHandle ==
    status = "running" /\ cache /\ sock.accept_data \in master =>
        fdt[bytes_creat].k \in {"free", "file"}

\* CachePure: what is stored in the cache under a name was sent for the file of
\* that name (lines 342, 347, 369).
CachePure == \A f \in DOMAIN disk : \A i \in DOMAIN disk[f] : disk[f][i].f = f

\* InWindow: every descriptor the proxy waits for is below fdmax, the fixed
\* bound of select() and of the loop (lines 131, 147, 159).
InWindow == status = "running" => \A fd \in master : fd < fdmax

\* ProxySurvives: the proxy never exits.
ProxySurvives == status = "running"

\* NeverBlocks: a branch runs only when its read() or accept() can return at
\* once, so one silent peer cannot stop the others.
NeverBlocks ==
    \A r \in Due :
        /\ status = "running"
        /\ \A q \in Due \ {r} : Before(At(r), At(q))
        /\ IsConn(fdt[sock[r]]) \/ fdt[sock[r]].k = "lsn"
        => Readable(sock[r])

-----------------------------------------------------------------------------
(***************************************************************************)
(* Action properties and liveness.                                         *)
(***************************************************************************)

\* CacheStable: a file of the cache that is complete and closed never changes
\* again.
CacheStable ==
    [][\A f \in DOMAIN disk : ~CacheOpen(f) =>
            f \in DOMAIN disk' /\ disk'[f] = disk[f]]_vars

\* A LIST was answered with a cached file: its server waits for the data
\* connection and answers no more, not even QUIT (lines 294-313).
ListMisled ==
    \E n \in Op : op[n].m.t = "LIST" /\ \E i \in DOMAIN op[n].got : op[n].got[i].f # Listing

\* OpCompletes: unless a LIST was answered with a file, every PORT or PASV,
\* every transfer command and every QUIT is answered for good, or its session
\* ends: no reply is lost on the way back (lines 228-266) and the end of one
\* side of a data connection ends the other (lines 332-373), also after a
\* transfer that the cache answered.
Waits(s) == client[s].ph \in {"setup", "busy", "quit"}
OpCompletes == \A s \in Session : Waits(s) ~> ~Waits(s) \/ ListMisled

\* Served: a client that connects is greeted or closed, as long as it stays.
Served == \A s \in Session : client[s].ph = "greet" ~> client[s].ph # "greet"

=============================================================================
