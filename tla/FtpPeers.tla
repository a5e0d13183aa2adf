------------------------------ MODULE FtpPeers ------------------------------
(***************************************************************************)
(* What stands on both sides of the proxy: FTP clients and the FTP server. *)
(* Neither is in the repository; this is the protocol ftp.c counts on      *)
(* (RFC 959, one command at a time), with the liberties that constant      *)
(* Liberty grants.  Logging in and the commands that move no data are left *)
(* out: the proxy forwards them like LIST and its replies.  One of them,   *)
(* CWD, changes which file a name means, and the proxy does not follow it: *)
(* it looks in its cache for the name alone.  Here no client changes its   *)
(* directory.                                                              *)
(***************************************************************************)
EXTENDS FtpProxy

CONSTANTS
    Mode,      \* how clients ask for data connections: "PORT", "PASV"
    Want,      \* what clients ask for: commands LIST, RETR f and STOR f
    OnServer,  \* the files the server has at the start
    Liberty    \* what else the clients may do, a set of:
               \*   "early": connect for data before sending the command
               \*   "hasty": connect while the proxy serves another client
               \*   "abort": close everything at any moment

ASSUME PeersAssumption ==
    /\ Mode \subseteq {"PORT", "PASV"}
    /\ Want \subseteq Named \cup {Say("LIST")}
    /\ OnServer \subseteq File
    /\ Liberty \subseteq {"early", "hasty", "abort"}

VARIABLES
    client,   \* per session: where the client stands, and its transfer n
    op,       \* per transfer: what was asked and what came of it
    nop,      \* transfers started
    server,   \* per session: where the server stands
    sdisk,    \* the server's files
    fetches   \* per file: how often the server was made to send it

peers == <<client, op, nop, server, sdisk, fetches>>

cc(s) == [k |-> "cc", n |-> s]
sc(s) == [k |-> "sc", n |-> s]
cd(n) == [k |-> "cd", n |-> n]
sd(n) == [k |-> "sd", n |-> n]

PeersInit ==
    /\ client = [s \in Session |-> [ph |-> "off", n |-> 0]]
    /\ op = [n \in Op |-> [s |-> 0, mode |-> "PORT", m |-> Junk,
                           reply |-> "none", got |-> <<>>, put |-> 0]]
    /\ nop = 0
    /\ server = [s \in Session |-> [ph |-> "off", n |-> 0, mode |-> "PORT",
                                    m |-> Junk, k |-> 0, got |-> <<>>]]
    /\ sdisk = [f \in OnServer |-> Contents(f, 0)]
    /\ fetches = [f \in File |-> 0]

\* The proxy's side of c is open; once it is not, the peer reads end of file.
Held(c) == /\ status = "running"
           /\ \/ \E fd \in Fd : fdt[fd] = c
              \/ \E p \in Port : \E i \in DOMAIN backlog[p] : backlog[p][i] = c
Ended(c)    == c \in est /\ ~Held(c) /\ outq[c] = <<>>
Listens(p)  == status = "running" /\ \E fd \in Fd : fdt[fd] = Listener(p)
Connect(c, p) == /\ Listens(p)
                 /\ est' = est \cup {c}
                 /\ backlog' = [backlog EXCEPT ![p] = Append(@, c)]

Tell(c, m) == inq' = [inq EXCEPT ![c] = Append(@, m)]
Hear(c)    == outq' = [outq EXCEPT ![c] = Tail(@)]

\* What the proxy owns and peers never touch.
proxyOwn == <<status, fdt, master, scan, sock, dport, dfile, store, bufs, disk,
              sigpipe>>

-----------------------------------------------------------------------------
(* The client of session s. *)

\* Unless clients are hasty, the next one connects when the proxy has no
\* client and no connection of an earlier one.
CliConnect(s) ==
    /\ client[s].ph = "off" /\ \A q \in Session : q < s => client[q].ph # "off"
    /\ "hasty" \notin Liberty =>
          \A q \in Session : q < s => ~Held(cc(q)) /\ ~Held(sc(q))
    /\ Connect(cc(s), CmdPort)
    /\ client' = [client EXCEPT ![s].ph = "greet"]
    /\ UNCHANGED <<proxyOwn, inq, outq, fin, lsn, op, nop, server, sdisk, fetches>>

\* A reply on the control connection.
CliHear(s, t) == /\ outq[cc(s)] # <<>> /\ Head(outq[cc(s)]).t \in t
                 /\ Hear(cc(s))

CliGreeted(s) ==
    /\ client[s].ph = "greet" /\ CliHear(s, {"220"})
    /\ client' = [client EXCEPT ![s].ph = "idle"]
    /\ UNCHANGED <<proxyOwn, inq, fin, backlog, remote, op, nop, server, sdisk,
                   fetches>>

\* Start transfer n with PORT or PASV.
CliStart(s, mode, m) ==
    LET n == nop + 1 IN
    /\ client[s].ph = "idle" /\ nop < NOp
    /\ nop' = n
    /\ client' = [client EXCEPT ![s] = [ph |-> "setup", n |-> n]]
    /\ op' = [op EXCEPT ![n].s = s, ![n].mode = mode, ![n].m = m]
    /\ Tell(cc(s), [t |-> mode, n |-> n, at |-> "client"])
    /\ lsn' = IF mode = "PORT" THEN [lsn EXCEPT !.client = @ \cup {n}] ELSE lsn
    /\ UNCHANGED <<proxyOwn, outq, fin, backlog, est, server, sdisk, fetches>>

CliReady(s) ==
    /\ client[s].ph = "setup" /\ CliHear(s, {"200", "227"})
    /\ client' = [client EXCEPT ![s].ph = "ready"]
    /\ UNCHANGED <<proxyOwn, inq, fin, backlog, remote, op, nop, server, sdisk,
                   fetches>>

CliCommand(s) ==
    /\ client[s].ph = "ready"
    /\ Tell(cc(s), op[client[s].n].m)
    /\ client' = [client EXCEPT ![s].ph = "busy"]
    /\ UNCHANGED <<proxyOwn, outq, fin, backlog, remote, op, nop, server, sdisk,
                   fetches>>

\* Open the data connection of a passive transfer.
CliDial(s) ==
    LET n == client[s].n IN
    /\ client[s].ph \in {"busy"} \cup IF "early" \in Liberty THEN {"ready"} ELSE {}
    /\ n \in Op /\ op[n].mode = "PASV" /\ op[n].reply = "none" /\ cd(n) \notin est
    /\ Connect(cd(n), n)
    /\ UNCHANGED <<proxyOwn, inq, outq, fin, lsn, peers>>

\* A final reply to the command; 150 says only that the transfer starts.
CliReply(s) ==
    LET n == client[s].n IN
    /\ client[s].ph = "busy" /\ CliHear(s, {"150", "226", "426", "550"})
    /\ op' = [op EXCEPT ![n].reply =
                 CASE Head(outq[cc(s)]).t = "226" -> "ok"
                   [] Head(outq[cc(s)]).t = "150" -> @
                   [] OTHER -> "failed"]
    /\ UNCHANGED <<proxyOwn, inq, fin, backlog, remote, client, nop, server,
                   sdisk, fetches>>

\* Download a block, upload a block, or end an upload.
CliGet(n) ==
    /\ outq[cd(n)] # <<>> /\ cd(n) \notin fin
    /\ op' = [op EXCEPT ![n].got = Append(@, Head(outq[cd(n)]))]
    /\ Hear(cd(n))
    /\ UNCHANGED <<proxyOwn, inq, fin, backlog, remote, client, nop, server,
                   sdisk, fetches>>

CliPut(n) ==
    /\ op[n].m.t = "STOR" /\ cd(n) \in est \ fin /\ op[n].put < NChunk
    /\ Tell(cd(n), Contents(op[n].m.f, n)[op[n].put + 1])
    /\ op' = [op EXCEPT ![n].put = @ + 1]
    /\ UNCHANGED <<proxyOwn, outq, fin, backlog, remote, client, nop, server,
                   sdisk, fetches>>

CliPutEnd(n) ==
    /\ op[n].m.t = "STOR" /\ cd(n) \in est \ fin /\ op[n].put = NChunk
    /\ fin' = fin \cup {cd(n)}
    /\ UNCHANGED <<proxyOwn, inq, outq, backlog, remote, peers>>

\* A transfer is over when its final reply and the end of its data are in.
CliDone(s) ==
    LET n == client[s].n IN
    /\ client[s].ph = "busy"
    /\ \/ op[n].reply = "failed"
       \/ op[n].reply = "ok" /\ (cd(n) \in fin \/ Ended(cd(n)))
    /\ client' = [client EXCEPT ![s].ph = "idle"]
    /\ fin' = fin \cup (est \cap {cd(n)})
    /\ lsn' = [lsn EXCEPT !.client = @ \ {n}]
    /\ UNCHANGED <<proxyOwn, inq, outq, backlog, est, op, nop, server, sdisk,
                   fetches>>

CliQuit(s) ==
    /\ client[s].ph = "idle"
    /\ Tell(cc(s), Say("QUIT"))
    /\ client' = [client EXCEPT ![s].ph = "quit"]
    /\ UNCHANGED <<proxyOwn, outq, fin, backlog, remote, op, nop, server, sdisk,
                   fetches>>

\* Close everything: after the reply to QUIT or the end of the control
\* connection, or at any moment if clients may abort.
Leave(s) ==
    LET n == client[s].n IN
    /\ client[s].ph \notin {"off", "gone"}
    /\ client' = [client EXCEPT ![s].ph = "gone"]
    /\ fin' = fin \cup {cc(s)} \cup IF n = 0 THEN {} ELSE est \cap {cd(n)}
    /\ lsn' = [lsn EXCEPT !.client = @ \ {n}]
    /\ UNCHANGED <<proxyOwn, inq, outq, backlog, est, op, nop, server, sdisk,
                   fetches>>

CliClose(s) == /\ Leave(s)
               /\ (client[s].ph = "quit" /\ outq[cc(s)] # <<>>) \/ Ended(cc(s))
CliAbort(s) == Leave(s) /\ "abort" \in Liberty

-----------------------------------------------------------------------------
(* The server's side of session s. *)

SrvGreet(s) ==
    /\ server[s].ph = "off" /\ sc(s) \in est
    /\ server' = [server EXCEPT ![s].ph = "idle"]
    /\ Tell(sc(s), Say("220"))
    /\ UNCHANGED <<proxyOwn, outq, fin, backlog, remote, client, op, nop, sdisk,
                   fetches>>

\* The next command; it is answered with reply and leaves the session at st.
SrvHear(s, t, reply, st) ==
    /\ server[s].ph = "idle"
    /\ outq[sc(s)] # <<>> /\ Head(outq[sc(s)]).t = t
    /\ Hear(sc(s))
    /\ IF reply = <<>> THEN UNCHANGED inq ELSE Tell(sc(s), Head(reply))
    /\ server' = [server EXCEPT ![s] = st]

SrvSetup(s) ==
    LET m == Head(outq[sc(s)]) IN
    /\ \/ /\ SrvHear(s, "PASV", <<[t |-> "227", n |-> m.n, at |-> "server"]>>,
                      [server[s] EXCEPT !.mode = "PASV", !.n = m.n])
          /\ lsn' = [lsn EXCEPT !.server = (@ \ (Op \cap {server[s].n})) \cup {m.n}]
       \/ /\ SrvHear(s, "PORT", <<Say("200")>>,
                      [server[s] EXCEPT !.mode = "PORT", !.n = m.n])
          /\ UNCHANGED lsn
    /\ UNCHANGED <<proxyOwn, fin, backlog, est, client, op, nop, sdisk, fetches>>

SrvCommand(s) ==
    LET m == Head(outq[sc(s)])
        opening == [server[s] EXCEPT !.ph = "open", !.m = m, !.k = 0, !.got = <<>>]
    IN
    /\ \/ SrvHear(s, "LIST", <<>>, opening)
       \/ SrvHear(s, "STOR", <<>>, opening)
       \/ SrvHear(s, "RETR", <<>>, opening) /\ m.f \in DOMAIN sdisk
       \/ SrvHear(s, "RETR", <<Say("550")>>, server[s]) /\ m.f \notin DOMAIN sdisk
    /\ UNCHANGED <<proxyOwn, fin, backlog, remote, client, op, nop, sdisk, fetches>>

\* The data connection: the server connects, or waits for the proxy to.
SrvOpen(s) ==
    LET v == server[s] IN
    /\ v.ph = "open" /\ v.n \in Op
    /\ IF v.mode = "PORT" THEN Connect(sd(v.n), v.n)
       ELSE sd(v.n) \in est /\ UNCHANGED <<est, backlog>>
    /\ Tell(sc(s), Say("150"))
    /\ server' = [server EXCEPT ![s].ph = IF v.m.t = "STOR" THEN "recv" ELSE "send"]
    /\ fetches' = IF v.m.t = "RETR" THEN [fetches EXCEPT ![v.m.f] = @ + 1] ELSE fetches
    /\ UNCHANGED <<proxyOwn, outq, fin, lsn, client, op, nop, sdisk>>

Sending(v) == IF v.m.t = "RETR" THEN sdisk[v.m.f]
              ELSE <<[t |-> "data", f |-> Listing, v |-> 0, k |-> 1]>>

SrvSend(s) ==
    LET v == server[s] IN
    /\ v.ph = "send" /\ v.k < Len(Sending(v)) /\ Held(sd(v.n))
    /\ Tell(sd(v.n), Sending(v)[v.k + 1])
    /\ server' = [server EXCEPT ![s].k = @ + 1]
    /\ UNCHANGED <<proxyOwn, outq, fin, backlog, remote, client, op, nop, sdisk,
                   fetches>>

SrvRecv(s) ==
    LET v == server[s] IN
    /\ v.ph = "recv" /\ outq[sd(v.n)] # <<>>
    /\ Hear(sd(v.n))
    /\ server' = [server EXCEPT ![s].got = Append(@, Head(outq[sd(v.n)]))]
    /\ UNCHANGED <<proxyOwn, inq, fin, backlog, remote, client, op, nop, sdisk,
                   fetches>>

\* The transfer is over: all is sent or received, or (426) the proxy closed
\* the connection too early, or (425, also 426 here) it does not accept one.
SrvEnd(s, reply) ==
    LET v == server[s] IN
    /\ \/ /\ reply = "226" /\ v.ph = "send" /\ v.k = Len(Sending(v))
          /\ UNCHANGED sdisk
       \/ /\ reply = "226" /\ v.ph = "recv" /\ Ended(sd(v.n))
          /\ sdisk' = [f \in DOMAIN sdisk \cup {v.m.f} |->
                          IF f = v.m.f THEN v.got ELSE sdisk[f]]
       \/ /\ reply = "426" /\ UNCHANGED sdisk
          /\ \/ v.ph = "send" /\ v.k < Len(Sending(v)) /\ ~Held(sd(v.n))
             \/ v.ph = "open" /\ v.mode = "PORT" /\ ~Listens(v.n)
    /\ Tell(sc(s), Say(reply))
    /\ fin' = fin \cup (est \cap {sd(v.n)})
    /\ server' = [server EXCEPT ![s].ph = "idle"]
    /\ UNCHANGED <<proxyOwn, outq, backlog, remote, client, op, nop, fetches>>

\* QUIT is answered and the connection closed; it is also closed, with the
\* data connection, when the proxy closes it.
SrvQuit(s) ==
    /\ SrvHear(s, "QUIT", <<Say("221")>>, [server[s] EXCEPT !.ph = "gone"])
    /\ fin' = fin \cup {sc(s)}
    /\ UNCHANGED <<proxyOwn, backlog, remote, client, op, nop, sdisk, fetches>>

SrvHangup(s) ==
    LET v == server[s] IN
    /\ v.ph \notin {"off", "gone"} /\ ~Held(sc(s))
    /\ v.ph = "idle" => outq[sc(s)] = <<>>
    /\ server' = [server EXCEPT ![s].ph = "gone"]
    /\ fin' = fin \cup {sc(s)} \cup IF v.n = 0 THEN {} ELSE est \cap {sd(v.n)}
    /\ lsn' = [lsn EXCEPT !.server = @ \ (Op \cap {v.n})]
    /\ UNCHANGED <<proxyOwn, inq, outq, backlog, est, client, op, nop, sdisk,
                   fetches>>

=============================================================================
