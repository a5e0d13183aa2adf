----------------------------- MODULE LineServer -----------------------------
(***************************************************************************)
(* The iterative file server lab6/srv.c and its client lab6/cli.c, from    *)
(* accept() and send() on.                                                 *)
(*                                                                         *)
(* The server sends each line as a block: the whole of readf, MAXLINE      *)
(* bytes, with the line, its NUL, and what longer lines have left behind   *)
(* it.  The client stores the string that each of its reads, of at most    *)
(* MAXLINE - 1 bytes, leaves at the start of recvline.  A byte is known by *)
(* the file, the line and the place in the line it comes from.             *)
(*                                                                         *)
(* Left out: files that contain NULs, full socket buffers, and the time a  *)
(* RST needs.  A line is what one fgets() returns, so a longer line of the *)
(* file counts as several.                                                 *)
(***************************************************************************)
EXTENDS Naturals, Sequences, FiniteSets

CONSTANTS
    Client,    \* clients
    File,      \* the server's files
    Lines,     \* the length of each line of each
    Name,      \* names a user may give, with those of the files
    First8,    \* the first eight characters of a name, a name again
    MAXLINE,   \* 4096: the size of both buffers
    SrvFd,     \* connections the server can have open
    CliFd      \* streams a client can have open

ASSUME LineServerAssumption ==
    /\ File \subseteq Name /\ First8 \in [Name -> Name]
    /\ MAXLINE \in Nat /\ MAXLINE > 2
    /\ Lines \in [File -> Seq(1 .. MAXLINE - 1)]
    /\ SrvFd \in Nat /\ CliFd \in Nat

Char(f, k, i) == [f |-> f, k |-> k, i |-> i]
Nul           == Char("nul", 0, 0)
NoSuchFile    == "tcpsrv: No such file"
Message       == <<Char(NoSuchFile, 0, 1), Char(NoSuchFile, 0, 2)>>   \* without a NUL

\* The string at the start of a buffer.
StrLen(s) == CHOOSE n \in 0 .. MAXLINE - 1 : s[n + 1] = Nul /\ \A i \in 1 .. n : s[i] # Nul
String(s) == SubSeq(s, 1, StrLen(s))

VARIABLES
    srv,       \* the server: the call it is in, acceptfd, the file, the line
    readf,     \* its buffer, which nothing ever clears
    open,      \* the connections that it has accepted
    queue,     \* connections waiting for accept()
    cli,       \* per client: the call it is in
    want,      \* per client: the name its user gave
    recvline,  \* per client: its buffer
    streams,   \* per client: how many streams it has opened
    text,      \* per client: what it has given to fputs(), each string in the
               \* buffer of a stream of its own that nothing closes
    disk,      \* per client: what of it is in the file
    toSrv, toCli,   \* per client: what is under way
    reset,     \* connections that a RST has ended
    behind     \* history: clients one of whose reads found more than a block,
               \* or took less than it could

srvVars == <<srv, open, queue>>
cliVars == <<want, recvline, streams, text, disk>>
vars    == <<srvVars, readf, cli, cliVars, toSrv, toCli, reset, behind>>

Init ==
    /\ srv \in [pc : {"accept"}, c : Client, f : {Nul.f}, k : {0}]
    /\ readf = [i \in 1 .. MAXLINE |-> Nul]
    /\ open = {} /\ queue = <<>>
    /\ cli = [c \in Client |-> "off"]
    /\ want \in [Client -> Name]
    /\ recvline = [c \in Client |-> [i \in 1 .. MAXLINE |-> Nul]]
    /\ streams = [c \in Client |-> 0]
    /\ text = [c \in Client |-> <<>>] /\ disk = [c \in Client |-> <<>>]
    /\ toSrv = [c \in Client |-> <<>>] /\ toCli = [c \in Client |-> <<>>]
    /\ reset = {} /\ behind = {}

Alive == srv.pc # "exited"

-----------------------------------------------------------------------------
(* The client. *)

Connect(c) ==
    /\ cli[c] = "off"
    /\ IF Alive THEN cli' = [cli EXCEPT ![c] = "send"] /\ queue' = Append(queue, c)
       ELSE cli' = [cli EXCEPT ![c] = "gone"] /\ UNCHANGED queue
    /\ UNCHANGED <<srv, readf, open, cliVars, toSrv, toCli, reset, behind>>

\* send(sockfd, dir, sizeof dir, 0): the size of a pointer, eight bytes.
Send(c) ==
    /\ cli[c] = "send"
    /\ IF c \in reset THEN cli' = [cli EXCEPT ![c] = "gone"] /\ UNCHANGED <<toSrv, reset>>
       ELSE /\ cli' = [cli EXCEPT ![c] = "recv"]
            /\ IF Alive THEN toSrv' = [toSrv EXCEPT ![c] = <<First8[want[c]]>>]
                             /\ UNCHANGED reset
               ELSE reset' = reset \cup {c} /\ UNCHANGED toSrv
    /\ UNCHANGED <<srvVars, readf, cliVars, toCli, behind>>

\* deal_recv(): every string in a new stream; there is no fclose().  When
\* fopen() returns NULL, fputs() crashes, and what is in the buffers of the
\* streams is lost.
deal_recv(c) ==
    IF streams[c] < CliFd
    THEN /\ streams' = [streams EXCEPT ![c] = @ + 1]
         /\ text' = [text EXCEPT ![c] = @ \o String(recvline'[c])]
         /\ UNCHANGED cli
    ELSE cli' = [cli EXCEPT ![c] = "gone"] /\ UNCHANGED <<streams, text>>

\* A read takes any number of the bytes that are there, and leaves the rest of
\* recvline as it was.  Its last byte is never written.
Recv(c) ==
    /\ cli[c] = "recv" /\ toCli[c] # <<>>
    /\ \E n \in 1 .. MAXLINE - 1 :
          /\ n <= Len(toCli[c])
          /\ recvline' = [recvline EXCEPT ![c] =
                             [i \in 1 .. MAXLINE |-> IF i <= n THEN toCli[c][i] ELSE @[i]]]
          /\ toCli' = [toCli EXCEPT ![c] = SubSeq(@, n + 1, Len(@))]
          /\ behind' = behind \cup IF /\ Len(toCli[c]) <= MAXLINE
                                      /\ n \in {Len(toCli[c]), MAXLINE - 1}
                                   THEN {} ELSE {c}
    /\ deal_recv(c)
    /\ UNCHANGED <<srvVars, readf, want, disk, toSrv, reset>>

\* recv() returns 0, which is not tested: the string is stored once more.
RecvEnd(c) ==
    /\ cli[c] = "recv" /\ toCli[c] = <<>> /\ ~Alive /\ c \notin reset
    /\ UNCHANGED <<srvVars, readf, want, recvline, disk, toSrv, toCli, reset, behind>>
    /\ deal_recv(c)

\* recv() returns -1: exit() writes the buffers out.
RecvError(c) ==
    /\ cli[c] = "recv" /\ toCli[c] = <<>> /\ c \in reset
    /\ cli' = [cli EXCEPT ![c] = "gone"]
    /\ disk' = [disk EXCEPT ![c] = text[c]]
    /\ UNCHANGED <<srvVars, readf, want, recvline, streams, text, toSrv, toCli, reset, behind>>

\* The user interrupts the client.
Interrupt(c) ==
    /\ cli[c] \in {"send", "recv"}
    /\ cli' = [cli EXCEPT ![c] = "gone"]
    /\ UNCHANGED <<srvVars, readf, cliVars, toSrv, toCli, reset, behind>>

-----------------------------------------------------------------------------
(* The server. *)

\* Mutant of Exit: every connection is reset.
Exit_Abort ==
    /\ srv' = [srv EXCEPT !.pc = "exited"]
    /\ open' = {} /\ queue' = <<>>
    /\ reset' = reset \cup open \cup {c \in Client : \E i \in DOMAIN queue : queue[i] = c}

\* The process ends: connections with data it has not read, and those it has
\* not accepted, are reset.
Exit ==
    /\ srv' = [srv EXCEPT !.pc = "exited"]
    /\ open' = {} /\ queue' = <<>>
    /\ reset' = reset \cup {c \in open : toSrv[c] # <<>>}
                      \cup {c \in Client : \E i \in DOMAIN queue : queue[i] = c}

Accept ==
    /\ srv.pc = "accept"
    /\ \/ /\ Cardinality(open) >= SrvFd /\ Exit            \* accept() == -1
       \/ /\ Cardinality(open) < SrvFd /\ queue # <<>>
          /\ srv' = [srv EXCEPT !.pc = "recv", !.c = Head(queue)]
          /\ open' = open \cup {Head(queue)} /\ queue' = Tail(queue)
          /\ UNCHANGED reset
    /\ UNCHANGED <<readf, cli, cliVars, toSrv, toCli, behind>>

\* Mutant of HungUp: the end of the stream is not tested for.
HungUp_Ignored == UNCHANGED srvVars /\ UNCHANGED reset

\* recv() returns 0 or -1: one client that leaves ends the server.
HungUp == cli[srv.c] = "gone" /\ Exit

\* The name is opened; if there is no such file the server says so and exits.
Request ==
    /\ srv.pc = "recv"
    /\ IF toSrv[srv.c] = <<>>
       THEN cli[srv.c] = "gone" /\ HungUp /\ UNCHANGED <<toSrv, toCli>>
       ELSE /\ toSrv' = [toSrv EXCEPT ![srv.c] = <<>>]
            /\ IF Head(toSrv[srv.c]) \in File
               THEN /\ srv' = [srv EXCEPT !.pc = "send", !.k = 0,
                                          !.f = Head(toSrv[srv.c])]
                    /\ UNCHANGED <<open, queue, reset, toCli>>
               ELSE /\ toCli' = [toCli EXCEPT ![srv.c] = @ \o Message]
                    /\ srv' = [srv EXCEPT !.pc = "failed"]
                    /\ UNCHANGED <<open, queue, reset>>
    /\ UNCHANGED <<readf, cli, cliVars, behind>>

\* exit(1) after the message.
NotFound ==
    /\ srv.pc = "failed" /\ Exit
    /\ UNCHANGED <<readf, cli, cliVars, toSrv, toCli, behind>>

\* Mutant of fgets: a read() does not put a NUL after the line.
fgets_Read(f, k) ==
    [i \in 1 .. MAXLINE |-> IF i <= Lines[f][k] THEN Char(f, k, i) ELSE readf[i]]

\* readf after fgets(readf, MAXLINE, file) has read line k: the line, a NUL, and
\* what was there.
fgets(f, k) ==
    [i \in 1 .. MAXLINE |-> IF i <= Lines[f][k] THEN Char(f, k, i)
                            ELSE IF i = Lines[f][k] + 1 THEN Nul
                            ELSE readf[i]]

\* send() of the whole of readf.  The first or the second send() to a client
\* that is gone fails, and the server ends, by SIGPIPE or exit(1).
SendBlock(block) ==
    \/ /\ srv.c \notin reset
       /\ srv' = [srv EXCEPT !.k = @ + 1]
       /\ IF cli[srv.c] = "gone" THEN reset' = reset \cup {srv.c} /\ UNCHANGED toCli
          ELSE toCli' = [toCli EXCEPT ![srv.c] = @ \o block] /\ UNCHANGED reset
       /\ UNCHANGED <<open, queue>>
    \/ cli[srv.c] = "gone" /\ Exit /\ UNCHANGED toCli

\* Mutant of SendLine: send() before fgets().
SendLine_First ==
    /\ srv.pc = "send" /\ srv.k < Len(Lines[srv.f])
    /\ readf' = fgets(srv.f, srv.k + 1)
    /\ SendBlock(readf)
    /\ UNCHANGED <<cli, cliVars, toSrv, behind>>

SendLine ==
    /\ srv.pc = "send" /\ srv.k < Len(Lines[srv.f])
    /\ readf' = fgets(srv.f, srv.k + 1)
    /\ SendBlock(readf')
    /\ UNCHANGED <<cli, cliVars, toSrv, behind>>

\* The end of the file: the connection stays open.
Served ==
    /\ srv.pc = "send" /\ srv.k = Len(Lines[srv.f])
    /\ srv' = [srv EXCEPT !.pc = "accept"]
    /\ UNCHANGED <<readf, open, queue, cli, cliVars, toSrv, toCli, reset, behind>>

\* Somebody kills the server.
Kill ==
    /\ Alive /\ Exit
    /\ UNCHANGED <<readf, cli, cliVars, toSrv, toCli, behind>>

-----------------------------------------------------------------------------
Server    == Accept \/ Request \/ NotFound \/ SendLine \/ Served
Program(c) == Send(c) \/ Recv(c) \/ RecvEnd(c) \/ RecvError(c)

Next == Server \/ Kill \/ \E c \in Client : Program(c) \/ Connect(c) \/ Interrupt(c)

(***************************************************************************)
(* Fairness: both programs run when their call can return; users need not  *)
(* do anything, and a client's reads come to an end because it runs out of *)
(* streams.                                                                *)
(***************************************************************************)
Spec == Init /\ [][Next]_vars /\ WF_vars(Server) /\ \A c \in Client : WF_vars(Program(c))

-----------------------------------------------------------------------------
Byte == [f : File \cup {NoSuchFile, Nul.f}, k : Nat, i : Nat]

TypeOK ==
    /\ srv \in [pc : {"accept", "recv", "send", "failed", "exited"}, c : Client,
                f : File \cup {Nul.f}, k : Nat]
    /\ readf \in [1 .. MAXLINE -> Byte]
    /\ open \subseteq Client /\ reset \subseteq Client /\ behind \subseteq Client
    /\ queue \in Seq(Client)
    /\ cli \in [Client -> {"off", "send", "recv", "gone"}]
    /\ want \in [Client -> Name]
    /\ recvline \in [Client -> [1 .. MAXLINE -> Byte]]
    /\ streams \in [Client -> 0 .. CliFd]
    /\ text \in [Client -> Seq(Byte)] /\ disk \in [Client -> Seq(Byte)]
    /\ toSrv \in [Client -> Seq(Name)] /\ toCli \in [Client -> Seq(Byte)]

\* The file a client is served.
Asked(c) == First8[want[c]]

\* A client is given bytes of its own file; or what lines longer than one of
\* its own have left in the readf that all clients share, behind that line and
\* its NUL; or the message that there is no such file, and nothing else then.
Given(c, byte) ==
    IF Asked(c) \in File
    THEN byte.f = Asked(c) \/ \E k \in DOMAIN Lines[Asked(c)] : byte.i > Lines[Asked(c)][k] + 1
    ELSE byte.f = NoSuchFile

\* However its reads are cut, and whatever an earlier one has left in
\* recvline, a client stores nothing but what it is given (srv.c:22, 45-48;
\* cli.c:21, 48, 63).
Remains == \A c \in Client : \A j \in DOMAIN text[c] : Given(c, text[c][j])

\* The first n lines of f, in their order and each once.
FirstLines(s, f, n) ==
    /\ \A j \in DOMAIN s : s[j].f = f /\ s[j].k \in 1 .. n /\ s[j].i \in 1 .. Lines[f][s[j].k]
    /\ \A k \in 1 .. n : \A i \in 1 .. Lines[f][k] : \E j \in DOMAIN s : s[j] = Char(f, k, i)
    /\ \A j, m \in DOMAIN s : j < m =>
          s[j].k < s[m].k \/ (s[j].k = s[m].k /\ s[j].i < s[m].i)

\* The server has sent everything, and the client has read it.
Received(c) ==
    /\ cli[c] = "recv" /\ toCli[c] = <<>> /\ c \in open
    /\ srv.c = c => srv.pc \notin {"recv", "send"}

\* A client that keeps up, each read of which finds at most one block and takes
\* what it can of it, stores the lines of its file: the remains of longer
\* lines, the byte of a block that no read has room for (cli.c:48), and the
\* string that is stored again when the stream has ended neither add to them
\* nor repeat or lose one.
InOrder == \A c \in Client : Asked(c) \in File /\ c \notin behind =>
    \E n \in 0 .. Len(Lines[Asked(c)]) :
        /\ FirstLines(text[c], Asked(c), n)
        /\ Received(c) => n = Len(Lines[Asked(c)])

\* Nothing ever reaches the client's file.  Only exit() writes the buffers
\* out, after a recv() that returns -1; but a connection is reset only if the
\* server has not read the request, and then nothing has been received
\* (cli.c:25, 59-61; srv.c:41, 88).
NothingStored == \A c \in Client : disk[c] = <<>>

\* A client in the queue is accepted or refused in the end: the server is
\* never held up by a client that has left, and a slow one must send its
\* eight bytes (srv.c:66-90).
Turn == \A c \in Client : (\E i \in DOMAIN queue : queue[i] = c)
                             ~> ~(\E i \in DOMAIN queue : queue[i] = c)
=============================================================================
