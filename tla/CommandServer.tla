---------------------------- MODULE CommandServer ----------------------------
(***************************************************************************)
(* The command server lab6/tcpsrv.c and its client lab6/tcpcli.c, with the *)
(* wrappers of lib/.  A client sends the text in the file tmp1; the server *)
(* answers "BINGO" if it is a command, and else writes it into tmp1, which *)
(* is the same file.                                                       *)
(*                                                                         *)
(* Left out: messages that arrive in parts, a server that is killed, a     *)
(* tmp1 that cannot be opened (both programs crash), the rest of an edit   *)
(* that is longer than what is written over it, and what the byte written  *)
(* at buff[-1] was for.                                                    *)
(***************************************************************************)
EXTENDS Naturals, Sequences

CONSTANTS
    Client,    \* runs of the client program
    Cmd,       \* "#n aaa" and "#p 123"
    Text,      \* other contents of tmp1
    Line,      \* what fgets(s, 100, f) makes of each of them
    Empty,     \* the empty string
    Junk,      \* a string that was in memory that is not initialised
    None       \* no answer, or none but the end of the stream

Str == Cmd \cup Text \cup {Empty}

\* The string in s after fgets(s, 100, f): the first line, 99 characters at
\* most, and of these what stands before a '\0'.  A command is one line.
fgets(text) == IF text \in Text THEN Line[text] ELSE text

ASSUME CommandServerAssumption ==
    /\ Cmd \cap Text = {} /\ Empty \notin Cmd \cup Text
    /\ Junk \in Text
    /\ Line \in [Text -> Str]
    /\ \A text \in Text : fgets(Line[text]) = Line[text]

Wild == {Junk, Empty}

VARIABLES
    tmp1,      \* the file
    srv,       \* the server: the call it is in and connfd, None if that is -1
    buff,      \* its buffer
    queue,     \* connections waiting for accept()
    cli,       \* per client: the call it is in
    str,       \* per client: what it sends
    wire,      \* per client: what has been sent and not been received
    reply,     \* per client: the answer it was sent
    original,  \* history: what was in tmp1 at first
    damage     \* history: what may have changed that since

vars == <<tmp1, srv, buff, queue, cli, str, wire, reply, original, damage>>

Init ==
    /\ original \in Cmd \cup (Text \ {Junk}) /\ tmp1 = original
    /\ srv = [pc |-> "Socket", connfd |-> None]
    /\ buff \in Wild
    /\ queue = <<>>
    /\ cli = [c \in Client |-> "off"]
    /\ str = [c \in Client |-> Empty] /\ wire = [c \in Client |-> Empty]
    /\ reply = [c \in Client |-> None]
    /\ damage = {}

-----------------------------------------------------------------------------
(* The client: Socket(), Connect(), readn(), Send(), recv(). *)

\* Connect() exits when nobody listens.
Connect(c) ==
    /\ cli[c] = "off"
    /\ IF srv.pc \in {"Socket", "Bind", "Listen", "exited"}
       THEN cli' = [cli EXCEPT ![c] = "gone"] /\ UNCHANGED queue
       ELSE cli' = [cli EXCEPT ![c] = "read"] /\ queue' = Append(queue, c)
    /\ UNCHANGED <<tmp1, srv, buff, str, wire, reply, original, damage>>

\* readn() returns the address of its own array: the program crashes, or
\* strlen() and send() find the line there, or something else.  fgets() of an
\* empty file leaves the array as it was.
readn(c) ==
    /\ cli[c] = "read"
    /\ \/ /\ cli' = [cli EXCEPT ![c] = "gone"]
          /\ UNCHANGED <<str, damage>>
       \/ \E s \in Wild \cup (IF tmp1 = Empty THEN {} ELSE {fgets(tmp1)}) :
             /\ cli' = [cli EXCEPT ![c] = "send"]
             /\ str' = [str EXCEPT ![c] = s]
             /\ damage' = damage \cup IF tmp1 = Empty THEN {"empty"}
                                      ELSE IF s # fgets(tmp1) THEN {"dangling"} ELSE {}
    /\ UNCHANGED <<tmp1, srv, buff, queue, wire, reply, original>>

\* An empty string sends nothing.
Send(c) ==
    /\ cli[c] = "send"
    /\ cli' = [cli EXCEPT ![c] = "recv"]
    /\ wire' = [wire EXCEPT ![c] = str[c]]
    /\ UNCHANGED <<tmp1, srv, buff, queue, str, reply, original, damage>>

RecvReply(c) ==
    /\ cli[c] = "recv" /\ reply[c] # None
    /\ cli' = [cli EXCEPT ![c] = "gone"]
    /\ UNCHANGED <<tmp1, srv, buff, queue, str, wire, reply, original, damage>>

\* The user interrupts the client.
Interrupt(c) ==
    /\ cli[c] \in {"read", "send", "recv"}
    /\ cli' = [cli EXCEPT ![c] = "gone"]
    /\ UNCHANGED <<tmp1, srv, buff, queue, str, wire, reply, original, damage>>

\* The user changes the file.
Edit(s) ==
    /\ tmp1' = s /\ tmp1 # s
    /\ damage' = damage \cup {"edit"}
    /\ UNCHANGED <<srv, buff, queue, cli, str, wire, reply, original>>

-----------------------------------------------------------------------------
(* The server. *)

\* The wrappers exit when their call fails.
Try(call, next) ==
    /\ srv.pc = call
    /\ \E pc \in {next, "exited"} : srv' = [srv EXCEPT !.pc = pc]
    /\ UNCHANGED <<tmp1, buff, queue, cli, str, wire, reply, original, damage>>
Socket == Try("Socket", "Bind")
Bind   == Try("Bind", "Listen")
Listen == Try("Listen", "accept")
Start  == Socket \/ Bind \/ Listen

\* A connection whose client is gone may be reported as ECONNABORTED: again.
Accept ==
    /\ srv.pc = "accept" /\ queue # <<>>
    /\ \/ srv' = [pc |-> "recv", connfd |-> Head(queue)]
       \/ cli[Head(queue)] = "gone" /\ UNCHANGED srv
    /\ queue' = Tail(queue)
    /\ UNCHANGED <<tmp1, buff, cli, str, wire, reply, original, damage>>

checkCMD(cmd) == cmd \in Cmd

\* The command is answered; any other text is written to tmp1 first.
Handle(connfd) == srv' = [pc |-> IF checkCMD(buff') THEN "send" ELSE "fopen",
                          connfd |-> connfd]

\* Another error of accept() is printed, Recv(-1) fails, that is printed, and
\* what is in the buffer is handled again.
AcceptFails ==
    /\ srv.pc = "accept"
    /\ UNCHANGED buff /\ Handle(None)
    /\ damage' = damage \cup IF buff \in Wild THEN {"stale"} ELSE {}
    /\ UNCHANGED <<tmp1, queue, cli, str, wire, reply, original>>

\* Mutant of Recv: without buff[n] = '\0' the end of an older text remains.
Recv_NoNul ==
    /\ srv.pc = "recv" /\ wire[srv.connfd] # Empty
    /\ \E s \in {wire[srv.connfd]} \cup (IF buff = Empty THEN {} ELSE {Junk}) : buff' = s
    /\ wire' = [wire EXCEPT ![srv.connfd] = Empty]
    /\ Handle(srv.connfd)
    /\ UNCHANGED <<tmp1, queue, cli, str, reply, original, damage>>

Recv ==
    /\ srv.pc = "recv" /\ wire[srv.connfd] # Empty
    /\ buff' = wire[srv.connfd]
    /\ wire' = [wire EXCEPT ![srv.connfd] = Empty]
    /\ Handle(srv.connfd)
    /\ UNCHANGED <<tmp1, queue, cli, str, reply, original, damage>>

\* Mutant of RecvEnd: the end of the stream is waited out.
RecvEnd_Again ==
    /\ srv.pc = "recv" /\ wire[srv.connfd] = Empty /\ cli[srv.connfd] = "gone"
    /\ UNCHANGED vars

\* A client that is gone and sent nothing: n = 0, the empty string.
RecvEnd ==
    /\ srv.pc = "recv" /\ wire[srv.connfd] = Empty /\ cli[srv.connfd] = "gone"
    /\ buff' = Empty
    /\ Handle(srv.connfd)
    /\ damage' = damage \cup {"hung up"}
    /\ UNCHANGED <<tmp1, queue, cli, str, wire, reply, original>>

\* writen(): fopen(dir, "w+") empties the file, fputs() and fclose() fill it.
Fopen ==
    /\ srv.pc = "fopen"
    /\ tmp1' = Empty
    /\ srv' = [srv EXCEPT !.pc = "fputs"]
    /\ UNCHANGED <<buff, queue, cli, str, wire, reply, original, damage>>

Fputs ==
    /\ srv.pc = "fputs"
    /\ tmp1' = buff
    /\ srv' = [srv EXCEPT !.pc = "send"]
    /\ UNCHANGED <<buff, queue, cli, str, wire, reply, original, damage>>

\* The answer and close(); both fail for the descriptor -1.
Reply ==
    /\ srv.pc = "send"
    /\ reply' = IF srv.connfd = None THEN reply
                ELSE [reply EXCEPT ![srv.connfd] =
                         IF checkCMD(buff) THEN "BINGO" ELSE "THIS IS VICKY'S SERVER"]
    /\ srv' = [pc |-> "accept", connfd |-> None]
    /\ UNCHANGED <<tmp1, buff, queue, cli, str, wire, original, damage>>

-----------------------------------------------------------------------------
Turn      == Recv \/ RecvEnd \/ Fopen \/ Fputs \/ Reply
Program(c) == readn(c) \/ Send(c) \/ RecvReply(c)

Next ==
    \/ Start \/ Accept \/ AcceptFails \/ Turn
    \/ \E c \in Client : Connect(c) \/ Program(c) \/ Interrupt(c)
    \/ \E s \in (Text \ {Junk}) \cup Cmd : Edit(s)

(***************************************************************************)
(* Fairness: a program runs when its call can return, and accept() does    *)
(* not fail for ever while a client waits.                                 *)
(***************************************************************************)
Spec == /\ Init /\ [][Next]_vars
        /\ WF_vars(Turn) /\ SF_vars(Accept)
        /\ \A c \in Client : WF_vars(Program(c))

-----------------------------------------------------------------------------
TypeOK ==
    /\ tmp1 \in Str /\ buff \in Str /\ original \in Str
    /\ srv \in [pc : {"Socket", "Bind", "Listen", "accept", "recv", "fopen", "fputs",
                     "send", "exited"},
                connfd : Client \cup {None}]
    /\ queue \in Seq(Client)
    /\ cli \in [Client -> {"off", "read", "send", "recv", "gone"}]
    /\ str \in [Client -> Str] /\ wire \in [Client -> Str]
    /\ reply \in [Client -> {None, "BINGO", "THIS IS VICKY'S SERVER"}]
    /\ damage \subseteq {"edit", "empty", "dangling", "stale", "hung up"}

\* The answer is to what this client sent: the one buffer, which is handled
\* again after a failed accept() or recv(), never makes a client of the next
\* turn hear about a text of another (tcpsrv.c:55-75).
OwnReply == \A c \in Client :
    cli[c] = "recv" /\ reply[c] # None => (reply[c] = "BINGO" <=> str[c] \in Cmd)

\* The file that both programs use goes round in a circle: client, server,
\* file.  The first turn cuts its text to what fgets(s, 100, f) takes of it,
\* the first line and 99 characters at most; that much survives any number
\* of turns, and of interruptions after the text was sent, unless a user
\* changes the file, a client reads it between fopen() and fclose(), readn()'s
\* array is gone when it is sent, a client hangs up before it has sent
\* anything, or accept() fails before the first recv() (tcpsrv.c:55-75;
\* readn.c:20-25; writen.c:15-21).
Kept == damage = {} => \/ tmp1 \in {original, fgets(original)}
                       \/ srv.pc = "fputs" /\ buff = fgets(original)

\* A client that has the connection and is sent no answer.
Waits(c) == cli[c] = "recv" /\ reply[c] = None

\* The server waits for a client that has sent the empty string, and the
\* client for the answer.
Stuck == srv.pc = "recv" /\ cli[srv.connfd] = "recv" /\ str[srv.connfd] = Empty

\* Whoever waits for an answer gets one, whatever the others do, unless an
\* empty string has stopped the server (tcpsrv.c:57, tcpcli.c:41-43).
Progress == \A c \in Client : Waits(c) ~> (~Waits(c) \/ Stuck)
=============================================================================
