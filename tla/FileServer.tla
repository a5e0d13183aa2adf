----------------------------- MODULE FileServer -----------------------------
(***************************************************************************)
(* The forking file server lab6/srv02.c and its client lab6/cli02.c.       *)
(*                                                                         *)
(* Both ends write blocks of 4096 bytes: a line of text, or a file name,   *)
(* and NULs up to the end.  A block is two cells here, the text and the    *)
(* padding, and a read() of 4096 bytes returns one or two of the cells     *)
(* that have arrived, because TCP keeps no boundaries between writes.      *)
(*                                                                         *)
(* Left out: a read that stops inside a text (other than after its first   *)
(* byte), full socket buffers, more than BACKLOG clients connecting at     *)
(* once, a save file that cannot be opened, and the time a RST needs.      *)
(***************************************************************************)
EXTENDS Naturals, Sequences

CONSTANTS
    Client,    \* clients; the child that serves client c is called c as well
    File,      \* the server's files
    Lines,     \* how many lines each has
    Missing,   \* a name the server has no file of
    Nul,       \* the padding of a block
    Names,     \* per client: the names its user may type
    NReq       \* per client: how many it types

ASSUME FileServerAssumption ==
    /\ Lines \in [File -> Nat]
    /\ Missing \notin File /\ Nul \notin File \cup {Missing}
    /\ Nul \notin File \X Nat
    /\ Names \in [Client -> SUBSET (File \cup {Missing})]
    /\ NReq \in [Client -> Nat]
    /\ "srv" \notin Client

VARIABLES
    main,      \* the server process: what it does next, and newsockfd
    child,     \* per client: what its child does next, and with which file
    conns,     \* per process: the connections it has a descriptor of
    lsn,       \* the processes that have a descriptor of the listening socket
    queue,     \* connections waiting for accept()
    cli,       \* per client: what it does next
    want,      \* per client: the name it asked for
    buf,       \* per client: its buffer
    saved,     \* per client: what this download has saved
    asked,     \* per client: names typed
    whole,     \* per client: every read so far returned one block
    reset,     \* the connections on which a write met a closed end
    toSrv, toCli   \* per client: the cells under way

srvVars == <<main, child, conns, lsn, queue>>
cliVars == <<cli, want, buf, saved, asked, whole>>
vars    == <<srvVars, cliVars, reset, toSrv, toCli>>

Proc  == {"srv"} \cup Client
Empty == <<Nul, Nul>>                          \* memset(buf, 0, sizeof buf)
Block(x) == <<x, Nul>>
Text(f)  == [k \in 1..(IF f \in File THEN Lines[f] ELSE 0) |-> <<f, k>>]

\* buf after a read() that returned n cells, and the string in it.
Received(b, cells, n) == [i \in 1..2 |-> IF i <= n THEN cells[i] ELSE b[i]]
CString(b) == IF b[1] = Nul THEN <<>> ELSE IF b[2] = Nul THEN <<b[1]>> ELSE b
Drop(cells, n) == SubSeq(cells, n + 1, Len(cells))

\* The server's end of c's connection is open in some process, or is still to
\* be accepted.
Open(c) == \/ \E p \in Proc : c \in conns[p]
           \/ lsn # {} /\ \E i \in DOMAIN queue : queue[i] = c

Init ==
    /\ main = [pc |-> "accept", c |-> Missing]
    /\ child = [c \in Client |-> [ph |-> "none", f |-> Missing, k |-> 0]]
    /\ conns = [p \in Proc |-> {}] /\ lsn = {"srv"} /\ queue = <<>>
    /\ cli = [c \in Client |-> "off"] /\ want = [c \in Client |-> Missing]
    /\ buf = [c \in Client |-> Empty] /\ saved = [c \in Client |-> <<>>]
    /\ asked = [c \in Client |-> 0] /\ whole = [c \in Client |-> TRUE]
    /\ reset = {}
    /\ toSrv = [c \in Client |-> <<>>] /\ toCli = [c \in Client |-> <<>>]

-----------------------------------------------------------------------------
(* The client. *)

CliConnect(c) ==
    /\ cli[c] = "off"
    /\ IF lsn # {} THEN /\ queue' = Append(queue, c)
                        /\ cli' = [cli EXCEPT ![c] = "prompt"]
       ELSE cli' = [cli EXCEPT ![c] = "gone"] /\ UNCHANGED queue
    /\ UNCHANGED <<main, child, conns, lsn, want, buf, saved, asked, whole, reset,
                   toSrv, toCli>>

\* The user types a name.  The second write to a connection that the server
\* has closed kills the client (SIGPIPE).
CliAsk(c, f) ==
    /\ cli[c] = "prompt" /\ asked[c] < NReq[c]
    /\ asked' = [asked EXCEPT ![c] = @ + 1]
    /\ want' = [want EXCEPT ![c] = f]
    /\ buf' = [buf EXCEPT ![c] = Empty] /\ saved' = [saved EXCEPT ![c] = <<>>]
    /\ cli' = [cli EXCEPT ![c] = IF c \in reset THEN "gone" ELSE "wait"]
    /\ reset' = IF Open(c) THEN reset ELSE reset \cup {c}
    /\ toSrv' = IF Open(c) THEN [toSrv EXCEPT ![c] = @ \o Block(f)] ELSE toSrv
    /\ UNCHANGED <<srvVars, whole, toCli>>

\* One turn of the loop "while (read(...) > 1)": a read of a single byte, which
\* may be all there is of a short line, ends it.
CliRead(c) ==
    /\ cli[c] = "wait" /\ toCli[c] # <<>>
    /\ \E n \in 1..2 :
         LET filled == Received(buf[c], toCli[c], n) IN
         /\ n <= Len(toCli[c])
         /\ toCli' = [toCli EXCEPT ![c] = Drop(@, n)]
         /\ buf' = [buf EXCEPT ![c] = filled]
         /\ whole' = [whole EXCEPT ![c] = @ /\ n = 2]
         /\ \/ /\ saved' = [saved EXCEPT ![c] = @ \o CString(filled)]
               /\ UNCHANGED cli
            \/ /\ n = 1 /\ cli' = [cli EXCEPT ![c] = "prompt"]
               /\ UNCHANGED saved
    /\ UNCHANGED <<srvVars, want, asked, reset, toSrv>>

\* read() returns 0 or an error: "TRANSFER FINISHED."
CliFinish(c) ==
    /\ cli[c] = "wait" /\ toCli[c] = <<>> /\ ~Open(c)
    /\ cli' = [cli EXCEPT ![c] = "prompt"]
    /\ UNCHANGED <<srvVars, want, buf, saved, asked, whole, reset, toSrv, toCli>>

\* The user types "bye", or interrupts the program while it waits.  What it had
\* saved does not change any more and is forgotten.
CliLeave(c) ==
    /\ cli[c] \in {"prompt", "wait"}
    /\ cli' = [cli EXCEPT ![c] = "gone"]
    /\ buf' = [buf EXCEPT ![c] = Empty] /\ saved' = [saved EXCEPT ![c] = <<>>]
    /\ want' = [want EXCEPT ![c] = Missing]
    /\ asked' = [asked EXCEPT ![c] = NReq[c]] /\ whole' = [whole EXCEPT ![c] = FALSE]
    /\ toCli' = [toCli EXCEPT ![c] = <<>>]
    /\ UNCHANGED <<srvVars, reset, toSrv>>

-----------------------------------------------------------------------------
(* The server process: accept(), fork(), close(). *)

Accept ==
    /\ main.pc = "accept" /\ queue # <<>>
    /\ main' = [pc |-> "fork", c |-> Head(queue)]
    /\ conns' = [conns EXCEPT !["srv"] = @ \cup {Head(queue)}]
    /\ queue' = Tail(queue)
    /\ UNCHANGED <<child, lsn, cliVars, reset, toSrv, toCli>>

\* The child has a copy of every descriptor.
Fork ==
    /\ main.pc = "fork"
    /\ main' = [main EXCEPT !.pc = "close"]
    /\ child' = [child EXCEPT ![main.c].ph = "start"]
    /\ conns' = [conns EXCEPT ![main.c] = conns["srv"]]
    /\ lsn' = lsn \cup {main.c}
    /\ UNCHANGED <<queue, cliVars, reset, toSrv, toCli>>

\* fork() fails, because the system has no room for a process: the server
\* exits and the children go on.
ForkFails ==
    /\ main.pc = "fork"
    /\ main' = [main EXCEPT !.pc = "exited"]
    /\ conns' = [conns EXCEPT !["srv"] = {}]
    /\ lsn' = lsn \ {"srv"}
    /\ UNCHANGED <<child, queue, cliVars, reset, toSrv, toCli>>

\* Mutant of Close: the parent keeps newsockfd.
Close_Kept ==
    /\ main.pc = "close"
    /\ main' = [main EXCEPT !.pc = "accept"]
    /\ UNCHANGED <<conns, child, lsn, queue, cliVars, reset, toSrv, toCli>>

Close ==
    /\ main.pc = "close"
    /\ main' = [main EXCEPT !.pc = "accept"]
    /\ conns' = [conns EXCEPT !["srv"] = @ \ {main.c}]
    /\ UNCHANGED <<child, lsn, queue, cliVars, reset, toSrv, toCli>>

-----------------------------------------------------------------------------
(* The child of client c: stream_srv(). *)

Exit(c) == /\ child' = [child EXCEPT ![c].ph = "gone"]
           /\ conns' = [conns EXCEPT ![c] = {}]
           /\ lsn' = lsn \ {c}

Start(c) ==
    /\ child[c].ph = "start"
    /\ child' = [child EXCEPT ![c].ph = "read"]
    /\ lsn' = lsn \ {c}
    /\ UNCHANGED <<main, conns, queue, cliVars, reset, toSrv, toCli>>

\* The name in the buffer is opened; the child exits if there is no such file.
Read(c) ==
    /\ child[c].ph = "read" /\ toSrv[c] # <<>>
    /\ \E n \in 1..2 :
         LET name == CString(Received(Empty, toSrv[c], n)) IN
         /\ n <= Len(toSrv[c])
         /\ IF name # <<>> /\ Head(name) \in File
            THEN /\ child' = [child EXCEPT ![c] =
                                 [ph |-> "send", f |-> Head(name), k |-> 0]]
                 /\ toSrv' = [toSrv EXCEPT ![c] = Drop(@, n)]
                 /\ UNCHANGED <<conns, lsn>>
            ELSE Exit(c) /\ toSrv' = [toSrv EXCEPT ![c] = <<>>]
    /\ UNCHANGED <<main, queue, cliVars, reset, toCli>>

\* Mutant of ReadEnd: the end of the stream is taken for an empty read.
ReadEnd_Ignored(c) ==
    /\ child[c].ph = "read" /\ toSrv[c] = <<>> /\ cli[c] = "gone"
    /\ UNCHANGED vars

\* read() returns 0 or ECONNRESET: the name is empty, or error() is called.
ReadEnd(c) ==
    /\ child[c].ph = "read" /\ toSrv[c] = <<>> /\ cli[c] = "gone"
    /\ Exit(c)
    /\ UNCHANGED <<main, queue, cliVars, reset, toSrv, toCli>>

\* Mutant of Send: newsockfd is shared with the server process.
Send_Shared(c) ==
    /\ child[c].ph = "send" /\ child[c].k < Lines[child[c].f]
    /\ child' = [child EXCEPT ![c].k = @ + 1]
    /\ toCli' = [toCli EXCEPT ![main.c] =
                    @ \o Block(Text(child[c].f)[child[c].k + 1])]
    /\ UNCHANGED <<main, conns, lsn, queue, cliVars, reset, toSrv>>

\* One turn of the loop over the lines.  The second write to a client that is
\* gone kills the child.
Send(c) ==
    /\ child[c].ph = "send" /\ child[c].k < Lines[child[c].f]
    /\ IF c \in reset THEN Exit(c) /\ UNCHANGED <<reset, toCli>>
       ELSE /\ child' = [child EXCEPT ![c].k = @ + 1]
            /\ UNCHANGED <<conns, lsn>>
            /\ IF cli[c] = "gone"
               THEN reset' = reset \cup {c} /\ UNCHANGED toCli
               ELSE /\ toCli' = [toCli EXCEPT ![c] =
                                    @ \o Block(Text(child[c].f)[child[c].k + 1])]
                    /\ UNCHANGED reset
    /\ UNCHANGED <<main, queue, cliVars, toSrv>>

\* fclose(): nothing tells the client that the file is over.
Sent(c) ==
    /\ child[c].ph = "send" /\ child[c].k = Lines[child[c].f]
    /\ child' = [child EXCEPT ![c].ph = "read"]
    /\ UNCHANGED <<main, conns, lsn, queue, cliVars, reset, toSrv, toCli>>

-----------------------------------------------------------------------------
Parent   == Accept \/ Fork \/ ForkFails \/ Close
Child(c) == Start(c) \/ Read(c) \/ ReadEnd(c) \/ Send(c) \/ Sent(c)
Download(c) == CliRead(c) \/ CliFinish(c)
User(c) == \/ CliConnect(c) \/ CliLeave(c)
           \/ \E f \in Names[c] : CliAsk(c, f)

Next == Parent \/ \E c \in Client : Child(c) \/ Download(c) \/ User(c)

(***************************************************************************)
(* Fairness: every process runs when the call it is in can return.  Users  *)
(* need not do anything.                                                   *)
(***************************************************************************)
Fairness == /\ WF_vars(Parent)
            /\ \A c \in Client : WF_vars(Child(c)) /\ WF_vars(Download(c))
Spec == Init /\ [][Next]_vars /\ Fairness

-----------------------------------------------------------------------------
(***************************************************************************)
(* Properties.                                                             *)
(***************************************************************************)

\* OwnOnly: a child that has started holds the connection of its own client
\* and no other descriptor, and the server process holds none while it waits
\* for the next client (srv02.c lines 155 and 158): otherwise an exit would not
\* end the connection.
OwnOnly ==
    /\ main.pc = "accept" => conns["srv"] = {}
    /\ \A c \in Client : child[c].ph \in {"read", "send"} =>
            conns[c] = {c} /\ c \notin lsn

\* SavedPrefix: as long as every read of a client returned one block, what it
\* saves is the beginning of the file it asked for (srv02.c lines 59-64,
\* cli02.c lines 50-52), whatever the other children send at the same time.
SavedPrefix ==
    \A c \in Client : whole[c] =>
        /\ Len(saved[c]) <= Len(Text(want[c]))
        /\ \A i \in DOMAIN saved[c] : saved[c][i] = Text(want[c])[i]

\* HungUp: a client whose child has exited is not left waiting: it reads the
\* end of the stream, so no other process kept the connection open.
HungUp == \A c \in Client : child[c].ph = "gone" ~> cli[c] # "wait"

\* ChildEnds: the child of a client that is gone exits, wherever it was, and
\* so does one that is started for it later (srv02.c lines 45-55, 60-61).
ChildEnds ==
    \A c \in Client :
        cli[c] = "gone" /\ child[c].ph # "none" ~> child[c].ph = "gone"

\* Finishes: a download that is asked for comes to an end; cli02.c says
\* "TRANSFER FINISHED." and asks for the next name (lines 54, 127).
Finishes == \A c \in Client : cli[c] = "wait" ~> cli[c] # "wait"

=============================================================================
