------------------------------- MODULE FtpNet -------------------------------
(***************************************************************************)
(* What the FTP proxy of ftp-project/ftp.c asks of the operating system    *)
(* and of TCP: a descriptor table that hands out the lowest free number,   *)
(* listening sockets with a backlog, connections, and the messages that    *)
(* travel on them.  The module has no variable: its operators take the     *)
(* descriptor table as an argument, because one handler of the proxy may   *)
(* open and close several descriptors, each call seeing what the earlier   *)
(* ones left.                                                              *)
(***************************************************************************)
EXTENDS Naturals, Sequences

CONSTANTS
    NSession,   \* control connections clients may open, numbered in order
    NOp,        \* transfers clients may start; transfer n uses data port n
    NChunk,     \* reads it takes to move one file
    NFd,        \* descriptors the process may hold (its open-file limit)
    File,       \* file names
    Cacheable,  \* the names whose extension is pdf, jpg or png
    NoName      \* the contents of "file" before any RETR

ASSUME NetAssumption ==
    /\ NSession \in Nat /\ NOp \in Nat /\ NChunk \in Nat \ {0}
    /\ NFd \in Nat /\ NFd > 3
    /\ Cacheable \subseteq File
    /\ NoName \notin File

Session == 1..NSession
Op      == 1..NOp
CmdPort == 0                  \* port 21
Port    == {CmdPort} \cup Op

-----------------------------------------------------------------------------
(***************************************************************************)
(* Messages.  A control message is one command or one reply, in the read   *)
(* that delivers it; "at" is the host an address in it names.  A data      *)
(* message is the k-th block of version v of file f, where version 0 is    *)
(* what the server has at the start and version n what transfer n uploads. *)
(***************************************************************************)
Host == {"client", "proxy", "server"}

Address == [t : {"PORT", "PASV", "227"}, n : Op, at : Host]
Named   == [t : {"RETR", "STOR"}, f : File]
Plain   == [t : {"LIST", "QUIT", "220", "200", "150", "226", "426", "550", "221",
                 "junk"}]
Listing == "listing"
Block   == [t : {"data"}, f : File \cup {Listing}, v : {0} \cup Op,
            k : 1..NChunk]
Msg     == Address \cup Named \cup Plain \cup Block

Say(text) == [t |-> text]
Junk      == Say("junk")      \* bytes that start like no command or reply

\* The blocks of version v of f, whole.
Contents(f, v) ==
    [k \in 1..NChunk |-> [t |-> "data", f |-> f, v |-> v, k |-> k]]

-----------------------------------------------------------------------------
(***************************************************************************)
(* Open files.  "cc" and "cd" are connections with a client (control and   *)
(* data), "sc" and "sd" with the server; "dead" is a socket whose          *)
(* connect() failed; "std" is one of the three standard streams.           *)
(***************************************************************************)
Conn == [k : {"cc", "sc"}, n : Session] \cup [k : {"cd", "sd"}, n : Op]

Free         == [k |-> "free", n |-> 0]
Dead         == [k |-> "dead", n |-> 0]
Std          == [k |-> "std",  n |-> 0]
Listener(p)  == [k |-> "lsn",  n |-> p]
CacheFile(f) == [k |-> "file", n |-> f]

Object == Conn \cup {Free, Dead, Std} \cup {Listener(p) : p \in Port}
               \cup {CacheFile(f) : f \in File}

IsConn(o) == o.k \in {"cc", "sc", "cd", "sd"}

Fd   == 0..(NFd - 1)
NoFd == NFd                   \* the -1 of a call that finds no free descriptor

\* The descriptor that socket(), accept() and creat() return: the lowest free.
Lowest(ft) ==
    IF \E fd \in Fd : ft[fd] = Free
    THEN CHOOSE fd \in Fd :
            ft[fd] = Free /\ \A e \in Fd : ft[e] = Free => fd <= e
    ELSE NoFd

\* The table after opening o, after two opens in order, and after close() of
\* every descriptor in S; closing a free one fails with EBADF and changes
\* nothing.
Opened(ft, o) == [ft EXCEPT ![Lowest(ft)] = o]
Closed(ft, S) == [fd \in Fd |-> IF fd \in S THEN Free ELSE ft[fd]]

\* A listener that is closed resets the connections waiting in its backlog.
Dropped(bl, ft, S) ==
    [p \in Port |->
        IF \E fd \in S \cap Fd : ft[fd] = Listener(p) THEN <<>> ELSE bl[p]]

=============================================================================
