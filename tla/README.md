# A verification of Internet-Applications

The repository is a course's collection of network programs in C. Its core is
an FTP proxy with a cache, `src/ftp-project/ftp.c`: one thread, one `select()`
loop, six socket variables, a descriptor table shared by everything. Next to it
stand a forking file server (`src/lab6/srv02.c`, `cli02.c`), its iterative first
version (`srv.c`, `cli.c`), a command server (`tcpsrv.c`, `tcpcli.c`), a UDP echo
server (`src/lab5/udpsrv02.c`, `udpcli02.c`) and a number of small programs. These
modules model them, TLC checks them on small instances, and TLAPS proves what
matters most for every value of the constants.

## 1. Inventory

| Component | State | Operations | Modelled |
|---|---|---|---|
| FTP proxy `ftp.c` | `master`, `read_fds`, the loop index, six `*_socket` variables, `proxy_data_mode`, `proxy_data_port`, `proxy_file_mode`, `file`, `cache`, `bytes_creat`, the two command buffers, the descriptor table, the files of the cache | `select()`, and a branch for each of the six sockets | in full: `FtpNet`, `FtpProxy`, `FtpSystem`; killed and restarted: `FtpRestart` |
| FTP clients and server (not in the repository) | phase of each session, the transfer under way, the server's files | login-free FTP: PORT, PASV, RETR, STOR, LIST, QUIT | as environment: `FtpPeers` |
| `ftp_proxy.c`, `proxy.c`, `main.c` | as `ftp.c` | drafts of `ftp.c` | what they reach: start-up and an empty loop, `Startup` |
| `Read.c`, `Write.c` | `bytes_left`, `ptr`, `errno` | a `read()` and a `write()` loop that nothing calls | in full: `Loops`, against `Transfer` |
| File server and client, `lab6/srv02.c`, `cli02.c` | the server's `newsockfd`, the connections each process holds, each child's file and position, the client's buffer and save file | `accept`, `fork`, `close`, `stream_srv`, `stream_cli` | in full: `Startup`, `FileServer` |
| `lab6/srv.c`, `cli.c` | `acceptfd`, `readf`, the connections never closed; the client's `recvline` and streams | the same without `fork` | in full: `Startup`, `LineServer` |
| `lab6/tcpsrv.c`, `tcpcli.c`, `lib/*.c` | one connection, `buff`, the file `tmp1` that both programs use | one text, one answer | in full: `CommandServer` |
| UDP echo, `lab5/udpsrv02.c`, `udpcli02.c` | the server's one buffer and `cli_addr`, each client's line | `recvfrom`, `sendto` on both sides | in full: `Startup`, `UdpEcho` |
| `lab5/udpsrv.c`, `udpcli.c` | a socket | one datagram | in full: `Startup` |
| The other programs of lab5, lab4, Sample | none | single calls | no (section 9) |

How they interact: the proxy's peers meet it only through connections and
through the descriptors that stand for them. Inside the proxy the branches meet
through shared variables, and above all through descriptor **numbers**: a number
is closed by one branch, handed out again by the next `socket()`, and may still
be set in `read_fds`, in `bytes_creat` or in another socket variable. The file
server's processes meet through copies of descriptors; the UDP programs through
a network that keeps no promise.

What is hard to get right, and to test: stale readiness (`read_fds` is a
snapshot, a branch earlier in the same pass may have closed or reused the
number); variables that describe the transfer before (`file`,
`proxy_file_mode`, `cache`, `bytes_creat`); a client that takes over while
another's transfer runs; a full descriptor table; a peer that closes between
two steps; end of file that has to travel from one side to the other; and a
cache entry created before anybody knows that the file exists. `PROJECT.json`
lists each hazard at its line, with the properties that would catch it.

What makes each component correct:

- *proxy*: a transfer that ends well delivered one whole file, on every path; a
  cache file is a whole copy of the file it is named after and does not change;
  the cache is used; a branch acts on the socket it was written for; nothing a
  client does closes port 21, makes `select()` fail or blocks the loop; a command
  sent is answered;
- *file server*: a child holds its own connection and no other; what is saved is
  what was asked for; an exit ends the connection; no child outlives its client;
- *UDP echo*: a user gets his own lines, in order, and only a loss blocks him;
- *first file server*: a client that keeps up stores the lines of the file asked
  for, in order and once; no client stores what it was not given; a client in
  the queue is not forgotten;
- *command server*: the answer belongs to the text; the text in `tmp1`, or what
  one `fgets()` takes of it, survives;
- *start-up*: one open socket per process, one server per address, and a client
  finds it;
- *`Read`, `Write`*: the value returned tells what has moved.

## 2. Modules

```
FtpNet          descriptors, connections, messages (operators only)
  FtpProxy      ftp.c: every branch of the select loop
    FtpPeers    FTP clients and the FTP server
      FtpSystem   the three together; fairness; all properties
        FtpRefinement     ... implements FtpStore, the abstract file store
          MCFtp             instances for TLC (4 configurations)
        FtpRestart        ... with a proxy that is killed and restarted
          MCFtpRestart      its instance
          FtpSystem_proofs  the listener of port 21, type correctness, the
                            cache is stable; the same across restarts; eight
                            properties while clients take turns
          FtpContents_proofs  (on FtpSystem_proofs and FtpRefinement) what is
                            transferred: whole files, the store, the first kill
FileServer      lab6/srv02.c, cli02.c       MCFileServer, FileServer_proofs
Startup         sockets, bind(), listen() and connect() in proxy.c,
                ftp_proxy.c, srv.c, cli.c, srv02.c, cli02.c,
                udpsrv.c, udpcli.c, udpsrv02.c, udpcli02.c
                                            MCStartup, Startup_proofs
LineServer      srv.c and cli.c from there on
                                            MCLineServer, LineServer_proofs
CommandServer   lab6/tcpsrv.c, tcpcli.c, lib/
                                            MCCommandServer, CommandServer_proofs
UdpEcho         lab5/udpsrv02.c, udpcli02.c MCUdpEcho, UdpEcho_proofs
Transfer        what a caller of Read() and Write() may rely on
  Loops         ftp-project/Read.c, Write.c MCLoops, Loops_proofs (PromisedHolds)
```

No module declares a RECURSIVE operator, so all of them can be proved about.
Definitions named `X_Something` in front of a definition `X` are variants of it
with one plausible mistake. Nothing uses them; substituted for `X`, they make a
property fail, which is how we know that the property notices.

## 3. The proxy (`FtpNet`, `FtpProxy`)

**State.** The variables of `main()` keep their names. `sock[r]` is the socket
variable of role `r` (`sock.accept_cmd` is `accept_cmd_socket`). `fdt` is the
process's descriptor table: what each number refers to, one of the `Object`s of
`FtpNet`. `socket()`, `accept()` and `creat()` return the lowest free number, as
POSIX says; `Lowest` yields `NoFd`, the -1 of the C program, when there is none.
`status` is whether the process has exited. `disk` is the proxy's directory.
A connection has a queue in either direction (`inq` to the proxy, `outq` from
it) and `fin`, the set of connections whose peer has sent its end of file.

**The loop.** `Select` takes the snapshot `read_fds`. Then the branches run in
the order of the C program: descriptors upwards, and for one descriptor the six
`if`s from top to bottom. `pos` is how far the scan has come, a pair of
descriptor and position of the `if`; `Due` is what is still ahead of it and
`Turn(r)` picks the first. The `if`s are not exclusive and compare `i` with
the variables *as they are then*: a branch that moves a socket variable to a
larger number, or to the same number further down, lets a later `if` of the
same pass run on it. That is kept, because several findings rest on it. Each
action is one branch with all its calls, and peers may move between branches,
not inside one. `read()` on a connection with nothing in it makes the action disabled:
the process blocks, and `NeverBlocks` says that this does not happen.

| `ftp.c` | action |
|---|---|
| 144-157 `select()` | `Select` |
| 161-174 new client | `AcceptClient` |
| 176-237 command | `Command`: `ClientGone`, `PortCommand`, `RetrCached`, `RetrForwarded`, `OtherCommand` |
| 239-275 reply | `Reply`: `ServerGone`, `PassiveReply`, `OtherReply` |
| 277-330 data connection | `DataConnection`: `RelayActive`, `RelayPassive`, `ServeCached`, `RelayMiss` |
| 332-373 data | `Transfer(r, other)`: `DataEnd`, `DataBlock` |

**Calls that fail.** `bind()` fails, and the process exits, when the port is
taken, also by an accepted connection (`SO_REUSEADDR` is not set).
`accept()`, `socket()` and `creat()` fail at the open-file limit `NFd`.
`connect()` fails when nobody listens; `connectTo()` returns the socket all the
same (`Dead`). `read()` from a descriptor that is no connection fails and leaves
`buf` as it was: uninitialised, or with the command before in it, so `Fetched`
offers both. `write()` to a connection whose peer has closed raises SIGPIPE the second time
(`sigpipe` remembers the first), and the process dies. `isFileExist()` answers no
for want of a descriptor, too. `proxy_data_mode` and `proxy_file_mode` are
uninitialised: `Init` lets each have either value.

**Abstractions.** One `read()` returns one message, never a part of one or two.
A data port stands for the transfer that uses it, so `PORT` and `227` carry a
transfer's number and the host (`at`) that the client or the server would
connect to; the rewriting of the address is modelled, its digits are not. A
file is `NChunk` blocks and a version says which upload it came from. `read()` and `write()`
never move less than a block, and a socket's buffer is never full. `Cacheable` is the set
of names whose extension is pdf, jpg or png.

A forwarded RETR has a NUL in the place of its CR, where `strtok()` cut the name out
(`ftp.c:213`, 235); the server is taken to read the same command.

**Clients and server** (`FtpPeers`, external). They keep to RFC 959, one command
at a time. No client changes its directory: the proxy forwards CWD like any other
command and goes on to look in its cache for the bare name of a RETR (`ftp.c:213-215`),
so that two files of one name in two directories share one copy. Three liberties can be granted by the constant `Liberty`: "early", a
passive client connects for data before it sends its command; "hasty", a
client connects while another is being served; "abort", it closes everything at any moment. The server's
port 21 always listens. Nobody breaks the protocol.

**The abstract store** (`FtpStore`, `FtpRefinement`). `FtpStore` knows no
connections, blocks or replies: a version per file in the store, a version per
file that has been copied, and what each transfer has come to. An upload
replaces a version at once. The first download of a cacheable file copies what
the store has at that moment, every download of it delivers the copy, and
nothing ever refreshes the copy; any other download delivers what the store
has. The refinement mapping takes the store from the server's files, the copies
from the cache files that are *closed*, and the result of a transfer from what
the client got once it has 226 and the end of the data. `ImplementsStore` thus
says at once that transfers are atomic and whole, that relay and cache agree, and
exactly how stale a cached file is.

**Kill and restart** (`FtpRestart`). The new process has the descriptor table,
the variables and the uninitialised modes of `Init`; what it finds again is the
directory, that is the cache, which `main()` does not look at. Connections of
the old process end: what it had written still arrives, what it had not read is
lost. `damaged` remembers the files whose transfer was under way.

## 4. The file servers (`FileServer`, `LineServer`, `CommandServer`)

### `FileServer`

A block of 4096 bytes is two cells, a text and its padding of NULs; `read()`
returns one or two of the cells that have arrived, because TCP keeps no
boundaries. `conns[p]` is what process `p` holds a descriptor of, so a connection
ends when *every* copy is closed, and `lsn` is who holds the listening socket. `Accept`,
`Fork`, `ForkFails` and `Close` are the loop of `main()` (142-159),
`Start`, `Read`, `ReadEnd`, `Send`, `Sent` the child (38-67, 154-156), `CliConnect`
to `CliLeave` the client and its user. Users type names of files, of no file,
or leave, at any moment. The second write to a connection the other has closed
kills the writer (`reset`). That the end of the stream is not tested
(`read() < 0` only, line 45) is modelled as it is: the empty name is not a file,
so the child exits anyway.

### `LineServer`

`srv.c` serves one client at a time: `srv` is the call it is in, the connection
`acceptfd`, the file and the line. It never closes a connection after a
download (`open` grows to `SrvFd`, then `accept()` fails and the server exits),
and it exits for everybody when one client hangs up, asks for a file that does
not exist or is gone when a line is sent. A byte is known by the file, the line
and the place in that line it comes from, and a block is `MAXLINE` bytes: the whole
of `readf`, which is one buffer for all clients and is never cleared. `fgets` puts a
line and its NUL into it and leaves the rest, so the tail of a block is the end of
longer lines, perhaps of another client's file. A `Recv` takes any number of
the bytes that are there, `MAXLINE - 1` at most, and leaves the rest of `recvline`;
what is stored is the string at its start (`String`). `behind` remembers the clients
one of whose reads found more than a block, or took less than it could. Every string
goes to a stream that is opened for it and never closed, `CliFd` of them at most; then
`fputs()` gets a NULL and the client crashes. `First8` is the name as the server gets
it: `sizeof dir` is the size of a pointer. An end of the stream is not tested for
and stores the string in `recvline` again (`RecvEnd`).

### `CommandServer`

Client and server use one file, `tmp1`: the client sends its text, the server
writes what it receives into it, unless it is a command. `writen()` is two
steps, `Fopen` (which empties the file) and `Fputs`; `readn()` is one. It reads with
one `fgets(s, 100, f)`, the first line and 99 characters at most, and a NUL in it
ends the string (`fgets`, given by the constant `Line`); and it returns the address of
its own array: a crash, that line, or other bytes. So a text of several lines, such as
the repository's `src/Sample/tmp1`, is cut by the first turn, and then
stays as it is. The
wrappers of `lib/wrap.c` only print their errors, so that a failed `accept()`
goes on with -1 and the text of the turn before (`AcceptFails`), and a client
that hung up with an empty text (`RecvEnd`). An empty text sends nothing at all.

## 5. Sockets, UDP and the loops (`Startup`, `UdpEcho`, `Loops`)

### `Startup`

All programs look for a socket in the same loop over the addresses of
`getaddrinfo()`, with small differences that matter: whether `SO_REUSEADDR` is
set, whether a socket is closed when `bind()` fails, what follows `break`, which
port is asked for (`cli02.c` ignores the one it is told). Any
number of processes run on one host, each with its own `pc`. With
`SO_REUSEADDR` two may `bind()` one address and only the first to `listen()`
gets it. UDP ports and TCP ports are told apart (`Port`). What `udpsrv.c`, `udpcli.c`
and `proxy.c` do afterwards is a step or two and modelled too: the scan of `proxy.c`
ends before its own listener, for ever, and `ftp_proxy.c` passes one `char` as the
service name and exits. The other programs go on in `LineServer`, `FileServer` and
`UdpEcho`.

### `Loops`, `Transfer`

`Transfer` is the contract: bytes move, never more than asked for; `Write()`
returns 0 only when all are written, `Read()` how many it has read; beyond
`IntMax` nothing is promised. `Loops` is the code: an `int` made of a `size_t`
(`ToInt`), short counts, -1 with or without EINTR, and 0, where `Write()` looks
at an `errno` that an earlier call has left.

### `UdpEcho`

Either side is blocked in `recvfrom()` or between it and `sendto()`. The network loses any datagram,
delivers in any order (datagrams under way are a set) and delivers a request
again at any later time, `NDup` times at most. The client looks at neither the
sender nor the contents of what it gets (line 29), and nor does the model's.

## 6. What the runs check

| Run | Instance | Properties | States |
|---|---|---|---|
| `orderly` | two clients in turn, three transfers of two blocks, downloads and uploads of a pdf and a txt, active and passive, 12 descriptors | `DownloadWhole`, `UploadWhole`, `CacheWhole`, `CacheFilled`, `FetchedOnce`, `RolesMatch`, `SelectSafe`, `CacheHandle`, `InWindow`, `ProxySurvives`, `NeverBlocks`, `CachePure`, `ImplementsStore` | 757 254 |
| `crash` | two clients in turn, two transfers, a kill and restart at any moment | `CrashContained`, `CacheStable` | 1 873 676 |
| `live` | two clients in turn, two transfers, downloads of both files, uploads of the pdf and LIST, under `FairSpec` | `OpCompletes`, `Served` | 45 879 |
| `adversity` | two clients with all three liberties, one transfer of a pdf, 9 descriptors | `TypeOK`, `ListenerAlive` | 464 810 |
| `serve` | two clients, files of one and two lines, a name of no file, `fork()` failing | `OwnOnly`, `SavedPrefix`, `HungUp`, `ChildEnds` | 198 899 |
| `lines` | two clients, buffers of four bytes, a file with a line of three bytes and one of one byte, a file of one line of one byte, a name cut to another, a name of no file, 2 connections, 4 streams | `InOrder`, `Remains`, `NothingStored`, `Turn` | 552 644 |
| `turns` | two clients, a command, a line and a text that is cut to that line, edits | `OwnReply`, `Kept`, `Progress` | 492 403 |
| `startup` | three processes in seven casts, two addresses, sockets missing, addresses taken | `OneSocket`, `OneServer`, `Reaches`, `Heard` | 99 867 |
| `echo` | two clients, three lines each, two duplicates | `Echoed`, `Behind`, `Answered` | 25 154 |
| `loops` | twelve sizes from 0 to 19, an `int` of four bits | `Promised`, `Returns` | 272 |

**Why these bounds.** Three transfers are the fewest in which one fills the
cache, the next is served from it, and a third meets what both left behind, or
in which a file is downloaded, uploaded again and downloaded once more;
two control sessions are the fewest in which one replaces the other; two blocks
tell "once" from "each" and the first from the last. A relayed and cached transfer holds ten
descriptors (three standard streams, two listeners, the control pair, the data
pair, the cache file): with nine every call meets a full table sooner or later; twelve are more than the loop's `fdmax` of 10, so
that a leak would be seen by `InWindow`. In `orderly` clients take turns because the
program serves one client at a time, by design; what happens when they do not
is what `adversity` is about, and section 7. In `crash` two transfers are enough for
one to be cut and another to meet what is left, or for one to finish before. NDup = 2 allows an old
duplicate to shift the output twice. Two connections of `srv.c` are exhausted by
two clients. Four bytes are the smallest buffer in which a line fills it, a shorter one leaves
part of it behind its NUL, and a read that stops inside a block can begin there; four
streams of `cli.c` store two lines and the odd bytes of their blocks.
In `live` two transfers are enough for the second to be answered from the cache, or to find
what the first left in the variables.
With two addresses a process can be on the first, on the second or on none.
Sizes up to 19 wrap a four-bit `int` around to both signs.

**Deadlock** is not checked: clients stop for good when they have done what the
bounds let them do, and then nothing is left to happen.

**Fairness.** `FtpSystem!Fairness` is weak fairness of the proxy's thread, which the
scheduler runs whenever the call it is in can return, and of every peer's
*answers*. No client has to connect, start a transfer, quit or abort. No
fairness is assumed of a choice among the proxy's branches: the order of the scan decides.
In `LineServer` and `Startup` every process is weakly fair. In `CommandServer`
`Accept` is strongly fair, since an error of `accept()` may come again but not for
ever while clients wait; in `Loops` so is a call that moves bytes.
In `FileServer` each process is weakly fair in what follows from a call that can
return and users owe nothing; in `UdpEcho` likewise, and nothing forces a loss or a duplicate.

## 7. Where code and documents differ

Each of these runs ends in a counterexample to what the project's report, a
README or a comment says. Both were found with clients and a server that keep to the protocol.

- `listing`: after a passive download of a cached file, a LIST is answered with
  that file and a made-up 226 (`ftp.c:301`): the purpose of a data connection is
  taken from the last RETR or STOR.
- `finish`: nothing ends a file on the wire (`srv02.c:65`, `cli02.c:50`): after the
  last line the child reads the next name and the client more of the file.

Further counterexamples come from other values of the constants of `MCFtp`:

- `OnServer = {}`, one transfer: `CacheWhole` fails. The cache file is created when
  the data connection opens (`ftp.c:322`); if the server then says 550, an empty
  file remains and is served from then on.
- `OnServer = {txt}`, one client, two transfers: `NeverBlocks` fails. After a failed
  passive download the listener is still ready; the next PORT or PASV closes it,
  gets the same number, and `accept()` blocks on the new one in the same pass
  (`ftp.c:279`).
- `Liberty = {"hasty"}`, two clients, two passive transfers: `CachePure` fails. The
  branch for a passive LIST or STOR leaves the flag `cache` set (`ftp.c:294`), so a
  client that takes over during a cached download and uploads has its blocks
  written into the other's cache file.
- `Liberty = {"hasty"}`, two clients, no transfer, `FairSpec`: `Served` fails. A
  client that connects in a pass in which the pair before it is ready takes over
  their numbers; the loop then reads from the new connections, which have sent
  nothing, and blocks (`ftp.c:179`).

From other instances, or from reading the code:

- `SelectSafe` and `CacheHandle` are claimed only while clients take turns. With
  hasty clients and three transfers TLC finds `CacheHandle` violated in a state in which `bytes_creat` and
  `connect_data_socket` are one number (depth 57), so that each block is written
  twice.
- A client that aborts in a download kills the proxy for everyone: the second
  `write()` after its reset raises SIGPIPE, which is not ignored.
- The LIST of run `listing` has a second effect: the server waits for a data connection
  that the proxy never makes and answers no more, so that the client's QUIT is
  not answered. `OpCompletes` makes this one exception (`ListMisled`): with two
  transfers TLC finds the QUIT waiting for ever without it.
- A passive client that connects before its RETR is read ("early") has its
  transfer relayed but not cached, or is given the file before.
- A second RETR of a file while it is being cached is served the part that has
  arrived. An upload does not refresh or remove the cached copy.
- A kill of the proxy in a download or upload leaves a partial file in the cache
  or on the server that nothing tells from a whole one; `CrashContained` says that it
  harms no other file.
- A client of `srv.c` never stores anything: its texts stay in the buffers of
  streams nobody closes, and every way in which it ends discards them
  (`NothingStored`), whatever the message at `cli.c:65` says. A read of it that begins
  behind a line in a block stores the end of a longer line, perhaps of another
  client's file: `Remains` says that nothing worse can be stored, and `InOrder` that nothing
  of the kind happens to a client that keeps up. `proxy.c` accepts
  nobody: `fdmax` is the number of the listener and the scan ends before it
  (`proxy.c:254-265`), although the comment there says that it is the biggest
  descriptor. The third branch of `tcpsrv.c` (line 79) is never reached.
- `cli02 -h host -p 8261` connects to port 6280: line 92 takes `PORT`, and `srvport` is never
  read, although the usage line offers `[-p port]` (`cli02.c:81`). `Port` of `Startup` has it so.
- `Read()` reads to an address that is not initialised; `Write()` of more than
  INT_MAX bytes may return 0 with nothing written.
- In the file server a `read()` that stops early leaves old text in the client's
  buffer, and one that returns a single byte ends the download. `SavedPrefix` says this
  is the only way to save anything but a prefix.

## 8. What is proved

Everything below is checked by TLAPS to the last leaf and holds for every number
of clients, transfers, blocks, files and descriptors, from the assumptions named in the
modules: `NetAssumption` (more than three descriptors, at least one block, a
name that is no file), `PeersAssumption`, `RestartAssumption`, `FileServerAssumption`,
`LineServerAssumption`, `CommandServerAssumption`, `StartupAssumption`,
`UdpEchoAssumption`, `LoopsAssumption`. TLC evaluates
each in the runs of its module.

### The proxy (`FtpSystem_proofs`)

**`ListenerAliveHolds`: `Spec => []ListenerAlive`.** The invariant alone is not
inductive: that descriptor 3 stays open depends on no other variable holding the
number 3 *when it is closed*. `ListenerInv` adds that neither the five other
socket variables nor `bytes_creat` are 3. The two lemmas that carry it are `LowestFree` (a call returns a
*free* descriptor; by well-founded minimum) and `CloseKeeps`. A branch assigns
a socket variable only what a call returned, so it is never 3.

**`TypeOKHolds`: `Spec => []TypeOK`.** `TypeOK` says that no failed call leaves
its -1 in a variable and that the command a branch dissects has the parts it
looks for. The strengthening `Inv` adds three facts. `Table`: only
descriptor 3 listens at port 21, else `AcceptClient` might take a data
connection for a client. `BacklogInv`: what waits at port 21 are control
connections, whose number is then a session. `PhaseInv`: a client that waits
for an answer and a server that sends have a transfer, and the file being sent
exists. It needs `ListenerInv` to know which socket is which. One
lemma per action, and `ProxyKept`, `PeersKept` for what the other side leaves alone.

**`CacheStableHolds`: `Spec => CacheStable`.** A finished cache file never
changes: by `PutKept` a write changes a file only through a descriptor that is
open on it (even through a stale `bytes_creat`, which `CachePure` fails on with hasty clients),
and by `RelayKept` `creat()` meets only files that do not exist, because
`isFileExist()` answered no *and* there was a descriptor to ask with. The second half
is needed: at the open-file limit `isFileExist()` answers no for files that
are there, and `creat()` would truncate one if the limit did not make it fail
first and the process exit.

**`RestartTypeOKHolds: RestartSpec => [](TypeOK /\ ListenerAlive)`** and
**`RestartCacheStableHolds: RestartSpec => CacheStable`**: the same however often
the process is killed and started. `RestartInv` shows that a restart
re-establishes `ListenerInv` and `Inv` although connections, clients and server
keep what they had, and touches no file.

**While clients take turns.** Eight invariants of the run `orderly` are theorems of
the form `Orderly => (Spec => []...)`: `ProxySurvivesHolds`, `SelectSafeHolds`,
`InWindowHolds`, `NeverBlocksHolds`, `RolesMatchHolds`, `CacheHandleHolds`,
`CacheFilledHolds` and `FetchedOnceHolds`, for any number of sessions, transfers,
blocks and files. `Orderly` says that `Liberty` is empty, that ten descriptors can be
open, and that clients transfer files by name and download only what the server has.
The run satisfies it, and it is not decoration. TLC violates `CacheHandle` with hasty
clients, `RolesMatch` with aborting ones, `CacheFilled` with early ones, `NeverBlocks`
when the server lacks a file (section 7), and `ProxySurvives` with nine descriptors.
LIST alone is left out because the proof does not follow its stages: with it TLC finds
none of the eight violated in three transfers of one block.

None of the eight is inductive. That `read()` cannot block depends on what is under
way on every connection, that on the stage of the session, and the stage on which
commands and replies the branches have passed on, in which order. `TurnsInv` has six
parts:

- `Descriptors`, `Numbers`: the order of the calls gives every purpose one number: 3
  the listener, 4 and 5 the control pair, 6 the listener for data, 7 and 8 the data
  pair, 9 the cache file. So a stale socket variable holds the number its next use
  will get, which is why numbers that are reused do no harm, and `FD_SET` and `FD_CLR`
  keep pace with the table.
- `Scan`: what the snapshot of `select()` says of a descriptor still ahead in the scan
  is true, or its other end was closed in this very pass. The two exceptions are the
  pairs 5 after 4 and 8 after 7: `FD_ISSET` still holds for a number that is closed,
  and the branch reads from a closed descriptor, which fails harmlessly.
- `Sessions`: a session has not begun, waits at port 21, is served or is over; one at
  most is served. One that is served is in one of the stages of a conversation
  (`Greeting`, `Resting`, `Setup`, `Prepared`, `Asked`, `Sent`, `Moving`, `Answered`,
  `Hidden`, `Quitting`), and the stage says what each of its four queues holds: at
  most one command or the replies to it. `Hidden` is the download that the cache
  answers and of which the server never hears.
- `Transfers`: where the data connection of the last transfer is (`Unopened`,
  `Pending` in the backlog with the other side still to be connected, `Relaying`,
  `HungUp`) and that those of earlier ones are closed and those to come untouched.
- `Fetches`: a cacheable file was not sent, or is in the cache, or is being sent for
  the first time to an active client whose connection is still pending.

There is one lemma per action of clients, server and proxy (`...Turn`), and lemmas
that carry a stage, a data connection or a session unchanged through the steps of
others (`TalkStep`, `DataStays`, `SameStays`). The hardest step is `RelayTurn`: one
branch accepts, connects, opens the cache file and registers both sockets,
and each call's number depends on all that came before.

### What is transferred (`FtpContents_proofs`)

Under the same hypothesis `Orderly`, again for any number of sessions, transfers,
blocks and files.

**`UploadWholeHolds`, `CacheWholeHolds`, `CachePureHolds`, `DownloadWholeHolds`.** A
file is whole at the end because nothing was lost, repeated or reordered on the way, and
this is a statement about several queues at once. `StreamsInv` joins them. For the
last transfer, if it is a download (`Fetching`), what the client has, then what waits for
it, then what waits at the proxy is the file as the server has it, up to the block
it has sent; and the cache file is exactly what has gone to the client. For an upload
(`Storing`), what the server has read, then what waits for it, then what waits at the proxy
is the new version up to the block the client has sent. For every earlier
transfer it says how it ended: a whole file. Files that are not being written are whole
(`ServerFiles`, `CacheFiles`).

`NextStreams` has one lemma per action, in the order of the module, on top of
`TurnsInv`: a step of the conversations leaves the streams alone (`StreamsStay`); a
block that moves one queue on leaves their concatenation as it is (`MovedOn`,
`MovedUp`); only `CliPut` and `SrvSend` lengthen it, by the next block (`SentOn`). The
hard steps are those where a transfer changes hands: `RelayStream` (the relay opens
the cache file, empty, before any block came), `ServedStream` and `FromCache` (the
branch that answers from the cache writes the whole file at once), `EndStream` (the
proxy reads the end of the data and closes both ends: all blocks are through, because
the end of a connection is read after its last block) and `CliDoneStream`. For
uploads `Answered` of `TurnsInv` had to be stronger than the eight properties
needed: when the reply to an upload has come, its data connection is closed *and the
server has closed its own end too*, so that 226 means the file is stored.

**`ImplementsStoreHolds`: `Orderly => (Spec => ImplementsStore)`.** Under the
refinement mapping of `FtpRefinement` the initial state is one of the store
(`InitStore`), and `StepKinds` sorts the steps. A client that starts a transfer is
`Ask` (`StartStep`); the server that stores an upload is `Upload` (`UploadStep`). All
others are `Ordinary`: they leave the server's files and the requests alone.
Of these, a step after which a transfer counts as finished is `Acknowledge` or
`Deliver` (`DoneStep`), one that closes a cache file is `Copy` (`CopyStep`; it may also
be the one that finishes the download, which is why `Deliver` may make the copy), and
the rest are stutters, because a result once given stays (`FinishedStays`) and
a closed copy does, too. `AsDelivered` and `AsStored` compute the versions: that
`VersionOf` returns the version a file was sent with needs that different versions
have different blocks (`VersionIs`).

**`SameVersionHolds`: `Store!Spec => []SameVersion`**, about the store itself: two
downloads of a cacheable file deliver one version, whatever is uploaded between them.
`FromCopy` says that what was delivered *is* the copy, and `CopiesStay` that
a copy, once made, stays. **`SameVersionServed`** joins it with the refinement: the
same holds of the proxy with its clients and server.

**`FirstCrashContained`: `Orderly => (RestartSpec => [](crashes = 0 => CrashContained)`
and `[][crashes = 0 => CrashContained']_restartVars)`**: until the proxy is killed and in
the state after the kill. `AfterKill` shows that the kill itself completes nothing:
the cache file that was open and the download whose connection it ended belong to
the transfer that was under way, whose file is in `damaged`.

### The file servers

**`OwnOnlyHolds`** (`FileServer_proofs`): `OwnInv` adds what a child inherits
between `fork()` and its first `close()`, and that the parent holds exactly
`newsockfd` from `accept()` to `close()`.

**`SavedPrefixHolds`**: what a client has saved is the beginning of the file it asked
for. That alone says nothing of the next block, so `PrefixInv` looks at the
client and its connection as one (`Stream`): the blocks under way are
the lines that follow the ones saved, each with its padding, and the child has sent as
many as its counter says. It also needs that a client which reads whole blocks asks
only once, and that a reset finds a connection nobody will send on.

**`InOrderHolds`, `RemainsHolds`, `NothingStoredHolds`** (`LineServer_proofs`). `InPlace`: a byte
in `readf` stands where it stood in its line, which is why the tail of a block is only
of lines longer than the one in front of it. `Holds` carries that to every byte that is under way or in
`recvline`, and gives `Remains`. `InOrder` needs more (`Ready`): a client that keeps up
has n lines, and what is under way to it is nothing, the last byte of a block (which is
a NUL, because `fgets` leaves room for one), the block of line n + 1 (`LineBlock`), or more
than a block, so that its next read falls behind. When nothing is under way the string in
`recvline` is empty, so that storing it once more at the end of the stream adds nothing. A client whose
request has not been read has nothing (`Unread`), and a connection is reset only in that
state, so `exit()` has nothing to write out: this is `NothingStored`.

**`OwnReplyHolds`, `KeptHolds`** (`CommandServer_proofs`). `Private`: a wire carries nothing or
what its client sent, and `buff` belongs to the client of `connfd` while it is
handled, although it is handled again after a failed `accept()` or `recv()`.
`Circle`: while no damage was done, the file holds the text of the beginning or what
`fgets()` takes of it, and every array, every wire and `buff` the latter; only between
`fopen()` and `fclose()` is the file empty. `CutOnce` is the lemma that a text is not cut a
second time.

### Sockets, UDP and the loops

**`OneSocketHolds`, `OneServerHolds`** (`Startup_proofs`). `OneSocket` follows
from what each process keeps by itself (`Own`); `OneServer` does not: `Apart` says
that no two processes of one port, and no process and a stranger, *listen* on one address
(with UDP: have bound it), and it needs `Own` to know that the socket
a process serves on is the one it called `listen()` for.

**`BehindHolds`, `EchoedHolds`** (`UdpEcho_proofs`): `Inv` says that every
datagram anywhere, under way either way or in the server's buffer, is a line
its sender has typed; and, while nothing was duplicated, that a client has at
most one datagram anywhere, which is of the last line it typed and which it is
waiting for. From this what `recvfrom()` returns can only be the answer to the last line.

**`PromisedHolds`: `Spec => Promised`** (`Loops_proofs`): the loops of `Read.c` and
`Write.c` refine `Transfer`, for every set of sizes and every width of `int`. The
invariant `Counted` says that what has moved and what is left add up to the
size while an `int` holds it, and stay below it otherwise; `ToIntFits` is the lemma about
the conversion. Every step is then a step of `Transfer` or a stutter.

**Model-checked only.** Liveness (`OpCompletes`, `Served`, `HungUp`,
`ChildEnds`, `Answered`, `Turn`, `Progress`, `Reaches`, `Heard`, `Returns`) is out of
the prover's reach. `CrashContained` is proved up to the first kill and the state just
after it (`FirstCrashContained`). What happens next, to the files of the new process
and beyond a second kill, is checked by the run `crash` only: the clients
and server sessions of the killed process go on reading what it had written, and
one of those clients may even start another transfer, so that the last transfer
is no longer the one being served, the fact on which `TurnsInv` is built.

## 9. What is not modelled

- In the proxy: control messages split over or joined in one `read()`; malformed
  PORT, 227 and RETR arguments, the lengths of buffers and names without an
  extension; the 600 s timeout of `select()` (the branch only prints; on Linux
  the time left is written back, so that after 600 s in all the loop spins);
  TIME_WAIT; more than 15 waiting connections; partial writes; errors of `select()`
  other than EBADF.
- `ftp_proxy.c` has the loop of `ftp.c` behind a start-up that fails, and the
  handlers of `proxy.c` are behind a loop that never reaches them: nothing can run
  them. `main.c` is a draft in UTF-16 that does not compile.
- lab4 and Sample are straight-line programs without state; `lab5/udpechosrv.c` and
  `udpechoclt.c` are empty files.
- Of FTP: CWD, which makes one name mean different files while the cache goes by the
  name alone (section 3), and servers that do not read a RETR with a NUL before its line feed.
- In `LineServer` files that contain NULs and full socket buffers. In `CommandServer` messages in parts, a `tmp1` that
  cannot be opened (both programs crash). In `Loops` where the bytes go.
- In the file server reads that stop inside a text (other than after its first
  byte), full socket buffers, a save file that cannot be opened.

## 10. Plan

Done: the proxy with its peers, its abstract store and its restart, both file
servers, the command server, the UDP programs, the start-up loops and the
`Read`/`Write` loops, with a run for each question above.

Next, in this order:

1. *`CrashContained` beyond the first kill*: `TurnsInv` with the transfer that is
   served in the place of the last one, and what the orphans of a killed process may
   still do.
2. *Control messages in parts*: a command that arrives in two reads.
