------------------------- MODULE FtpContents_proofs -------------------------
(***************************************************************************)
(* Proofs about what is transferred: the blocks on their way through the   *)
(* proxy, in its cache and on the server, and what the clients get.        *)
(***************************************************************************)
EXTENDS FtpSystem_proofs, FtpRefinement

(***************************************************************************)
(* The inductive invariant, on top of the one of the conversations: what   *)
(* has arrived of a transfer, followed by what is on its way, is a prefix  *)
(* of one version of the file, as long as what was sent.                   *)
(***************************************************************************)

\* The data connection of transfer n has come and gone.
Handed(n) == NoData /\ cd(n) \in est

\* What the client of a download has and is still to read, and what the server
\* of an upload has read.
Got(n)   == op[n].got \o outq[cd(n)]
Taken(n) == LET v == server[op[n].s] IN IF v.ph = "recv" THEN v.got ELSE <<>>

\* How much of the file the server has sent.
Total(n) ==
    IF sd(n) \in fin THEN NChunk
    ELSE IF server[op[n].s].ph = "send" THEN server[op[n].s].k ELSE 0

\* Nothing has happened to a transfer to come.
Blank(n) == /\ op[n].got = <<>> /\ op[n].put = 0
            /\ outq[cd(n)] = <<>> /\ outq[sd(n)] = <<>>

\* A download under way, and what its client has in the end.
Fetching(n) ==
    LET f == op[n].m.f IN
    IF Handed(n) THEN Got(n) = IF f \in Cacheable THEN disk[f] ELSE sdisk[f]
    ELSE /\ Got(n) \o inq[sd(n)] = SubSeq(sdisk[f], 1, Total(n))
         /\ fdt[9] = CacheFile(f) => disk[f] = Got(n)
         /\ cd(n) \notin est => Got(n) = <<>>

\* An upload under way, and what the server has in the end.
Storing(n) ==
    LET f == op[n].m.f IN
    IF sd(n) \in fin THEN f \in DOMAIN sdisk /\ sdisk[f] = Contents(f, n)
    ELSE /\ Taken(n) \o (outq[sd(n)] \o inq[cd(n)]) = SubSeq(Contents(f, n), 1, op[n].put)
         /\ cd(n) \in fin => op[n].put = NChunk
         /\ Handed(n) => cd(n) \in fin /\ inq[cd(n)] = <<>>

\* The files of the server and of the cache; one that is being written is left
\* to Fetching.
ServerFiles == \A f \in DOMAIN sdisk : Whole(f, sdisk[f])
CacheFiles ==
    \A f \in DOMAIN disk :
        f \in Cacheable /\ (fdt[9] # CacheFile(f) => Whole(f, disk[f]))

\* The server begins a transfer with nothing sent or read, and sends no more
\* than the file.
Begins(s) == /\ server[s].ph = "open" => server[s].k = 0 /\ server[s].got = <<>>
             /\ server[s].ph = "send" => server[s].k <= NChunk
Begun     == \A s \in Session : Begins(s)

Stream(n) ==
    /\ n > nop => Blank(n)
    /\ n <= nop => op[n].s \in Session
    /\ IsGet(n) /\ cd(n) \in fin => Whole(op[n].m.f, op[n].got)
    /\ IsGet(n) /\ n = nop /\ cd(n) \notin fin => Fetching(n)
    /\ IsPut(n) /\ n = nop => Storing(n)

\* StreamsInv: the inductive invariant of the contents.
StreamsInv == ServerFiles /\ CacheFiles /\ Begun /\ \A n \in Op : Stream(n)

-----------------------------------------------------------------------------
(***************************************************************************)
(* Sequences, and the blocks of a file.                                    *)
(***************************************************************************)

\* MovedOn: a message that goes from the front of one queue to the end of the
\* one before it does not change what the two hold.
LEMMA MovedOn ==
    ASSUME NEW S, NEW p \in Seq(S), NEW q \in Seq(S), q # <<>>
    PROVE  /\ Append(p, Head(q)) \o Tail(q) = p \o q
           /\ (p \o <<Head(q)>>) \o Tail(q) = p \o q
           /\ Head(q) \in S /\ Tail(q) \in Seq(S)
<1>1. Head(q) \in S /\ Tail(q) \in Seq(S)
  BY HeadTailProperties
<1>2. <<Head(q)>> \o Tail(q) = q
  <2>1. Len(q) \in Nat /\ Len(q) >= 1
    BY EmptySeq
  <2>2. SubSeq(q, 1, Len(q)) = <<q[1]>> \o SubSeq(q, 2, Len(q))
    BY <2>1, SubSeqRecursiveFirst
  <2>3. SubSeq(q, 1, Len(q)) = q /\ Tail(q) = SubSeq(q, 2, Len(q)) /\ Head(q) = q[1]
    BY SubSeqFull, TailIsSubSeq
  <2> QED  BY <2>2, <2>3
<1>3. <<Head(q)>> \in Seq(S) /\ Append(p, Head(q)) = p \o <<Head(q)>>
  BY <1>1, AppendIsConcat
<1>4. (p \o <<Head(q)>>) \o Tail(q) = p \o q
  BY <1>1, <1>2, <1>3, ConcatAssociative
<1> QED  BY <1>1, <1>3, <1>4

\* MovedUp: the same with what follows the second queue.
LEMMA MovedUp ==
    ASSUME NEW S, NEW p \in Seq(S), NEW q \in Seq(S), NEW r \in Seq(S), q # <<>>
    PROVE  /\ Append(p, Head(q)) \o (Tail(q) \o r) = p \o (q \o r)
           /\ (p \o <<Head(q)>>) \o (Tail(q) \o r) = p \o (q \o r)
<1>1. /\ Append(p, Head(q)) \o Tail(q) = p \o q /\ Head(q) \in S /\ Tail(q) \in Seq(S)
  BY MovedOn
<1>2. Append(p, Head(q)) \in Seq(S) /\ Append(p, Head(q)) = p \o <<Head(q)>>
  BY <1>1, AppendProperties, AppendIsConcat
<1>3. PICK a \in Seq(S), b \in Seq(S) : a = Append(p, Head(q)) /\ b = Tail(q)
  BY <1>1, <1>2
<1>4. (a \o b) \o r = a \o (b \o r)
  OBVIOUS
<1>5. (p \o q) \o r = p \o (q \o r)
  OBVIOUS
<1>6. a \o b = p \o q
  BY <1>1, <1>3
<1>7. a \o (b \o r) = p \o (q \o r)
  BY <1>4, <1>5, <1>6, Zenon
<1>8. Append(p, Head(q)) \o (Tail(q) \o r) = p \o (q \o r)
  BY <1>3, <1>7, Zenon
<1> QED  BY <1>2, <1>8

\* SentOn: a message sent goes to the end of all that was sent.
LEMMA SentOn ==
    ASSUME NEW S, NEW p \in Seq(S), NEW q \in Seq(S), NEW m \in S
    PROVE  p \o Append(q, m) = Append(p \o q, m)
<1>1. <<m>> \in Seq(S) /\ p \o q \in Seq(S)
  BY ConcatProperties
<1> QED  BY <1>1, AppendIsConcat, ConcatAssociative

\* Prefixes: the first k elements of a sequence, and one more.
LEMMA Prefixes ==
    ASSUME NEW S, NEW q \in Seq(S)
    PROVE  /\ SubSeq(q, 1, 0) = <<>>
           /\ SubSeq(q, 1, Len(q)) = q
           /\ \A k \in Nat : k < Len(q) =>
                 SubSeq(q, 1, k + 1) = Append(SubSeq(q, 1, k), q[k + 1])
<1>1. SubSeq(q, 1, 0) = <<>>
  BY SubSeqEmpty
<1>2. SubSeq(q, 1, Len(q)) = q
  BY SubSeqFull
<1>3. ASSUME NEW k \in Nat, k < Len(q)
      PROVE  SubSeq(q, 1, k + 1) = Append(SubSeq(q, 1, k), q[k + 1])
  <2>1. 1 \in 1..Len(q) /\ k + 1 \in 1..Len(q) /\ (k + 1) - 1 = k /\ Len(q) \in Nat
    BY <1>3
  <2>2. SubSeq(q, 1, k + 1) = SubSeq(q, 1, k) \o <<q[k + 1]>>
    BY <2>1, SubSeqRecursiveSecond
  <2>3. \A i \in 1..k : q[i] \in S
    BY <2>1
  <2>4. SubSeq(q, 1, k) \in Seq(S)
    BY <2>3, SubSeqProperties
  <2>5. q[k + 1] \in S
    BY <2>1
  <2> QED  BY <2>2, <2>4, <2>5, AppendIsConcat
<1> QED  BY <1>1, <1>2, <1>3

\* BlocksOf: a version of a file is NChunk blocks of it.
LEMMA BlocksOf ==
    ASSUME NEW f \in File, NEW v \in {0} \cup Op
    PROVE  /\ Contents(f, v) \in Seq(Msg) /\ Len(Contents(f, v)) = NChunk
           /\ NChunk \in Nat /\ NChunk > 0
           /\ \A k \in 1..NChunk : Contents(f, v)[k] \in Msg /\ Contents(f, v)[k].f = f
                                   /\ Contents(f, v)[k].v = v
<1>1. \A k \in 1..NChunk : [t |-> "data", f |-> f, v |-> v, k |-> k] \in Msg
  BY DEF Msg, Block
<1>2. NChunk \in Nat /\ NChunk > 0
  BY NetAssumption
<1>3. Contents(f, v) \in [1..NChunk -> Msg]
  BY <1>1 DEF Contents
<1>4. Contents(f, v) \in Seq(Msg) /\ Len(Contents(f, v)) = NChunk
  BY <1>2, <1>3
<1>5. \A k \in 1..NChunk : Contents(f, v)[k] = [t |-> "data", f |-> f, v |-> v, k |-> k]
  BY DEF Contents
<1> QED  BY <1>1, <1>2, <1>4, <1>5

\* WholeIs: so is a file that is whole.
LEMMA WholeIs ==
    ASSUME NEW f \in File, NEW q, Whole(f, q)
    PROVE  /\ q \in Seq(Msg) /\ Len(q) = NChunk
           /\ \A k \in 1..NChunk : q[k].f = f
BY BlocksOf DEF Whole

-----------------------------------------------------------------------------
(***************************************************************************)
(* What a step leaves alone.                                               *)
(***************************************************************************)

\* A step that moves no block, opens and closes no data connection and no file,
\* and finds no server in a transfer or leaves it where it was.
Away(s) == server[s].ph \notin {"send", "recv"}
Untouched(n) ==
    /\ op'[n].m = op[n].m /\ op'[n].s = op[n].s
    /\ op'[n].got = op[n].got /\ op'[n].put = op[n].put
    /\ inq'[cd(n)] = inq[cd(n)] /\ inq'[sd(n)] = inq[sd(n)]
    /\ outq'[cd(n)] = outq[cd(n)] /\ outq'[sd(n)] = outq[sd(n)]
    /\ cd(n) \in fin' <=> cd(n) \in fin
    /\ sd(n) \in fin' <=> sd(n) \in fin
ServersStay ==
    \A s \in Session : server'[s] = server[s] \/ (Away(s) /\ Away(s)' /\ Begins(s)')
Undisturbed ==
    /\ UNCHANGED <<nop, sdisk, disk>> /\ fdt'[9] = fdt[9] /\ ServersStay
    /\ est \subseteq est'
    /\ \A n \in Op : Untouched(n) /\ (n = nop => (Handed(n)' <=> Handed(n)))

\* What a step may do to the cache: nothing, or close the file that is open, or
\* write to it, or create one.  A data connection that has come and gone stays
\* gone.
CacheAdvance ==
    \/ disk' = disk /\ fdt'[9] \in {fdt[9], Free}
    \/ \E f \in File :
          /\ fdt[9] = CacheFile(f) /\ fdt'[9] = CacheFile(f) /\ DOMAIN disk' = DOMAIN disk
          /\ \A g \in DOMAIN disk \ {f} : disk'[g] = disk[g]
    \/ \E f \in File \ DOMAIN disk :
          /\ fdt[9] = Free /\ fdt'[9] = CacheFile(f) /\ DOMAIN disk' = DOMAIN disk \cup {f}
          /\ \A g \in DOMAIN disk : disk'[g] = disk[g]
Advance == CacheAdvance /\ \A n \in Op : n = nop /\ Handed(n) => Handed(n)'

\* StillAdvance: a step that does neither.
LEMMA StillAdvance ==
    ASSUME disk' = disk, fdt'[9] = fdt[9], \A n \in Op : n = nop => (Handed(n)' <=> Handed(n))
    PROVE  Advance
BY DEF Advance, CacheAdvance

\* StreamStays: what is said of one transfer.
LEMMA StreamStays ==
    ASSUME NEW n \in Op, UNCHANGED <<nop, sdisk, disk>>, fdt'[9] = fdt[9], ServersStay,
           est \subseteq est',
           Untouched(n), n = nop => (Handed(n)' <=> Handed(n)), Stream(n), nop \in Nat
    PROVE  Stream(n)'
<1>1. /\ op'[n].m = op[n].m /\ op'[n].s = op[n].s
      /\ op'[n].got = op[n].got /\ op'[n].put = op[n].put
      /\ inq'[cd(n)] = inq[cd(n)] /\ inq'[sd(n)] = inq[sd(n)]
      /\ outq'[cd(n)] = outq[cd(n)] /\ outq'[sd(n)] = outq[sd(n)]
      /\ cd(n) \in fin' <=> cd(n) \in fin
      /\ sd(n) \in fin' <=> sd(n) \in fin
      /\ nop' = nop /\ sdisk' = sdisk /\ disk' = disk
  BY DEF Untouched
<1>2. Got(n)' = Got(n) /\ (IsGet(n)' <=> IsGet(n)) /\ (IsPut(n)' <=> IsPut(n))
  BY <1>1 DEF Got, IsGet, IsPut
<1>3. n > nop => Blank(n)'
  BY <1>1 DEF Stream, Blank
<1>4. n <= nop => op'[n].s \in Session
  BY <1>1 DEF Stream
<1>5. IsGet(n)' /\ cd(n) \in fin' => Whole(op'[n].m.f, op'[n].got)
  BY <1>1, <1>2 DEF Stream
<1>6. n <= nop => Taken(n)' = Taken(n) /\ Total(n)' = Total(n)
  <2> SUFFICES ASSUME n <= nop PROVE Taken(n)' = Taken(n) /\ Total(n)' = Total(n)
    OBVIOUS
  <2>1. op[n].s \in Session
    BY DEF Stream
  <2>2. CASE server'[op[n].s] = server[op[n].s]
    BY <1>1, <2>2 DEF Taken, Total
  <2>3. CASE Away(op[n].s) /\ server'[op[n].s].ph \notin {"send", "recv"}
    BY <1>1, <2>3 DEF Taken, Total, Away
  <2> QED  BY <2>1, <2>2, <2>3 DEF Away, ServersStay
<1>7. ASSUME IsGet(n)', n = nop', cd(n) \notin fin' PROVE Fetching(n)'
  <2>1. Fetching(n) /\ n <= nop /\ (Handed(n)' <=> Handed(n))
    BY <1>1, <1>2, <1>7 DEF Stream
  <2>2. Taken(n)' = Taken(n) /\ Total(n)' = Total(n)
    BY <1>6, <2>1
  <2> QED  BY <1>1, <1>2, <2>1, <2>2 DEF Fetching
<1>8. ASSUME IsPut(n)', n = nop' PROVE Storing(n)'
  <2>1. Storing(n) /\ n <= nop /\ (Handed(n)' <=> Handed(n))
    BY <1>1, <1>2, <1>8 DEF Stream
  <2>2. Taken(n)' = Taken(n) /\ Total(n)' = Total(n)
    BY <1>6, <2>1
  <2> QED  BY <1>1, <1>2, <2>1, <2>2 DEF Storing
<1> QED  BY <1>1, <1>3, <1>4, <1>5, <1>7, <1>8 DEF Stream

\* FilesStay: what is said of the files, when they stay and none is opened or
\* closed.
LEMMA FilesStay ==
    ASSUME StreamsInv, UNCHANGED <<sdisk, disk>>, fdt'[9] = fdt[9]
    PROVE  ServerFiles' /\ CacheFiles'
BY DEF StreamsInv, ServerFiles, CacheFiles

\* BegunStays: what is said of the servers.
LEMMA BegunStays ==
    ASSUME StreamsInv, ServersStay
    PROVE  Begun'
BY DEF StreamsInv, Begun, Begins, ServersStay

\* StreamsStay: the invariant, after a step that leaves all of it alone.
LEMMA StreamsStay == ASSUME Calm, StreamsInv, Undisturbed PROVE StreamsInv' /\ Advance
<1>1. nop \in Nat
  BY Calmly
<1>2. \A n \in Op : Stream(n)'
  BY <1>1, StreamStays DEF StreamsInv, Undisturbed
<1>3. ServerFiles' /\ CacheFiles'
  BY FilesStay DEF Undisturbed
<1>4. Begun'
  BY BegunStays DEF Undisturbed
<1>5. Advance
  BY StillAdvance DEF Undisturbed
<1> QED  BY <1>2, <1>3, <1>4, <1>5 DEF StreamsInv

\* NotLast: of the transfers before the last one only the downloads matter,
\* and they are over.
LEMMA NotLast ==
    ASSUME Calm, NEW n \in Op, n # nop, n <= nop
    PROVE  cd(n) \in fin
<1>1. n < nop
  BY Calmly DEF Op
<1> QED  BY <1>1, Calmly DEF Transfers, Past

\* OthersStay: a step concerns the last transfer only.
LEMMA OthersStay ==
    ASSUME Calm, StreamsInv, nop' = nop, NEW k \in Op, k # nop,
           op'[k].m = op[k].m, op'[k].s = op[k].s, op'[k].got = op[k].got,
           op'[k].put = op[k].put,
           outq'[cd(k)] = outq[cd(k)], outq'[sd(k)] = outq[sd(k)],
           k > nop /\ cd(k) \in fin' => cd(k) \in fin
    PROVE  Stream(k)'
<1>1. Stream(k) /\ nop \in Nat /\ k \in Nat
  BY Calmly DEF StreamsInv, Op
<1>2. (k > nop' => Blank(k)') /\ (k <= nop' => op'[k].s \in Session)
  BY <1>1 DEF Stream, Blank
<1>3. IsGet(k)' /\ cd(k) \in fin' => Whole(op'[k].m.f, op'[k].got)
  <2> SUFFICES ASSUME op[k].m.t = "RETR", cd(k) \in fin' PROVE Whole(op[k].m.f, op[k].got)
    BY DEF IsGet
  <2>1. CASE k > nop
    BY <1>1, <2>1 DEF Stream, IsGet
  <2>2. CASE k <= nop
    BY <1>1, <2>2, NotLast DEF Stream, IsGet
  <2> QED  BY <1>1, <2>1, <2>2
<1> QED  BY <1>2, <1>3 DEF Stream

\* Before a client has sent its command, nothing is open for data.
Settled ==
    Calm => \A s \in Session :
                client[s].ph \in {"greet", "idle", "setup", "ready"} => NoData
\* SettledHolds: nor after the transfer, until the next command.
LEMMA SettledHolds == Settled
<1> SUFFICES ASSUME Calm, NEW s \in Session,
                    client[s].ph \in {"greet", "idle", "setup", "ready"}
             PROVE  NoData
  BY DEF Settled
<1>1. Sessions
  BY Calmly
<1>2. CASE Serving(s)
  <2>1. CASE client[s].ph \in {"greet", "idle"}
    BY <1>2, <2>1, StageOf
  <2>2. CASE client[s].ph \in {"setup", "ready"}
    <3>1. PICK n \in Op : n = nop /\ client[s].n = n /\ (Preparing(s, n) \/ Busy(s, n))
      BY <1>2, <2>2, StageOf
    <3>2. ~Busy(s, n)
      BY <2>2 DEF Busy
    <3> QED  BY <3>1, <3>2 DEF Preparing
  <2> QED  BY <2>1, <2>2
<1>3. CASE Queued(s)
  BY <1>1, <1>3 DEF Sessions, Queued
<1> QED  BY <1>1, <1>2, <1>3, WhoIsServed

\* SettledAfter: the same of the state after a step.
LEMMA SettledAfter == Settled'
BY SettledHolds, PTL

\* AtRest: so a step before the command leaves nothing open either.
LEMMA AtRest ==
    ASSUME Calm, Calm', NEW s \in Session,
           client[s].ph \in {"greet", "idle", "setup", "ready"},
           client'[s].ph \in {"greet", "idle", "setup", "ready"}
    PROVE  NoData /\ NoData' /\ fdt[9] = Free /\ fdt'[9] = Free
<1>1. NoData
  BY SettledHolds DEF Settled
<1>2. NoData'
  BY SettledAfter DEF Settled
<1> QED  BY <1>1, <1>2 DEF NoData, NoRelay

\* Spoken: a step that concerns the control connections of one session only.
LEMMA Spoken ==
    ASSUME Calm, StreamsInv, NEW s \in Session,
           UNCHANGED <<fdt, disk, nop, sdisk>>, \A p \in Op : backlog'[p] = backlog[p],
           ServersStay, est \subseteq est',
           \A n \in Op : /\ op'[n].m = op[n].m /\ op'[n].s = op[n].s
                         /\ op'[n].got = op[n].got /\ op'[n].put = op[n].put,
           \A c \in Conn \ {cc(s), sc(s)} :
              /\ inq'[c] = inq[c] /\ outq'[c] = outq[c]
              /\ (c \in est' <=> c \in est) /\ (c \in fin' <=> c \in fin)
    PROVE  StreamsInv' /\ Advance
<1>1. NoData' <=> NoData
  BY DEF NoData, NoRelay
<1>2. \A n \in Op : cd(n) \in Conn \ {cc(s), sc(s)} /\ sd(n) \in Conn \ {cc(s), sc(s)}
  BY ConnType, Distinct
<1>3. \A n \in Op : Untouched(n)
  BY <1>2 DEF Untouched
<1>4. \A n \in Op : Handed(n)' <=> Handed(n)
  BY <1>1, <1>2 DEF Handed
<1> QED  BY <1>3, <1>4, StreamsStay DEF Undisturbed

\* A reply, a command, a greeting: nothing of the data moves.
LEMMA CliConnectStream ==
    ASSUME Calm, StreamsInv, NEW s \in Session, CliConnect(s) PROVE StreamsInv' /\ Advance
<1>1. /\ UNCHANGED <<fdt, disk, nop, sdisk, op, server, inq, outq, fin>>
      /\ est' = est \cup {cc(s)} /\ \A p \in Op : backlog'[p] = backlog[p]
  <2>1. UNCHANGED <<fdt, disk, nop, sdisk, op, server, inq, outq, fin>>
    BY DEF CliConnect, proxyOwn
  <2>2. est' = est \cup {cc(s)} /\ backlog' = [backlog EXCEPT ![CmdPort] = Append(@, cc(s))]
    BY DEF CliConnect, Connect
  <2>3. \A p \in Op : p # CmdPort
    BY DEF Op, CmdPort
  <2>4. backlog \in [Port -> Seq(Conn)] /\ Op \subseteq Port
    BY Calmly DEF NetOK, Port
  <2> QED  BY <2>1, <2>2, <2>3, <2>4
<1> QED  BY <1>1, Spoken DEF ServersStay

\* A reply is read.
LEMMA CliHearStream ==
    ASSUME Calm, StreamsInv, NEW s \in Session, Hear(cc(s)),
           UNCHANGED <<proxyOwn, inq, fin, backlog, est, nop, server, sdisk>>,
           \A n \in Op : /\ op'[n].m = op[n].m /\ op'[n].s = op[n].s
                         /\ op'[n].got = op[n].got /\ op'[n].put = op[n].put
    PROVE  StreamsInv' /\ Advance
<1>1. \A c \in Conn \ {cc(s), sc(s)} : outq'[c] = outq[c]
  BY Conversed, Calmly
<1>2. UNCHANGED <<fdt, disk>>
  BY DEF proxyOwn
<1> QED  BY <1>1, <1>2, Spoken DEF ServersStay

\* A command is sent.
LEMMA CliTellStream ==
    ASSUME Calm, StreamsInv, NEW s \in Session, NEW m, Tell(cc(s), m),
           UNCHANGED <<proxyOwn, outq, fin, backlog, est, nop, op, server, sdisk>>
    PROVE  StreamsInv' /\ Advance
<1>1. \A c \in Conn \ {cc(s), sc(s)} : inq'[c] = inq[c]
  BY Conversed, Calmly
<1>2. UNCHANGED <<fdt, disk>>
  BY DEF proxyOwn
<1> QED  BY <1>1, <1>2, Spoken DEF ServersStay

\* CliReplyStream: the final reply changes what the client thinks of its
\* transfer, and nothing of what it has.
LEMMA CliReplyStream ==
    ASSUME Calm, StreamsInv, NEW s \in Session, CliReply(s) PROVE StreamsInv' /\ Advance
<1>1. Hear(cc(s)) /\ UNCHANGED <<proxyOwn, inq, fin, backlog, est, nop, server, sdisk>>
  BY DEF CliReply, CliHear, remote
<1>2. PICK r : op' = [op EXCEPT ![client[s].n].reply = r]
  BY DEF CliReply
<1>3. \A n \in Op : /\ op'[n].m = op[n].m /\ op'[n].s = op[n].s
                    /\ op'[n].got = op[n].got /\ op'[n].put = op[n].put
  BY <1>2, Calmly DEF OpState
<1> QED  BY <1>1, <1>3, CliHearStream

\* CliCloseStream: a client leaves when its session is over.
LEMMA CliCloseStream ==
    ASSUME Calm, StreamsInv, NEW s \in Session, CliClose(s) PROVE StreamsInv' /\ Advance
<1>1. Leave(s) /\ ((client[s].ph = "quit" /\ outq[cc(s)] # <<>>) \/ Ended(cc(s)))
  BY DEF CliClose
<1>2. Sessions /\ client[s].ph \notin {"off", "gone"}
  BY <1>1, Calmly DEF Leave
<1>3. Over(s) \/ (Serving(s) /\ client[s].ph \in {"greet", "idle", "quit"})
  <2>1. CASE client[s].ph = "quit"
    BY <1>2, <2>1, WhoIsServed
  <2>2. CASE Ended(cc(s))
    <3>1. ~Held(cc(s)) /\ status = "running"
      BY <2>2, Calmly DEF Ended, Descriptors
    <3>2. 5 \in Fd /\ CmdPort \in Port
      BY LowFds DEF Calm, Port
    <3>3. fdt[5] # cc(s)
      BY <3>1, <3>2 DEF Held
    <3>4. ~Serving(s)
      BY <3>3 DEF Serving, Pair
    <3>5. ~Queued(s)
      <4>1. ASSUME backlog[CmdPort] = <<cc(s)>> PROVE FALSE
        <5>1. 1 \in DOMAIN backlog[CmdPort] /\ backlog[CmdPort][1] = cc(s)
          BY <4>1
        <5> QED  BY <3>1, <3>2, <5>1 DEF Held
      <4> QED  BY <4>1 DEF Queued
    <3> QED  BY <1>2, <3>4, <3>5 DEF Sessions, Off
  <2> QED  BY <1>1, <2>1, <2>2
<1>4. fin' = fin \cup {cc(s)}
  BY <1>1, <1>3, Left
<1>5. UNCHANGED <<fdt, disk, inq, outq, backlog, est, op, nop, server, sdisk>>
  BY <1>1 DEF Leave, proxyOwn
<1> QED  BY <1>4, <1>5, Spoken DEF ServersStay

\* Ways: where the data connection of the transfer under way can be.
LEMMA Ways ==
    ASSUME Calm, NEW s \in Session, NEW n \in Op, Busy(s, n)
    PROVE  Unopened(n) \/ Pending(n) \/ Relaying(n) \/ HungUp(n)
<1>1. CASE Asked(s, n)
  BY <1>1 DEF Asked
<1>2. CASE Sent(s, n)
  BY <1>2 DEF Sent, Late
<1>3. CASE Moving(s, n)
  BY <1>3 DEF Moving, Late
<1>4. CASE Answered(s, n)
  BY <1>4 DEF Answered
<1>5. CASE Hidden(s, n)
  BY <1>5 DEF Hidden
<1> QED  BY <1>1, <1>2, <1>3, <1>4, <1>5 DEF Busy

\* WaysApart: only after it was relayed, or sent from the cache, there is a
\* data connection of the client and none in the proxy.
LEMMA WaysApart ==
    ASSUME Calm, NEW n \in Op
    PROVE  /\ Unopened(n) => ~Handed(n) /\ cd(n) \notin est
           /\ Pending(n) => ~NoData /\ ~Handed(n)
           /\ Relaying(n) => ~NoData /\ ~Handed(n)
           /\ HungUp(n) => Handed(n)
<1>1. Unopened(n) => ~Handed(n) /\ cd(n) \notin est
  BY DEF Unopened, Fresh, Handed
<1>2. Pending(n) => ~NoData /\ ~Handed(n)
  <2>1. <<First(n)>> # <<>>
    OBVIOUS
  <2> QED  BY <2>1 DEF Pending, NoData, Handed
<1>3. Relaying(n) => ~NoData /\ ~Handed(n)
  <2>1. Relaying(n) => fdt[7] # Free
    BY ConnType, Kinds DEF Relaying
  <2> QED  BY <2>1 DEF NoData, NoRelay, Handed
<1>4. HungUp(n) => Handed(n)
  BY DEF HungUp, Handed
<1> QED  BY <1>1, <1>2, <1>3, <1>4

\* CliStartStream: the next transfer begins with nothing sent.
LEMMA CliStartStream ==
    ASSUME Calm, StreamsInv, NEW s \in Session, NEW mode \in Mode, NEW m \in Want,
           CliStart(s, mode, m)
    PROVE  StreamsInv' /\ Advance
<1> USE Calmly
<1>0. PICK n \in Op : n = nop + 1
  BY NetAssumption DEF CliStart, Op
<1>1. /\ client[s].ph = "idle" /\ nop' = n
      /\ op' = [op EXCEPT ![n].s = s, ![n].mode = mode, ![n].m = m]
      /\ Tell(cc(s), [t |-> mode, n |-> n, at |-> "client"])
      /\ UNCHANGED <<proxyOwn, outq, fin, backlog, est, server, sdisk>>
  BY <1>0 DEF CliStart
<1>2. n \in Nat
  BY DEF Op
<1>3. UNCHANGED <<fdt, disk>>
  BY <1>1 DEF proxyOwn
<1>4. Serving(s) /\ NoData /\ server[s].ph = "idle"
  BY <1>1, WhoIsServed, StageOf DEF Resting
<1>5. \A k \in Op \ {n} : op'[k] = op[k]
  BY <1>1, <1>2
<1>6. /\ op'[n].s = s /\ op'[n].m = m /\ op'[n].got = op[n].got /\ op'[n].put = op[n].put
  BY <1>1, <1>2 DEF OpState
<1>7. \A k \in Op : inq'[cd(k)] = inq[cd(k)] /\ inq'[sd(k)] = inq[sd(k)]
  <2>1. \A k \in Op : cd(k) \in Conn \ {cc(s), sc(s)} /\ sd(k) \in Conn \ {cc(s), sc(s)}
    BY ConnType, Distinct
  <2>2. \A c \in Conn \ {cc(s), sc(s)} : inq'[c] = inq[c]
    BY <1>1, Conversed
  <2> QED  BY <2>1, <2>2
<1>8. ServerFiles' /\ CacheFiles' /\ Begun'
  BY <1>1, <1>3, FilesStay, BegunStays DEF ServersStay
<1>9. ASSUME NEW k \in Op, k # n PROVE Stream(k)'
  <2>1. op'[k] = op[k] /\ Stream(k)
    BY <1>5, <1>9 DEF StreamsInv
  <2>2. k > nop' => Blank(k)'
    <3>1. k > nop' => k > nop
      BY <1>0, <1>1, <1>2 DEF Op
    <3> QED  BY <1>1, <2>1, <3>1 DEF Stream, Blank
  <2>3. k <= nop' => op'[k].s \in Session
    <3>1. k <= nop' => k <= nop
      BY <1>0, <1>1, <1>9 DEF Op
    <3> QED  BY <2>1, <3>1 DEF Stream
  <2>4. IsGet(k)' /\ cd(k) \in fin' => Whole(op'[k].m.f, op'[k].got)
    BY <1>1, <2>1 DEF Stream, IsGet
  <2> QED  BY <1>1, <1>9, <2>2, <2>3, <2>4 DEF Stream
<1>10. Stream(n)'
  <2>1. n > nop /\ n <= nop' /\ ~(n > nop')
    BY <1>0, <1>1, <1>2
  <2>2. /\ op[n].got = <<>> /\ op[n].put = 0
        /\ outq[cd(n)] = <<>> /\ outq[sd(n)] = <<>>
    BY <1>2, <2>1 DEF StreamsInv, Stream, Blank
  <2>3. Fresh(n) /\ op[n].m = Junk
    BY <1>2, <2>1 DEF Transfers
  <2>4. inq[cd(n)] = <<>> /\ inq[sd(n)] = <<>>
    <3>1. ~IsGet(n) /\ ~IsPut(n)
      BY <2>3, Words DEF IsGet, IsPut
    <3> QED  BY <1>2, <3>1 DEF Transfers
  <2>5. cd(n) \notin est' /\ cd(n) \notin fin' /\ sd(n) \notin fin'
    BY <1>1, <2>3 DEF Fresh
  <2>6. /\ op'[n].got = <<>> /\ op'[n].put = 0 /\ outq'[cd(n)] = <<>> /\ outq'[sd(n)] = <<>>
        /\ inq'[cd(n)] = <<>> /\ inq'[sd(n)] = <<>>
    BY <1>1, <1>2, <1>6, <1>7, <2>2, <2>4
  <2>7. ~Handed(n)' /\ server'[op'[n].s].ph = "idle"
    BY <1>1, <1>4, <1>6, <2>5 DEF Handed
  <2>8. Total(n)' = 0 /\ Taken(n)' = <<>>
    BY <2>5, <2>7 DEF Total, Taken
  <2>9. \A q : SubSeq(q, 1, 0) = <<>>
    BY SubSeqEmpty
  <2>10. <<>> \o <<>> = <<>>
    BY ConcatEmptySeq, EmptySeq
  <2>11. fdt'[9] # CacheFile(m.f)
    <3>1. m.f \in File
      BY DEF Calm, Orderly, Named
    <3> QED  BY <1>3, <1>4, <3>1, Kinds DEF NoData, NoRelay
  <2>12. Fetching(n)'
    BY <1>6, <2>6, <2>7, <2>8, <2>9, <2>10, <2>11 DEF Fetching, Got
  <2>13. Storing(n)'
    BY <1>6, <2>5, <2>6, <2>7, <2>8, <2>9, <2>10 DEF Storing
  <2> QED  BY <1>6, <2>1, <2>5, <2>12, <2>13 DEF Stream
<1>11. Advance
  BY <1>1, <1>3, StillAdvance DEF Handed, NoData, NoRelay
<1> QED  BY <1>8, <1>9, <1>10, <1>11 DEF StreamsInv

\* LastMoves: a step that concerns the last transfer only.
LEMMA LastMoves ==
    ASSUME Calm, StreamsInv, nop' = nop,
           \A k \in Op \ {nop} :
              /\ op'[k].m = op[k].m /\ op'[k].s = op[k].s /\ op'[k].got = op[k].got
              /\ op'[k].put = op[k].put
              /\ outq'[cd(k)] = outq[cd(k)] /\ outq'[sd(k)] = outq[sd(k)]
              /\ k > nop /\ cd(k) \in fin' => cd(k) \in fin,
           ServerFiles', CacheFiles', Begun', \A n \in Op : n = nop => Stream(n)'
    PROVE  StreamsInv'
<1>1. ASSUME NEW k \in Op PROVE Stream(k)'
  <2>1. CASE k = nop
    BY <2>1
  <2>2. CASE k # nop
    BY <2>2, OthersStay
  <2> QED  BY <2>1, <2>2
<1> QED  BY <1>1 DEF StreamsInv

\* LastIs: the last transfer is the one of the session that is busy.
LEMMA LastIs ==
    ASSUME Calm, NEW s \in Session, NEW n \in Op, client[s].n = n
    PROVE  op[n].s = s
<1>1. Numbered(s)
  BY Calmly DEF Sessions
<1>2. n # 0
  BY DEF Op
<1> QED  BY <1>1, <1>2 DEF Numbered

\* GotOne: a block read by the client stays part of what it has.
LEMMA GotOne ==
    ASSUME Calm, NEW n \in Op, outq[cd(n)] # <<>>,
           op'[n].got = Append(op[n].got, Head(outq[cd(n)])),
           outq'[cd(n)] = Tail(outq[cd(n)])
    PROVE  Got(n)' = Got(n)
<1>1. PICK g \in Seq(Msg), q \in Seq(Msg) : g = op[n].got /\ q = outq[cd(n)]
  BY Calmly, ConnType DEF OpState
<1>2. q # <<>>
  BY <1>1
<1>3. Append(g, Head(q)) \o Tail(q) = g \o q
  BY ONLY <1>2, MovedOn
<1> QED  BY <1>1, <1>3 DEF Got

\* CliGetStream: the client of a download reads a block.
LEMMA CliGetStream ==
    ASSUME Calm, StreamsInv, NEW n \in Op, CliGet(n) PROVE StreamsInv' /\ Advance
<1>1. /\ outq[cd(n)] # <<>> /\ cd(n) \notin fin /\ Hear(cd(n))
      /\ op' = [op EXCEPT ![n].got = Append(@, Head(outq[cd(n)]))]
      /\ UNCHANGED <<fdt, disk, inq, fin, backlog, est, nop, server, sdisk>>
  BY DEF CliGet, proxyOwn, remote
<1>2. n = nop
  <2>1. n <= nop
    BY <1>1, Calmly DEF StreamsInv, Stream, Blank, Op
  <2> QED  BY <1>1, <2>1, NotLast
<1>3. /\ op'[n].m = op[n].m /\ op'[n].s = op[n].s /\ op'[n].put = op[n].put
      /\ op'[n].got = Append(op[n].got, Head(outq[cd(n)]))
      /\ \A k \in Op \ {n} : op'[k] = op[k]
  BY <1>1, Calmly DEF OpState
<1>4. outq'[cd(n)] = Tail(outq[cd(n)]) /\ \A c \in Conn \ {cd(n)} : outq'[c] = outq[c]
  BY <1>1, Calmly, Heard, ConnType
<1>5. /\ outq'[sd(n)] = outq[sd(n)]
      /\ \A k \in Op \ {n} : outq'[cd(k)] = outq[cd(k)] /\ outq'[sd(k)] = outq[sd(k)]
  BY <1>4, ConnType, Distinct
<1>6. Got(n)' = Got(n)
  BY <1>1, <1>3, <1>4, GotOne
<1>7. (IsGet(n)' <=> IsGet(n)) /\ (IsPut(n)' <=> IsPut(n)) /\ (Handed(n)' <=> Handed(n))
      /\ Taken(n)' = Taken(n) /\ Total(n)' = Total(n)
  BY <1>1, <1>3 DEF IsGet, IsPut, Handed, NoData, NoRelay, Taken, Total
<1>8. Stream(n) /\ nop \in Nat
  BY Calmly DEF StreamsInv
<1>9. IsGet(n) => Fetching(n)'
  <2>1. IsGet(n) => Fetching(n)
    BY <1>1, <1>2, <1>8 DEF Stream
  <2> QED  BY <1>1, <1>3, <1>6, <1>7, <2>1 DEF Fetching
<1>10. IsPut(n) => Storing(n)'
  <2>1. IsPut(n) => Storing(n)
    BY <1>1, <1>2, <1>8 DEF Stream
  <2> QED  BY <1>1, <1>3, <1>5, <1>7, <2>1 DEF Storing
<1>11. Stream(n)'
  <2>1. op'[n].s \in Session /\ ~(n > nop')
    BY <1>1, <1>2, <1>3, <1>8 DEF Stream
  <2> QED  BY <1>1, <1>2, <1>7, <1>9, <1>10, <2>1 DEF Stream
<1>12. Advance
  BY <1>1, <1>2, <1>7, StillAdvance
<1> QED  BY <1>12, <1>1, <1>2, <1>3, <1>5, <1>11, LastMoves, FilesStay, BegunStays DEF ServersStay

\* CliPutStream: the client of an upload sends the next block of its file.
LEMMA CliPutStream ==
    ASSUME Calm, StreamsInv, NEW n \in Op, CliPut(n) PROVE StreamsInv' /\ Advance
<1>1. /\ IsPut(n) /\ cd(n) \in est /\ cd(n) \notin fin /\ op[n].put < NChunk
      /\ Tell(cd(n), Contents(op[n].m.f, n)[op[n].put + 1])
      /\ op' = [op EXCEPT ![n].put = @ + 1]
      /\ UNCHANGED <<fdt, disk, outq, fin, backlog, est, nop, server, sdisk>>
  BY DEF CliPut, proxyOwn, remote, IsPut
<1>2. PICK s \in Session : n = nop /\ Serving(s) /\ client[s].ph = "busy"
  BY <1>1, WhoUploads
<1>3. /\ op'[n].m = op[n].m /\ op'[n].s = op[n].s /\ op'[n].put = op[n].put + 1
      /\ op'[n].got = op[n].got /\ op[n].put \in Nat
      /\ \A k \in Op \ {n} : op'[k] = op[k]
  BY <1>1, Calmly, NetAssumption DEF OpState
<1>4. PICK f \in File : f = op[n].m.f
  BY <1>2, Kind
<1>5. PICK q \in Seq(Msg), b \in Msg :
         /\ q = Contents(f, n) /\ Len(q) = NChunk /\ b = q[op[n].put + 1]
  <2>1. n \in {0} \cup Op
    OBVIOUS
  <2>2. op[n].put + 1 \in 1..NChunk
    BY <1>1, <1>3, NetAssumption
  <2>3. Contents(f, n) \in Seq(Msg) /\ Len(Contents(f, n)) = NChunk
        /\ \A k \in 1..NChunk : Contents(f, n)[k] \in Msg
    BY <2>1, BlocksOf
  <2> QED  BY <2>2, <2>3
<1>6. inq'[cd(n)] = Append(inq[cd(n)], b) /\ inq'[sd(n)] = inq[sd(n)]
  <2>1. Tell(cd(n), b)
    BY <1>1, <1>4, <1>5
  <2> QED  BY <2>1, Calmly, Said, ConnType, Distinct
<1>7. (IsGet(n)' <=> IsGet(n)) /\ (IsPut(n)' <=> IsPut(n)) /\ Taken(n)' = Taken(n) /\ ~IsGet(n)
  <2>1. ~IsGet(n)
    BY <1>1, <1>2, Kind
  <2> QED  BY <1>1, <1>3, <2>1 DEF IsGet, IsPut, Taken
<1>8. Stream(n) /\ nop \in Nat
  BY Calmly DEF StreamsInv
<1>9. Storing(n)
  BY <1>1, <1>2, <1>8 DEF Stream
<1>10. ~Handed(n) /\ (Handed(n)' <=> Handed(n))
  <2>1. ~Handed(n)
    <3>1. Busy(s, n) /\ ~HungUp(n)
      BY <1>1, <1>2, BusyIs DEF HungUp
    <3> QED  BY <3>1, Ways, WaysApart
  <2> QED  BY <1>1, <2>1 DEF Handed, NoData, NoRelay
<1>11. Storing(n)'
  <2>1. CASE sd(n) \in fin
    BY <1>1, <1>3, <1>9, <2>1 DEF Storing
  <2>2. CASE sd(n) \notin fin
    <3>1. Taken(n) \o (outq[sd(n)] \o inq[cd(n)]) = SubSeq(q, 1, op[n].put)
      BY <1>4, <1>5, <1>9, <2>2 DEF Storing
    <3>2. /\ Taken(n) \in Seq(Msg) /\ outq[sd(n)] \in Seq(Msg) /\ inq[cd(n)] \in Seq(Msg)
      <4>1. outq[sd(n)] \in Seq(Msg) /\ inq[cd(n)] \in Seq(Msg)
        BY Calmly, ConnType
      <4>2. op[n].s \in Session
        BY <1>2, <1>8 DEF Stream
      <4>3. Taken(n) \in Seq(Msg)
        BY <4>2, Calmly, EmptySeq DEF Taken, SrvState
      <4> QED  BY <4>1, <4>3
    <3>3. PICK x \in Seq(Msg), y \in Seq(Msg), z \in Seq(Msg) :
             x = Taken(n) /\ y = outq[sd(n)] /\ z = inq[cd(n)]
      BY <3>2
    <3>4. x \o (y \o Append(z, b)) = Append(x \o (y \o z), b)
      <4>1. y \o Append(z, b) = Append(y \o z, b) /\ y \o z \in Seq(Msg)
        BY <1>5, SentOn, ConcatProperties
      <4> QED  BY <1>5, <4>1, SentOn
    <3>5. SubSeq(q, 1, op[n].put + 1) = Append(SubSeq(q, 1, op[n].put), b)
      BY <1>1, <1>3, <1>5, Prefixes
    <3>6. Taken(n) \o (outq[sd(n)] \o inq'[cd(n)]) = SubSeq(q, 1, op[n].put + 1)
      BY <1>6, <3>1, <3>3, <3>4, <3>5
    <3> QED  BY <1>1, <1>3, <1>4, <1>5, <1>7, <1>10, <2>2, <3>6 DEF Storing
  <2> QED  BY <2>1, <2>2
<1>12. Stream(n)'
  <2>1. op'[n].s \in Session /\ ~(n > nop')
    BY <1>1, <1>2, <1>3, <1>8 DEF Stream
  <2> QED  BY <1>7, <1>11, <2>1 DEF Stream
<1>13. Advance
  BY <1>1, <1>2, <1>10, StillAdvance
<1> QED  BY <1>13, <1>1, <1>2, <1>3, <1>12, LastMoves, FilesStay, BegunStays DEF ServersStay

\* CliPutEndStream: the client of an upload closes its data connection.
LEMMA CliPutEndStream ==
    ASSUME Calm, StreamsInv, NEW n \in Op, CliPutEnd(n) PROVE StreamsInv' /\ Advance
<1>1. /\ IsPut(n) /\ cd(n) \in est /\ cd(n) \notin fin /\ op[n].put = NChunk
      /\ fin' = fin \cup {cd(n)}
      /\ UNCHANGED <<fdt, disk, inq, outq, backlog, est, nop, op, server, sdisk>>
  BY DEF CliPutEnd, proxyOwn, remote, peers, IsPut
<1>2. PICK s \in Session : n = nop /\ Serving(s) /\ client[s].ph = "busy"
  BY <1>1, WhoUploads
<1>3. sd(n) \in fin' <=> sd(n) \in fin
  BY <1>1, Distinct
<1>4. \A k \in Op \ {n} : cd(k) \in fin' => cd(k) \in fin
  BY <1>1, Distinct
<1>5. Stream(n) /\ nop \in Nat /\ Storing(n) /\ ~IsGet(n)
  BY <1>1, <1>2, Calmly, Kind DEF StreamsInv, Stream
<1>6. ~Handed(n)'
  <2>1. Busy(s, n) /\ ~HungUp(n)
    BY <1>1, <1>2, BusyIs DEF HungUp
  <2>2. ~Handed(n)
    BY <2>1, Ways, WaysApart
  <2> QED  BY <1>1, <2>2 DEF Handed, NoData, NoRelay
<1>7. Taken(n)' = Taken(n)
  BY <1>1 DEF Taken
<1>8. Storing(n)'
  BY <1>1, <1>3, <1>5, <1>6, <1>7 DEF Storing
<1>9. Stream(n)'
  BY <1>1, <1>2, <1>5, <1>8 DEF Stream, IsGet, IsPut
<1>10. Advance
  BY <1>1, StillAdvance DEF Handed, NoData, NoRelay
<1> QED  BY <1>10, <1>1, <1>2, <1>4, <1>9, LastMoves, FilesStay, BegunStays DEF ServersStay

\* CliDialStream: a connection that is opened carries nothing yet.
LEMMA CliDialStream ==
    ASSUME Calm, Calm', StreamsInv, NEW s \in Session, CliDial(s) PROVE StreamsInv' /\ Advance
<1>1. client[s].ph = "busy"
  BY DEF CliDial, Calm, Orderly
<1>2. PICK n \in Op : n = nop /\ client[s].n = n /\ Busy(s, n) /\ Serving(s)
  BY <1>1, Calmly, WhoIsServed, BusyIs
<1>3. /\ cd(n) \notin est /\ backlog' = [backlog EXCEPT ![n] = Append(@, cd(n))]
      /\ UNCHANGED <<fdt, disk, inq, outq, fin, op, nop, server, sdisk>>
      /\ est \subseteq est'
  BY <1>2 DEF CliDial, Connect, peers, proxyOwn
<1>4. ~Handed(n)
  BY <1>3 DEF Handed
<1>5. ~Handed(n)'
  <2>1. backlog'[n] = Append(backlog[n], cd(n)) /\ backlog[n] \in Seq(Conn)
    BY <1>3, Calmly, NumType DEF NetOK
  <2>2. Len(backlog'[n]) = Len(backlog[n]) + 1 /\ Len(backlog[n]) \in Nat
    BY <2>1, ConnType
  <2>3. Len(<<>>) = 0
    OBVIOUS
  <2>4. backlog'[n] # <<>>
    BY <2>2, <2>3
  <2> QED  BY <2>4 DEF Handed, NoData
<1>6. \A k \in Op : Untouched(k)
  BY <1>3 DEF Untouched
<1> QED  BY <1>2, <1>3, <1>4, <1>5, <1>6, StreamsStay DEF Undisturbed, ServersStay

\* HungIs: when the client has its reply and the end of the data, the proxy has
\* closed the data connection.
LEMMA HungIs ==
    ASSUME Calm, NEW s \in Session, NEW n \in Op, Busy(s, n), op[n].reply # "none",
           op[n].reply = "ok" => cd(n) \in fin \/ Ended(cd(n))
    PROVE  HungUp(n) /\ op[n].reply = "ok"
<1> USE Calmly
<1>1. Answered(s, n) /\ op[n].reply = "ok"
  BY DEF Busy, Asked, Sent, Moving, Hidden, Answered, Answering
<1>2. ~Relaying(n) \/ ~IsGet(n)
  <2> SUFFICES ASSUME Relaying(n), IsGet(n) PROVE FALSE
    OBVIOUS
  <2>1. fdt[7] = cd(n) \/ fdt[8] = cd(n)
    BY DEF Relaying
  <2>2. 7 \in Fd /\ 8 \in Fd
    BY LowFds DEF Calm
  <2>3. Held(cd(n))
    BY <2>1, <2>2 DEF Held, Descriptors
  <2> QED  BY <1>1, <2>3 DEF Relaying, Ended
<1>3. ~(Pending(n) /\ ~Passive(n))
  BY <1>1 DEF Pending, Second, Ended
<1> QED  BY <1>1, <1>2, <1>3 DEF Answered

\* Complete: then the client of a download has the copy of the cache or what
\* the server has.
LEMMA Complete ==
    ASSUME Calm, StreamsInv, NEW n \in Op, n = nop, IsGet(n), HungUp(n), Ended(cd(n))
    PROVE  /\ op[n].got = IF op[n].m.f \in Cacheable THEN disk[op[n].m.f]
                          ELSE sdisk[op[n].m.f]
           /\ op[n].m.f \in DOMAIN sdisk
           /\ op[n].m.f \in Cacheable => op[n].m.f \in DOMAIN disk
           /\ Whole(op[n].m.f, op[n].got)
<1> USE Calmly
<1>1. Fetching(n) /\ cd(n) \notin fin /\ Handed(n) /\ Stored(n) /\ fdt[9] = Free
  BY DEF StreamsInv, Stream, HungUp, Handed, NoData, NoRelay
<1>2. PICK f \in File : f = op[n].m.f /\ f \in OnServer
  BY Kind
<1>3. Got(n) = op[n].got
  <2>1. op[n].got \in Seq(Msg)
    BY DEF OpState
  <2> QED  BY <2>1, ConcatEmptySeq DEF Got, Ended
<1>4. op[n].got = IF f \in Cacheable THEN disk[f] ELSE sdisk[f]
  BY <1>1, <1>2, <1>3 DEF Fetching
<1>5. f \in Cacheable => f \in DOMAIN disk
  BY <1>1, <1>2 DEF Stored
<1>6. f \in DOMAIN sdisk
  BY <1>2 DEF Fetches
<1>7. CASE f \in Cacheable
  <2>1. fdt[9] # CacheFile(f)
    BY <1>1, <1>2, Kinds
  <2>2. Whole(f, disk[f])
    BY <1>5, <1>7, <2>1 DEF StreamsInv, CacheFiles
  <2> QED  BY <1>2, <1>4, <1>5, <1>6, <1>7, <2>2
<1>8. CASE f \notin Cacheable
  <2>1. Whole(f, sdisk[f])
    BY <1>6 DEF StreamsInv, ServerFiles
  <2> QED  BY <1>2, <1>4, <1>6, <1>8, <2>1
<1> QED  BY <1>7, <1>8

\* CliDoneStream: a client that takes its download for complete has a whole
\* version of the file.
LEMMA CliDoneStream ==
    ASSUME Calm, StreamsInv, NEW s \in Session, CliDone(s) PROVE StreamsInv' /\ Advance
<1> USE Calmly
<1>1. client[s].ph = "busy"
  BY DEF CliDone
<1>2. PICK n \in Op : n = nop /\ client[s].n = n /\ Busy(s, n) /\ Serving(s)
  BY <1>1, WhoIsServed, BusyIs
<1>3. /\ op[n].reply # "none" /\ (op[n].reply = "ok" => cd(n) \in fin \/ Ended(cd(n)))
      /\ fin' = fin \cup (est \cap {cd(n)})
      /\ UNCHANGED <<fdt, disk, inq, outq, backlog, est, op, nop, server, sdisk>>
  BY <1>2 DEF CliDone, proxyOwn
<1>5. HungUp(n) /\ op[n].reply = "ok"
  BY <1>2, <1>3, HungIs
<1>6. Handed(n) /\ Stored(n) /\ fin' = fin \cup {cd(n)} /\ fdt[9] = Free
  BY <1>3, <1>5, WaysApart DEF HungUp, NoData, NoRelay
<1>7. (Handed(n)' <=> Handed(n)) /\ Taken(n)' = Taken(n) /\ (sd(n) \in fin' <=> sd(n) \in fin)
  BY <1>3, <1>6, Distinct DEF Handed, NoData, NoRelay, Taken
<1>8. \A k \in Op \ {n} : cd(k) \in fin' => cd(k) \in fin
  BY <1>6, Distinct
<1>9. Stream(n) /\ nop \in Nat
  BY DEF StreamsInv
<1>10. ASSUME IsGet(n) PROVE Whole(op[n].m.f, op[n].got)
  <2>1. cd(n) \notin fin /\ Ended(cd(n))
    BY <1>3, <1>5, <1>10 DEF HungUp
  <2> QED  BY <1>2, <1>5, <1>10, <2>1, Complete
<1>11. ASSUME IsPut(n) PROVE Storing(n)'
  <2>1. Storing(n) /\ cd(n) \in fin
    BY <1>2, <1>5, <1>9, <1>11 DEF Stream, HungUp
  <2> QED  BY <1>3, <1>6, <1>7, <2>1 DEF Storing
<1>12. Stream(n)'
  <2>1. op[n].s \in Session /\ ~(n > nop)
    BY <1>2, <1>9 DEF Stream
  <2>2. cd(n) \in fin'
    BY <1>6
  <2> QED  BY <1>3, <1>10, <1>11, <2>1, <2>2 DEF Stream, IsGet, IsPut
<1>13. Advance
  BY <1>2, <1>3, <1>7, StillAdvance
<1> QED  BY <1>13, <1>2, <1>3, <1>8, <1>12, LastMoves, FilesStay, BegunStays DEF ServersStay

\* CliStepStream: any step of a client on its control connection.
LEMMA CliStepStream ==
    ASSUME Calm, Calm', StreamsInv, NEW s \in Session, CliStep(s) PROVE StreamsInv' /\ Advance
<1>1. ASSUME CliGreeted(s) \/ CliReady(s) PROVE StreamsInv' /\ Advance
  <2>1. Hear(cc(s)) /\ UNCHANGED <<proxyOwn, inq, fin, backlog, est, nop, op, server, sdisk>>
    BY <1>1 DEF CliGreeted, CliReady, CliHear, remote
  <2> QED  BY <2>1, CliHearStream
<1>2. ASSUME CliCommand(s) \/ CliQuit(s) PROVE StreamsInv' /\ Advance
  <2>1. PICK m : /\ Tell(cc(s), m)
                 /\ UNCHANGED <<proxyOwn, outq, fin, backlog, est, nop, op, server, sdisk>>
    BY <1>2 DEF CliCommand, CliQuit, remote
  <2> QED  BY <2>1, CliTellStream
<1>3. ~CliAbort(s)
  BY DEF CliAbort, Calm, Orderly
<1> QED  BY <1>1, <1>2, <1>3, CliConnectStream, CliDialStream, CliReplyStream, CliDoneStream,
            CliCloseStream, CliStartStream DEF CliStep

\* CliDataStream: and on its data connection.
LEMMA CliDataStream ==
    ASSUME Calm, StreamsInv, NEW n \in Op, CliData(n) PROVE StreamsInv' /\ Advance
BY CliGetStream, CliPutStream, CliPutEndStream DEF CliData

-----------------------------------------------------------------------------
(***************************************************************************)
(* The server.                                                             *)
(***************************************************************************)

\* SrvTellStream: the server reads a command or says something on the control
\* connection.
LEMMA SrvTellStream ==
    ASSUME Calm, StreamsInv, NEW s \in Session,
           UNCHANGED <<proxyOwn, backlog, est, nop, op, sdisk>>, ServersStay,
           inq' = inq \/ \E m : Tell(sc(s), m), outq' = outq \/ Hear(sc(s)),
           \A c \in Conn \ {cc(s), sc(s)} : c \in fin' <=> c \in fin
    PROVE  StreamsInv' /\ Advance
<1>1. \A c \in Conn \ {cc(s), sc(s)} : inq'[c] = inq[c] /\ outq'[c] = outq[c]
  BY Conversed, Calmly
<1>2. UNCHANGED <<fdt, disk>>
  BY DEF proxyOwn
<1> QED  BY <1>1, <1>2, Spoken

\* SrvGreetStream: the greeting.
LEMMA SrvGreetStream ==
    ASSUME Calm, StreamsInv, NEW s \in Session, SrvGreet(s) PROVE StreamsInv' /\ Advance
<1>1. /\ server[s].ph = "off" /\ server' = [server EXCEPT ![s].ph = "idle"]
      /\ Tell(sc(s), Say("220"))
      /\ UNCHANGED <<proxyOwn, outq, fin, backlog, est, op, nop, sdisk>>
  BY DEF SrvGreet, remote
<1>2. server'[s].ph = "idle" /\ \A q \in Session \ {s} : server'[q] = server[q]
  BY <1>1, Calmly DEF SrvState
<1>3. ServersStay
  BY <1>1, <1>2 DEF ServersStay, Away, Begins
<1> QED  BY <1>1, <1>3, SrvTellStream

\* SrvWordStream: the server reads a command and is not in a transfer after it.
LEMMA SrvWordStream ==
    ASSUME Calm, StreamsInv, NEW s \in Session, NEW t, NEW reply, NEW st,
           SrvHear(s, t, reply, st),
           st.ph \notin {"send", "recv"}, st.ph = "open" => st.k = 0 /\ st.got = <<>>,
           UNCHANGED <<proxyOwn, backlog, est, op, nop, sdisk>>,
           \A c \in Conn \ {cc(s), sc(s)} : c \in fin' <=> c \in fin
    PROVE  StreamsInv' /\ Advance
<1>1. /\ server[s].ph = "idle" /\ server'[s] = st
      /\ \A q \in Session \ {s} : server'[q] = server[q]
      /\ reply = <<>> => inq' = inq
      /\ reply # <<>> => Tell(sc(s), Head(reply))
  BY SrvWord
<1>2. Hear(sc(s))
  BY DEF SrvHear
<1>3. ServersStay
  BY <1>1 DEF ServersStay, Away, Begins
<1> QED  BY <1>1, <1>2, <1>3, SrvTellStream

\* SrvSetupStream: PASV and PORT.
LEMMA SrvSetupStream ==
    ASSUME Calm, StreamsInv, NEW s \in Session, SrvSetup(s) PROVE StreamsInv' /\ Advance
<1>1. UNCHANGED <<proxyOwn, fin, backlog, est, op, nop, sdisk>>
  BY DEF SrvSetup
<1>2. PICK n, r : \/ SrvHear(s, "PASV", r, [server[s] EXCEPT !.mode = "PASV", !.n = n])
                  \/ SrvHear(s, "PORT", r, [server[s] EXCEPT !.mode = "PORT", !.n = n])
  BY DEF SrvSetup
<1>3. server[s] \in SrvState /\ server[s].ph = "idle"
  BY <1>2, Calmly DEF SrvHear
<1>4. /\ [server[s] EXCEPT !.mode = "PASV", !.n = n].ph = "idle"
      /\ [server[s] EXCEPT !.mode = "PORT", !.n = n].ph = "idle"
  BY <1>3 DEF SrvState
<1> QED  BY <1>1, <1>2, <1>4, SrvWordStream

\* SrvCommandStream: a transfer is about to begin, or the file is not there.
LEMMA SrvCommandStream ==
    ASSUME Calm, StreamsInv, NEW s \in Session, SrvCommand(s) PROVE StreamsInv' /\ Advance
<1>1. UNCHANGED <<proxyOwn, fin, backlog, est, op, nop, sdisk>>
  BY DEF SrvCommand, remote
<1>2. PICK o, m : o = [server[s] EXCEPT !.ph = "open", !.m = m, !.k = 0, !.got = <<>>]
                  /\ \/ SrvHear(s, "LIST", <<>>, o)
                     \/ SrvHear(s, "STOR", <<>>, o)
                     \/ SrvHear(s, "RETR", <<>>, o)
                     \/ SrvHear(s, "RETR", <<Say("550")>>, server[s])
  BY DEF SrvCommand
<1>3. server[s] \in SrvState /\ server[s].ph = "idle"
  BY <1>2, Calmly DEF SrvHear
<1>4. o.ph = "open" /\ o.k = 0 /\ o.got = <<>>
  BY <1>2, <1>3 DEF SrvState
<1> QED  BY <1>1, <1>2, <1>3, <1>4, SrvWordStream

\* SrvQuitStream: QUIT.
LEMMA SrvQuitStream ==
    ASSUME Calm, StreamsInv, NEW s \in Session, SrvQuit(s) PROVE StreamsInv' /\ Advance
<1>1. /\ SrvHear(s, "QUIT", <<Say("221")>>, [server[s] EXCEPT !.ph = "gone"])
      /\ fin' = fin \cup {sc(s)}
      /\ UNCHANGED <<proxyOwn, backlog, est, op, nop, sdisk>>
  BY DEF SrvQuit, remote
<1>2. [server[s] EXCEPT !.ph = "gone"].ph = "gone"
  BY Calmly DEF SrvState
<1>3. \A c \in Conn \ {cc(s), sc(s)} : c \in fin' <=> c \in fin
  BY <1>1
<1> QED  BY <1>1, <1>2, <1>3, SrvWordStream

\* SrvOpenStream: the server's data connection is opened; nothing is sent or
\* read yet.
LEMMA SrvOpenStream ==
    ASSUME Calm, StreamsInv, NEW s \in Session, SrvOpen(s) PROVE StreamsInv' /\ Advance
<1> USE Calmly
<1>1. /\ UNCHANGED <<proxyOwn, outq, fin, op, nop, sdisk>>
      /\ server[s].ph = "open" /\ Tell(sc(s), Say("150"))
      /\ server' = [server EXCEPT ![s].ph = IF server[s].m.t = "STOR" THEN "recv" ELSE "send"]
  BY DEF SrvOpen
<1>2. PICK n \in Op :
         /\ n = nop /\ client[s].n = n /\ server[s].n = n
         /\ server[s].mode = op[n].mode /\ server[s].m = op[n].m
         /\ Sent(s, n) /\ Busy(s, n)
  BY <1>1, Opening
<1>3. /\ op[n].s = s /\ UNCHANGED <<fdt, disk>>
      /\ IsGet(n) \/ IsPut(n)
      /\ ~(IsGet(n) /\ IsPut(n))
  BY <1>1, <1>2, LastIs, Kind DEF proxyOwn
<1>4. /\ server'[s].ph = (IF IsPut(n) THEN "recv" ELSE "send") /\ server'[s].k = 0
      /\ server'[s].got = <<>>
      /\ \A q \in Session \ {s} : server'[q] = server[q]
  BY <1>1, <1>2 DEF SrvState, IsPut, StreamsInv, Begun, Begins
<1>5. Begun'
  BY <1>4, NetAssumption DEF StreamsInv, Begun, Begins
<1>6. \A k \in Op : inq'[cd(k)] = inq[cd(k)] /\ inq'[sd(k)] = inq[sd(k)]
  BY <1>1, ConnType, Distinct, Said
<1>7. IF Passive(n) THEN sd(n) \in est /\ UNCHANGED <<est, backlog>>
      ELSE Connect(sd(n), n)
  BY <1>2, Kind DEF SrvOpen, Passive, IsGet
<1>8. Handed(n)' <=> Handed(n)
  <2>1. CASE Passive(n)
    BY <1>3, <1>7, <2>1 DEF Handed, NoData, NoRelay
  <2>2. CASE ~Passive(n)
    <3>1. Unopened(n)
      BY <1>2, <2>2 DEF Sent
    <3>2. est' = est \cup {sd(n)}
      BY <1>7, <2>2 DEF Connect
    <3>3. cd(n) \notin est /\ cd(n) \notin est'
      BY <3>1, <3>2, WaysApart, Distinct
    <3> QED  BY <3>3 DEF Handed
  <2> QED  BY <2>1, <2>2
<1>9. Taken(n)' = Taken(n) /\ Total(n)' = Total(n) /\ Got(n)' = Got(n)
  BY <1>1, <1>3, <1>4 DEF Taken, Total, Got
<1>10. (IsGet(n)' <=> IsGet(n)) /\ (IsPut(n)' <=> IsPut(n))
  BY <1>1 DEF IsGet, IsPut
<1>11. Stream(n)'
  <2>1. Stream(n)
    BY DEF StreamsInv
  <2>2. Fetching(n) => Fetching(n)'
    <3>1. est \subseteq est'
      BY <1>7 DEF Connect
    <3> QED  BY <1>1, <1>3, <1>6, <1>8, <1>9, <3>1 DEF Fetching
  <2>3. Storing(n) => Storing(n)'
    BY <1>1, <1>3, <1>6, <1>8, <1>9 DEF Storing
  <2> QED  BY <1>1, <1>2, <1>10, <2>1, <2>2, <2>3 DEF Stream
<1>12. Advance
  BY <1>2, <1>3, <1>8, StillAdvance
<1> QED  BY <1>12, <1>1, <1>2, <1>3, <1>5, <1>11, LastMoves, FilesStay

\* SrvSendStream: the server sends the next block of its file.
LEMMA SrvSendStream ==
    ASSUME Calm, StreamsInv, NEW s \in Session, SrvSend(s) PROVE StreamsInv' /\ Advance
<1> USE Calmly
<1>1. /\ UNCHANGED <<fdt, disk, outq, fin, backlog, est, op, nop, sdisk>>
      /\ server[s].ph = "send" /\ server' = [server EXCEPT ![s].k = @ + 1]
  BY DEF SrvSend, remote, proxyOwn
<1>2. PICK n \in Op : n = nop /\ client[s].n = n /\ server[s].n = n /\ Moving(s, n)
                      /\ Busy(s, n) /\ server[s].m = op[n].m
  BY <1>1, Opening
<1>3. op[n].s = s /\ IsGet(n) /\ ~IsPut(n)
  BY <1>1, <1>2, LastIs, Kind DEF Moving
<1>4. PICK f \in File : f = op[n].m.f /\ f \in DOMAIN sdisk
  BY <1>2, <1>3, Kind DEF Fetches
<1>5. sdisk[f] \in Seq(Msg) /\ Len(sdisk[f]) = NChunk
  BY <1>4, WholeIs DEF StreamsInv, ServerFiles
<1>6. PICK q \in Seq(Msg), k \in Nat : q = sdisk[f] /\ k = server[s].k
  BY <1>5 DEF SrvState
<1>7. PICK b \in Msg : k < Len(q) /\ b = q[k + 1] /\ Tell(sd(n), b)
  <2>1. Sending(server[s]) = q
    BY <1>2, <1>3, <1>4, <1>6 DEF Sending, IsGet
  <2>2. k < Len(q) /\ Tell(sd(n), q[k + 1])
    BY <1>2, <1>6, <2>1 DEF SrvSend
  <2>3. q[k + 1] \in Msg
    BY <2>2
  <2> QED  BY <2>2, <2>3
<1>8. inq'[sd(n)] = Append(inq[sd(n)], b) /\ inq'[cd(n)] = inq[cd(n)]
  BY <1>7, ConnType, Distinct, Said
<1>9. /\ server'[s].ph = "send" /\ server'[s].k = k + 1
      /\ \A r \in Session \ {s} : server'[r] = server[r]
  BY <1>1, <1>6 DEF SrvState
<1>10. Begun'
  <2>1. k + 1 <= NChunk
    BY <1>5, <1>6, <1>7
  <2> QED  BY <1>9, <2>1 DEF StreamsInv, Begun, Begins
<1>11. ~Handed(n) /\ (Handed(n)' <=> Handed(n)) /\ sd(n) \notin fin
  <2>2. sd(n) \notin fin /\ (Pending(n) \/ Relaying(n))
    BY <1>2, <1>3 DEF Moving, Late
  <2>3. ~Handed(n)
    BY <2>2, WaysApart
  <2> QED  BY <1>1, <2>2, <2>3 DEF Handed, NoData, NoRelay
<1>12. Stream(n) /\ cd(n) \notin fin => Fetching(n)'
  <2> SUFFICES ASSUME Stream(n), cd(n) \notin fin PROVE Fetching(n)'
    OBVIOUS
  <2>1. Fetching(n)
    BY <1>2, <1>3 DEF Stream
  <2>2. PICK g \in Seq(Msg), i \in Seq(Msg) : g = Got(n) /\ i = inq[sd(n)]
    <3>1. op[n].got \in Seq(Msg) /\ outq[cd(n)] \in Seq(Msg) /\ inq[sd(n)] \in Seq(Msg)
      BY ConnType DEF OpState
    <3> QED  BY <3>1, ConcatProperties DEF Got
  <2>3. Total(n) = k /\ Total(n)' = k + 1 /\ Got(n)' = g
    BY <1>1, <1>3, <1>6, <1>9, <1>11, <2>2 DEF Total, Got
  <2>4. g \o i = SubSeq(q, 1, k)
    BY <1>4, <1>6, <1>11, <2>1, <2>2, <2>3 DEF Fetching
  <2>5. g \o Append(i, b) = Append(g \o i, b)
    BY SentOn
  <2>6. SubSeq(q, 1, k + 1) = Append(SubSeq(q, 1, k), b)
    BY <1>7, Prefixes
  <2>7. Got(n)' \o inq'[sd(n)] = SubSeq(sdisk'[f], 1, Total(n)')
    BY <1>1, <1>6, <1>8, <2>2, <2>3, <2>4, <2>5, <2>6
  <2>8. fdt'[9] = CacheFile(f) => disk'[f] = Got(n)'
    BY <1>1, <1>4, <1>11, <2>1, <2>2, <2>3 DEF Fetching
  <2>9. cd(n) \notin est => Got(n)' = <<>>
    BY <1>11, <2>1, <2>2, <2>3 DEF Fetching
  <2> QED  BY <1>1, <1>4, <1>11, <2>7, <2>8, <2>9 DEF Fetching
<1>13. Stream(n)'
  BY <1>1, <1>2, <1>3, <1>12 DEF StreamsInv, Stream, IsGet, IsPut
<1>14. Advance
  BY <1>1, <1>2, <1>11, StillAdvance
<1> QED  BY <1>14, <1>1, <1>2, <1>10, <1>13, LastMoves, FilesStay

\* SrvRecvStream: the server reads a block of an upload.
LEMMA SrvRecvStream ==
    ASSUME Calm, StreamsInv, NEW s \in Session, SrvRecv(s) PROVE StreamsInv' /\ Advance
<1> USE Calmly
<1>1. /\ UNCHANGED <<fdt, disk, inq, fin, backlog, est, op, nop, sdisk>>
      /\ server[s].ph = "recv" /\ outq[sd(server[s].n)] # <<>> /\ Hear(sd(server[s].n))
      /\ server' = [server EXCEPT ![s].got = Append(@, Head(outq[sd(server[s].n)]))]
  BY DEF SrvRecv, remote, proxyOwn
<1>2. PICK n \in Op : n = nop /\ client[s].n = n /\ server[s].n = n /\ Moving(s, n)
                      /\ Busy(s, n)
  BY <1>1, Opening
<1>3. op[n].s = s /\ IsPut(n) /\ ~IsGet(n)
  BY <1>1, <1>2, LastIs, Kind DEF Moving
<1>4. PICK t \in Seq(Msg), o \in Seq(Msg), i \in Seq(Msg) :
         t = server[s].got /\ o = outq[sd(n)] /\ i = inq[cd(n)]
  BY ConnType DEF SrvState
<1>5. /\ o # <<>> /\ outq'[sd(n)] = Tail(o)
      /\ \A c \in Conn \ {sd(n)} : outq'[c] = outq[c]
  BY <1>1, <1>2, <1>4, ConnType, Heard
<1>6. /\ server'[s].ph = "recv" /\ server'[s].got = Append(t, Head(o))
      /\ \A r \in Session \ {s} : server'[r] = server[r]
  BY <1>1, <1>2, <1>4 DEF SrvState
<1>7. Begun'
  BY <1>6 DEF StreamsInv, Begun, Begins
<1>8. \A k \in Op \ {n} : outq'[cd(k)] = outq[cd(k)] /\ outq'[sd(k)] = outq[sd(k)]
  BY <1>5, ConnType, Distinct
<1>9. Handed(n)' <=> Handed(n)
  BY <1>1 DEF Handed, NoData, NoRelay
<1>10. Append(t, Head(o)) \o (Tail(o) \o i) = t \o (o \o i)
  <2>1. t \in Seq(Msg) /\ o \in Seq(Msg) /\ i \in Seq(Msg) /\ o # <<>>
    BY <1>5
  <2> QED  BY ONLY <2>1, MovedUp
<1>11. Storing(n) => Storing(n)'
  <2>1. Taken(n) = t /\ Taken(n)' = Append(t, Head(o))
    BY <1>1, <1>3, <1>4, <1>6 DEF Taken
  <2>2. /\ Taken(n) \o (outq[sd(n)] \o inq[cd(n)]) = t \o (o \o i)
        /\ Taken(n)' \o (outq'[sd(n)] \o inq'[cd(n)]) = t \o (o \o i)
    BY <1>1, <1>4, <1>5, <1>10, <2>1
  <2> QED  BY <1>1, <1>9, <2>2 DEF Storing
<1>12. Stream(n)'
  BY <1>1, <1>2, <1>3, <1>11 DEF StreamsInv, Stream, IsGet, IsPut
<1>13. Advance
  BY <1>1, <1>2, <1>9, StillAdvance
<1> QED  BY <1>13, <1>1, <1>2, <1>7, <1>8, <1>12, LastMoves, FilesStay

\* SrvSentStream: all is sent, and the server closes.
LEMMA SrvSentStream ==
    ASSUME Calm, StreamsInv, NEW s \in Session, SrvEnd(s, "226"), server[s].ph = "send"
    PROVE  StreamsInv' /\ Advance
<1> USE Calmly
<1>1. /\ UNCHANGED <<fdt, disk, outq, backlog, est, op, nop, sdisk>>
      /\ Tell(sc(s), Say("226")) /\ server' = [server EXCEPT ![s].ph = "idle"]
      /\ fin' = fin \cup (est \cap {sd(server[s].n)})
      /\ server[s].k = Len(Sending(server[s]))
  BY DEF SrvEnd, remote, proxyOwn
<1>2. PICK n \in Op : n = nop /\ client[s].n = n /\ server[s].n = n /\ Moving(s, n)
                      /\ Busy(s, n) /\ server[s].m = op[n].m
  BY Opening
<1>3. op[n].s = s /\ IsGet(n) /\ ~IsPut(n)
  BY <1>2, LastIs, Kind DEF Moving
<1>4. PICK f \in File : f = op[n].m.f /\ f \in DOMAIN sdisk
  BY <1>2, <1>3, Kind DEF Fetches
<1>5. server[s].k = NChunk
  <2>1. Len(sdisk[f]) = NChunk
    BY <1>4, WholeIs DEF StreamsInv, ServerFiles
  <2> QED  BY <1>1, <1>2, <1>3, <1>4, <2>1 DEF Sending, IsGet
<1>6. \A k \in Op : inq'[cd(k)] = inq[cd(k)] /\ inq'[sd(k)] = inq[sd(k)]
  BY <1>1, ConnType, Distinct, Said
<1>7. sd(n) \notin fin /\ sd(n) \in est
  BY <1>2, <1>3 DEF Moving, Late, Pending, Relaying, First
<1>8. fin' = fin \cup {sd(n)}
  BY <1>1, <1>2, <1>7
<1>9. \A k \in Op : cd(k) \in fin' <=> cd(k) \in fin
  BY <1>8, Distinct
<1>10. /\ server'[s].ph = "idle" /\ \A r \in Session \ {s} : server'[r] = server[r]
  BY <1>1 DEF SrvState
<1>11. Begun'
  BY <1>10 DEF StreamsInv, Begun, Begins
<1>12. (Handed(n)' <=> Handed(n)) /\ Total(n) = NChunk /\ Total(n)' = NChunk
       /\ Got(n)' = Got(n)
  BY <1>1, <1>3, <1>5, <1>7, <1>8 DEF Handed, NoData, NoRelay, Total, Got
<1>13. Fetching(n) => Fetching(n)'
  BY <1>1, <1>6, <1>12 DEF Fetching
<1>14. Stream(n)'
  BY <1>1, <1>2, <1>3, <1>9, <1>13 DEF StreamsInv, Stream, IsGet, IsPut
<1>15. Advance
  BY <1>1, <1>2, <1>12, StillAdvance
<1> QED  BY <1>15, <1>1, <1>2, <1>9, <1>11, <1>14, LastMoves, FilesStay

\* SrvReadStream: all is read, and the server has the file.
LEMMA SrvReadStream ==
    ASSUME Calm, StreamsInv, NEW s \in Session, SrvEnd(s, "226"), server[s].ph = "recv"
    PROVE  StreamsInv' /\ Advance
<1> USE Calmly
<1>1. /\ UNCHANGED <<fdt, disk, outq, backlog, est, op, nop>>
      /\ Tell(sc(s), Say("226")) /\ server' = [server EXCEPT ![s].ph = "idle"]
      /\ fin' = fin \cup (est \cap {sd(server[s].n)}) /\ Ended(sd(server[s].n))
      /\ sdisk' = [g \in DOMAIN sdisk \cup {server[s].m.f} |->
                      IF g = server[s].m.f THEN server[s].got ELSE sdisk[g]]
  BY DEF SrvEnd, remote, proxyOwn
<1>2. PICK n \in Op : n = nop /\ client[s].n = n /\ server[s].n = n /\ Moving(s, n)
                      /\ Busy(s, n) /\ server[s].m = op[n].m
  BY Opening
<1>3. op[n].s = s /\ IsPut(n) /\ ~IsGet(n)
  BY <1>2, LastIs, Kind DEF Moving
<1>4. PICK f \in File : f = op[n].m.f
  BY <1>2, Kind
<1>5. PICK q \in Seq(Msg) : q = Contents(f, n) /\ Len(q) = NChunk /\ Whole(f, q)
  <2>1. n \in {0} \cup Op
    OBVIOUS
  <2>2. Contents(f, n) \in Seq(Msg) /\ Len(Contents(f, n)) = NChunk
    BY <2>1, BlocksOf
  <2>3. Whole(f, Contents(f, n))
    BY <2>1 DEF Whole
  <2> QED  BY <2>2, <2>3
<1>6. HungUp(n) /\ sd(n) \notin fin /\ sd(n) \in est /\ outq[sd(n)] = <<>>
  <2>1. ~Held(sd(n)) /\ outq[sd(n)] = <<>> /\ sd(n) \in est
    BY <1>1, <1>2 DEF Ended
  <2>2. ~Relaying(n) /\ ~(Pending(n) /\ ~Passive(n))
    BY <2>1, DataHeld
  <2> QED  BY <1>2, <2>1, <2>2 DEF Moving, Late
<1>7. Handed(n) /\ (Handed(n)' <=> Handed(n))
  BY <1>1, <1>6, WaysApart DEF Handed, NoData, NoRelay
<1>8. server[s].got = q
  <2>1. Storing(n)
    BY <1>2, <1>3 DEF StreamsInv, Stream
  <2>2. Taken(n) \o (outq[sd(n)] \o inq[cd(n)]) = SubSeq(q, 1, op[n].put)
    BY <1>4, <1>5, <1>6, <2>1 DEF Storing
  <2>3. inq[cd(n)] = <<>> /\ op[n].put = NChunk
    BY <1>6, <1>7, <2>1 DEF Storing
  <2>4. Taken(n) = server[s].got /\ server[s].got \in Seq(Msg)
    BY <1>3 DEF Taken, SrvState
  <2>5. server[s].got \o (<<>> \o <<>>) = server[s].got
    BY <2>4, ConcatEmptySeq, EmptySeq
  <2>6. SubSeq(q, 1, NChunk) = q
    BY <1>5, Prefixes
  <2> QED  BY <1>6, <2>2, <2>3, <2>4, <2>5, <2>6
<1>9. /\ f \in DOMAIN sdisk' /\ sdisk'[f] = q
      /\ \A g \in DOMAIN sdisk' : g = f \/ (g \in DOMAIN sdisk /\ sdisk'[g] = sdisk[g])
  BY <1>1, <1>2, <1>4, <1>8
<1>10. ServerFiles'
  BY <1>5, <1>9 DEF StreamsInv, ServerFiles
<1>11. CacheFiles'
  BY <1>1 DEF StreamsInv, CacheFiles
<1>12. fin' = fin \cup {sd(n)}
  BY <1>1, <1>2, <1>6
<1>13. \A k \in Op : cd(k) \in fin' <=> cd(k) \in fin
  BY <1>12, Distinct
<1>14. /\ server'[s].ph = "idle" /\ \A r \in Session \ {s} : server'[r] = server[r]
  BY <1>1 DEF SrvState
<1>15. Begun'
  BY <1>14 DEF StreamsInv, Begun, Begins
<1>16. Storing(n)'
  BY <1>1, <1>4, <1>5, <1>9, <1>12 DEF Storing
<1>17. Stream(n)'
  BY <1>1, <1>2, <1>3, <1>16 DEF StreamsInv, Stream, IsGet, IsPut
<1>18. Advance
  BY <1>1, <1>2, <1>7, StillAdvance
<1> QED  BY <1>18, <1>1, <1>2, <1>10, <1>11, <1>13, <1>15, <1>17, LastMoves

\* SrvStepStream: any step of the server.
LEMMA SrvStepStream ==
    ASSUME Calm, StreamsInv, NEW s \in Session, SrvStep(s) PROVE StreamsInv' /\ Advance
<1>1. SrvEnd(s, "226") => server[s].ph \in {"send", "recv"}
  BY DEF SrvEnd
<1>2. SrvEnd(s, "226") => StreamsInv' /\ Advance
  BY <1>1, SrvSentStream, SrvReadStream
<1> QED  BY <1>2, SrvGreetStream, SrvSetupStream, SrvCommandStream, SrvOpenStream,
            SrvSendStream, SrvRecvStream, SrvFailNever, SrvQuitStream, SrvHangupNever
         DEF SrvStep

-----------------------------------------------------------------------------
(***************************************************************************)
(* The branches of the proxy that move no block.                           *)
(***************************************************************************)

\* ProxyStays: what such a branch must leave alone.
LEMMA ProxyStays ==
    ASSUME Calm, StreamsInv, UNCHANGED <<peers, fin, disk>>, fdt'[9] = fdt[9],
           est \subseteq est',
           \A n \in Op : /\ inq'[cd(n)] = inq[cd(n)] /\ inq'[sd(n)] = inq[sd(n)]
                         /\ outq'[cd(n)] = outq[cd(n)] /\ outq'[sd(n)] = outq[sd(n)]
                         /\ Handed(n)' <=> Handed(n)
    PROVE  StreamsInv' /\ Advance
<1>1. UNCHANGED <<op, nop, server, sdisk, disk>>
  BY DEF peers
<1>2. ServersStay
  BY <1>1 DEF ServersStay
<1>3. \A n \in Op : Untouched(n)
  BY <1>1 DEF Untouched
<1> QED  BY <1>1, <1>2, <1>3, StreamsStay DEF Undisturbed

\* Controls: the two control sockets are no data connection, no listener and
\* no file.
LEMMA Controls ==
    ASSUME Calm, NEW r \in {"accept_cmd", "connect_cmd"}
    PROVE  /\ sock[r] \in {0, 4, 5} /\ fdt[sock[r]].k # "file"
           /\ \A n \in Op : fdt[sock[r]] # cd(n) /\ fdt[sock[r]] # sd(n)
           /\ \A p \in Port : fdt[sock[r]] # Listener(p)
<1> USE Calmly
<1>1. sock[r] \in {0, 4, 5}
  BY DEF Numbers
<1>2. fdt[0] = Std /\ ((fdt[4] = Free /\ fdt[5] = Free) \/ \E s \in Session : Pair(s))
  BY DEF Descriptors
<1>3. PICK s \in Session \cup {0} :
         fdt[sock[r]] \in {Std, Free} \/ (s \in Session /\ fdt[sock[r]] \in {cc(s), sc(s)})
  BY <1>1, <1>2 DEF Pair
<1>4. /\ Std.k # "file" /\ \A n \in Op : Std # cd(n) /\ Std # sd(n)
      /\ \A p \in Port : Std # Listener(p)
  BY Kinds, ConnType DEF Std
<1>5. /\ Free.k # "file" /\ \A n \in Op : Free # cd(n) /\ Free # sd(n)
      /\ \A p \in Port : Free # Listener(p)
  BY Kinds, ConnType
<1>6. ASSUME s \in Session, NEW o \in {cc(s), sc(s)}
      PROVE  /\ o.k # "file" /\ \A n \in Op : o # cd(n) /\ o # sd(n)
             /\ \A p \in Port : o # Listener(p)
  BY <1>6, Kinds, ConnType, Distinct
<1> QED  BY <1>1, <1>3, <1>4, <1>5, <1>6

\* ReadAside: reading a control socket takes no block.
LEMMA ReadAside ==
    ASSUME Calm, NEW r \in {"accept_cmd", "connect_cmd"}, NEW last,
           NEW x \in Fetched(sock[r], last), inq' = x.q
    PROVE  \A n \in Op : inq'[cd(n)] = inq[cd(n)] /\ inq'[sd(n)] = inq[sd(n)]
<1>1. PICK o : o = fdt[sock[r]] /\ \A n \in Op : o # cd(n) /\ o # sd(n)
  BY Controls
<1>2. x.q = inq \/ x.q = [inq EXCEPT ![o] = Tail(@)]
  BY <1>1 DEF Fetched
<1> QED  BY <1>1, <1>2, ConnType, Calmly

\* WroteAside: nor does writing to one send any.
LEMMA WroteAside ==
    ASSUME Calm, NEW ft, NEW fd, NEW ms, ft[fd].k # "file",
           \A n \in Op : ft[fd] # cd(n) /\ ft[fd] # sd(n),
           Written(Put(Unwritten, ft, fd, ms))
    PROVE  /\ disk' = disk
           /\ \A n \in Op : outq'[cd(n)] = outq[cd(n)] /\ outq'[sd(n)] = outq[sd(n)]
<1>1. PICK o : o = ft[fd] /\ o.k # "file" /\ \A n \in Op : o # cd(n) /\ o # sd(n)
  OBVIOUS
<1>2. disk' = disk /\ (outq' = outq \/ outq' = [outq EXCEPT ![o] = @ \o ms])
  BY <1>1 DEF Written, Put, Unwritten
<1> QED  BY <1>1, <1>2, ConnType, Calmly

\* ControlOn: a command or a reply that is passed on.
LEMMA ControlOn ==
    ASSUME Calm, StreamsInv, UNCHANGED peers, NEW r \in {"accept_cmd", "connect_cmd"},
           NEW last, NEW x \in Fetched(sock[r], last), inq' = x.q,
           OtherCommand(x) \/ RetrForwarded(x) \/ OtherReply(x)
    PROVE  StreamsInv' /\ Advance
<1>1. UNCHANGED <<fds, remote, fin>> /\ \E role \in {"accept_cmd", "connect_cmd"} :
                                            PassOn(x, role)
  BY DEF OtherCommand, RetrForwarded, OtherReply
<1>2. UNCHANGED <<fdt, backlog, est>>
  BY <1>1 DEF fds, remote
<1>3. PICK role \in {"accept_cmd", "connect_cmd"} : PassOn(x, role)
  BY <1>1
<1>4. Written(Unwritten) \/ Written(Put(Unwritten, fdt, sock[role], <<x.m>>))
  BY <1>3 DEF PassOn
<1>5. /\ disk' = disk
      /\ \A n \in Op : outq'[cd(n)] = outq[cd(n)] /\ outq'[sd(n)] = outq[sd(n)]
  <2>1. CASE Written(Unwritten)
    BY <2>1 DEF Written, Unwritten
  <2>2. CASE Written(Put(Unwritten, fdt, sock[role], <<x.m>>))
    BY <2>2, Controls, WroteAside
  <2> QED  BY <1>4, <2>1, <2>2
<1>6. \A n \in Op : Handed(n)' <=> Handed(n)
  BY <1>2 DEF Handed, NoData, NoRelay
<1> QED  BY <1>1, <1>2, <1>5, <1>6, ReadAside, ProxyStays

\* PairClosed: the control pair is closed.
LEMMA PairClosed ==
    ASSUME Calm, StreamsInv, UNCHANGED peers, NEW r \in {"accept_cmd", "connect_cmd"},
           NEW last, NEW x \in Fetched(sock[r], last), inq' = x.q,
           ClientGone(x) \/ ServerGone(x)
    PROVE  StreamsInv' /\ Advance
<1>1. CloseAll(ControlPair, ControlPair) /\ UNCHANGED <<remote, written, fin>>
  BY DEF ClientGone, ServerGone
<1>2. UNCHANGED <<est, outq, disk>>
  BY <1>1 DEF remote, written
<1>3. ControlPair \subseteq {0, 4, 5} /\ \A fd \in ControlPair, p \in Port : fdt[fd] # Listener(p)
  BY Controls DEF ControlPair
<1>4. 7 \in Fd /\ 9 \in Fd /\ fdt \in [Fd -> Object] /\ backlog \in [Port -> Seq(Conn)]
  BY LowFds, Calmly DEF Calm, ProcessOK, NetOK
<1>5. fdt'[7] = fdt[7] /\ fdt'[9] = fdt[9]
  BY <1>1, <1>3, <1>4 DEF CloseAll, Closed
<1>6. backlog' = backlog
  BY <1>1, <1>3, <1>4 DEF CloseAll, Dropped
<1>7. \A n \in Op : Handed(n)' <=> Handed(n)
  BY <1>2, <1>5, <1>6 DEF Handed, NoData, NoRelay
<1> QED  BY <1>1, <1>2, <1>5, <1>7, ReadAside, ProxyStays

\* ListenerNew: the listener for data is replaced before the command.
LEMMA ListenerNew ==
    ASSUME Calm, Calm', StreamsInv, UNCHANGED peers,
           NEW r \in {"accept_cmd", "connect_cmd"},
           NEW last, NEW x \in Fetched(sock[r], last), inq' = x.q,
           NEW p, p \in Op, NEW mode, NEW role \in {"accept_cmd", "connect_cmd"}, NEW m,
           DataListener(p, mode, role, m),
           NEW s \in Session, client[s].ph = "setup"
    PROVE  StreamsInv' /\ Advance
<1>1. NoData /\ NoData' /\ fdt[9] = Free /\ fdt'[9] = Free
  BY AtRest DEF peers
<1>2. /\ fin' = fin /\ est' = est /\ disk' = disk
      /\ \A n \in Op : outq'[cd(n)] = outq[cd(n)] /\ outq'[sd(n)] = outq[sd(n)]
  <2>1. CASE Exit
    BY <2>1 DEF Exit, remote
  <2>2. CASE ~Exit
    <3>1. PICK ft, w : /\ ft = Opened(Closed(fdt, OldListener), Listener(p))
                       /\ UNCHANGED <<remote, fin>>
                       /\ Written(Put(Unwritten, ft, sock[role], <<w>>))
      BY <2>2 DEF DataListener
    <3>2. sock[role] \in Fd /\ fdt \in [Fd -> Object]
      BY Controls, LowFds, Calmly DEF Calm, ProcessOK
    <3>3. ft[sock[role]] \in {fdt[sock[role]], Free, Listener(p)}
      BY <3>1, <3>2 DEF Opened, Closed
    <3>4. /\ Listener(p).k # "file" /\ Free.k # "file"
          /\ \A n \in Op : /\ Listener(p) # cd(n) /\ Listener(p) # sd(n)
                           /\ Free # cd(n) /\ Free # sd(n)
      BY Kinds, NumType, ConnType
    <3>5. /\ ft[sock[role]].k # "file"
          /\ \A n \in Op : ft[sock[role]] # cd(n) /\ ft[sock[role]] # sd(n)
      BY <3>3, <3>4, Controls
    <3> QED  BY <3>1, <3>5, WroteAside DEF remote
  <2> QED  BY <2>1, <2>2
<1>3. \A n \in Op : Handed(n)' <=> Handed(n)
  BY <1>1, <1>2 DEF Handed
<1> QED  BY <1>1, <1>2, <1>3, ReadAside, ProxyStays

\* SelectStream: select() returns.
LEMMA SelectStream ==
    ASSUME Calm, StreamsInv, Select, UNCHANGED peers PROVE StreamsInv' /\ Advance
<1>1. UNCHANGED <<inq, outq, disk, fin, fdt, backlog, est>>
  BY DEF Select, Exit, fds, remote, written
<1>2. \A n \in Op : Handed(n)' <=> Handed(n)
  BY <1>1 DEF Handed, NoData, NoRelay
<1> QED  BY <1>1, <1>2, ProxyStays

\* AcceptClientStream: the proxy accepts a client.
LEMMA AcceptClientStream ==
    ASSUME Calm, Calm', StreamsInv, AcceptClient, UNCHANGED peers PROVE StreamsInv' /\ Advance
<1> USE Calmly
<1>1. Turn("proxy_cmd") /\ "proxy_cmd" \in Role /\ sock["proxy_cmd"] = 3
  BY DEF AcceptClient, Numbers, Role
<1>2. fdt[3] = Listener(CmdPort) /\ backlog[CmdPort] # <<>>
  BY <1>1, NumType DEF AcceptClient, Descriptors
<1>3. PICK s \in Session : client[s].ph = "greet"
  BY <1>2 DEF Sessions, Queued
<1>4. NoData /\ NoData' /\ fdt[9] = Free /\ fdt'[9] = Free
  BY <1>3, AtRest DEF peers
<1>5. UNCHANGED <<inq, outq, disk, fin>>
  BY DEF AcceptClient, Exit, written
<1>6. est \subseteq est' /\ \A n \in Op : cd(n) \in est' <=> cd(n) \in est
  <2>1. PICK q : q = Head(backlog[CmdPort]).n
    OBVIOUS
  <2>2. est' = est \/ est' = est \cup {[k |-> "sc", n |-> q]}
    BY <2>1 DEF AcceptClient, Exit, remote
  <2>3. \A n \in Op : cd(n) # [k |-> "sc", n |-> q]
    BY DEF cd
  <2> QED  BY <2>2, <2>3
<1>7. \A n \in Op : Handed(n)' <=> Handed(n)
  BY <1>4, <1>6 DEF Handed
<1> QED  BY <1>4, <1>5, <1>6, <1>7, ProxyStays

-----------------------------------------------------------------------------
(***************************************************************************)
(* Commands and replies, and files sent from the cache.                    *)
(***************************************************************************)

\* What a queue holds when ms has been written to it.
After(q, ms) == q \o ms

\* FileWritten: the file between two replies goes to its own connection.
LEMMA FileWritten ==
    ASSUME Calm, NEW s \in Session, NEW n \in Op, cd(n) \notin fin, NEW ms, NEW ft1, NEW ft2,
           ft1[5] = cc(s), ft2[5] = cc(s), ft2[7] = cd(n),
           Written(Put(Put(Put(Unwritten, ft1, 5, <<Say("150")>>), ft2, 7, ms), ft2, 5,
                       <<Say("226")>>))
    PROVE  /\ outq'[cd(n)] = After(outq[cd(n)], ms)
           /\ \A k \in Conn \ {cc(s), cd(n)} : outq'[k] = outq[k]
           /\ disk' = disk
<1>1. PICK c \in Conn, e \in Conn : c = cc(s) /\ e = cd(n) /\ c # e /\ e \notin fin
  BY Calmly, ConnType, Distinct
<1>2. c.k # "file" /\ IsConn(e) /\ e.k # "file" /\ outq \in [Conn -> Seq(Msg)]
  BY <1>1, Calmly, Kinds DEF NetOK
<1>3. PICK w1 : w1 = Put(Unwritten, ft1, 5, <<Say("150")>>)
  OBVIOUS
<1>4. PICK w2 : w2 = Put(w1, ft2, 7, ms)
  OBVIOUS
<1>5. PICK w3 : w3 = Put(w2, ft2, 5, <<Say("226")>>)
  OBVIOUS
<1>6. w1.q \in {outq, [outq EXCEPT ![c] = After(@, <<Say("150")>>)]} /\ w1.d = disk
  BY <1>1, <1>2, <1>3 DEF Put, Unwritten, After
<1>7. w2.q = [w1.q EXCEPT ![e] = After(@, ms)] /\ w2.d = disk
  BY <1>1, <1>2, <1>4, <1>6 DEF Put, After
<1>8. w3.q \in {w2.q, [w2.q EXCEPT ![c] = After(@, <<Say("226")>>)]} /\ w3.d = disk
  BY <1>1, <1>2, <1>5, <1>7 DEF Put, After
<1>9. outq' = w3.q /\ disk' = disk
  BY <1>3, <1>4, <1>5, <1>8 DEF Written
<1>10. DOMAIN w1.q = Conn /\ w1.q[e] = outq[e] /\ \A k \in Conn \ {c, e} : w1.q[k] = outq[k]
  BY <1>1, <1>2, <1>6
<1>11. /\ DOMAIN w2.q = Conn /\ w2.q[e] = After(outq[e], ms)
       /\ \A k \in Conn \ {c, e} : w2.q[k] = outq[k]
  BY <1>1, <1>7, <1>10
<1>12. w3.q[e] = After(outq[e], ms) /\ \A k \in Conn \ {c, e} : w3.q[k] = outq[k]
  BY <1>1, <1>8, <1>11
<1> QED  BY <1>1, <1>9, <1>12

\* FromCache: a file sent from the cache to a client that has nothing yet.
LEMMA FromCache ==
    ASSUME Calm, StreamsInv, UNCHANGED <<peers, fin, disk>>,
           NEW s \in Session, server[s].ph = "idle",
           NEW n \in Op, n = nop, client[s].n = n, IsGet(n), op[n].m.f \in DOMAIN disk,
           ~Handed(n), cd(n) \notin fin, sd(n) \notin fin,
           fdt[9] = Free, fdt'[9] = Free, NoData', cd(n) \in est',
           \A k \in Op : k # n => outq'[cd(k)] = outq[cd(k)],
           \A k \in Op : outq'[sd(k)] = outq[sd(k)],
           outq'[cd(n)] = After(outq[cd(n)], disk[op[n].m.f])
    PROVE  StreamsInv' /\ Advance
<1> USE Calmly
<1>1. UNCHANGED <<client, op, nop, server, sdisk, fetches>>
  BY DEF peers
<1>2. PICK f \in File : f = op[n].m.f /\ f \in OnServer /\ f \in DOMAIN disk
  BY Kind
<1>3. op[n].s = s
  BY LastIs
<1>4. PICK b \in Seq(Msg) : b = disk[f]
  BY <1>2 DEF ProcessOK, FilesOK
<1>5. f \in Cacheable
  BY <1>2 DEF StreamsInv, CacheFiles
<1>6. PICK g \in Seq(Msg), q \in Seq(Msg), i \in Seq(Msg) :
         g = op[n].got /\ q = outq[cd(n)] /\ i = inq[sd(n)]
  BY ConnType DEF OpState
<1>7. (g \o q) \o i = <<>>
  <2>1. Fetching(n)
    BY DEF StreamsInv, Stream
  <2>2. Total(n) = 0
    BY <1>3 DEF Total
  <2>3. sdisk[f] \in Seq(Msg)
    BY <1>2, WholeIs DEF StreamsInv, ServerFiles, Fetches
  <2>4. SubSeq(sdisk[f], 1, 0) = <<>>
    BY <2>3, Prefixes
  <2> QED  BY <1>2, <1>6, <2>1, <2>2, <2>4 DEF Fetching, Got
<1>8. g = <<>> /\ q = <<>>
  <2>1. Len((g \o q) \o i) = Len(g) + Len(q) + Len(i)
    OBVIOUS
  <2>2. Len(g) \in Nat /\ Len(q) \in Nat /\ Len(i) \in Nat
    OBVIOUS
  <2>3. Len(g) = 0 /\ Len(q) = 0
    BY <1>7, <2>1, <2>2
  <2> QED  BY <2>3, EmptySeq
<1>9. Got(n)' = disk[f]
  <2>1. <<>> \o (<<>> \o b) = b
    OBVIOUS
  <2> QED  BY <1>1, <1>2, <1>4, <1>6, <1>8, <2>1 DEF Got, After
<1>10. Handed(n)'
  BY DEF Handed
<1>11. Fetching(n)'
  BY <1>1, <1>2, <1>5, <1>9, <1>10 DEF Fetching
<1>12. Stream(n)'
  BY <1>1, <1>3, <1>11, Kind DEF Stream, IsGet, IsPut
<1>13. ServerFiles' /\ CacheFiles'
  BY <1>1, FilesStay
<1>14. Begun'
  BY <1>1, BegunStays DEF ServersStay
<1>15. Advance
  BY DEF Advance, CacheAdvance
<1> QED  BY <1>1, <1>12, <1>13, <1>14, <1>15, LastMoves

\* AnsweredStream: RETR of a file in the cache.
LEMMA AnsweredStream ==
    ASSUME Calm, StreamsInv, UNCHANGED peers, NEW s \in Session, Serving(s),
           NEW n \in Op, n = nop, client[s].n = n, Busy(s, n), Asked(s, n), IsGet(n),
           NEW x, x.m = op[n].m, RetrCached(x),
           \A k \in Op : inq'[cd(k)] = inq[cd(k)] /\ inq'[sd(k)] = inq[sd(k)]
    PROVE  StreamsInv' /\ Advance
<1> USE Calmly
<1>1. UNCHANGED <<fin, backlog>> /\ op[n].m.f \in DOMAIN disk /\ server[s].ph = "idle"
  BY DEF RetrCached, isFileExist, Asked
<1>2. /\ Armed(n) /\ NoRelay /\ proxy_data_mode = op[n].mode /\ proxy_data_port = n
      /\ op[n].mode \in {"PORT", "PASV"}
  BY AskedIs, Kind DEF Armed
<1>3. CASE Passive(n)
  <2>1. UNCHANGED <<fdt, est, outq, disk>>
    BY <1>2, <1>3 DEF RetrCached, Passive, remote, written
  <2>2. \A k \in Op : Handed(k)' <=> Handed(k)
    BY <1>1, <2>1 DEF Handed, NoData, NoRelay
  <2> QED  BY <1>1, <2>1, <2>2, ProxyStays
<1>4. CASE ~Passive(n)
  <2>1. /\ proxy_data_mode = "PORT" /\ Unopened(n) /\ NoData /\ Fresh(n) /\ n \in lsn["client"]
    BY <1>2, <1>4, AskedIs DEF Passive, Unopened, Expected
  <2>2. cd(n) \notin fin /\ sd(n) \notin fin /\ ~Handed(n)
    BY <2>1, WaysApart DEF Fresh
  <2>3. Connected("client", n) = cd(n)
    BY <2>1 DEF Connected, cd
  <2>4. /\ 5 \in Fd /\ 7 \in Fd /\ 9 \in Fd /\ fdt \in [Fd -> Object]
        /\ fdt[5] = cc(s) /\ sock["accept_cmd"] = 5
    <3>1. fdt[4] = sc(s) /\ fdt[5] = cc(s) /\ sc(s) # Free
      BY Kinds, ConnType DEF Serving, Pair
    <3> QED  BY <3>1, LowFds DEF Calm, ProcessOK, Numbers
  <2>5. PICK ft : ft = [fdt EXCEPT ![7] = cd(n)]
    OBVIOUS
  <2>6. /\ ft[7] = cd(n) /\ ft[5] = cc(s) /\ ft[9] = fdt[9]
        /\ ft = [fdt EXCEPT ![7] = ft[7]] /\ ft[7] # Free
    BY <2>4, <2>5, Kinds, ConnType
  <2>7. Lowest(fdt) = 7 /\ fdt[7] = Free /\ fdt[9] = Free /\ Lowest(ft) # NoFd
    BY <1>2, <2>6, Vacant
  <2>8. Opened(fdt, cd(n)) = ft
    BY <2>5, <2>7 DEF Opened
  <2>9. /\ Dial("client", n) /\ fdt' = Closed(ft, {7})
        /\ Written(Put(Put(Put(Unwritten, fdt, sock["accept_cmd"], <<Say("150")>>), ft, 7,
                           disk[op[n].m.f]), ft, sock["accept_cmd"], <<Say("226")>>))
    <3>1. "PORT" # "PASV"
      OBVIOUS
    <3> QED  BY <1>2, <2>1, <2>3, <2>7, <2>8, <3>1 DEF RetrCached, proxy_rw
  <2>10. fdt'[7] = Free /\ fdt'[9] = Free
    BY <2>4, <2>6, <2>7, <2>9 DEF Closed
  <2>11. NoData'
    BY <1>1, <2>1, <2>10 DEF NoData, NoRelay
  <2>12. cd(n) \in est'
    BY <2>1, <2>3, <2>9 DEF Dial
  <2>13. cc(s) \in Conn /\ cd(n) \in Conn /\ cc(s) # cd(n)
    BY ConnType, Distinct
  <2>14. /\ outq'[cd(n)] = After(outq[cd(n)], disk[op[n].m.f]) /\ disk' = disk
         /\ \A k \in Conn \ {cc(s), cd(n)} : outq'[k] = outq[k]
    <3>1. /\ Calm /\ fdt[5] = cc(s) /\ ft[5] = cc(s) /\ ft[7] = cd(n)
          /\ Written(Put(Put(Put(Unwritten, fdt, 5, <<Say("150")>>), ft, 7, disk[op[n].m.f]),
                         ft, 5, <<Say("226")>>))
      BY <2>4, <2>6, <2>9
    <3> QED  BY ONLY <2>2, <3>1, s \in Session, n \in Op, FileWritten
  <2>15. \A k \in Op : /\ k # n => outq'[cd(k)] = outq[cd(k)]
                       /\ outq'[sd(k)] = outq[sd(k)]
    BY <2>14, ConnType, Distinct
  <2> QED  BY <1>1, <2>2, <2>7, <2>10, <2>11, <2>12, <2>14, <2>15, FromCache
<1> QED  BY <1>3, <1>4

\* ClientAsks: a PORT or RETR that is read is what the client that is served has
\* sent.
LEMMA ClientAsks ==
    ASSUME Calm, Turn("accept_cmd"), NEW x \in Fetched(sock["accept_cmd"], cmdbuf),
           x.got # "eof", x.m.t \in {"PORT", "RETR"}
    PROVE  \E s \in Session :
              /\ Serving(s)
              /\ \/ client[s].ph = "setup" /\ x.m.t = "PORT" /\ x.m.n \in Op
                 \/ \E n \in Op : /\ n = nop /\ client[s].n = n /\ Busy(s, n)
                                  /\ Asked(s, n) /\ x.m = op[n].m /\ IsGet(n)
<1> USE Calmly
<1>1. sock["accept_cmd"] = 5
  <2>1. sock["accept_cmd"] \in 3..8
    BY TurnIs DEF Role
  <2> QED  BY <2>1 DEF Numbers
<1>2. fdt[5] # Free
  <2> SUFFICES ASSUME fdt[5] = Free PROVE FALSE
    OBVIOUS
  <2>1. x.m \in {Junk, cmdbuf} /\ cmdbuf \in {Junk, Say("QUIT")}
    BY <1>1, Kinds DEF Fetched, Scan
  <2> QED  BY <2>1, Words
<1>3. PICK s \in Session : Serving(s)
  BY <1>2, ServedIs
<1>4. cc(s) \in Conn /\ fdt[5] = cc(s)
  BY <1>3, ConnType DEF Serving, Pair
<1>5. inq[cc(s)] # <<>> /\ x.m = Head(inq[cc(s)])
  <2>1. x \in Fetched(5, cmdbuf) /\ IsConn(fdt[5])
    BY <1>1, <1>4, Kinds
  <2> QED  BY <1>4, <2>1 DEF Fetched
<1>6. \A m \in Msg : Carried(s, <<m>>, <<>>, <<>>, <<>>) => x.m = m
  BY <1>5, Short DEF Carried
<1>7. ~Carried(s, <<Say("QUIT")>>, <<>>, <<>>, <<>>)
  BY <1>6, SayType, Words
<1>8. ASSUME NEW n \in Op, n = nop, client[s].ph = "setup",
             Carried(s, <<Setting(n, "client")>>, <<>>, <<>>, <<>>)
      PROVE  x.m.t = "PORT" /\ x.m.n \in Op
  <2>1. PICK m \in Msg : m = Setting(n, "client") /\ m.t = op[n].mode /\ m.n = n
    BY <1>8, Kind, Words DEF Host
  <2>2. x.m = m
    BY <1>6, <1>8, <2>1
  <2> QED  BY <1>8, <2>1, <2>2, Kind
<1>9. ASSUME NEW n \in Op, n = nop, Carried(s, <<op[n].m>>, <<>>, <<>>, <<>>)
      PROVE  x.m = op[n].m /\ IsGet(n)
  <2>1. x.m = op[n].m
    BY <1>6, <1>9, Kind
  <2> QED  BY <1>9, <2>1, Kind DEF IsGet, IsPut
<1> QED  BY <1>3, <1>5, <1>7, <1>8, <1>9, Asking

\* CommandStream: any command of the client.
LEMMA CommandStream ==
    ASSUME Calm, Calm', StreamsInv, Command, UNCHANGED peers PROVE StreamsInv' /\ Advance
<1>1. Turn("accept_cmd")
  BY DEF Command
<1>2. PICK x \in Fetched(sock["accept_cmd"], cmdbuf) :
         /\ inq' = x.q
         /\ \/ ClientGone(x)    \/ PortCommand(x) \/ RetrCached(x)
            \/ RetrForwarded(x) \/ OtherCommand(x)
  BY DEF Command
<1>3. CASE ClientGone(x)
  BY <1>2, <1>3, PairClosed
<1>4. CASE RetrForwarded(x) \/ OtherCommand(x)
  BY <1>2, <1>4, ControlOn
<1>5. CASE PortCommand(x)
  <2>1. /\ x.got # "eof" /\ x.m.t = "PORT"
        /\ DataListener(x.m.n, "PORT", "connect_cmd", x.m)
    BY <1>5 DEF PortCommand
  <2>2. PICK s \in Session : client[s].ph = "setup" /\ x.m.n \in Op
    BY <1>1, <2>1, ClientAsks DEF IsGet
  <2> QED  BY <1>2, <2>1, <2>2, ListenerNew
<1>6. CASE RetrCached(x)
  <2>1. x.got # "eof" /\ x.m.t = "RETR"
    BY <1>6 DEF RetrCached
  <2>2. PICK s \in Session, n \in Op :
           /\ Serving(s) /\ n = nop /\ client[s].n = n /\ Busy(s, n) /\ Asked(s, n)
           /\ x.m = op[n].m /\ IsGet(n)
    BY <1>1, <2>1, ClientAsks
  <2>3. \A k \in Op : inq'[cd(k)] = inq[cd(k)] /\ inq'[sd(k)] = inq[sd(k)]
    BY <1>2, ReadAside
  <2> QED  BY <1>6, <2>2, <2>3, AnsweredStream
<1> QED  BY <1>2, <1>3, <1>4, <1>5, <1>6

\* ReplyStream: any reply of the server.
LEMMA ReplyStream ==
    ASSUME Calm, Calm', StreamsInv, Reply, UNCHANGED peers PROVE StreamsInv' /\ Advance
<1> USE Calmly
<1>1. Turn("connect_cmd") /\ "connect_cmd" \in Role
  BY DEF Reply, Role
<1>2. PICK x \in Fetched(sock["connect_cmd"], repbuf) :
         /\ inq' = x.q
         /\ ServerGone(x) \/ PassiveReply(x) \/ OtherReply(x)
  BY DEF Reply
<1>3. CASE ServerGone(x)
  BY <1>2, <1>3, PairClosed
<1>4. CASE OtherReply(x)
  BY <1>2, <1>4, ControlOn
<1>5. CASE PassiveReply(x)
  <2>1. /\ x.got # "eof" /\ x.m.t = "227"
        /\ DataListener(x.m.n, "PASV", "accept_cmd", x.m)
    BY <1>5 DEF PassiveReply
  <2>2. sock["connect_cmd"] = 4 /\ Ready(4)
    <3>1. sock["connect_cmd"] \in 3..8 /\ Ready(sock["connect_cmd"])
      BY <1>1, TurnIs
    <3> QED  BY <3>1 DEF Numbers
  <2>3. fdt[4] # Free
    <3>1. <<4, pos[1]>> \notin {<<5, 4>>, <<8, 7>>}
      OBVIOUS
    <3> QED  BY <2>2, <3>1, ReadableIs DEF Ready
  <2>4. PICK s \in Session : Serving(s)
    BY <2>3, ServedIs
  <2>5. sc(s) \in Conn /\ fdt[4] = sc(s)
    BY <2>4, ConnType DEF Serving, Pair
  <2>6. inq[sc(s)] # <<>> /\ x.m = Head(inq[sc(s)])
    <3>1. x \in Fetched(4, repbuf) /\ IsConn(fdt[4])
      BY <2>2, <2>5, Kinds
    <3> QED  BY <2>1, <2>5, <3>1 DEF Fetched
  <2>7. \A m \in Msg : \A y : /\ Carried(s, <<>>, <<>>, <<m>>, y) => x.m = m
                             /\ \A z \in Msg :
                                   Carried(s, <<>>, <<>>, <<m, z>>, y) => x.m = m
    BY <2>6, Short DEF Carried
  <2>8. \A t \in {"220", "221", "200", "150", "226"} : Say(t) \in Msg /\ Say(t).t # "227"
    BY SayType, Words
  <2>9. client[s].ph = "setup" /\ x.m.n \in Op
    <3>1. \A n \in Op : Agreed(n, "server") \in Msg /\ Agreed(n, "server").n = n
      BY Words DEF Host
    <3> QED  BY <2>1, <2>4, <2>6, <2>7, <2>8, <3>1, Telling
  <2> QED  BY <1>2, <2>1, <2>9, ListenerNew
<1> QED  BY <1>2, <1>3, <1>4, <1>5

-----------------------------------------------------------------------------
(***************************************************************************)
(* The data connection is accepted: a relay begins, or the cache answers.  *)
(***************************************************************************)

\* RelayDisk: a relay creates the file of the cache, or no file.
LEMMA RelayDisk ==
    ASSUME NEW r1, NEW r2, NEW host, NEW asks \in BOOLEAN, Relay(r1, r2, host, asks),
           status = "running", status' = status,
           NEW caching \in BOOLEAN, caching => asks,
           cache' = IF asks THEN caching ELSE cache
    PROVE  disk' = IF caching THEN [f \in DOMAIN disk \cup {file} |->
                                       IF f = file THEN <<>> ELSE disk[f]]
                   ELSE disk
<1>1. PICK b \in BOOLEAN :
         /\ disk' = IF b THEN [f \in DOMAIN disk \cup {file} |->
                                  IF f = file THEN <<>> ELSE disk[f]]
                    ELSE disk
         /\ cache' = IF asks THEN b ELSE cache
         /\ b => asks
  <2>1. ~Exit
    BY DEF Exit
  <2>2. \A ft : isCacheExist(ft) \in BOOLEAN
    BY DEF isCacheExist
  <2>3. \E ft : LET b == asks /\ isCacheExist(ft)
                IN  /\ disk' = IF b THEN [f \in DOMAIN disk \cup {file} |->
                                             IF f = file THEN <<>> ELSE disk[f]]
                               ELSE disk
                    /\ cache' = IF asks THEN b ELSE cache
    BY <2>1 DEF Relay
  <2>4. PICK ft : LET b == asks /\ isCacheExist(ft)
                  IN  /\ disk' = IF b THEN [f \in DOMAIN disk \cup {file} |->
                                               IF f = file THEN <<>> ELSE disk[f]]
                                 ELSE disk
                      /\ cache' = IF asks THEN b ELSE cache
    BY <2>3
  <2> QED  BY <2>2, <2>4
<1>2. b = caching
  BY <1>1
<1> QED  BY <1>1, <1>2

\* NothingGot: a download whose data connection is still to be opened on one
\* side has brought nothing.
LEMMA NothingGot ==
    ASSUME Calm, StreamsInv, NEW n \in Op, n = nop, IsGet(n), Pending(n), cd(n) \notin fin,
           Passive(n) => server[op[n].s].ph # "send"
    PROVE  Got(n) = <<>>
<1> USE Calmly
<1>1. ~Handed(n)
  BY ShortConn, ConnType DEF Handed, NoData, Pending, First
<1>2. Fetching(n)
  BY DEF StreamsInv, Stream
<1>3. CASE ~Passive(n)
  <2>1. cd(n) \notin est
    BY <1>3 DEF Pending, Second
  <2> QED  BY <1>1, <1>2, <2>1 DEF Fetching
<1>4. CASE Passive(n)
  <2>1. sd(n) \notin fin
    BY <1>4 DEF Pending, Second
  <2>2. Total(n) = 0
    BY <1>4, <2>1 DEF Total
  <2>3. PICK f \in File : f = op[n].m.f /\ f \in OnServer
    BY Kind
  <2>4. sdisk[f] \in Seq(Msg)
    BY <2>3, WholeIs DEF StreamsInv, ServerFiles, Fetches
  <2>5. SubSeq(sdisk[f], 1, 0) = <<>>
    BY <2>4, Prefixes
  <2>6. PICK g \in Seq(Msg), q \in Seq(Msg), i \in Seq(Msg) :
           g = op[n].got /\ q = outq[cd(n)] /\ i = inq[sd(n)]
    BY ConnType DEF OpState
  <2>7. (g \o q) \o i = <<>>
    BY <1>1, <1>2, <2>2, <2>3, <2>5, <2>6 DEF Fetching, Got
  <2>8. g \o q = <<>>
    <3>1. Len((g \o q) \o i) = Len(g) + Len(q) + Len(i)
      OBVIOUS
    <3>2. Len(g) \in Nat /\ Len(q) \in Nat /\ Len(i) \in Nat
      OBVIOUS
    <3>3. Len(g) = 0 /\ Len(q) = 0
      BY <2>7, <3>1, <3>2
    <3>4. g = <<>> /\ q = <<>>
      BY <3>3, EmptySeq
    <3> QED  BY <3>4
  <2> QED  BY <2>6, <2>8 DEF Got
<1> QED  BY <1>3, <1>4

\* RelayStream: a relay begins with the file of the cache empty, like what the
\* client has.
LEMMA RelayStream ==
    ASSUME Calm, StreamsInv, UNCHANGED <<peers, inq, outq, fin>>,
           NEW s \in Session, NEW n \in Op, n = nop, client[s].n = n,
           Pending(n), Missing(n), Known(n), est \subseteq est',
           fdt'[7] # Free, Passive(n) => server[s].ph # "send",
           IsGet(n) => cd(n) \notin fin,
           NEW caching \in BOOLEAN, caching <=> IsGet(n) /\ op[n].m.f \in Cacheable,
           fdt'[9] = (IF caching THEN CacheFile(op[n].m.f) ELSE Free),
           disk' = IF caching THEN [f \in DOMAIN disk \cup {file} |->
                                       IF f = file THEN <<>> ELSE disk[f]]
                   ELSE disk
    PROVE  StreamsInv' /\ Advance
<1> USE Calmly
<1>1. UNCHANGED <<client, op, nop, server, sdisk, fetches>>
  BY DEF peers
<1>2. PICK f \in File : f = op[n].m.f
  BY Kind
<1>3. op[n].s = s
  BY LastIs
<1>4. /\ IsGet(n)' = IsGet(n) /\ IsPut(n)' = IsPut(n)
      /\ Got(n)' = Got(n) /\ Total(n)' = Total(n) /\ Taken(n)' = Taken(n)
  BY <1>1 DEF IsGet, IsPut, Got, Total, Taken
<1>5. ~Handed(n) /\ ~Handed(n)' /\ fdt[9] = Free
  <2>1. ~NoData
    BY ShortConn, ConnType DEF NoData, Pending, First
  <2> QED  BY <2>1 DEF Handed, NoData, NoRelay, Pending
<1>6. /\ caching => file = f /\ f \in Cacheable /\ f \notin DOMAIN disk
      /\ \A g \in File : Free # CacheFile(g)
      /\ \A g, h \in File : CacheFile(g) = CacheFile(h) => g = h
  <2>1. \A g, h \in File : CacheFile(g) = CacheFile(h) => g = h
    BY Kinds
  <2> QED  BY <1>2, <2>1, Kinds DEF Known, Missing
<1>7. DOMAIN disk \subseteq File
  BY DEF ProcessOK, FilesOK
<1>8. CacheFiles'
  <2>1. \A g \in DOMAIN disk : g \in Cacheable /\ Whole(g, disk[g])
    BY <1>5, <1>6, <1>7 DEF StreamsInv, CacheFiles
  <2>2. CASE ~caching
    BY <2>1, <2>2 DEF CacheFiles
  <2>3. CASE caching
    <3>1. /\ DOMAIN disk' = DOMAIN disk \cup {f} /\ fdt'[9] = CacheFile(f)
          /\ \A g \in DOMAIN disk : disk'[g] = disk[g]
      BY <1>2, <1>6, <2>3
    <3> QED  BY <1>6, <2>1, <2>3, <3>1 DEF CacheFiles
  <2> QED  BY <2>2, <2>3
<1>9. ServerFiles' /\ Begun'
  BY <1>1 DEF StreamsInv, ServerFiles, Begun, Begins
<1>10. ASSUME IsGet(n) PROVE Fetching(n)'
  <2>1. cd(n) \notin fin /\ Fetching(n)
    BY <1>10 DEF StreamsInv, Stream
  <2>2. Got(n) = <<>>
    BY <1>3, <1>10, <2>1, NothingGot
  <2>3. Got(n) \o inq[sd(n)] = SubSeq(sdisk[f], 1, Total(n))
    BY <1>2, <1>5, <2>1 DEF Fetching
  <2>4. fdt'[9] = CacheFile(f) => disk'[f] = <<>>
    <3>1. fdt'[9] = CacheFile(f) => caching
      BY <1>6
    <3> QED  BY <1>2, <1>6, <3>1
  <2> QED  BY <1>1, <1>2, <1>4, <1>5, <2>2, <2>3, <2>4 DEF Fetching
<1>11. ASSUME IsPut(n) PROVE Storing(n)'
  <2>1. Storing(n)
    BY <1>11 DEF StreamsInv, Stream
  <2>2. sd(n) \notin fin => Taken(n) \o (outq[sd(n)] \o inq[cd(n)])
                               = SubSeq(Contents(f, n), 1, op[n].put)
    BY <1>2, <2>1 DEF Storing
  <2>3. cd(n) \in fin /\ sd(n) \notin fin => op[n].put = NChunk
    BY <2>1 DEF Storing
  <2>4. sd(n) \in fin => f \in DOMAIN sdisk /\ sdisk[f] = Contents(f, n)
    BY <1>2, <2>1 DEF Storing
  <2> QED  BY <1>1, <1>2, <1>4, <1>5, <2>2, <2>3, <2>4 DEF Storing
<1>12. Stream(n)'
  <2>1. IsGet(n) /\ cd(n) \in fin => Whole(op[n].m.f, op[n].got)
    BY DEF StreamsInv, Stream
  <2> QED  BY <1>1, <1>3, <1>4, <1>10, <1>11, <2>1 DEF Stream
<1>13. Advance
  <2>1. CASE ~caching
    BY <1>5, <2>1 DEF Advance, CacheAdvance
  <2>2. CASE caching
    <3>1. /\ f \in File \ DOMAIN disk /\ fdt'[9] = CacheFile(f)
          /\ DOMAIN disk' = DOMAIN disk \cup {f}
          /\ \A g \in DOMAIN disk : disk'[g] = disk[g]
      BY <1>2, <1>6, <2>2
    <3> QED  BY <1>5, <3>1 DEF Advance, CacheAdvance
  <2> QED  BY <2>1, <2>2
<1> QED  BY <1>1, <1>8, <1>9, <1>12, <1>13, LastMoves

\* ServedStream: the data connection of a client that wants a file of the cache.
LEMMA ServedStream ==
    ASSUME Calm, StreamsInv, UNCHANGED <<peers, inq>>, Turn("proxy_data"),
           NEW s \in Session, Serving(s), NEW n \in Op, n = nop, client[s].n = n,
           Busy(s, n), Pending(n), Hidden(s, n), sock["proxy_data"] = 6, ServeCached
    PROVE  StreamsInv' /\ Advance
<1> USE Calmly
<1>1. /\ Passive(n) /\ IsGet(n) /\ Known(n) /\ op[n].m.f \in DOMAIN disk
      /\ server[s].ph = "idle" /\ Armed(n) /\ NoRelay /\ file = op[n].m.f
  BY DEF Hidden, Busy, Pending, Known
<1>2. /\ fdt[6] = Listener(n) /\ n \in Port /\ First(n) = cd(n) /\ cd(n) \in est
      /\ backlog[n] = <<cd(n)>> /\ cd(n) \notin fin /\ sd(n) \notin fin
  BY <1>1, NumType DEF Armed, Pending, First, Second
<1>3. cc(s) \in Conn /\ fdt[4] = sc(s) /\ fdt[5] = cc(s) /\ cd(n) \in Conn /\ fdt[4] # Free
  BY ConnType, Kinds DEF Serving, Pair
<1>4. /\ sock["accept_cmd"] = 5
      /\ Head(backlog[n]) = cd(n) /\ Tail(backlog[n]) = <<>> /\ backlog[n] # <<>>
  BY <1>2, <1>3, ShortConn DEF Numbers
<1>5. (CHOOSE q \in Port : fdt[sock.proxy_data] = Listener(q)) = n
  BY <1>2, <1>4, Waiting DEF Calm, Inv
<1>6. /\ 4 \in Fd /\ 5 \in Fd /\ 6 \in Fd /\ 7 \in Fd /\ 3..8 \subseteq Fd
      /\ fdt \in [Fd -> Object] /\ fdt[7] = Free /\ fdt[8] = Free /\ fdt[9] = Free
  BY <1>1, LowFds DEF Calm, ProcessOK, NoRelay, Descriptors
<1>7. PICK ft : ft = [fdt EXCEPT ![7] = cd(n)]
  OBVIOUS
<1>8. /\ ft[7] = cd(n) /\ ft[5] = cc(s) /\ ft = [fdt EXCEPT ![7] = ft[7]] /\ ft[7] # Free
      /\ Closed(ft, {7}) = fdt
  <2>1. ft[7] = cd(n) /\ ft[5] = cc(s) /\ ft = [fdt EXCEPT ![7] = ft[7]]
    BY <1>3, <1>6, <1>7
  <2>2. Closed(ft, {7}) = fdt
    BY <1>6, <1>7 DEF Closed
  <2> QED  BY <1>3, <2>1, <2>2, Kinds
<1>9. Lowest(fdt) = 7 /\ Lowest(ft) = 8 /\ 8 # NoFd
  BY <1>1, <1>8, Vacant
<1>10. Opened(fdt, cd(n)) = ft
  BY <1>7, <1>9 DEF Opened
<1>11. /\ fdt' = fdt /\ backlog' = [backlog EXCEPT ![n] = <<>>]
       /\ Written(Put(Put(Put(Unwritten, ft, 5, <<Say("150")>>), ft, 7,
                          disk[op[n].m.f]), ft, 5, <<Say("226")>>))
       /\ UNCHANGED <<remote, fin>>
  BY <1>1, <1>4, <1>5, <1>8, <1>9, <1>10 DEF ServeCached, proxy_rw
<1>12. /\ outq'[cd(n)] = After(outq[cd(n)], disk[op[n].m.f]) /\ disk' = disk
       /\ \A k \in Conn \ {cc(s), cd(n)} : outq'[k] = outq[k]
  BY ONLY Calm, s \in Session, n \in Op, <1>2, <1>8, <1>11, FileWritten
<1>13. \A k \in Op : /\ k # n => outq'[cd(k)] = outq[cd(k)]
                     /\ outq'[sd(k)] = outq[sd(k)]
  BY <1>12, ConnType, Distinct
<1>14. \A p \in Op : backlog'[p] = <<>>
  <2>1. backlog \in [Port -> Seq(Conn)] /\ Op \subseteq Port
    BY NumType DEF NetOK, Port
  <2> QED  BY <1>2, <1>11, <2>1 DEF Pending
<1>15. NoData' /\ cd(n) \in est' /\ ~Handed(n)
  BY <1>2, <1>4, <1>6, <1>11, <1>14 DEF NoData, NoRelay, Handed, remote
<1> QED  BY <1>1, <1>2, <1>6, <1>11, <1>12, <1>13, <1>15, FromCache

\* DataConnectionStream: the proxy accepts a data connection.
LEMMA DataConnectionStream ==
    ASSUME Calm, StreamsInv, DataConnection, UNCHANGED peers PROVE StreamsInv' /\ Advance
<1> USE Calmly
<1>1. /\ Turn("proxy_data") /\ UNCHANGED inq
      /\ sock["proxy_data"] = 6
  BY Dialling DEF DataConnection
<1>2. PICK s \in Session, n \in Op :
            /\ n = nop /\ Serving(s) /\ client[s].n = n
            /\ Busy(s, n) /\ Pending(n) /\ fdt[6] = Listener(n) /\ Known(n)
            /\ \/ Sent(s, n) /\ Passive(n) /\ Missing(n)
               \/ Moving(s, n) /\ ~Passive(n) /\ Missing(n) /\ sd(n) \notin fin
               \/ /\ Answered(s, n) /\ ~Passive(n) /\ Missing(n) /\ IsGet(n)
                  /\ sd(n) \in fin
               \/ Hidden(s, n)
  BY <1>1, Dialling
<1>3. RelayActive \/ RelayPassive \/ ServeCached \/ RelayMiss
  <2>1. \E p \in Port : fdt[sock.proxy_data] = Listener(p)
    BY <1>1, <1>2, NumType
  <2> QED  BY <2>1 DEF DataConnection
<1>4. /\ proxy_data_mode = "PASV" <=> Passive(n)
      /\ proxy_data_mode = "PORT" <=> ~Passive(n)
      /\ proxy_file_mode = "RETR" <=> IsGet(n)
      /\ IsGet(n) => file = op[n].m.f
      /\ (IsGet(n) \/ IsPut(n)) /\ ~(IsGet(n) /\ IsPut(n))
      /\ Armed(n)
  <2>1. proxy_data_mode = op[n].mode /\ op[n].mode \in {"PORT", "PASV"} /\ Armed(n)
    BY <1>2, Kind DEF Busy, Armed
  <2>2. (IsGet(n) \/ IsPut(n)) /\ ~(IsGet(n) /\ IsPut(n))
    BY <1>2, Kind
  <2>3. proxy_file_mode = op[n].m.t /\ (IsGet(n) => file = op[n].m.f)
    BY <1>2 DEF Known
  <2>4. proxy_file_mode = "RETR" <=> IsGet(n)
    BY <2>3 DEF IsGet
  <2> QED  BY <2>1, <2>2, <2>3, <2>4 DEF Passive
<1>5. isFileExist(fdt, file) <=> file \in DOMAIN disk
  <2>1. Lowest(fdt) = 7 /\ 7 # NoFd
    BY <1>2, <1>4, Vacant DEF Pending
  <2> QED  BY <2>1 DEF isFileExist
<1>6. ASSUME ~ServeCached PROVE Missing(n) /\ ~Hidden(s, n)
  <2>1. IsGet(n) /\ Passive(n) => op[n].m.f \notin DOMAIN disk
    BY <1>3, <1>4, <1>5, <1>6 DEF RelayActive, RelayPassive, RelayMiss
  <2>2. ~Hidden(s, n)
    BY <2>1 DEF Hidden
  <2> QED  BY <1>2, <2>2
<1>7. ASSUME Missing(n), ~Hidden(s, n),
             NEW r1 \in {"accept_data", "connect_data"},
             NEW r2 \in {"accept_data", "connect_data"}, r1 # r2,
             (r1 = "connect_data") <=> (Passive(n) /\ IsGet(n)),
             NEW host, host = (IF Passive(n) THEN "server" ELSE "client"),
             NEW asks \in BOOLEAN, ~asks <=> (Passive(n) /\ IsPut(n)),
             Relay(r1, r2, host, asks)
      PROVE  StreamsInv' /\ Advance
  <2>1. PICK caching \in BOOLEAN : caching <=> IsGet(n) /\ op[n].m.f \in Cacheable
    OBVIOUS
  <2>2. PICK a : a = IF Passive(n) /\ IsPut(n) THEN cd(n) ELSE sd(n)
    OBVIOUS
  <2>3. PICK b : b = IF Passive(n) /\ IsPut(n) THEN sd(n) ELSE cd(n)
    OBVIOUS
  <2>4. PICK k : k = IF caching THEN CacheFile(op[n].m.f) ELSE Free
    OBVIOUS
  <2>5. /\ fdt' = [fdt EXCEPT ![7] = a, ![8] = b, ![9] = k]
        /\ est' = est \cup {Second(n)}
        /\ cache' = (IF asks THEN caching ELSE cache)
        /\ UNCHANGED <<status, outq, fin>>
    BY ONLY Calm, s \in Session, n \in Op, <1>1, <1>2, <1>4, <1>7, <2>1, <2>2, <2>3, <2>4,
            RelayTable
  <2>6. status = "running" /\ (caching => asks)
    BY <1>4, <1>7, <2>1 DEF Descriptors
  <2>7. disk' = IF caching THEN [f \in DOMAIN disk \cup {file} |->
                                    IF f = file THEN <<>> ELSE disk[f]]
                ELSE disk
    BY ONLY asks \in BOOLEAN, caching \in BOOLEAN, <1>7, <2>5, <2>6, RelayDisk
  <2>8. fdt'[7] # Free /\ fdt'[9] = k
    <3>1. a \in Conn /\ a # Free /\ fdt \in [Fd -> Object] /\ 7 \in Fd /\ 9 \in Fd
      BY <2>2, ConnType, Kinds, LowFds DEF Calm, ProcessOK
    <3> QED  BY <2>5, <3>1
  <2>9. Passive(n) => server[s].ph # "send"
    BY <1>2, <1>7 DEF Sent
  <2>10. IsGet(n) => cd(n) \notin fin
    <3>1. ~Passive(n) => cd(n) \notin fin
      BY <1>2 DEF Pending, Second
    <3> QED  BY <1>2, <3>1 DEF Pending
  <2> QED  BY <1>1, <1>2, <1>7, <2>1, <2>4, <2>5, <2>7, <2>8, <2>9, <2>10, RelayStream
<1>8. CASE ServeCached
  <2>1. Passive(n) /\ IsGet(n) /\ ~Missing(n)
    BY <1>4, <1>5, <1>8 DEF ServeCached, Missing
  <2>2. Hidden(s, n)
    BY <1>2, <2>1
  <2> QED  BY <1>1, <1>2, <1>8, <2>2, ServedStream
<1>9. CASE ~ServeCached /\ RelayActive
  <2>1. Missing(n) /\ ~Hidden(s, n) /\ ~Passive(n)
    BY <1>4, <1>6, <1>9 DEF RelayActive
  <2>2. Relay("accept_data", "connect_data", "client", TRUE)
    BY <1>9 DEF RelayActive
  <2> QED  BY <1>7, <2>1, <2>2
<1>10. CASE ~ServeCached /\ RelayPassive
  <2>1. Missing(n) /\ ~Hidden(s, n) /\ Passive(n) /\ ~IsGet(n) /\ IsPut(n)
    BY <1>4, <1>6, <1>10 DEF RelayPassive
  <2>2. Relay("accept_data", "connect_data", "server", FALSE)
    BY <1>10 DEF RelayPassive
  <2> QED  BY <1>7, <2>1, <2>2
<1>11. CASE ~ServeCached /\ RelayMiss
  <2>1. Missing(n) /\ ~Hidden(s, n) /\ Passive(n) /\ IsGet(n) /\ ~IsPut(n)
    BY <1>4, <1>6, <1>11 DEF RelayMiss
  <2>2. Relay("connect_data", "accept_data", "server", TRUE)
    BY <1>11 DEF RelayMiss
  <2> QED  BY <1>7, <2>1, <2>2
<1> QED  BY <1>3, <1>8, <1>9, <1>10, <1>11

-----------------------------------------------------------------------------
(***************************************************************************)
(* Blocks that are relayed, and the end of a relay.                        *)
(***************************************************************************)

\* BlockContents: where a block goes.
LEMMA BlockContents ==
    ASSUME Calm, NEW n \in Op, n = nop, Relaying(n), NEW other \in Role, NEW o \in Conn,
           fdt[sock[other]] = o, o \notin fin, NEW m, Written(Copied(other, m)),
           NEW f, f = op[n].m.f
    PROVE  /\ outq'[o] = After(outq[o], <<m>>) /\ \A c \in Conn \ {o} : outq'[c] = outq[c]
           /\ fdt[9] = Free => disk' = disk
           /\ fdt[9] # Free => /\ fdt[9] = CacheFile(f) /\ f \in Cacheable /\ IsGet(n)
                               /\ f \in DOMAIN disk
                               /\ disk' = [disk EXCEPT ![f] = After(@, <<m>>)]
<1> USE Calmly
<1>1. /\ IsConn(o) /\ o.k # "file" /\ f \in File
  BY Kinds, Kind
<1>2. PICK w1 : w1 = (IF cache THEN Put(Unwritten, fdt, bytes_creat, <<m>>) ELSE Unwritten)
  OBVIOUS
<1>3. PICK w2 : w2 = Put(w1, fdt, sock[other], <<m>>)
  OBVIOUS
<1>4. /\ cache => w1 = Put(Unwritten, fdt, 9, <<m>>)
      /\ ~cache => w1 = Unwritten
  BY <1>2 DEF Descriptors
<1>5. fdt[9] # Free => /\ fdt[9] = CacheFile(f) /\ f \in Cacheable /\ IsGet(n)
                       /\ f \in DOMAIN disk /\ cache
  BY DEF Relaying, Stored
<1>6. /\ w1.q = outq /\ (fdt[9] = Free => w1.d = disk)
      /\ fdt[9] # Free => w1.d = [disk EXCEPT ![f] = After(@, <<m>>)]
  <2>1. CASE ~cache
    BY <1>4, <1>5, <2>1 DEF Unwritten
  <2>2. CASE fdt[9] = Free
    BY <1>4, <2>2, Kinds DEF Put, Unwritten
  <2>3. CASE fdt[9] # Free
    <3>1. /\ w1 = Put(Unwritten, fdt, 9, <<m>>)
          /\ ~IsConn(fdt[9]) /\ fdt[9].k = "file" /\ fdt[9].n = f
      BY <1>1, <1>4, <1>5, <2>3, Kinds
    <3> QED  BY <2>3, <3>1 DEF Put, Unwritten, After
  <2> QED  BY <2>1, <2>2, <2>3
<1>7. w2.q = [outq EXCEPT ![o] = After(@, <<m>>)] /\ w2.d = w1.d
  BY <1>1, <1>3, <1>6 DEF Put, After
<1>8. outq' = w2.q /\ disk' = w1.d
  BY <1>2, <1>3, <1>7 DEF Copied, Written
<1> QED  BY <1>5, <1>6, <1>7, <1>8 DEF NetOK

\* Passed: the first block of a queue, moved to the end of another, stays where
\* it is in what they hold together.
LEMMA Passed ==
    ASSUME NEW g \in Seq(Msg), NEW q \in Seq(Msg), NEW i \in Seq(Msg), i # <<>>
    PROVE  /\ g \o (q \o <<Head(i)>>) = (g \o q) \o <<Head(i)>>
           /\ ((g \o q) \o <<Head(i)>>) \o Tail(i) = (g \o q) \o i
           /\ (q \o <<Head(i)>>) \o Tail(i) = q \o i
<1>1. /\ (q \o <<Head(i)>>) \o Tail(i) = q \o i /\ Head(i) \in Msg /\ Tail(i) \in Seq(Msg)
  BY MovedOn
<1>2. <<Head(i)>> \in Seq(Msg)
  BY <1>1
<1>3. g \o q \in Seq(Msg)
  BY ConcatProperties
<1>4. ((g \o q) \o <<Head(i)>>) \o Tail(i) = (g \o q) \o i
  BY <1>3, MovedOn
<1>5. g \o (q \o <<Head(i)>>) = (g \o q) \o <<Head(i)>>
  BY <1>2, ConcatAssociative
<1> QED  BY <1>1, <1>4, <1>5

\* BlockStream: a block that is relayed.
LEMMA BlockStream ==
    ASSUME Calm, StreamsInv, UNCHANGED <<peers, fdt, backlog, est, fin>>,
           NEW s \in Session, NEW n \in Op, n = nop, client[s].n = n, Relaying(n),
           NEW c \in Conn, c = (IF IsGet(n) THEN sd(n) ELSE cd(n)),
           NEW o \in Conn, o = (IF IsGet(n) THEN cd(n) ELSE sd(n)),
           inq[c] # <<>>, inq'[c] = Tail(inq[c]), \A e \in Conn \ {c} : inq'[e] = inq[e],
           outq'[o] = After(outq[o], <<Head(inq[c])>>),
           \A e \in Conn \ {o} : outq'[e] = outq[e],
           NEW f, f = op[n].m.f,
           fdt[9] = Free => disk' = disk,
           fdt[9] # Free => /\ fdt[9] = CacheFile(f) /\ f \in Cacheable /\ IsGet(n)
                            /\ f \in DOMAIN disk
                            /\ disk' = [disk EXCEPT ![f] = After(@, <<Head(inq[c])>>)]
    PROVE  StreamsInv' /\ Advance
<1> USE Calmly
<1>1. UNCHANGED <<client, op, nop, server, sdisk, fetches>>
  BY DEF peers
<1>2. op[n].s = s /\ (IsGet(n) \/ IsPut(n)) /\ ~(IsGet(n) /\ IsPut(n)) /\ f \in File
  BY LastIs, Kind
<1>3. /\ IsGet(n)' = IsGet(n) /\ IsPut(n)' = IsPut(n)
      /\ Total(n)' = Total(n) /\ Taken(n)' = Taken(n)
  BY <1>1 DEF IsGet, IsPut, Total, Taken
<1>4. ~Handed(n) /\ ~Handed(n)'
  <2>1. fdt[7] # Free
    BY ConnType, Kinds DEF Relaying
  <2> QED  BY <2>1 DEF Handed, NoData, NoRelay
<1>5. /\ cd(n) \in Conn /\ sd(n) \in Conn /\ cd(n) # sd(n) /\ cd(n) \in est
      /\ IsPut(n) => sd(n) \notin fin
  BY ConnType, Distinct DEF Relaying
<1>6. PICK i \in Seq(Msg) : i = inq[c]
  OBVIOUS
<1>7. PICK q \in Seq(Msg) : q = outq[o]
  OBVIOUS
<1>8. PICK g \in Seq(Msg) : g = op[n].got
  BY DEF OpState
<1>9. i \in Seq(Msg) /\ q \in Seq(Msg) /\ g \in Seq(Msg) /\ i # <<>>
  BY <1>6
<1>16. PICK h : h = Head(i)
  OBVIOUS
<1>17. /\ g \o (q \o <<h>>) = (g \o q) \o <<h>>
       /\ ((g \o q) \o <<h>>) \o Tail(i) = (g \o q) \o i
       /\ (q \o <<h>>) \o Tail(i) = q \o i
  BY ONLY <1>9, <1>16, Passed
<1>10. ASSUME IsGet(n) PROVE Fetching(n)'
  <2>1. c = sd(n) /\ o = cd(n) /\ cd(n) \notin fin
    BY <1>10 DEF Relaying
  <2>2. PICK p : p = g \o q
    OBVIOUS
  <2>3. (p \o <<h>>) \o Tail(i) = p \o i /\ g \o (q \o <<h>>) = p \o <<h>>
    BY ONLY <1>17, <2>2
  <2>5. Got(n) = p /\ Got(n)' = p \o <<h>>
    BY <1>1, <1>6, <1>7, <1>8, <1>16, <2>1, <2>2, <2>3 DEF Got, After
  <2>6. Fetching(n)
    BY <1>10, <2>1 DEF StreamsInv, Stream
  <2>7. /\ p \o i = SubSeq(sdisk[f], 1, Total(n))
        /\ fdt[9] = CacheFile(f) => disk[f] = p
    BY <1>4, <1>6, <2>1, <2>5, <2>6 DEF Fetching
  <2>8. fdt[9] = CacheFile(f) => disk'[f] = p \o <<h>>
    <3>1. fdt[9] = CacheFile(f) => disk'[f] = After(disk[f], <<h>>)
      BY <1>2, <1>6, <1>16, Kinds
    <3> QED  BY <2>7, <3>1 DEF After
  <2>9. inq'[sd(n)] = Tail(i)
    BY <1>6, <2>1
  <2>10. Got(n)' \o inq'[sd(n)] = SubSeq(sdisk[f], 1, Total(n))
    BY <2>3, <2>5, <2>7, <2>9
  <2> QED  BY <1>1, <1>3, <1>4, <1>5, <2>5, <2>8, <2>10 DEF Fetching
<1>11. ASSUME IsPut(n) PROVE Storing(n)'
  <2>1. c = cd(n) /\ o = sd(n) /\ sd(n) \notin fin
    BY <1>2, <1>5, <1>11
  <2>3. outq'[sd(n)] \o inq'[cd(n)] = outq[sd(n)] \o inq[cd(n)]
    BY <1>6, <1>7, <1>16, <1>17, <2>1 DEF After
  <2>4. Storing(n)
    BY <1>11 DEF StreamsInv, Stream
  <2> QED  BY <1>1, <1>3, <1>4, <2>1, <2>3, <2>4 DEF Storing
<1>12. Stream(n)'
  <2>1. IsGet(n) /\ cd(n) \in fin => Whole(op[n].m.f, op[n].got)
    BY DEF StreamsInv, Stream
  <2> QED  BY <1>1, <1>2, <1>3, <1>10, <1>11, <2>1 DEF Stream
<1>13. ServerFiles' /\ Begun'
  BY <1>1 DEF StreamsInv, ServerFiles, Begun, Begins
<1>14. CacheFiles'
  <2>1. /\ DOMAIN disk' = DOMAIN disk
        /\ \A k \in DOMAIN disk : fdt[9] # CacheFile(k) => disk'[k] = disk[k]
    <3>1. CASE fdt[9] = Free
      BY <3>1
    <3>2. CASE fdt[9] # Free
      BY <3>2
    <3> QED  BY <3>1, <3>2
  <2> QED  BY <2>1 DEF StreamsInv, CacheFiles
<1>15. \A k \in Op \ {nop} : outq'[cd(k)] = outq[cd(k)] /\ outq'[sd(k)] = outq[sd(k)]
  BY ConnType, Distinct
<1>18. Advance
  <2>1. CASE fdt[9] = Free
    BY <1>4, <2>1, StillAdvance
  <2>2. CASE fdt[9] # Free
    <3>1. /\ f \in File /\ fdt[9] = CacheFile(f) /\ fdt'[9] = CacheFile(f)
          /\ DOMAIN disk' = DOMAIN disk /\ \A k \in DOMAIN disk \ {f} : disk'[k] = disk[k]
      BY <1>2, <2>2
    <3> QED  BY <1>4, <3>1 DEF Advance, CacheAdvance
  <2> QED  BY <2>1, <2>2
<1> QED  BY <1>1, <1>12, <1>13, <1>14, <1>15, <1>18, LastMoves

\* EndStream: a relay that ends has brought everything.
LEMMA EndStream ==
    ASSUME Calm, StreamsInv, UNCHANGED <<peers, backlog, inq, outq, disk, est, fin>>,
           fdt'[7] = Free, fdt'[9] = Free,
           NEW s \in Session, NEW n \in Op, n = nop, client[s].n = n, Relaying(n),
           IsGet(n) => sd(n) \in fin /\ inq[sd(n)] = <<>>,
           IsPut(n) => cd(n) \in fin /\ inq[cd(n)] = <<>>
    PROVE  StreamsInv' /\ Advance
<1> USE Calmly
<1>1. UNCHANGED <<client, op, nop, server, sdisk, fetches>>
  BY DEF peers
<1>2. PICK f \in File : f = op[n].m.f
  BY Kind
<1>3. op[n].s = s /\ (IsGet(n) \/ IsPut(n)) /\ ~(IsGet(n) /\ IsPut(n))
      /\ (IsGet(n) => f \in OnServer)
  BY <1>2, LastIs, Kind
<1>4. /\ IsGet(n)' = IsGet(n) /\ IsPut(n)' = IsPut(n)
      /\ Got(n)' = Got(n) /\ Total(n)' = Total(n) /\ Taken(n)' = Taken(n)
  BY <1>1 DEF IsGet, IsPut, Total, Taken, Got
<1>5. ~Handed(n) /\ Handed(n)'
  <2>1. fdt[7] # Free
    BY ConnType, Kinds DEF Relaying
  <2> QED  BY <2>1 DEF Handed, NoData, NoRelay, Relaying
<1>6. IsGet(n) => Got(n) = sdisk[f] /\ (f \in Cacheable => disk[f] = Got(n))
  <2> SUFFICES ASSUME IsGet(n)
               PROVE  Got(n) = sdisk[f] /\ (f \in Cacheable => disk[f] = Got(n))
    OBVIOUS
  <2>1. Fetching(n)
    BY DEF StreamsInv, Stream, Relaying
  <2>2. PICK g \in Seq(Msg) : g = Got(n)
    <3>1. op[n].got \in Seq(Msg) /\ outq[cd(n)] \in Seq(Msg)
      BY ConnType DEF OpState
    <3> QED  BY <3>1, ConcatProperties DEF Got
  <2>3. sdisk[f] \in Seq(Msg) /\ Len(sdisk[f]) = NChunk
    BY <1>3, WholeIs DEF StreamsInv, ServerFiles, Fetches
  <2>4. SubSeq(sdisk[f], 1, NChunk) = sdisk[f]
    BY <2>3, SubSeqFull
  <2>5. g \o <<>> = g
    OBVIOUS
  <2>6. Total(n) = NChunk
    BY DEF Total
  <2>7. Got(n) = sdisk[f]
    BY <1>2, <1>5, <2>1, <2>2, <2>4, <2>5, <2>6 DEF Fetching
  <2>8. f \in Cacheable => fdt[9] = CacheFile(f)
    BY <1>2 DEF Relaying
  <2> QED  BY <1>2, <1>5, <2>1, <2>7, <2>8 DEF Fetching
<1>7. fdt[9] # Free => fdt[9] = CacheFile(f) /\ IsGet(n) /\ f \in Cacheable
  BY <1>2 DEF Relaying
<1>8. IsGet(n) => Whole(f, sdisk[f])
  BY <1>3 DEF StreamsInv, ServerFiles, Fetches
<1>9. CacheFiles'
  <2>1. \A k \in DOMAIN disk : k \in Cacheable /\ (fdt[9] # CacheFile(k) => Whole(k, disk[k]))
    BY DEF StreamsInv, CacheFiles
  <2>2. \A k \in DOMAIN disk : k \in File /\ CacheFile(k) # Free
    BY Kinds DEF ProcessOK, FilesOK
  <2>3. \A k \in DOMAIN disk : fdt[9] = CacheFile(k) => k = f
    <3> SUFFICES ASSUME NEW k \in DOMAIN disk, fdt[9] = CacheFile(k) PROVE k = f
      OBVIOUS
    <3>1. CacheFile(k) = CacheFile(f) /\ k \in File
      BY <1>7, <2>2
    <3>2. CacheFile(k).n = k /\ CacheFile(f).n = f
      BY <3>1, Kinds
    <3> QED  BY <3>1, <3>2
  <2>4. ASSUME NEW k \in DOMAIN disk PROVE Whole(k, disk[k])
    <3>1. CASE fdt[9] = CacheFile(k)
      BY <1>6, <1>7, <1>8, <2>2, <2>3, <3>1
    <3>2. CASE fdt[9] # CacheFile(k)
      BY <2>1, <3>2
    <3> QED  BY <3>1, <3>2
  <2> QED  BY <2>1, <2>4 DEF CacheFiles
<1>10. ServerFiles' /\ Begun'
  BY <1>1 DEF StreamsInv, ServerFiles, Begun, Begins
<1>11. IsGet(n) => Fetching(n)'
  BY <1>1, <1>2, <1>4, <1>5, <1>6 DEF Fetching
<1>12. ASSUME IsPut(n) PROVE Storing(n)'
  <2>1. Storing(n) /\ sd(n) \notin fin
    BY <1>12 DEF StreamsInv, Stream, Relaying
  <2> QED  BY <1>1, <1>4, <1>5, <1>12, <2>1 DEF Storing
<1>13. Stream(n)'
  <2>1. IsGet(n) /\ cd(n) \in fin => Whole(op[n].m.f, op[n].got)
    BY DEF StreamsInv, Stream
  <2> QED  BY <1>1, <1>3, <1>4, <1>11, <1>12, <2>1 DEF Stream
<1>14. Advance
  BY <1>5 DEF Advance, CacheAdvance
<1> QED  BY <1>1, <1>9, <1>10, <1>13, <1>14, LastMoves

\* BothClosed: what the end of a relay closes.
LEMMA BothClosed ==
    ASSUME Calm, NEW n \in Op, n = nop, Relaying(n),
           NEW S, S = {7, 8} \cup (IF cache THEN {bytes_creat} ELSE {}), CloseAll(S, {7, 8})
    PROVE  fdt'[7] = Free /\ fdt'[9] = Free /\ backlog' = backlog
<1> USE Calmly
<1>1. /\ 7 \in Fd /\ 9 \in Fd /\ fdt \in [Fd -> Object] /\ backlog \in [Port -> Seq(Conn)]
  BY LowFds DEF Calm, ProcessOK, NetOK
<1>2. S \subseteq {7, 8, 9} /\ 7 \in S /\ (cache => 9 \in S)
  BY DEF Descriptors
<1>3. /\ fdt[7] \in Conn /\ fdt[8] \in Conn
      /\ fdt[9] = Free \/ (cache /\ \E f \in File : fdt[9] = CacheFile(f))
  <2>1. fdt[7] \in Conn /\ fdt[8] \in Conn
    BY ConnType DEF Relaying
  <2>2. fdt[9] = Free \/ (cache /\ \E f \in File : fdt[9] = CacheFile(f))
    BY Kind DEF Relaying
  <2> QED  BY <2>1, <2>2
<1>4. Dropped(backlog, fdt, S) = backlog
  <2>1. \A p \in Port : fdt[7] # Listener(p) /\ fdt[8] # Listener(p) /\ fdt[9] # Listener(p)
    BY <1>3, Kinds
  <2>2. \A p \in Port : \A fd \in S \cap Fd : fdt[fd] # Listener(p)
    BY <1>2, <2>1
  <2> QED  BY <1>1, <2>2 DEF Dropped
<1> QED  BY <1>1, <1>2, <1>3, <1>4 DEF CloseAll, Closed

\* TransferStream: a branch for one of the two data sockets.
LEMMA TransferStream ==
    ASSUME Calm, StreamsInv, UNCHANGED peers,
           NEW r \in {"accept_data", "connect_data"},
           NEW other \in {"accept_data", "connect_data"}, r # other, Transfer(r, other)
    PROVE  StreamsInv' /\ Advance
<1> USE Calmly
<1>1. /\ other \in Role /\ sock[r] \in {7, 8} /\ sock[other] \in {7, 8}
      /\ sock[r] # sock[other]
  <2>1. r \in Role /\ other \in Role /\ Turn(r)
    BY DEF Transfer, Role
  <2>2. sock[r] \in read_fds /\ sock[r] \in 3..8
    BY <2>1, TurnIs
  <2>3. sock[r] \in {7, 8}
    BY <2>2 DEF Numbers
  <2>4. {sock["accept_data"], sock["connect_data"]} = {7, 8}
    BY <2>2, <2>3 DEF Numbers
  <2>5. {sock[r], sock[other]} = {7, 8}
    BY <2>4
  <2>6. sock[other] \in {7, 8} /\ sock[r] # sock[other]
    <3>1. sock[other] \in {sock[r], sock[other]}
      OBVIOUS
    <3>2. 7 \in {sock[r], sock[other]} /\ 8 \in {sock[r], sock[other]}
      BY <2>5
    <3> QED  BY <2>5, <3>1, <3>2
  <2> QED  BY <2>1, <2>3, <2>6
<1>2. PICK x \in Fetched(sock[r], Junk) :
         inq' = x.q /\ (DataEnd(r, other, x) \/ DataBlock(r, other, x))
  BY DEF Transfer
<1>3. x \in Fetched(sock[r], Junk)
  OBVIOUS
<1>4. CASE fdt[sock[r]] = Free
  <2>1. x.got = "error" /\ x.q = inq
    BY <1>3, <1>4, Kinds DEF Fetched
  <2>2. UNCHANGED <<fds, remote, fin>> /\ Written(Unwritten)
    BY <1>2, <2>1 DEF DataEnd, DataBlock
  <2>3. UNCHANGED <<outq, disk, fdt, backlog, est, inq>>
    BY <1>2, <2>1, <2>2 DEF Written, Unwritten, fds, remote
  <2>4. \A n \in Op : Handed(n)' <=> Handed(n)
    BY <2>3 DEF Handed, NoData, NoRelay
  <2> QED  BY <2>2, <2>3, <2>4, ProxyStays
<1>5. CASE fdt[sock[r]] # Free
  <2>1. PICK s \in Session, n \in Op : n = nop /\ client[s].n = n /\ Relaying(n)
    BY <1>1, <1>5, DataPair
  <2>2. PICK c \in Conn : fdt[sock[r]] = c
    BY <1>1, <2>1, ConnType DEF Relaying
  <2>3. PICK o \in Conn : fdt[sock[other]] = o
    BY <1>1, <2>1, ConnType DEF Relaying
  <2>4. \/ x.got = "eof" /\ x.q = inq /\ inq[c] = <<>> /\ c \in fin
        \/ /\ x.got = "message" /\ inq[c] # <<>> /\ x.m = Head(inq[c])
           /\ x.q[c] = Tail(inq[c]) /\ \A e \in Conn \ {c} : x.q[e] = inq[e]
    BY <1>3, <2>2, Kinds DEF Fetched, NetOK
  <2>5. /\ c = (IF IsGet(n) THEN sd(n) ELSE cd(n))
        /\ o = (IF IsGet(n) THEN cd(n) ELSE sd(n)) /\ o \notin fin
    BY <1>1, <2>1, <2>2, <2>3, <2>4, Side
  <2>6. CASE x.got = "eof" /\ x.q = inq /\ inq[c] = <<>> /\ c \in fin
    <3>1. DataEnd(r, other, x)
      BY <1>2, <2>6 DEF DataBlock
    <3>2. {sock[r], sock[other]} = {7, 8}
      BY <1>1
    <3>3. PICK S : S = {7, 8} \cup (IF cache THEN {bytes_creat} ELSE {})
      OBVIOUS
    <3>4. /\ CloseAll(S, {7, 8}) /\ UNCHANGED <<remote, written, fin, store>>
      BY <3>1, <3>2, <3>3 DEF DataEnd
    <3>5. UNCHANGED <<inq, outq, disk, est, fin>>
      BY <1>2, <2>6, <3>4 DEF remote, written, store
    <3>6. fdt'[7] = Free /\ fdt'[9] = Free /\ backlog' = backlog
      BY <2>1, <3>3, <3>4, BothClosed
    <3>7. IsGet(n) => sd(n) \in fin /\ inq[sd(n)] = <<>>
      BY <2>5, <2>6
    <3>8. IsPut(n) => cd(n) \in fin /\ inq[cd(n)] = <<>>
      BY <2>1, <2>5, <2>6, Kind
    <3> QED  BY <2>1, <3>5, <3>6, <3>7, <3>8, EndStream
  <2>7. CASE /\ x.got = "message" /\ inq[c] # <<>> /\ x.m = Head(inq[c])
             /\ x.q[c] = Tail(inq[c]) /\ \A e \in Conn \ {c} : x.q[e] = inq[e]
    <3>1. UNCHANGED <<fds, remote, fin>> /\ Written(Copied(other, x.m))
      BY <1>2, <2>7 DEF DataEnd, DataBlock
    <3>2. UNCHANGED <<fdt, backlog, est, fin>>
      BY <3>1 DEF fds, remote
    <3>3. PICK m : m = x.m /\ m = Head(inq[c])
      BY <2>7
    <3>4. PICK f : f = op[n].m.f
      OBVIOUS
    <3>5. Written(Copied(other, m))
      BY <3>1, <3>3
    <3>6. /\ outq'[o] = After(outq[o], <<m>>) /\ \A e \in Conn \ {o} : outq'[e] = outq[e]
          /\ fdt[9] = Free => disk' = disk
          /\ fdt[9] # Free => /\ fdt[9] = CacheFile(f) /\ f \in Cacheable /\ IsGet(n)
                              /\ f \in DOMAIN disk
                              /\ disk' = [disk EXCEPT ![f] = After(@, <<m>>)]
      BY ONLY Calm, n \in Op, o \in Conn, <1>1, <2>1, <2>3, <2>5, <3>4, <3>5, BlockContents
    <3>7. inq'[c] = Tail(inq[c]) /\ \A e \in Conn \ {c} : inq'[e] = inq[e]
      BY <1>2, <2>7
    <3> QED  BY ONLY Calm, StreamsInv, UNCHANGED peers, s \in Session, n \in Op, c \in Conn,
                     o \in Conn, <2>1, <2>5, <2>7, <3>2, <3>3, <3>4, <3>6, <3>7, BlockStream
  <2> QED  BY <2>4, <2>6, <2>7
<1> QED  BY <1>4, <1>5

-----------------------------------------------------------------------------
(***************************************************************************)
(* Every reachable state, and what it guarantees.                          *)
(***************************************************************************)
\* InitStreams: before the first client there is nothing but the server's files.
LEMMA InitStreams == ASSUME SysInit, Inv PROVE StreamsInv
<1> USE DEF SysInit, Init, PeersInit
<1>1. \A f \in DOMAIN sdisk : Whole(f, sdisk[f])
  BY DEF Whole
<1>2. DOMAIN disk = {}
  OBVIOUS
<1>3. ServerFiles /\ CacheFiles /\ Begun
  BY <1>1, <1>2 DEF ServerFiles, CacheFiles, Begun, Begins
<1>4. ASSUME NEW n \in Op PROVE Stream(n)
  <2>1. n > nop /\ ~(n <= nop) /\ n # nop
    BY DEF Op
  <2>2. cd(n) \in Conn /\ sd(n) \in Conn
    BY ConnType
  <2>3. op[n].got = <<>> /\ op[n].put = 0 /\ op[n].m = Junk
    OBVIOUS
  <2>4. Blank(n) /\ cd(n) \notin fin
    BY <2>2, <2>3 DEF Blank
  <2> QED  BY <2>1, <2>4 DEF Stream
<1> QED  BY <1>3, <1>4 DEF StreamsInv

\* NextStreams: every step keeps the invariant.
LEMMA NextStreams == ASSUME Calm, Calm', StreamsInv, [Next]_vars PROVE StreamsInv' /\ Advance
<1>1. CASE UNCHANGED vars
  <2>1. /\ UNCHANGED <<fdt, backlog, disk, inq, outq, est, fin, nop, op, server, sdisk>>
    BY <1>1 DEF vars, proxyVars, scan, fds, store, bufs, remote, written, peers
  <2>2. \A n \in Op : Handed(n)' <=> Handed(n)
    BY <2>1 DEF Handed, NoData, NoRelay
  <2> QED  BY <2>1, <2>2, StreamsStay DEF Undisturbed, Untouched, ServersStay
<1>2. CASE Next
  <2>1. ASSUME NEW s \in Session, CliStep(s) \/ SrvStep(s) PROVE StreamsInv' /\ Advance
    BY <2>1, CliStepStream, SrvStepStream
  <2>2. ASSUME NEW n \in Op, CliData(n) PROVE StreamsInv' /\ Advance
    BY <2>2, CliDataStream
  <2>3. CASE Transfer("accept_data", "connect_data") /\ UNCHANGED peers
    BY <2>3, TransferStream
  <2>4. CASE Transfer("connect_data", "accept_data") /\ UNCHANGED peers
    BY <2>4, TransferStream
  <2> QED  BY <1>2, <2>1, <2>2, <2>3, <2>4, SelectStream, AcceptClientStream, CommandStream,
              ReplyStream, DataConnectionStream DEF Next
<1> QED  BY <1>1, <1>2

\* StreamsHold: the invariant of the contents, with those that it rests on.
LEMMA StreamsHold == ASSUME Orderly PROVE Spec => [](Inv /\ TurnsInv /\ StreamsInv)
<1>1. SysInit => Inv /\ ListenerInv /\ TurnsInv /\ StreamsInv
  BY InitInv, InitListener, InitTurns, InitStreams
<1>2. ASSUME Inv, ListenerInv, TurnsInv, StreamsInv, [Next]_vars
      PROVE  Inv' /\ ListenerInv' /\ TurnsInv' /\ StreamsInv'
  <2>1. Calm
    BY <1>2 DEF Calm
  <2>2. Inv' /\ ListenerInv' /\ TurnsInv'
    BY <1>2, <2>1, NextInv, NextListener, NextTurns
  <2>3. Orderly'
    BY DEF Orderly
  <2>4. Calm'
    BY <2>2, <2>3 DEF Calm
  <2> QED  BY <1>2, <2>1, <2>2, <2>4, NextStreams
<1>3. Inv /\ ListenerInv /\ TurnsInv /\ StreamsInv /\ [Next]_vars =>
         (Inv /\ ListenerInv /\ TurnsInv /\ StreamsInv)'
  BY <1>2
<1> QED  BY <1>1, <1>3, PTL DEF Spec

\* Covered: the file of the cache is open only while there is a relay.
LEMMA Covered ==
    ASSUME Calm, fdt[9] # Free PROVE \E n \in Op : n = nop /\ Relaying(n)
<1> USE Calmly
<1>1. ~NoRelay /\ ~NoData
  BY DEF NoRelay, NoData
<1>2. fdt[4] # Free
  BY <1>1 DEF Sessions
<1>3. PICK s \in Session : Serving(s)
  BY <1>2, ServedIs
<1>4. PICK n \in Op : n = nop /\ Busy(s, n)
  BY <1>1, <1>3 DEF Serving, Between, Preparing
<1> QED  BY <1>1, <1>4, Ways DEF Unopened, Pending, HungUp

\* PartOf: blocks that with more of them are the first of a whole file are
\* blocks of that file.
LEMMA PartOf ==
    ASSUME NEW f \in File, NEW a \in Seq(Msg), NEW b \in Seq(Msg), NEW q, Whole(f, q),
           NEW k \in 0..NChunk, a \o b = SubSeq(q, 1, k)
    PROVE  \A i \in 1..Len(a) : a[i].f = f
<1>1. q \in Seq(Msg) /\ Len(q) = NChunk /\ \A i \in 1..NChunk : q[i].f = f
  BY WholeIs
<1>2. NChunk \in Nat
  BY NetAssumption
<1>3. Len(SubSeq(q, 1, k)) = k /\ \A i \in 1..k : SubSeq(q, 1, k)[i] = q[i]
  BY <1>1, <1>2
<1>4. Len(a \o b) = Len(a) + Len(b) /\ \A i \in 1..Len(a) : (a \o b)[i] = a[i]
  BY ONLY a \in Seq(Msg), b \in Seq(Msg)
<1>5. Len(a) \in Nat /\ Len(b) \in Nat
  OBVIOUS
<1> TAKE i \in 1..Len(a)
<1>6. i \in 1..k
  BY <1>2, <1>3, <1>4, <1>5
<1>7. a[i] = q[i] /\ q[i].f = f
  BY <1>1, <1>2, <1>3, <1>4, <1>6
<1> QED  BY <1>7

\* UploadWholeHolds: while clients take turns, what an upload through the relay
\* leaves on the server is one whole version (lines 332-352).
THEOREM UploadWholeHolds == ASSUME Orderly PROVE Spec => []UploadWhole
<1>1. StreamsInv => UploadWhole
  BY DEF StreamsInv, ServerFiles, UploadWhole
<1> QED  BY <1>1, StreamsHold, PTL

\* CacheWholeIs: a file of the cache that is not open is one whole version.
LEMMA CacheWholeIs == ASSUME Calm, StreamsInv PROVE CacheWhole
<1> SUFFICES ASSUME NEW f \in DOMAIN disk, ~CacheOpen(f) PROVE Whole(f, disk[f])
  BY DEF CacheWhole
<1>1. fdt[9] # CacheFile(f)
  BY LowFds DEF Calm, CacheOpen
<1> QED  BY <1>1 DEF StreamsInv, CacheFiles

\* CacheWholeHolds: then a file of the cache that is not being written is one
\* whole version of the file of that name (lines 215, 301).
THEOREM CacheWholeHolds == ASSUME Orderly PROVE Spec => []CacheWhole
BY CacheWholeIs, StreamsHold, PTL DEF Calm

\* CachePureHolds: nothing is stored under a name but blocks sent for it (lines
\* 342, 347, 369), whether the file is finished or not.
THEOREM CachePureHolds == ASSUME Orderly PROVE Spec => []CachePure
<1>1. ASSUME Calm, StreamsInv PROVE CachePure
  <2> USE Calmly
  <2> SUFFICES ASSUME NEW f \in DOMAIN disk, NEW i \in DOMAIN disk[f] PROVE disk[f][i].f = f
    BY DEF CachePure
  <2>1. f \in File /\ disk[f] \in Seq(Msg) /\ i \in 1..Len(disk[f])
    BY <1>1 DEF ProcessOK, FilesOK
  <2>2. CASE fdt[9] # CacheFile(f)
    <3>1. Whole(f, disk[f])
      BY <1>1, <2>2 DEF StreamsInv, CacheFiles
    <3> QED  BY <2>1, <3>1, WholeIs
  <2>3. CASE fdt[9] = CacheFile(f)
    <3>1. fdt[9] # Free /\ fdt[9].n = f
      BY <2>1, <2>3, Kinds
    <3>3. PICK n \in Op : n = nop /\ Relaying(n)
      BY <1>1, <3>1, Covered
    <3>2. fdt[7] # Free
      BY <3>3, ConnType, Kinds DEF Relaying
    <3>4. op[n].m.f = f /\ IsGet(n) /\ cd(n) \notin fin /\ f \in OnServer
      <4>1. IsGet(n) /\ fdt[9] = CacheFile(op[n].m.f)
        BY <3>1, <3>3 DEF Relaying
      <4>2. op[n].m.f \in File /\ op[n].m.f \in OnServer
        BY <1>1, <3>3, <4>1, Kind
      <4> QED  BY <3>1, <3>3, <4>1, <4>2, Kinds DEF Relaying
    <3>5. ~Handed(n) /\ Fetching(n)
      BY <1>1, <3>2, <3>3, <3>4 DEF Handed, NoData, NoRelay, StreamsInv, Stream
    <3>6. disk[f] \o inq[sd(n)] = SubSeq(sdisk[f], 1, Total(n))
      BY <2>3, <3>4, <3>5 DEF Fetching
    <3>7. Whole(f, sdisk[f])
      BY <1>1, <3>4 DEF StreamsInv, ServerFiles, Fetches
    <3>8. Total(n) \in 0..NChunk
      <4>1. server[op[n].s].ph = "send" => server[op[n].s].k \in 0..NChunk
        BY <1>1, <3>3 DEF StreamsInv, Begun, Begins, Stream, SrvState
      <4> QED  BY <4>1, NetAssumption DEF Total
    <3>9. inq[sd(n)] \in Seq(Msg)
      BY <1>1, ConnType
    <3>10. PICK a \in Seq(Msg), b \in Seq(Msg), k \in 0..NChunk :
              a = disk[f] /\ b = inq[sd(n)] /\ k = Total(n)
      BY <2>1, <3>8, <3>9
    <3>11. f \in File /\ a \in Seq(Msg) /\ b \in Seq(Msg) /\ k \in 0..NChunk
           /\ Whole(f, sdisk[f]) /\ a \o b = SubSeq(sdisk[f], 1, k)
      BY <2>1, <3>6, <3>7, <3>10
    <3>12. \A j \in 1..Len(a) : a[j].f = f
      BY ONLY <3>11, PartOf
    <3> QED  BY <2>1, <3>10, <3>12
  <2> QED  BY <2>2, <2>3
<1> QED  BY <1>1, StreamsHold, PTL DEF Calm

\* FinishedIs: a download that is finished and not yet seen to be by its client
\* is the last one, and the proxy has closed its data connection.
LEMMA FinishedIs ==
    ASSUME Calm, NEW n \in Op, Finished(n, op[n].m.t), op[n].m.t \in {"RETR", "STOR"}
    PROVE  /\ n <= nop
           /\ cd(n) \in fin \/ (n = nop /\ Ended(cd(n)) /\ HungUp(n))
<1> USE Calmly
<1>1. op[n].reply = "ok" /\ (cd(n) \in fin \/ Ended(cd(n)))
  BY DEF Finished
<1>2. n <= nop
  <2>1. ~(n > nop)
    BY <1>1 DEF Transfers
  <2> QED  BY <2>1 DEF Op
<1>3. CASE cd(n) \notin fin
  <2>1. n = nop /\ Live
    BY <1>2, <1>3 DEF Transfers, Past, Op
  <2>2. PICK s \in Session : Pair(s) /\ client[s].ph \in {"setup", "ready", "busy"}
    BY <2>1 DEF Live
  <2>3. Serving(s)
    BY <2>2, WhoIsServed
  <2>4. PICK k \in Op : k = nop /\ (Preparing(s, k) \/ Busy(s, k))
    BY <2>2, <2>3, StageOf
  <2>5. Busy(s, n)
    BY <1>1, <2>1, <2>4 DEF Preparing
  <2> QED  BY <1>1, <1>2, <1>3, <2>1, <2>5, HungIs
<1> QED  BY <1>2, <1>3

\* DownloadWholeIs: what a download that is finished has delivered.
LEMMA DownloadWholeIs == ASSUME Calm, StreamsInv PROVE DownloadWhole
<1> SUFFICES ASSUME NEW n \in Op, Finished(n, "RETR") PROVE Whole(op[n].m.f, op[n].got)
  BY DEF DownloadWhole
<1>1. IsGet(n) /\ Finished(n, op[n].m.t) /\ op[n].m.t \in {"RETR", "STOR"}
  BY DEF Finished, IsGet
<1>2. CASE cd(n) \in fin
  BY <1>1, <1>2 DEF StreamsInv, Stream
<1>3. CASE cd(n) \notin fin
  BY <1>1, <1>3, FinishedIs, Complete
<1> QED  BY <1>2, <1>3

\* DownloadWholeHolds: a download that its client sees completed has delivered
\* one whole version of the file asked for, in order, whether the proxy relayed
\* it (lines 354-373) or sent it from the cache (lines 215-226, 301-311).
THEOREM DownloadWholeHolds == ASSUME Orderly PROVE Spec => []DownloadWhole
BY DownloadWholeIs, StreamsHold, PTL DEF Calm

-----------------------------------------------------------------------------
(***************************************************************************)
(* When a transfer is finished, for its client and in terms of the store.  *)
(***************************************************************************)

\* A client is in a transfer.
Occupied == \E s \in Session : client[s].ph \in {"setup", "ready", "busy"}

\* A transfer over which its client is still busy: an upload that was answered
\* is on the server, a download has what the cache or the server has.
LastFinished ==
    Calm /\ StreamsInv =>
        \A n \in Op : n = nop /\ Occupied /\ Finished(n, op[n].m.t) =>
            LET f == op[n].m.f IN
            /\ HungUp(n)
            /\ IsPut(n) => f \in DOMAIN sdisk /\ sdisk[f] = Contents(f, n)
            /\ IsGet(n) =>
                  /\ op[n].got = IF f \in Cacheable THEN disk[f] ELSE sdisk[f]
                  /\ f \in DOMAIN sdisk
                  /\ f \in Cacheable => f \in DOMAIN disk

\* LastFinishedHolds: what the invariant says of it.
LEMMA LastFinishedHolds == LastFinished
<1> SUFFICES ASSUME Calm, StreamsInv, NEW n \in Op, n = nop, Occupied,
                    Finished(n, op[n].m.t)
             PROVE  LET f == op[n].m.f IN
                    /\ HungUp(n)
                    /\ IsPut(n) => f \in DOMAIN sdisk /\ sdisk[f] = Contents(f, n)
                    /\ IsGet(n) =>
                          /\ op[n].got = IF f \in Cacheable THEN disk[f] ELSE sdisk[f]
                          /\ f \in DOMAIN sdisk
                          /\ f \in Cacheable => f \in DOMAIN disk
  BY DEF LastFinished
<1> USE Calmly
<1>1. op[n].reply = "ok" /\ (cd(n) \in fin \/ Ended(cd(n)))
  BY DEF Finished
<1>2. PICK s \in Session : client[s].ph \in {"setup", "ready", "busy"}
  BY DEF Occupied
<1>3. Serving(s)
  BY <1>2, WhoIsServed
<1>4. Busy(s, n)
  <2>1. PICK k \in Op : k = nop /\ (Preparing(s, k) \/ Busy(s, k))
    BY <1>2, <1>3, StageOf
  <2> QED  BY <1>1, <2>1 DEF Preparing
<1>5. HungUp(n)
  BY <1>1, <1>4, HungIs
<1>6. IsPut(n) => sd(n) \in fin
  <2>1. Answered(s, n)
    BY <1>1, <1>4 DEF Busy, Asked, Sent, Moving, Hidden
  <2>2. ~(IsPut(n) /\ IsGet(n))
    BY Kind
  <2> QED  BY <2>1, <2>2 DEF Answered
<1>7. IsPut(n) => op[n].m.f \in DOMAIN sdisk /\ sdisk[op[n].m.f] = Contents(op[n].m.f, n)
  BY <1>6 DEF StreamsInv, Stream, Storing
<1>8. IsGet(n) => Ended(cd(n))
  BY <1>1, <1>5 DEF HungUp
<1> QED  BY <1>5, <1>7, <1>8, Complete

\* LastFinishedAfter: the same of the state after a step.
LEMMA LastFinishedAfter == LastFinished'
BY LastFinishedHolds, PTL

\* A step that neither starts a transfer nor changes the server's files, and
\* finishes at most the last transfer.
Ordinary ==
    /\ nop' = nop /\ sdisk' = sdisk /\ fin \subseteq fin'
    /\ \A k \in Op :
          /\ op'[k].m = op[k].m
          /\ k # nop \/ ~Occupied => op'[k].reply = op[k].reply
          /\ Finished(k, op[k].m.t) => op'[k].reply = op[k].reply /\ op'[k].got = op[k].got
          /\ k = nop /\ Occupied /\ ~Occupied' => Finished(k, op[k].m.t)

\* OrdinaryStill: a step that leaves the transfers alone.
LEMMA OrdinaryStill ==
    ASSUME UNCHANGED <<nop, op, sdisk>>, fin \subseteq fin', Occupied => Occupied'
    PROVE  Ordinary
BY DEF Ordinary

\* OccupiedStays: a client that does not leave its transfer.
LEMMA OccupiedStays ==
    ASSUME NEW s \in Session, \A q \in Session \ {s} : client'[q] = client[q],
           client[s].ph \in {"setup", "ready", "busy"}
              => client'[s].ph \in {"setup", "ready", "busy"}
    PROVE  Occupied => Occupied'
<1> SUFFICES ASSUME NEW q \in Session, client[q].ph \in {"setup", "ready", "busy"}
             PROVE  Occupied'
  BY DEF Occupied
<1>1. client'[q].ph \in {"setup", "ready", "busy"}
  BY DEF Occupied
<1> QED  BY <1>1 DEF Occupied

\* ProxyOrdinary: the proxy reaches the transfers only through what it sends.
LEMMA ProxyOrdinary ==
    ASSUME UNCHANGED peers,
           \/ Select \/ AcceptClient \/ Command \/ Reply \/ DataConnection
           \/ Transfer("accept_data", "connect_data")
           \/ Transfer("connect_data", "accept_data")
    PROVE  Ordinary
<1>1. UNCHANGED <<nop, op, sdisk, client>>
  BY DEF peers
<1>2. Select => fin' = fin
  BY DEF Select, Exit
<1>3. AcceptClient => fin' = fin
  BY DEF AcceptClient, Exit
<1>4. Command => fin' = fin
  <2>1. ASSUME NEW x, PortCommand(x) PROVE fin' = fin
    BY <2>1 DEF PortCommand, DataListener, Exit
  <2>2. ASSUME NEW x, ClientGone(x) \/ RetrCached(x) \/ RetrForwarded(x) \/ OtherCommand(x)
        PROVE  fin' = fin
    BY <2>2 DEF ClientGone, RetrCached, RetrForwarded, OtherCommand
  <2> QED  BY <2>1, <2>2 DEF Command
<1>5. Reply => fin' = fin
  <2>1. ASSUME NEW x, PassiveReply(x) PROVE fin' = fin
    BY <2>1 DEF PassiveReply, DataListener, Exit
  <2>2. ASSUME NEW x, ServerGone(x) \/ OtherReply(x) PROVE fin' = fin
    BY <2>2 DEF ServerGone, OtherReply
  <2> QED  BY <2>1, <2>2 DEF Reply
<1>6. DataConnection => fin' = fin
  <2>1. ASSUME NEW r1, NEW r2, NEW host, NEW asks, Relay(r1, r2, host, asks)
        PROVE  fin' = fin
    <3>1. \/ Exit
          \/ UNCHANGED <<dport, dfile, status, outq, sigpipe, fin>>
      BY <2>1, Zenon DEF Relay
    <3> QED  BY <3>1 DEF Exit
  <2>2. ServeCached => fin' = fin
    BY DEF ServeCached
  <2> QED  BY <2>1, <2>2 DEF DataConnection, RelayActive, RelayPassive, RelayMiss, Exit
<1>7. ASSUME NEW r, NEW o, Transfer(r, o) PROVE fin' = fin
  BY <1>7 DEF Transfer, DataEnd, DataBlock
<1>8. fin' = fin
  BY <1>2, <1>3, <1>4, <1>5, <1>6, <1>7
<1>9. Occupied => Occupied'
  BY <1>1 DEF Occupied
<1> QED  BY <1>1, <1>8, <1>9, OrdinaryStill

\* SrvOrdinary: the server reaches them through its files, when an upload ends.
LEMMA SrvOrdinary ==
    ASSUME Calm, NEW s \in Session, SrvStep(s), ~(SrvEnd(s, "226") /\ server[s].ph = "recv")
    PROVE  Ordinary
<1> USE Calmly
<1>1. UNCHANGED <<nop, op, client>>
  BY DEF SrvStep, SrvGreet, SrvSetup, SrvCommand, SrvOpen, SrvSend, SrvRecv, SrvEnd, SrvQuit,
         SrvHangup
<1>2. sdisk' = sdisk
  <2>1. SrvEnd(s, "226") \/ SrvEnd(s, "426") => sdisk' = sdisk
    BY DEF SrvEnd
  <2> QED  BY <2>1 DEF SrvStep, SrvGreet, SrvSetup, SrvCommand, SrvOpen, SrvSend, SrvRecv,
                       SrvQuit, SrvHangup
<1>3. fin \subseteq fin'
  BY DEF SrvStep, SrvGreet, SrvSetup, SrvCommand, SrvOpen, SrvSend, SrvRecv, SrvEnd, SrvQuit,
         SrvHangup
<1>4. Occupied => Occupied'
  BY <1>1 DEF Occupied
<1> QED  BY <1>1, <1>2, <1>3, <1>4, OrdinaryStill

\* CliDataOrdinary: a client whose transfer is finished has read all of it.
LEMMA CliDataOrdinary ==
    ASSUME Calm, NEW n \in Op, CliData(n) PROVE Ordinary
<1> USE Calmly
<1>1. /\ UNCHANGED <<nop, sdisk, client>> /\ fin \subseteq fin'
      /\ \A k \in Op : op'[k].m = op[k].m /\ op'[k].reply = op[k].reply
  <2>1. CASE CliGet(n)
    BY <2>1 DEF CliGet, OpState
  <2>2. CASE CliPut(n)
    BY <2>2 DEF CliPut, OpState
  <2>3. CASE CliPutEnd(n)
    BY <2>3 DEF CliPutEnd, peers
  <2> QED  BY <2>1, <2>2, <2>3 DEF CliData
<1>2. \A k \in Op : Finished(k, op[k].m.t) => op'[k].got = op[k].got
  <2>1. CliGet(n) => /\ ~Finished(n, op[n].m.t)
                     /\ \A k \in Op \ {n} : op'[k].got = op[k].got
    BY DEF CliGet, Finished, Ended
  <2>2. CliPut(n) \/ CliPutEnd(n) => \A k \in Op : op'[k].got = op[k].got
    BY DEF CliPut, CliPutEnd, peers, OpState
  <2> QED  BY <2>1, <2>2 DEF CliData
<1>3. Occupied => Occupied'
  BY <1>1 DEF Occupied
<1> QED  BY <1>1, <1>2, <1>3 DEF Ordinary

\* CliReplyOrdinary: a reply finishes the transfer its client is busy with.
LEMMA CliReplyOrdinary ==
    ASSUME Calm, NEW s \in Session, CliReply(s) PROVE Ordinary
<1> USE Calmly
<1>1. /\ client[s].ph = "busy" /\ outq[cc(s)] # <<>>
      /\ UNCHANGED <<nop, sdisk, client, fin>>
  BY DEF CliReply, CliHear
<1>2. PICK n \in Op : n = nop /\ client[s].n = n /\ Busy(s, n)
  BY <1>1, WhoIsServed, BusyIs
<1>3. op[n].reply # "ok"
  <2>1. ~Quiet(s)
    BY <1>1 DEF Quiet, Carried
  <2> QED  BY <1>2, <2>1 DEF Busy, Asked, Sent, Moving, Hidden, Answered, Answering
<1>4. PICK r : op' = [op EXCEPT ![n].reply = r]
  BY <1>2 DEF CliReply
<1>5. /\ \A k \in Op : op'[k].m = op[k].m /\ op'[k].got = op[k].got
      /\ \A k \in Op \ {n} : op'[k] = op[k]
  BY <1>4 DEF OpState
<1>6. Occupied /\ Occupied'
  BY <1>1 DEF Occupied
<1> QED  BY <1>1, <1>2, <1>3, <1>5, <1>6 DEF Ordinary, Finished

\* CliDoneOrdinary: a client leaves its transfer when it is finished.
LEMMA CliDoneOrdinary ==
    ASSUME Calm, NEW s \in Session, CliDone(s) PROVE Ordinary
<1> USE Calmly
<1>1. client[s].ph = "busy" /\ UNCHANGED <<op, nop, sdisk>> /\ fin \subseteq fin'
  BY DEF CliDone
<1>2. PICK n \in Op : n = nop /\ client[s].n = n /\ Busy(s, n)
  BY <1>1, WhoIsServed, BusyIs
<1>3. op[n].reply # "none" /\ (op[n].reply = "ok" => cd(n) \in fin \/ Ended(cd(n)))
  BY <1>2 DEF CliDone
<1>4. Finished(n, op[n].m.t)
  BY <1>2, <1>3, HungIs DEF Finished
<1> QED  BY <1>1, <1>2, <1>4 DEF Ordinary

\* CliCloseOrdinary: a client closes its connection when it is in no transfer.
LEMMA CliCloseOrdinary ==
    ASSUME Calm, NEW s \in Session, CliClose(s) PROVE Ordinary
<1> USE Calmly
<1>1. /\ UNCHANGED <<op, nop, sdisk>> /\ fin \subseteq fin'
      /\ client' = [client EXCEPT ![s].ph = "gone"]
      /\ client[s].ph = "quit" \/ ~Held(cc(s))
  BY DEF CliClose, Leave, Ended
<1>2. client[s].ph \notin {"setup", "ready", "busy"}
  <2> SUFFICES ASSUME client[s].ph \in {"setup", "ready", "busy"} PROVE FALSE
    OBVIOUS
  <2>1. Serving(s)
    BY WhoIsServed
  <2>2. fdt[5] = cc(s) /\ 5 \in Fd /\ status = "running"
    BY <2>1, LowFds DEF Serving, Pair, Calm, Descriptors
  <2> QED  BY <1>1, <2>2 DEF Held
<1>3. \A q \in Session \ {s} : client'[q] = client[q]
  BY <1>1
<1>4. Occupied => Occupied'
  BY <1>2, <1>3, OccupiedStays
<1> QED  BY <1>1, <1>4, OrdinaryStill

\* CliOrdinary: every other step of a client but the start of a transfer.
LEMMA CliOrdinary ==
    ASSUME Calm, NEW s \in Session, CliStep(s),
           ~\E mode \in Mode, m \in Want : CliStart(s, mode, m)
    PROVE  Ordinary
<1> USE Calmly
<1>1. ~CliAbort(s)
  BY DEF CliAbort, Calm, Orderly
<1>2. CASE \/ CliConnect(s) \/ CliGreeted(s) \/ CliReady(s) \/ CliCommand(s) \/ CliDial(s)
           \/ CliQuit(s)
  <2>1. UNCHANGED <<op, nop, sdisk, fin>>
    BY <1>2 DEF CliConnect, CliGreeted, CliReady, CliCommand, CliDial, CliQuit, peers
  <2>2. /\ \A q \in Session \ {s} : client'[q] = client[q]
        /\ client[s].ph \in {"setup", "ready", "busy"}
              => client'[s].ph \in {"setup", "ready", "busy"}
    BY <1>2 DEF CliConnect, CliGreeted, CliReady, CliCommand, CliDial, CliQuit, peers, CliState
  <2> QED  BY <2>1, <2>2, OccupiedStays, OrdinaryStill
<1> QED  BY <1>1, <1>2, CliReplyOrdinary, CliDoneOrdinary, CliCloseOrdinary DEF CliStep

\* StepKinds: what a step may be to the store.
LEMMA StepKinds ==
    ASSUME Calm, [Next]_vars
    PROVE  \/ Ordinary
           \/ \E s \in Session, mode \in Mode, m \in Want : CliStart(s, mode, m)
           \/ \E s \in Session : SrvEnd(s, "226") /\ server[s].ph = "recv"
<1>1. CASE UNCHANGED vars
  <2>1. UNCHANGED <<op, nop, sdisk, fin, client>>
    BY <1>1 DEF vars, peers, proxyVars
  <2>2. Occupied => Occupied'
    BY <2>1 DEF Occupied
  <2> QED  BY <2>1, <2>2, OrdinaryStill
<1>2. CASE Next
  BY <1>2, ProxyOrdinary, SrvOrdinary, CliDataOrdinary, CliOrdinary DEF Next
<1> QED  BY <1>1, <1>2

-----------------------------------------------------------------------------
(***************************************************************************)
(* What the descriptor table says of the copies and of data connections.   *)
(***************************************************************************)

\* TableIs: what the descriptors can refer to.
LEMMA TableIs ==
    ASSUME Calm, NEW fd \in Fd
    PROVE  \/ fdt[fd] \in {Free, Std} \/ (\E p \in Port : fdt[fd] = Listener(p))
           \/ \E s \in Session : fdt[fd] \in {cc(s), sc(s)}
           \/ fd \in {7, 8} /\ \E n \in Op : Relaying(n)
           \/ fd = 9
<1> USE Calmly
<1>1. fd \in Nat /\ NFd \in Nat
  BY NetAssumption DEF Fd
<1>2. CASE fd \in 0..3
  <2>1. fdt[fd] = Std \/ fdt[fd] = Listener(CmdPort)
    BY <1>1, <1>2 DEF Descriptors
  <2> QED  BY <2>1 DEF Port
<1>3. CASE fd \in {4, 5}
  BY <1>3 DEF Descriptors, Pair
<1>4. CASE fd = 6
  BY <1>4 DEF Descriptors, Port
<1>5. CASE fd \in {7, 8}
  <2>1. fdt[fd] # Free => \E n \in Op : Relaying(n)
    BY <1>5, DataPair
  <2> QED  BY <1>5, <2>1
<1>6. CASE fd > 9
  BY <1>6 DEF Descriptors
<1> QED  BY <1>1, <1>2, <1>3, <1>4, <1>5, <1>6

\* The copies that are finished, in terms of descriptor 9.
CopiesAre ==
    Calm => /\ \A f \in File : CacheOpen(f) <=> fdt[9] = CacheFile(f)
            /\ Copies = {f \in DOMAIN disk : fdt[9] # CacheFile(f)}
\* CopiesAreHolds: a file of the cache is open only as descriptor 9.
LEMMA CopiesAreHolds == CopiesAre
<1> SUFFICES ASSUME Calm
             PROVE  /\ \A f \in File : CacheOpen(f) <=> fdt[9] = CacheFile(f)
                    /\ Copies = {f \in DOMAIN disk : fdt[9] # CacheFile(f)}
  BY DEF CopiesAre
<1> USE Calmly
<1>1. ASSUME NEW f \in File, NEW fd \in Fd, fdt[fd] = CacheFile(f) PROVE fd = 9
  <2>1. ~(fd \in {7, 8} /\ \E n \in Op : Relaying(n))
    <3> SUFFICES ASSUME fd \in {7, 8}, NEW n \in Op, Relaying(n) PROVE FALSE
      OBVIOUS
    <3>1. fdt[fd] \in Conn
      BY ConnType DEF Relaying
    <3> QED  BY <1>1, <3>1, Kinds
  <2>2. /\ fdt[fd] \notin {Free, Std} /\ ~\E p \in Port : fdt[fd] = Listener(p)
        /\ ~\E s \in Session : fdt[fd] \in {cc(s), sc(s)}
    BY <1>1, Kinds, ConnType
  <2> QED  BY <2>1, <2>2, TableIs
<1>2. 9 \in Fd
  BY LowFds DEF Calm
<1>3. \A f \in File : CacheOpen(f) <=> fdt[9] = CacheFile(f)
  BY <1>1, <1>2 DEF CacheOpen
<1>4. DOMAIN disk \subseteq File
  BY DEF ProcessOK, FilesOK
<1> QED  BY <1>3, <1>4 DEF Copies

\* CopiesAreAfter: the same of the state after a step.
LEMMA CopiesAreAfter == CopiesAre'
BY CopiesAreHolds, PTL

\* No connection for data is held once the last one is gone.
Loose == Calm /\ NoData => \A n \in Op : ~Held(cd(n))
\* LooseHolds: neither in the table nor in a backlog.
LEMMA LooseHolds == Loose
<1> SUFFICES ASSUME Calm, NoData, NEW n \in Op, Held(cd(n)) PROVE FALSE
  BY DEF Loose
<1> USE Calmly
<1>1. cd(n) \in Conn
  BY ConnType
<1>2. ASSUME NEW fd \in Fd, fdt[fd] = cd(n) PROVE FALSE
  <2>1. ~\E k \in Op : Relaying(k)
    BY WaysApart
  <2>2. fd # 9
    BY <1>1, <1>2, Kinds DEF NoData, NoRelay
  <2>3. fdt[fd] \notin {Free, Std} /\ ~\E p \in Port : fdt[fd] = Listener(p)
    BY <1>1, <1>2, Kinds
  <2>4. ~\E s \in Session : fdt[fd] \in {cc(s), sc(s)}
    BY <1>2, Distinct
  <2> QED  BY <2>1, <2>2, <2>3, <2>4, TableIs
<1>3. ASSUME NEW p \in Port, NEW i \in DOMAIN backlog[p], backlog[p][i] = cd(n) PROVE FALSE
  <2>1. backlog[p] # <<>>
    BY <1>3
  <2>2. p = CmdPort
    BY <2>1 DEF NoData, Port
  <2>3. PICK s \in Session : backlog[CmdPort] = <<cc(s)>>
    BY <2>1, <2>2 DEF Sessions, Queued
  <2>4. backlog[p][i] = cc(s)
    BY <1>3, <2>2, <2>3
  <2> QED  BY <1>3, <2>4, Distinct
<1> QED  BY <1>2, <1>3 DEF Held

\* LooseAfter: the same of the state after a step.
LEMMA LooseAfter == Loose'
BY LooseHolds, PTL

-----------------------------------------------------------------------------
(***************************************************************************)
(* Proxy, clients and server implement the store.                          *)
(***************************************************************************)

\* The state of the store.
Versions == [f \in DOMAIN sdisk |-> VersionOf(f, sdisk[f])]
CopyOf   == [f \in Copies |-> VersionOf(f, disk[f])]
Requests == [n \in StoreTransfers |-> op[n].m]
Done     == {n \in StoreTransfers : Finished(n, op[n].m.t)}
Outcome(n) == IF op[n].m.t = "STOR" THEN n ELSE VersionOf(op[n].m.f, op[n].got)
Results  == [n \in Done |-> Outcome(n)]

\* VersionIs: the blocks of a version are that version.
LEMMA VersionIs ==
    ASSUME NEW f \in File, NEW v \in {0} \cup Op
    PROVE  VersionOf(f, Contents(f, v)) = v
<1>1. Whole(f, Contents(f, v))
  BY DEF Whole
<1>2. 1 \in 1..NChunk
  BY NetAssumption
<1>3. ASSUME NEW w \in {0} \cup Op, Contents(f, v) = Contents(f, w) PROVE w = v
  <2>1. Contents(f, v)[1].v = v /\ Contents(f, w)[1].v = w
    BY <1>2, BlocksOf
  <2> QED  BY <1>3, <2>1
<1>4. (CHOOSE w \in {0} \cup Op : Contents(f, v) = Contents(f, w)) = v
  BY <1>3
<1> QED  BY <1>1, <1>4 DEF VersionOf

\* AsStored: a step of the store, in terms of the system.
LEMMA AsStored ==
    ASSUME NEW n \in Op,
           \/ /\ n \notin DOMAIN Requests
              /\ \E m \in Named : Requests' = Store!With(Requests, n, m)
              /\ UNCHANGED <<Versions, CopyOf, Results>>
           \/ /\ n \in DOMAIN Requests \ Done /\ Requests[n].t = "STOR"
              /\ Versions' = Store!With(Versions, Requests[n].f, n)
              /\ UNCHANGED <<CopyOf, Requests, Results>>
           \/ /\ n \in DOMAIN Requests \ Done /\ Requests[n].t = "STOR"
              /\ Requests[n].f \in DOMAIN Versions /\ Versions[Requests[n].f] = n
              /\ Results' = Store!With(Results, n, n)
              /\ UNCHANGED <<Versions, CopyOf, Requests>>
    PROVE  Store!Next
<1>1. DOMAIN Results = Done
  BY DEF Results
<1> USE DEF Store!Active, Versions, CopyOf, Requests, Results, Done, Outcome
<1>2. CASE /\ n \notin DOMAIN Requests
           /\ \E m \in Named : Requests' = Store!With(Requests, n, m)
           /\ UNCHANGED <<Versions, CopyOf, Results>>
  <2>1. Store!Ask(n)
    BY <1>2 DEF Store!Ask, Named
  <2> QED  BY <2>1 DEF Store!Next, Op
<1>3. CASE /\ n \in DOMAIN Requests \ Done /\ Requests[n].t = "STOR"
           /\ Versions' = Store!With(Versions, Requests[n].f, n)
           /\ UNCHANGED <<CopyOf, Requests, Results>>
  <2>1. Store!Upload(n)
    BY <1>1, <1>3 DEF Store!Upload
  <2> QED  BY <2>1 DEF Store!Next, Op
<1>4. CASE /\ n \in DOMAIN Requests \ Done /\ Requests[n].t = "STOR"
           /\ Requests[n].f \in DOMAIN Versions /\ Versions[Requests[n].f] = n
           /\ Results' = Store!With(Results, n, n)
           /\ UNCHANGED <<Versions, CopyOf, Requests>>
  <2>1. Store!Acknowledge(n)
    BY <1>1, <1>4 DEF Store!Acknowledge
  <2> QED  BY <2>1 DEF Store!Next, Op
<1> QED  BY <1>2, <1>3, <1>4

\* A download makes its copy.
CopyMade(n) ==
    /\ Requests[n].f \in (Cacheable \cap DOMAIN Versions) \ DOMAIN CopyOf
    /\ CopyOf' = Store!With(CopyOf, Requests[n].f, Versions[Requests[n].f])

\* AsDelivered: the steps of a download.
LEMMA AsDelivered ==
    ASSUME NEW n \in Op, n \in DOMAIN Requests \ Done, Requests[n].t = "RETR",
           UNCHANGED <<Versions, Requests>>,
           \/ CopyMade(n) /\ UNCHANGED Results
           \/ /\ CopyMade(n) \/ UNCHANGED CopyOf
              /\ LET from == IF Requests[n].f \in Cacheable THEN CopyOf' ELSE Versions IN
                    /\ Requests[n].f \in DOMAIN from
                    /\ Results' = Store!With(Results, n, from[Requests[n].f])
    PROVE  Store!Next
<1>1. DOMAIN Results = Done
  BY DEF Results
<1> USE DEF Store!Active, Versions, CopyOf, Requests, Results, Done, Outcome
<1>2. CopyMade(n) => Store!Copied(n)
  BY <1>1 DEF CopyMade, Store!Copied
<1>3. CASE CopyMade(n) /\ UNCHANGED Results
  <2>1. Store!Copy(n)
    BY <1>2, <1>3 DEF Store!Copy
  <2> QED  BY <2>1 DEF Store!Next, Op
<1>4. CASE /\ CopyMade(n) \/ UNCHANGED CopyOf
           /\ LET from == IF Requests[n].f \in Cacheable THEN CopyOf' ELSE Versions IN
                 /\ Requests[n].f \in DOMAIN from
                 /\ Results' = Store!With(Results, n, from[Requests[n].f])
  <2>1. Store!Deliver(n)
    BY <1>1, <1>2, <1>4 DEF Store!Deliver
  <2> QED  BY <2>1 DEF Store!Next, Op
<1> QED  BY <1>3, <1>4

-----------------------------------------------------------------------------
(***************************************************************************)
(* The steps, as the store sees them.                                      *)
(***************************************************************************)

\* NothingAdded: nothing follows what is all there is.
LEMMA NothingAdded ==
    ASSUME NEW a \in Seq(Msg), NEW b \in Seq(Msg), a \o b = a
    PROVE  b = <<>>
<1>1. Len(a \o b) = Len(a) + Len(b) /\ Len(a) \in Nat /\ Len(b) \in Nat
  OBVIOUS
<1>2. Len(b) = 0
  BY <1>1
<1> QED  BY <1>2, EmptySeq

\* PartIsAll: the first blocks of a file are the file when they are as many.
LEMMA PartIsAll ==
    ASSUME NEW f \in File, NEW a \in Seq(Msg), NEW b \in Seq(Msg), NEW q, Whole(f, q),
           NEW k \in 0..NChunk, a \o b = SubSeq(q, 1, k), Len(a) = NChunk
    PROVE  a = q
<1>1. q \in Seq(Msg) /\ Len(q) = NChunk /\ NChunk \in Nat
  BY WholeIs, NetAssumption
<1>2. Len(SubSeq(q, 1, k)) = k /\ \A i \in 1..k : SubSeq(q, 1, k)[i] = q[i]
  BY <1>1
<1>3. Len(a \o b) = Len(a) + Len(b) /\ \A i \in 1..Len(a) : (a \o b)[i] = a[i]
  BY ONLY a \in Seq(Msg), b \in Seq(Msg)
<1>4. Len(b) \in Nat
  OBVIOUS
<1>5. k = NChunk
  BY <1>1, <1>2, <1>3, <1>4
<1>6. \A i \in 1..Len(a) : a[i] = q[i]
  BY <1>1, <1>2, <1>3, <1>5
<1> QED  BY <1>1, <1>6, SeqEqual

\* What a step that keeps the invariants does to the store.
Onward == Calm /\ Calm' /\ StreamsInv /\ StreamsInv' /\ Advance /\ Ordinary

\* FinishedStays: a transfer that is finished stays so.
LEMMA FinishedStays ==
    ASSUME Onward, NEW k \in Done
    PROVE  Finished(k, op[k].m.t)' /\ op'[k].got = op[k].got
<1> USE Calmly DEF Onward
<1>1. k \in Op /\ Finished(k, op[k].m.t) /\ op[k].m.t \in {"RETR", "STOR"}
  BY DEF Done, StoreTransfers
<1>2. /\ op'[k].m = op[k].m /\ op'[k].reply = op[k].reply /\ op'[k].got = op[k].got
      /\ fin \subseteq fin' /\ nop' = nop /\ sdisk' = sdisk /\ op[k].reply = "ok"
  BY <1>1 DEF Ordinary, Finished
<1>3. cd(k) \in fin' \/ Ended(cd(k))' => Finished(k, op[k].m.t)'
  BY <1>1, <1>2 DEF Finished
<1>4. CASE cd(k) \in fin
  BY <1>2, <1>3, <1>4
<1>5. CASE cd(k) \notin fin /\ cd(k) \notin fin'
  <2>1. k = nop /\ Ended(cd(k)) /\ HungUp(k)
    BY <1>1, <1>5, FinishedIs
  <2>2. PICK f \in File : f = op[k].m.f /\ IsGet(k)
    BY <1>1, <1>5, <2>1, Kind DEF HungUp
  <2>3. Handed(k) /\ fdt[9] = Free /\ (f \in Cacheable => f \in DOMAIN disk)
    BY <1>1, <2>1, <2>2, WaysApart DEF HungUp, NoData, NoRelay, Stored
  <2>4. Handed(k)'
    BY <1>1, <2>1, <2>3 DEF Advance
  <2>5. Fetching(k) /\ Fetching(k)'
    BY <1>1, <1>2, <1>5, <2>1, <2>2 DEF StreamsInv, Stream, IsGet
  <2>6. f \in Cacheable => disk'[f] = disk[f]
    <3>1. \A g \in File : fdt[9] # CacheFile(g)
      BY <2>3, Kinds
    <3> QED  BY <2>3, <3>1 DEF Advance, CacheAdvance
  <2>7. Got(k)' = Got(k)
    BY <1>2, <2>2, <2>3, <2>4, <2>5, <2>6 DEF Fetching
  <2>8. /\ outq[cd(k)] = <<>> /\ op[k].got \in Seq(Msg) /\ outq'[cd(k)] \in Seq(Msg)
    <3>1. cd(k) \in Conn
      BY <1>1, ConnType
    <3>2. NetOK'
      BY DEF Calm, Inv, ProxyInv
    <3> QED  BY <1>1, <2>1, <3>1, <3>2 DEF Ended, OpState, NetOK
  <2>9. op[k].got \o outq'[cd(k)] = op[k].got
    BY <1>2, <2>7, <2>8, ConcatEmptySeq DEF Got
  <2>10. outq'[cd(k)] = <<>>
    BY <2>8, <2>9, NothingAdded
  <2>11. ~Held(cd(k))'
    BY <1>1, <2>4, LooseAfter DEF Loose, Handed
  <2> QED  BY <1>2, <1>3, <2>4, <2>10, <2>11 DEF Ended, Handed
<1> QED  BY <1>2, <1>3, <1>4, <1>5

\* RequestsStay: nothing else is asked for.
LEMMA RequestsStay ==
    ASSUME Ordinary
    PROVE  StoreTransfers' = StoreTransfers /\ Requests' = Requests
<1>1. \A n \in Op : op'[n].m = op[n].m
  BY DEF Ordinary
<1>2. StoreTransfers' = StoreTransfers /\ StoreTransfers \subseteq Op
  BY <1>1 DEF StoreTransfers
<1> QED  BY <1>1, <1>2 DEF Requests

\* DoneStep: a step finishes at most the last transfer, while its client is busy
\* with it.
LEMMA DoneStep ==
    ASSUME Onward
    PROVE  /\ Done \subseteq Done' /\ \A k \in Done : Outcome(k)' = Outcome(k)
           /\ \A k \in Done' \ Done : k = nop /\ Occupied'
<1> USE Calmly DEF Onward
<1>1. StoreTransfers' = StoreTransfers /\ StoreTransfers \subseteq Op
  BY RequestsStay DEF StoreTransfers
<1>2. ASSUME NEW k \in Done PROVE k \in Done' /\ Outcome(k)' = Outcome(k)
  <2>1. Finished(k, op[k].m.t)' /\ op'[k].got = op[k].got
    BY FinishedStays
  <2>2. k \in Op /\ op'[k].m = op[k].m
    BY <1>1 DEF Done, Ordinary
  <2> QED  BY <1>1, <2>1, <2>2 DEF Done, Outcome
<1>3. ASSUME NEW k \in Done' \ Done PROVE k = nop /\ Occupied'
  <2>1. k \in StoreTransfers /\ k \in Op /\ op'[k].reply = "ok" /\ op'[k].m = op[k].m
    BY <1>1 DEF Done, Finished, Ordinary
  <2>2. ~Finished(k, op[k].m.t)
    BY <2>1 DEF Done
  <2>3. ~(op[k].reply = "ok" /\ cd(k) \in fin)
    BY <2>2 DEF Finished
  <2>4. k = nop
    <3>1. CASE k # nop
      <4>1. op[k].reply = "ok"
        BY <2>1, <3>1 DEF Ordinary
      <4>2. k <= nop
        BY <2>1, <4>1 DEF Transfers, Op
      <4> QED  BY <2>1, <2>3, <3>1, <4>1, <4>2, NotLast
    <3> QED  BY <3>1
  <2>5. Occupied
    <3>1. CASE ~Occupied
      <4>1. op[k].reply = "ok" /\ ~Live
        BY <2>1, <3>1 DEF Ordinary, Live, Occupied
      <4> QED  BY <2>1, <2>3, <2>4, <4>1 DEF Transfers, Past
    <3> QED  BY <3>1
  <2> QED  BY <2>1, <2>2, <2>4, <2>5 DEF Ordinary
<1> QED  BY <1>2, <1>3

\* CopyStep: a step leaves the finished copies alone, or the last transfer, a
\* download, finishes one, of what the server has.
LEMMA CopyStep ==
    ASSUME Onward
    PROVE  \/ CopyOf' = CopyOf
           \/ \E n \in Op : n = nop /\ n \notin Done /\ IsGet(n) /\ CopyMade(n)
<1> USE Calmly DEF Onward
<1>1. /\ Copies = {f \in DOMAIN disk : fdt[9] # CacheFile(f)}
      /\ Copies' = {f \in DOMAIN disk' : fdt'[9] # CacheFile(f)}
      /\ DOMAIN disk \subseteq File
  BY CopiesAreHolds, CopiesAreAfter DEF CopiesAre, ProcessOK, FilesOK
<1>2. CASE disk' = disk /\ fdt'[9] = fdt[9]
  <2>1. Copies' = Copies
    BY <1>1, <1>2
  <2> QED  BY <1>2, <2>1 DEF CopyOf
<1>3. ASSUME NEW f \in File, fdt[9] = CacheFile(f), fdt'[9] = CacheFile(f),
             DOMAIN disk' = DOMAIN disk, \A g \in DOMAIN disk \ {f} : disk'[g] = disk[g]
      PROVE  CopyOf' = CopyOf
  <2>1. Copies' = Copies /\ Copies \subseteq DOMAIN disk \ {f}
    BY <1>1, <1>3
  <2> QED  BY <1>3, <2>1 DEF CopyOf
<1>4. ASSUME NEW f \in File \ DOMAIN disk, fdt[9] = Free, fdt'[9] = CacheFile(f),
             DOMAIN disk' = DOMAIN disk \cup {f}, \A g \in DOMAIN disk : disk'[g] = disk[g]
      PROVE  CopyOf' = CopyOf
  <2>1. /\ \A g \in File : fdt[9] # CacheFile(g)
        /\ \A g \in File : fdt'[9] = CacheFile(g) <=> g = f
    BY <1>4, Kinds
  <2>2. Copies = DOMAIN disk /\ Copies' = DOMAIN disk
    BY <1>1, <1>4, <2>1
  <2> QED  BY <1>4, <2>2 DEF CopyOf
<1>5. CASE disk' = disk /\ fdt'[9] = Free /\ fdt[9] # Free
  <2>1. PICK n \in Op : n = nop /\ Relaying(n)
    BY <1>5, Covered
  <2>2. PICK f \in File : /\ f = op[n].m.f /\ IsGet(n) /\ f \in Cacheable /\ f \in OnServer
                          /\ fdt[9] = CacheFile(f) /\ f \in DOMAIN disk
    <3>1. IsGet(n) /\ op[n].m.f \in Cacheable /\ fdt[9] = CacheFile(op[n].m.f)
      BY <1>5, <2>1 DEF Relaying
    <3> QED  BY <2>1, <3>1, Kind DEF Relaying, Stored
  <2>3. cd(n) \notin fin /\ ~Handed(n) /\ ~NoData
    BY <2>1, <2>2, WaysApart DEF Relaying
  <2>4. n \notin Done
    <3>1. ~HungUp(n)
      BY <2>3 DEF HungUp
    <3> QED  BY <2>3, <3>1, FinishedIs DEF Done, StoreTransfers
  <2>5. Fetching(n)
    BY <2>1, <2>2, <2>3 DEF StreamsInv, Stream
  <2>6. disk[f] \o inq[sd(n)] = SubSeq(sdisk[f], 1, Total(n))
    BY <2>2, <2>3, <2>5 DEF Fetching
  <2>7. f \in DOMAIN sdisk /\ Whole(f, sdisk[f]) /\ Whole(f, disk[f])
    <3>1. fdt'[9] # CacheFile(f)
      BY <1>5, Kinds
    <3>2. Whole(f, disk[f])
      BY <1>5, <2>2, <3>1 DEF StreamsInv, CacheFiles
    <3> QED  BY <2>2, <3>2 DEF StreamsInv, ServerFiles, Fetches
  <2>8. Total(n) \in 0..NChunk
    <3>1. op[n].s \in Session
      BY <2>1 DEF StreamsInv, Stream
    <3>2. server[op[n].s].ph = "send" => server[op[n].s].k \in 0..NChunk
      BY <3>1, NetAssumption DEF StreamsInv, Begun, Begins, SrvState
    <3> QED  BY <3>2, NetAssumption DEF Total
  <2>9. disk[f] = sdisk[f]
    <3>1. inq[sd(n)] \in Seq(Msg) /\ disk[f] \in Seq(Msg) /\ Len(disk[f]) = NChunk
      BY <2>1, <2>7, ConnType, WholeIs
    <3>2. PICK a \in Seq(Msg), b \in Seq(Msg), k \in 0..NChunk :
             a = disk[f] /\ b = inq[sd(n)] /\ k = Total(n)
      BY <2>8, <3>1
    <3>3. /\ f \in File /\ a \in Seq(Msg) /\ b \in Seq(Msg) /\ k \in 0..NChunk
          /\ Whole(f, sdisk[f]) /\ a \o b = SubSeq(sdisk[f], 1, k) /\ Len(a) = NChunk
      BY <2>6, <2>7, <3>1, <3>2
    <3>4. a = sdisk[f]
      BY ONLY <3>3, PartIsAll
    <3> QED  BY <3>2, <3>4
  <2>10. Copies = DOMAIN disk \ {f} /\ Copies' = DOMAIN disk
    <3>1. /\ \A g \in File : fdt'[9] # CacheFile(g)
          /\ \A g \in File : fdt[9] = CacheFile(g) <=> g = f
      BY <1>5, <2>2, Kinds
    <3> QED  BY <1>1, <1>5, <3>1
  <2>11. CopyOf' = Store!With(CopyOf, f, VersionOf(f, sdisk[f]))
    BY <1>5, <2>2, <2>9, <2>10 DEF CopyOf, Store!With
  <2>12. Requests[n].f = f
    BY <2>2 DEF Requests, StoreTransfers, IsGet
  <2>13. CopyMade(n)
    BY <2>2, <2>7, <2>10, <2>11, <2>12 DEF CopyMade, CopyOf, Versions
  <2> QED  BY <2>1, <2>2, <2>4, <2>13
<1> QED  BY <1>2, <1>3, <1>4, <1>5 DEF Advance, CacheAdvance

\* OrdinaryStep: a step that is none of the two below.
LEMMA OrdinaryStep ==
    ASSUME Onward
    PROVE  Store!Next \/ UNCHANGED <<Versions, CopyOf, Requests, Results>>
<1> USE Calmly DEF Onward
<1>1. Versions' = Versions /\ Requests' = Requests /\ nop' = nop
  BY RequestsStay DEF Ordinary, Versions
<1>2. Done \subseteq Done' /\ \A k \in Done : Outcome(k)' = Outcome(k)
  BY DoneStep
<1>3. CASE Done' = Done
  <2>1. Results' = Results
    BY <1>2, <1>3 DEF Results
  <2>2. CASE CopyOf' = CopyOf
    BY <1>1, <2>1, <2>2
  <2>3. ASSUME NEW n \in Op, n \notin Done, IsGet(n), CopyMade(n) PROVE Store!Next
    <3>1. n \in DOMAIN Requests /\ Requests[n].t = "RETR"
      BY <2>3 DEF Requests, StoreTransfers, IsGet
    <3> QED  BY <1>1, <2>1, <2>3, <3>1, AsDelivered
  <2> QED  BY <2>2, <2>3, CopyStep
<1>4. CASE Done' # Done
  <2>1. PICK n \in Op : n = nop /\ n \in Done' \ Done /\ Occupied' /\ Done' = Done \cup {n}
    <3>1. PICK n : n \in Done' \ Done
      BY <1>2, <1>4
    <3>2. n \in Op
      BY <3>1 DEF Done, StoreTransfers
    <3> QED  BY <1>2, <3>1, <3>2, DoneStep
  <2>2. PICK f \in File : f = op[n].m.f /\ f = op'[n].m.f /\ op'[n].m = op[n].m
    BY <2>1, Kind DEF Ordinary
  <2>3. /\ n \in DOMAIN Requests \ Done /\ Requests[n].f = f /\ Requests[n].t = op[n].m.t
        /\ op[n].m.t \in {"RETR", "STOR"} /\ Finished(n, op[n].m.t)'
    <3>1. n \in StoreTransfers
      BY <2>1, RequestsStay DEF Done
    <3> QED  BY <2>1, <2>2, <3>1 DEF Done, Requests, StoreTransfers
  <2>4. /\ HungUp(n)'
        /\ IsPut(n)' => f \in DOMAIN sdisk' /\ sdisk'[f] = Contents(f, n)
        /\ IsGet(n)' =>
              /\ op'[n].got = IF f \in Cacheable THEN disk'[f] ELSE sdisk'[f]
              /\ f \in DOMAIN sdisk'
              /\ f \in Cacheable => f \in DOMAIN disk'
    BY <1>1, <2>1, <2>2, <2>3, LastFinishedAfter DEF LastFinished
  <2>5. Results' = Store!With(Results, n, Outcome(n)')
    BY <1>2, <2>1 DEF Results, Store!With
  <2>6. CASE op[n].m.t = "STOR"
    <3>1. Outcome(n)' = n /\ IsPut(n)' /\ IsPut(n)
      BY <2>2, <2>6 DEF Outcome, IsPut
    <3>2. f \in DOMAIN Versions /\ Versions[f] = n
      BY <2>4, <3>1, VersionIs DEF Ordinary, Versions
    <3>3. CopyOf' = CopyOf
      BY <2>1, <3>1, CopyStep, Kind
    <3>4. Results' = Store!With(Results, n, n)
      BY <2>5, <3>1
    <3> QED  BY <1>1, <2>3, <2>6, <3>2, <3>3, <3>4, AsStored
  <2>7. CASE op[n].m.t = "RETR"
    <3>1. Outcome(n)' = VersionOf(f, op'[n].got) /\ IsGet(n)' /\ IsGet(n)
      BY <2>2, <2>7 DEF Outcome, IsGet
    <3>2. CopyMade(n) \/ UNCHANGED CopyOf
      BY <2>1, CopyStep
    <3> DEFINE from == IF f \in Cacheable THEN CopyOf' ELSE Versions
    <3>3. f \in DOMAIN from /\ from[f] = Outcome(n)'
      <4>1. CASE f \in Cacheable
        <5>1. f \in DOMAIN disk' /\ op'[n].got = disk'[f]
          BY <2>4, <3>1, <4>1
        <5>2. f \in Copies'
          <6>1. fdt'[9] # CacheFile(f)
            BY <2>4, Kinds DEF HungUp, NoData, NoRelay
          <6> QED  BY <5>1, <6>1, CopiesAreAfter DEF CopiesAre
        <5> QED  BY <3>1, <4>1, <5>1, <5>2 DEF CopyOf
      <4>2. CASE f \notin Cacheable
        BY <2>4, <3>1, <4>2 DEF Ordinary, Versions
      <4> QED  BY <4>1, <4>2
    <3>4. Results' = Store!With(Results, n, from[f])
      BY <2>5, <3>3
    <3> QED  BY <1>1, <2>3, <2>7, <3>2, <3>3, <3>4, AsDelivered
  <2> QED  BY <2>3, <2>6, <2>7
<1> QED  BY <1>3, <1>4

\* ResultsSame: a step that changes of the transfers' state nothing that tells
\* whether one is finished, and what with.
LEMMA ResultsSame ==
    ASSUME UNCHANGED <<status, fdt, backlog, est, outq>>, StoreTransfers \subseteq StoreTransfers',
           \A k \in StoreTransfers : op'[k] = op[k] /\ (cd(k) \in fin' <=> cd(k) \in fin),
           \A k \in StoreTransfers' \ StoreTransfers : op'[k].reply = "none"
    PROVE  Results' = Results
<1>1. \A k \in StoreTransfers : Ended(cd(k))' <=> Ended(cd(k))
  BY DEF Ended, Held
<1>2. \A k \in StoreTransfers : Finished(k, op[k].m.t)' <=> Finished(k, op[k].m.t)
  BY <1>1 DEF Finished
<1>3. \A k \in StoreTransfers' \ StoreTransfers : ~Finished(k, op[k].m.t)'
  BY DEF Finished
<1>4. Done' = Done /\ Done \subseteq StoreTransfers
  BY <1>2, <1>3 DEF Done
<1>5. \A k \in Done : Outcome(k)' = Outcome(k)
  BY <1>4 DEF Outcome
<1> QED  BY <1>4, <1>5 DEF Results

\* CopiesSame: nor the files of the cache.
LEMMA CopiesSame == ASSUME UNCHANGED <<fdt, disk>> PROVE CopyOf' = CopyOf
<1>1. Copies' = Copies
  BY DEF Copies, CacheOpen
<1> QED  BY <1>1 DEF CopyOf

\* StartStep: a client asks for a transfer.
LEMMA StartStep ==
    ASSUME Calm, NEW s \in Session, NEW mode \in Mode, NEW m \in Want, CliStart(s, mode, m)
    PROVE  Store!Next
<1> USE Calmly
<1>1. PICK n \in Op : n = nop + 1
  BY NetAssumption DEF CliStart, Op
<1>2. /\ op' = [op EXCEPT ![n].s = s, ![n].mode = mode, ![n].m = m]
      /\ UNCHANGED <<proxyOwn, outq, fin, backlog, est, sdisk>>
  BY <1>1 DEF CliStart
<1>3. UNCHANGED <<status, fdt, backlog, est, outq, disk>>
  BY <1>2 DEF proxyOwn
<1>4. /\ op'[n].m = m /\ op'[n].reply = op[n].reply
      /\ \A k \in Op \ {n} : op'[k] = op[k]
  BY <1>2 DEF OpState
<1>5. op[n].m = Junk /\ op[n].reply = "none"
  <2>1. n > nop
    BY <1>1
  <2> QED  BY <2>1 DEF Transfers
<1>6. m \in Named /\ m.t \in {"RETR", "STOR"}
  BY DEF Calm, Orderly, Named
<1>7. n \notin StoreTransfers /\ StoreTransfers' = StoreTransfers \cup {n}
  BY <1>4, <1>5, <1>6 DEF StoreTransfers, Junk, Say
<1>8. n \notin DOMAIN Requests /\ Requests' = Store!With(Requests, n, m)
  BY <1>4, <1>7 DEF Requests, StoreTransfers, Store!With
<1>9. \A k \in StoreTransfers : k \in Op /\ k # n
  BY <1>7 DEF StoreTransfers
<1>10. Results' = Results
  BY <1>2, <1>3, <1>4, <1>5, <1>7, <1>9, ResultsSame
<1>11. Versions' = Versions /\ CopyOf' = CopyOf
  BY <1>2, <1>3, CopiesSame DEF Versions
<1> QED  BY <1>6, <1>8, <1>10, <1>11, AsStored

\* UploadStep: the server has read an upload to its end.
LEMMA UploadStep ==
    ASSUME Calm, StreamsInv', NEW s \in Session, SrvEnd(s, "226"), server[s].ph = "recv"
    PROVE  Store!Next
<1> USE Calmly
<1>1. PICK n \in Op : /\ n = nop /\ client[s].n = n /\ server[s].n = n /\ Moving(s, n)
                      /\ server[s].m = op[n].m
  BY Opening
<1>2. IsPut(n) /\ op[n].reply = "none"
  BY <1>1 DEF Moving
<1>3. PICK f \in File : f = op[n].m.f
  BY <1>1, Kind
<1>4. /\ sdisk' = [g \in DOMAIN sdisk \cup {f} |->
                      IF g = f THEN server[s].got ELSE sdisk[g]]
      /\ Ended(sd(n)) /\ fin' = fin \cup (est \cap {sd(n)})
      /\ UNCHANGED <<proxyOwn, outq, backlog, est, op, nop>>
  BY <1>1, <1>3 DEF SrvEnd, remote
<1>5. sd(n) \in fin' /\ \A k \in Op : cd(k) \in fin' <=> cd(k) \in fin
  BY <1>4, Distinct DEF Ended
<1>6. sdisk'[f] = Contents(f, n)
  BY <1>1, <1>2, <1>3, <1>4, <1>5 DEF StreamsInv, Stream, Storing, IsPut
<1>7. UNCHANGED <<status, fdt, disk>>
  BY <1>4 DEF proxyOwn
<1>8. StoreTransfers' = StoreTransfers /\ StoreTransfers \subseteq Op
  BY <1>4 DEF StoreTransfers
<1>9. Results' = Results /\ CopyOf' = CopyOf /\ Requests' = Requests
  BY <1>4, <1>5, <1>7, <1>8, ResultsSame, CopiesSame DEF Requests
<1>10. Versions' = Store!With(Versions, f, n)
  <2>1. VersionOf(f, sdisk'[f]) = n
    BY <1>6, VersionIs
  <2>2. DOMAIN sdisk' = DOMAIN sdisk \cup {f} /\ \A g \in DOMAIN sdisk \ {f} : sdisk'[g] = sdisk[g]
    BY <1>4
  <2> QED  BY <2>1, <2>2 DEF Versions, Store!With
<1>11. n \in DOMAIN Requests \ Done /\ Requests[n].t = "STOR" /\ Requests[n].f = f
  BY <1>2, <1>3 DEF Requests, Done, StoreTransfers, Finished, IsPut
<1> QED  BY <1>9, <1>10, <1>11, AsStored

\* InitStore: at the start the store has what the server has, and no copy.
LEMMA InitStore == ASSUME SysInit PROVE Store!Init
<1> USE DEF SysInit, Init, PeersInit
<1>1. DOMAIN sdisk = OnServer /\ \A f \in OnServer : VersionOf(f, sdisk[f]) = 0
  BY VersionIs, PeersAssumption
<1>2. StoreTransfers = {} /\ Done = {} /\ Copies = {}
  BY DEF StoreTransfers, Done, Copies, Junk, Say
<1>3. Versions = [f \in OnServer |-> 0] /\ CopyOf = [f \in {} |-> 0]
  BY <1>1, <1>2 DEF Versions, CopyOf
<1>4. Requests = [n \in {} |-> 0] /\ Results = [n \in {} |-> 0]
  BY <1>2 DEF Requests, Results
<1> QED  BY <1>3, <1>4 DEF Store!Init, Versions, CopyOf, Requests, Results, Done, Outcome

\* StoreStep: every step is a step of the store, or none.
LEMMA StoreStep ==
    ASSUME Calm, Calm', StreamsInv, [Next]_vars
    PROVE  [Store!Next]_(Store!vars)
<1>1. StreamsInv' /\ Advance
  BY NextStreams
<1>2. CASE Ordinary
  <2>1. Store!Next \/ UNCHANGED <<Versions, CopyOf, Requests, Results>>
    BY <1>1, <1>2, OrdinaryStep DEF Onward
  <2> QED  BY <2>1 DEF Store!vars, Versions, CopyOf, Requests, Results, Done, Outcome
<1>3. ASSUME NEW s \in Session, NEW mode \in Mode, NEW m \in Want, CliStart(s, mode, m)
      PROVE  Store!Next
  BY <1>3, StartStep
<1>4. ASSUME NEW s \in Session, SrvEnd(s, "226"), server[s].ph = "recv" PROVE Store!Next
  BY <1>1, <1>4, UploadStep
<1> QED  BY <1>2, <1>3, <1>4, StepKinds

\* ImplementsStoreHolds: while clients take turns, proxy, clients and server are
\* a store in which every upload is atomic, with a copy of each cacheable file
\* that is made once, of what the server had, and never refreshed (lines
\* 215-235, 283-326, 332-373).
THEOREM ImplementsStoreHolds == ASSUME Orderly PROVE Spec => ImplementsStore
<1>1. SysInit => Store!Init
  BY InitStore
<1>2. ASSUME Calm, Calm', StreamsInv, [Next]_vars PROVE [Store!Next]_(Store!vars)
  BY <1>2, StoreStep
<1>3. ASSUME Inv, TurnsInv, StreamsInv, Inv', TurnsInv', [Next]_vars
      PROVE  [Store!Next]_(Store!vars)
  BY <1>2, <1>3 DEF Calm, Orderly
<1> QED  BY <1>1, <1>3, StreamsHold, PTL DEF Spec, Store!Spec, ImplementsStore

-----------------------------------------------------------------------------
(***************************************************************************)
(* What the store gives its clients, and so the proxy with its peers.      *)
(***************************************************************************)

\* What a download of a cacheable file has delivered is the copy.
FromCopy ==
    \A n \in DOMAIN Results :
        /\ n \in DOMAIN Requests
        /\ Requests[n].t = "RETR" /\ Requests[n].f \in Cacheable
           => Requests[n].f \in DOMAIN CopyOf /\ Results[n] = CopyOf[Requests[n].f]

\* A step of the store, without what becomes of the store's own files.
AsksFor(n) == /\ n \notin DOMAIN Requests
             /\ \E m : Requests' = Store!With(Requests, n, m)
             /\ UNCHANGED <<CopyOf, Results>>
Confirms(n) ==
    /\ n \in DOMAIN Requests \ DOMAIN Results /\ Requests[n].t = "STOR"
    /\ \E v : Results' = Store!With(Results, n, v)
    /\ UNCHANGED <<CopyOf, Requests>>
Delivers(n) ==
    /\ n \in DOMAIN Requests \ DOMAIN Results /\ Requests[n].t = "RETR"
    /\ CopyMade(n) \/ UNCHANGED CopyOf
    /\ LET from == IF Requests[n].f \in Cacheable THEN CopyOf' ELSE Versions IN
          Requests[n].f \in DOMAIN from
          /\ Results' = Store!With(Results, n, from[Requests[n].f])
    /\ UNCHANGED Requests

\* StoreSteps: the steps of the store.
LEMMA StoreSteps ==
    ASSUME [Store!Next]_(Store!vars)
    PROVE  \/ UNCHANGED <<CopyOf, Requests, Results>>
           \/ \E n \in Op : \/ AsksFor(n) \/ Confirms(n) \/ Delivers(n)
                            \/ CopyMade(n) /\ UNCHANGED <<Requests, Results>>
<1> USE DEF Versions, CopyOf, Requests, Results, Done, Outcome
<1>1. CASE UNCHANGED Store!vars
  BY <1>1 DEF Store!vars
<1>2. ASSUME NEW n \in Op, Store!Ask(n) PROVE AsksFor(n)
  BY <1>2 DEF Store!Ask, AsksFor
<1>3. ASSUME NEW n \in Op, Store!Upload(n) PROVE UNCHANGED <<CopyOf, Requests, Results>>
  BY <1>3 DEF Store!Upload
<1>4. ASSUME NEW n \in Op, Store!Acknowledge(n) PROVE Confirms(n)
  BY <1>4 DEF Store!Acknowledge, Store!Active, Confirms
<1>5. ASSUME NEW n \in Op, Store!Copied(n) PROVE CopyMade(n)
  BY <1>5 DEF Store!Copied, CopyMade
<1>6. ASSUME NEW n \in Op, Store!Copy(n) PROVE CopyMade(n) /\ UNCHANGED <<Requests, Results>>
  BY <1>5, <1>6 DEF Store!Copy
<1>7. ASSUME NEW n \in Op, Store!Deliver(n) PROVE Delivers(n)
  BY <1>5, <1>7 DEF Store!Deliver, Store!Active, Delivers
<1>8. CASE Store!Next
  <2>1. PICK n \in Op : \/ Store!Ask(n) \/ Store!Upload(n) \/ Store!Acknowledge(n)
                        \/ Store!Copy(n) \/ Store!Deliver(n)
    BY <1>8 DEF Store!Next, Op
  <2> QED  BY <2>1, <1>2, <1>3, <1>4, <1>6, <1>7, Zenon
<1> QED  BY <1>1, <1>8

\* CopiesStay: a copy that has been made is neither replaced nor removed.
LEMMA CopiesStay ==
    ASSUME NEW n, CopyMade(n) \/ UNCHANGED CopyOf
    PROVE  \A f \in DOMAIN CopyOf : f \in DOMAIN CopyOf' /\ CopyOf'[f] = CopyOf[f]
<1>1. CASE CopyMade(n)
  BY <1>1 DEF CopyMade, Store!With
<1>2. CASE UNCHANGED CopyOf
  BY <1>2
<1> QED  BY <1>1, <1>2

\* FromCopyInductive: a transfer is answered only once, and the copy it was
\* answered from stays.
LEMMA FromCopyInductive == Store!Spec => []FromCopy
<1>1. Store!Init => FromCopy
  <2> SUFFICES ASSUME Store!Init PROVE FromCopy
    OBVIOUS
  <2>1. Results = [n \in {} |-> 0]
    BY DEF Store!Init, Results, Done, Outcome
  <2>2. DOMAIN Results = {}
    BY <2>1
  <2> QED  BY <2>2 DEF FromCopy
<1>2. ASSUME FromCopy, [Store!Next]_(Store!vars) PROVE FromCopy'
  <2>1. CASE UNCHANGED <<CopyOf, Requests, Results>>
    BY <1>2, <2>1 DEF FromCopy
  <2>2. ASSUME NEW n \in Op, AsksFor(n) PROVE FromCopy'
    <3>1. PICK m : n \notin DOMAIN Requests /\ Requests' = Store!With(Requests, n, m)
                   /\ UNCHANGED <<CopyOf, Results>>
      BY <2>2 DEF AsksFor
    <3>2. \A k \in DOMAIN Results : k \in DOMAIN Requests' /\ Requests'[k] = Requests[k]
      BY <1>2, <3>1 DEF FromCopy, Store!With
    <3> QED  BY <1>2, <3>1, <3>2 DEF FromCopy
  <2>3. ASSUME NEW n \in Op, Confirms(n) PROVE FromCopy'
    <3>1. PICK v : n \in DOMAIN Requests /\ Requests[n].t = "STOR"
                   /\ Results' = Store!With(Results, n, v)
                   /\ UNCHANGED <<CopyOf, Requests>> /\ n \notin DOMAIN Results
      BY <2>3 DEF Confirms
    <3>2. DOMAIN Results' = DOMAIN Results \cup {n}
          /\ \A k \in DOMAIN Results : Results'[k] = Results[k]
      BY <3>1 DEF Store!With
    <3> QED  BY <1>2, <3>1, <3>2 DEF FromCopy
  <2>4. ASSUME NEW n \in Op, CopyMade(n), UNCHANGED <<Requests, Results>> PROVE FromCopy'
    <3>1. \A f \in DOMAIN CopyOf : f \in DOMAIN CopyOf' /\ CopyOf'[f] = CopyOf[f]
      BY <2>4, CopiesStay
    <3> QED  BY <1>2, <2>4, <3>1 DEF FromCopy
  <2>5. ASSUME NEW n \in Op, Delivers(n) PROVE FromCopy'
    <3> DEFINE from == IF Requests[n].f \in Cacheable THEN CopyOf' ELSE Versions
    <3>1. n \in DOMAIN Requests /\ n \notin DOMAIN Results /\ Requests' = Requests
          /\ Requests[n].f \in DOMAIN from
          /\ Results' = Store!With(Results, n, from[Requests[n].f])
      BY <2>5 DEF Delivers
    <3>2. \A f \in DOMAIN CopyOf : f \in DOMAIN CopyOf' /\ CopyOf'[f] = CopyOf[f]
      BY <2>5, CopiesStay DEF Delivers
    <3>3. DOMAIN Results' = DOMAIN Results \cup {n} /\ Results'[n] = from[Requests[n].f]
          /\ \A k \in DOMAIN Results : Results'[k] = Results[k]
      BY <3>1 DEF Store!With
    <3>4. ASSUME NEW k \in DOMAIN Results
          PROVE  /\ k \in DOMAIN Requests'
                 /\ Requests'[k].t = "RETR" /\ Requests'[k].f \in Cacheable
                    => /\ Requests'[k].f \in DOMAIN CopyOf'
                       /\ Results'[k] = CopyOf'[Requests'[k].f]
      BY <1>2, <3>1, <3>2, <3>3, <3>4 DEF FromCopy
    <3>5. n \in DOMAIN Requests' /\ (Requests'[n].f \in Cacheable
             => Requests'[n].f \in DOMAIN CopyOf' /\ Results'[n] = CopyOf'[Requests'[n].f])
      BY <3>1, <3>3
    <3> QED  BY <3>3, <3>4, <3>5 DEF FromCopy
  <2> QED  BY <1>2, <2>1, <2>2, <2>3, <2>4, <2>5, StoreSteps
<1> QED  BY <1>1, <1>2, PTL DEF Store!Spec

\* SameVersionHolds: two downloads of a cacheable file deliver one version,
\* whatever has been uploaded between them: nothing refreshes the copy
\* (ftp.c:215-235).
THEOREM SameVersionHolds == Store!Spec => []Store!SameVersion
<1>1. FromCopy => Store!SameVersion
  <2> SUFFICES ASSUME FromCopy PROVE Store!SameVersion
    OBVIOUS
  <2>1. \A n, k \in DOMAIN Results :
           /\ Requests[n] = Requests[k] /\ Requests[n].t = "RETR"
           /\ Requests[n].f \in Cacheable
           => Results[n] = Results[k]
    BY DEF FromCopy
  <2> QED  BY <2>1 DEF Store!SameVersion, Requests, Results, Done, Outcome
<1> QED  BY <1>1, FromCopyInductive, PTL

\* SameVersionServed: so it is for the clients of the proxy that take turns.
THEOREM SameVersionServed == ASSUME Orderly PROVE Spec => []Store!SameVersion
BY ImplementsStoreHolds, SameVersionHolds, PTL DEF ImplementsStore

-----------------------------------------------------------------------------
(***************************************************************************)
(* The first kill of the proxy.                                            *)
(***************************************************************************)

\* Until then everything is as without.
Uncrashed == /\ crashes \in Nat
             /\ crashes = 0 => Inv /\ ListenerInv /\ TurnsInv /\ StreamsInv

\* AfterKill: what the kill leaves of the files whose transfer was not under
\* way.  One that was being written to the cache was under way, and so was the
\* download whose data ends only because the proxy is gone.
LEMMA AfterKill == ASSUME Calm, StreamsInv, Restart PROVE CrashContained'
<1> USE Calmly
<1>1. /\ damaged' = damaged \cup {f \in File : \E m \in UnderWay \cap Named : m.f = f}
      /\ UNCHANGED <<disk, op, fin, nop, client, sdisk, server>>
  BY DEF Restart, peers
<1>2. ASSUME NEW n \in Op, n = nop, NEW s \in Session, client[s].n = n,
             client[s].ph \in {"setup", "ready", "busy"}
      PROVE  op[n].m.f \in damaged'
  <2>1. op[n].m \in Named /\ op[n].m.f \in File
    BY <1>2, Kind
  <2>2. op[n].m \in UnderWay
    BY <1>2 DEF UnderWay
  <2> QED  BY <1>1, <2>1, <2>2
<1> SUFFICES ASSUME NEW f \in File, f \notin damaged'
             PROVE  /\ f \in DOMAIN disk => Whole(f, disk[f])
                    /\ f \in DOMAIN sdisk => Whole(f, sdisk[f])
                    /\ \A n \in Op : Finished(n, "RETR")' /\ op[n].m.f = f
                                        => Whole(f, op[n].got)
  BY <1>1 DEF CrashContained
<1>3. f \in DOMAIN sdisk => Whole(f, sdisk[f])
  BY DEF StreamsInv, ServerFiles
<1>4. fdt[9] # CacheFile(f)
  <2> SUFFICES ASSUME fdt[9] = CacheFile(f) PROVE FALSE
    OBVIOUS
  <2>1. fdt[9] # Free
    BY Kinds
  <2>2. PICK n \in Op : n = nop /\ Relaying(n)
    BY <2>1, Covered
  <2>3. IsGet(n) /\ fdt[9] = CacheFile(op[n].m.f)
    BY <2>1, <2>2 DEF Relaying
  <2>4. fdt[7] # Free
    BY <2>2, ConnType, Kinds DEF Relaying
  <2>5. op[n].m.f = f
    <3>1. op[n].m.f \in File
      BY <2>2, Kind
    <3>2. CacheFile(op[n].m.f) = CacheFile(f)
      BY <2>3
    <3> QED  BY <3>1, <3>2, Kinds
  <2>6. PICK s \in Session : client[s].n = n /\ client[s].ph = "busy"
    BY <2>2, <2>3, <2>4, DataPair
  <2> QED  BY <1>2, <2>2, <2>5, <2>6
<1>5. f \in DOMAIN disk => Whole(f, disk[f])
  BY <1>4 DEF StreamsInv, CacheFiles
<1>6. ASSUME NEW n \in Op, Finished(n, "RETR")', op[n].m.f = f PROVE Whole(f, op[n].got)
  <2>1. op[n].reply = "ok" /\ IsGet(n)
    BY <1>1, <1>6 DEF Finished, IsGet
  <2>2. CASE cd(n) \in fin
    BY <1>6, <2>1, <2>2 DEF StreamsInv, Stream
  <2>3. CASE cd(n) \notin fin
    <3>1. n = nop /\ Live
      BY <2>1, <2>3 DEF Transfers, Past, Op
    <3>2. PICK s \in Session : Pair(s) /\ client[s].ph \in {"setup", "ready", "busy"}
      BY <3>1 DEF Live
    <3>3. client[s].n = n
      BY <3>1, <3>2, WhoIsServed, StageOf
    <3> QED  BY <1>2, <1>6, <3>1, <3>2, <3>3
  <2> QED  BY <2>2, <2>3
<1> QED  BY <1>3, <1>5, <1>6

\* ContainedYet: until the kill, what a transfer under way has not touched is
\* whole, in this state and in the next.
ContainedYet == Orderly /\ Uncrashed /\ crashes = 0 => CrashContained

LEMMA ContainedHolds == ContainedYet
<1> SUFFICES ASSUME Orderly, Uncrashed, crashes = 0 PROVE CrashContained
  BY DEF ContainedYet
<1>1. Calm /\ StreamsInv
  BY DEF Uncrashed, Calm
<1>2. DownloadWhole /\ CacheWhole /\ status = "running"
  BY <1>1, DownloadWholeIs, CacheWholeIs, Calmly DEF Descriptors
<1> QED  BY <1>1, <1>2 DEF CrashContained, DownloadWhole, CacheWhole, StreamsInv, ServerFiles

LEMMA ContainedNext == ContainedYet'
BY ContainedHolds, PTL

\* FirstCrashContained: up to the first kill of the proxy, at whatever moment,
\* and just after it, every file whose transfer was not under way is one whole
\* version in the cache, on the server and at the clients: the kill itself
\* damages no other file (lines 317-326, 347, 369).
THEOREM FirstCrashContained ==
    ASSUME Orderly
    PROVE  RestartSpec => /\ [](crashes = 0 => CrashContained)
                          /\ [][crashes = 0 => CrashContained']_restartVars
<1>1. SysInit /\ crashes = 0 /\ damaged = {} => Uncrashed
  <2> SUFFICES ASSUME SysInit, crashes = 0 PROVE Uncrashed
    OBVIOUS
  <2>1. Inv /\ ListenerInv /\ TurnsInv /\ StreamsInv
    BY InitInv, InitListener, InitTurns, InitStreams
  <2> QED  BY <2>1 DEF Uncrashed
<1>2. ASSUME Uncrashed, crashes = 0, [Next]_vars, crashes' = 0
      PROVE  Uncrashed'
  <2>1. Inv /\ ListenerInv /\ TurnsInv /\ StreamsInv /\ Calm
    BY <1>2 DEF Uncrashed, Calm
  <2>2. Inv' /\ ListenerInv' /\ TurnsInv' /\ Orderly'
    BY <1>2, <2>1, NextInv, NextListener, NextTurns DEF Orderly
  <2>3. StreamsInv'
    BY <1>2, <2>1, <2>2, NextStreams DEF Calm
  <2> QED  BY <1>2, <2>2, <2>3 DEF Uncrashed
<1>3. ASSUME Uncrashed, [RestartNext]_restartVars PROVE Uncrashed'
  <2>1. CASE Restart
    BY <1>3, <2>1 DEF Restart, Uncrashed
  <2>2. CASE [Next]_vars /\ crashes' = crashes
    BY <1>2, <1>3, <2>2 DEF Uncrashed
  <2> QED  BY <1>3, <2>1, <2>2 DEF RestartNext, restartVars
<1>4. ASSUME Uncrashed, crashes = 0 PROVE CrashContained
  BY <1>4, ContainedHolds DEF ContainedYet
<1>5. ASSUME Uncrashed, Uncrashed', crashes = 0, [RestartNext]_restartVars
      PROVE  CrashContained'
  <2>1. CASE Restart
    <3>1. Calm /\ StreamsInv
      BY <1>5 DEF Uncrashed, Calm
    <3> QED  BY <2>1, <3>1, AfterKill
  <2>2. CASE crashes' = 0
    <3>1. Orderly'
      BY DEF Orderly
    <3> QED  BY <1>5, <2>2, <3>1, ContainedNext DEF ContainedYet
  <2> QED  BY <1>5, <2>1, <2>2 DEF RestartNext, restartVars
<1> QED  BY <1>1, <1>3, <1>4, <1>5, PTL DEF RestartSpec
=============================================================================
