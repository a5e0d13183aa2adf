-------------------------- MODULE LineServer_proofs --------------------------
(***************************************************************************)
(* Proofs about LineServer, for any clients, files, lines, sizes of the    *)
(* buffers and limits.                                                     *)
(***************************************************************************)
EXTENDS LineServer, SequenceTheorems, WellFoundedInduction, TLAPS

Buffer == [1 .. MAXLINE -> Byte]
Blank  == [i \in 1 .. MAXLINE |-> Nul]

Types ==
    /\ srv \in [pc : {"accept", "recv", "send", "failed", "exited"}, c : Client,
                f : File \cup {Nul.f}, k : Nat]
    /\ open \subseteq Client /\ reset \subseteq Client /\ queue \in Seq(Client)
    /\ cli \in [Client -> {"off", "send", "recv", "gone"}]
    /\ want \in [Client -> Name]
    /\ readf \in Buffer /\ recvline \in [Client -> Buffer]
    /\ text \in [Client -> Seq(Byte)] /\ disk \in [Client -> Seq(Byte)]
    /\ toCli \in [Client -> Seq(Byte)] /\ toSrv \in [Client -> Seq(Name)]

(***************************************************************************)
(* Whatever is in readf stands where it stood in its line.  This is why    *)
(* the remains of other lines in a block are of longer lines only.         *)
(***************************************************************************)
InPlace == readf[MAXLINE] = Nul /\ \A i \in 1 .. MAXLINE : readf[i] = Nul \/ readf[i].i = i

\* What a client has and what is under way to it is given to it.
Holds(c) ==
    /\ \A j \in DOMAIN text[c] : Given(c, text[c][j])
    /\ \A j \in DOMAIN toCli[c] : toCli[c][j] = Nul \/ Given(c, toCli[c][j])
    /\ \A i \in 1 .. MAXLINE : recvline[c][i] = Nul \/ Given(c, recvline[c][i])
    /\ recvline[c][MAXLINE] = Nul

(***************************************************************************)
(* A client that keeps up has the first n lines, and what is under way to  *)
(* it is nothing, the last byte of a block, the block of the next line, or *)
(* so much that the next read leaves it behind.                            *)
(***************************************************************************)
LineBlock(b, f, k) ==
    /\ Len(b) = MAXLINE /\ b[MAXLINE] = Nul /\ b[Lines[f][k] + 1] = Nul
    /\ \A i \in 1 .. Lines[f][k] : b[i] = Char(f, k, i)

\* How many lines a client with a connection has been sent.
Count(c) == IF srv.c = c /\ srv.pc = "recv" THEN 0
            ELSE IF srv.c = c /\ srv.pc = "send" THEN srv.k
            ELSE Len(Lines[Asked(c)])

Ready(c, n) ==
    \/ toCli[c] = <<>> /\ recvline[c][1] = Nul /\ (c \in open => n = Count(c))
    \/ toCli[c] = <<Nul>> /\ (c \in open => n = Count(c))
    \/ /\ n < Len(Lines[Asked(c)]) /\ LineBlock(toCli[c], Asked(c), n + 1)
       /\ c \in open => n + 1 = Count(c)
    \/ Len(toCli[c]) > MAXLINE

KeepsUp(c) == Asked(c) \in File /\ c \notin behind =>
    \E n \in 0 .. Len(Lines[Asked(c)]) :
        FirstLines(text[c], Asked(c), n) /\ (cli[c] # "gone" => Ready(c, n))

(***************************************************************************)
(* A client that the server has not read anything from has nothing at all. *)
(* This is why a reset, which only such a client can meet, finds nothing   *)
(* to be written to its disk.                                              *)
(***************************************************************************)
Fresh(c) == text[c] = <<>> /\ toCli[c] = <<>> /\ recvline[c] = Blank

Unread(c) ==
    /\ cli[c] \in {"off", "send"} => Fresh(c) /\ toSrv[c] = <<>>
    /\ toSrv[c] # <<>> => Fresh(c) /\ toSrv[c] = <<First8[want[c]]>>
    /\ c \in reset => cli[c] = "gone" \/ (Fresh(c) /\ ~Alive)

Own(c) == Holds(c) /\ KeepsUp(c) /\ Unread(c) /\ disk[c] = <<>>

\* A connection is in the queue or accepted, never both or twice.
Connections ==
    /\ \A c \in open : cli[c] # "off"
    /\ \A i \in DOMAIN queue :
          /\ queue[i] \notin open /\ cli[queue[i]] # "off" /\ Fresh(queue[i])
          /\ \A j \in DOMAIN queue : i # j => queue[i] # queue[j]

\* The server sends a client that it has read from the file it asked for.
Serving ==
    /\ srv.pc \in {"recv", "send", "failed"} => srv.c \in open
    /\ srv.pc \in {"send", "failed"} =>
          toSrv[srv.c] = <<>> /\ cli[srv.c] \notin {"off", "send"}
    /\ srv.pc = "send" => srv.f = Asked(srv.c) /\ srv.f \in File

Inv == Types /\ InPlace /\ Connections /\ Serving /\ \A c \in Client : Own(c)

-----------------------------------------------------------------------------
(* Sequences. *)

LEMMA TailOf ==
    ASSUME NEW S, NEW s \in Seq(S), s # <<>>
    PROVE  /\ Tail(s) \in Seq(S) /\ Head(s) \in S /\ Head(s) = s[1]
           /\ 1 \in DOMAIN s
           /\ \A i \in DOMAIN Tail(s) : i + 1 \in DOMAIN s /\ Tail(s)[i] = s[i + 1]
BY HeadTailProperties, LenProperties

LEMMA Element == ASSUME NEW S, NEW s \in Seq(S), NEW i \in DOMAIN s PROVE s[i] \in S
BY LenProperties

LEMMA Appended ==
    ASSUME NEW S, NEW s \in Seq(S), NEW x \in S
    PROVE  /\ Append(s, x) \in Seq(S)
           /\ \A i \in DOMAIN Append(s, x) :
                 \/ i \in DOMAIN s /\ Append(s, x)[i] = s[i]
                 \/ i = Len(s) + 1 /\ Append(s, x)[i] = x
<1>1. Append(s, x) \in Seq(S) /\ Len(Append(s, x)) = Len(s) + 1 /\ Len(s) \in Nat
  BY AppendProperties, LenProperties
<1>2. DOMAIN s = 1..Len(s) /\ DOMAIN Append(s, x) = 1..(Len(s) + 1)
  BY <1>1, LenProperties
<1>3. /\ \A i \in 1..Len(s) : Append(s, x)[i] = s[i]
      /\ Append(s, x)[Len(s) + 1] = x
  BY AppendProperties
<1>4. \A i \in 1..(Len(s) + 1) : i \in 1..Len(s) \/ i = Len(s) + 1
  BY <1>1
<1> QED  BY <1>1, <1>2, <1>3, <1>4

\* Every element of s \o t is one of s or of t.
LEMMA Joined ==
    ASSUME NEW S, NEW s \in Seq(S), NEW t \in Seq(S)
    PROVE  /\ s \o t \in Seq(S) /\ Len(s \o t) = Len(s) + Len(t)
           /\ DOMAIN s = 1 .. Len(s) /\ DOMAIN t = 1 .. Len(t) /\ Len(s) \in Nat /\ Len(t) \in Nat
           /\ \A i \in DOMAIN (s \o t) :
                 \/ i \in DOMAIN s /\ (s \o t)[i] = s[i]
                 \/ i - Len(s) \in DOMAIN t /\ i > Len(s) /\ (s \o t)[i] = t[i - Len(s)]
           /\ \A i \in DOMAIN s : i \in DOMAIN (s \o t) /\ (s \o t)[i] = s[i]
           /\ \A i \in DOMAIN t : Len(s) + i \in DOMAIN (s \o t) /\ (s \o t)[Len(s) + i] = t[i]
<1> DEFINE u == s \o t
<1>1. /\ u \in Seq(S) /\ Len(u) = Len(s) + Len(t)
      /\ \A i \in 1 .. Len(s) + Len(t) : u[i] = IF i <= Len(s) THEN s[i] ELSE t[i - Len(s)]
  BY ConcatProperties
<1>2. DOMAIN s = 1 .. Len(s) /\ DOMAIN t = 1 .. Len(t) /\ Len(s) \in Nat /\ Len(t) \in Nat
  BY LenProperties
<1> HIDE DEF u
<1>3. DOMAIN u = 1 .. Len(u)
  BY <1>1, LenProperties
<1>4. \A i \in DOMAIN u : \/ i \in DOMAIN s /\ u[i] = s[i]
                          \/ i - Len(s) \in DOMAIN t /\ i > Len(s) /\ u[i] = t[i - Len(s)]
  BY <1>1, <1>2, <1>3
<1>5. \A i \in DOMAIN s : i \in DOMAIN u /\ u[i] = s[i]
  BY <1>1, <1>2, <1>3
<1>6. \A i \in DOMAIN t : Len(s) + i \in DOMAIN u /\ u[Len(s) + i] = t[i]
  <2> TAKE i \in DOMAIN t
  <2>1. Len(s) + i \in 1 .. Len(s) + Len(t) /\ ~(Len(s) + i <= Len(s)) /\ (Len(s) + i) - Len(s) = i
    BY <1>2
  <2> QED  BY <1>1, <1>3, <2>1
<1> QED  BY <1>1, <1>2, <1>4, <1>5, <1>6 DEF u

\* What a read leaves.
LEMMA Left ==
    ASSUME NEW S, NEW s \in Seq(S), NEW n \in Nat, n > 0, n <= Len(s)
    PROVE  LET t == SubSeq(s, n + 1, Len(s)) IN
           /\ t \in Seq(S) /\ Len(t) = Len(s) - n
           /\ \A i \in DOMAIN t : i + n \in DOMAIN s /\ t[i] = s[i + n]
<1> DEFINE t == SubSeq(s, n + 1, Len(s))  l == Len(s)
<1>1. l \in Nat /\ DOMAIN s = 1 .. l /\ \A i \in 1 .. l : s[i] \in S
  BY LenProperties
<1>2. \A i \in (n + 1) .. l : s[i] \in S
  BY <1>1
<1>3. /\ t \in Seq(S) /\ Len(t) = IF n + 1 <= l THEN l - (n + 1) + 1 ELSE 0
      /\ \A i \in 1 .. l - (n + 1) + 1 : t[i] = s[(n + 1) + i - 1]
  BY <1>1, <1>2, SubSeqProperties
<1> HIDE DEF t, l
<1>4. Len(t) = l - n /\ DOMAIN t = 1 .. (l - n)
  <2>1. Len(t) = l - n
    <3>1. n <= l
      BY DEF l
    <3>2. Len(t) = IF n + 1 <= l THEN l - (n + 1) + 1 ELSE 0
      BY <1>3
    <3>3. (IF n + 1 <= l THEN l - (n + 1) + 1 ELSE 0) = l - n
      BY <1>1, <3>1
    <3> QED  BY <3>2, <3>3
  <2>2. DOMAIN t = 1 .. Len(t)
    BY <1>3, LenProperties
  <2> QED  BY <2>1, <2>2
<1>5. \A i \in DOMAIN t : i + n \in DOMAIN s /\ t[i] = s[i + n]
  <2> TAKE i \in DOMAIN t
  <2>1. i \in 1 .. l - (n + 1) + 1 /\ (n + 1) + i - 1 = i + n /\ i + n \in 1 .. l
    BY <1>1, <1>4
  <2> QED  BY <1>1, <1>3, <2>1
<1> QED  BY <1>3, <1>4, <1>5 DEF t, l

-----------------------------------------------------------------------------
(* Strings. *)

LEMMA Sizes == /\ MAXLINE \in Nat /\ MAXLINE > 2 /\ 1 \in 1 .. MAXLINE /\ MAXLINE \in 1 .. MAXLINE
               /\ \A f \in File : /\ Lines[f] \in Seq(1 .. MAXLINE - 1) /\ Len(Lines[f]) \in Nat
                                  /\ DOMAIN Lines[f] = 1 .. Len(Lines[f])
                                  /\ \A k \in 1 .. Len(Lines[f]) : Lines[f][k] \in 1 .. MAXLINE - 1
<1>1. \A f \in File : Lines[f] \in Seq(1 .. MAXLINE - 1)
  BY LineServerAssumption
<1>2. MAXLINE \in Nat /\ MAXLINE > 2 /\ 1 \in 1 .. MAXLINE /\ MAXLINE \in 1 .. MAXLINE
  BY LineServerAssumption
<1> QED  BY <1>1, <1>2, LenProperties

\* A buffer whose last byte is a NUL begins with a string.
LEMMA StrLenOf ==
    ASSUME NEW s \in Buffer, s[MAXLINE] = Nul
    PROVE  /\ StrLen(s) \in 0 .. MAXLINE - 1 /\ s[StrLen(s) + 1] = Nul
           /\ \A i \in 1 .. StrLen(s) : s[i] # Nul
<1> DEFINE T == {i \in Nat : i + 1 <= MAXLINE /\ s[i + 1] = Nul}
           less == {ss \in Nat \X Nat : ss[1] < ss[2]}
<1>1. MAXLINE - 1 \in T
  BY Sizes
<1>2. IsWellFoundedOn(less, Nat)
  BY NatLessThanWellFounded DEF OpToRel
<1>3. PICK x \in T : \A y \in T : ~ (<<y, x>> \in less)
  BY <1>1, <1>2, WFMin
<1>4. \A y \in T : x <= y
  <2>1. \A y, z \in Nat : y < z => <<y, z>> \in less
    OBVIOUS
  <2>2. T \subseteq Nat
    OBVIOUS
  <2> HIDE DEF T, less
  <2>3. x \in Nat /\ \A y \in T : y \in Nat /\ ~(y < x)
    BY <1>3, <2>1, <2>2
  <2> QED  BY <2>3
<1>5. x \in 0 .. MAXLINE - 1 /\ s[x + 1] = Nul
  BY <1>3, Sizes
<1>6. \A i \in 1 .. x : s[i] # Nul
  <2> SUFFICES ASSUME NEW i \in 1 .. x, s[i] = Nul PROVE FALSE
    OBVIOUS
  <2>1. x \in Nat /\ x + 1 <= MAXLINE
    BY <1>3
  <2>2. i - 1 \in Nat /\ (i - 1) + 1 = i /\ i <= MAXLINE /\ ~(x <= i - 1)
    BY <2>1, Sizes
  <2>3. i - 1 \in T
    BY <2>2
  <2> QED  BY <1>4, <2>2, <2>3
<1> HIDE DEF T, less
<1>7. \E n \in 0 .. MAXLINE - 1 : s[n + 1] = Nul /\ \A i \in 1 .. n : s[i] # Nul
  BY <1>5, <1>6
<1> QED  BY <1>7 DEF StrLen

LEMMA StringOf ==
    ASSUME NEW s \in Buffer, s[MAXLINE] = Nul
    PROVE  /\ String(s) \in Seq(Byte) /\ Len(String(s)) = StrLen(s)
           /\ DOMAIN String(s) = 1 .. StrLen(s)
           /\ \A i \in 1 .. StrLen(s) : i \in 1 .. MAXLINE /\ String(s)[i] = s[i] /\ s[i] # Nul
<1> DEFINE n == StrLen(s)  t == SubSeq(s, 1, n)
<1>1. n \in 0 .. MAXLINE - 1 /\ \A i \in 1 .. n : s[i] # Nul
  BY StrLenOf
<1> HIDE DEF n
<1>2. n \in Nat /\ \A i \in 1 .. n : i \in 1 .. MAXLINE /\ s[i] \in Byte
  BY <1>1, Sizes DEF Buffer
<1>3. /\ t \in Seq(Byte) /\ Len(t) = IF 1 <= n THEN n - 1 + 1 ELSE 0
      /\ \A i \in 1 .. n - 1 + 1 : t[i] = s[1 + i - 1]
  BY <1>2, SubSeqProperties
<1> HIDE DEF t
<1>4. Len(t) = n
  BY <1>2, <1>3
<1>5. DOMAIN t = 1 .. n
  BY <1>3, <1>4, LenProperties
<1>6. \A i \in 1 .. n : t[i] = s[i]
  <2> TAKE i \in 1 .. n
  <2>1. i \in 1 .. n - 1 + 1 /\ 1 + i - 1 = i
    BY <1>2
  <2> QED  BY <1>3, <2>1
<1> QED  BY <1>1, <1>2, <1>3, <1>4, <1>5, <1>6 DEF String, n, t

\* A buffer that begins with a NUL begins with the empty string.
LEMMA NoString == ASSUME NEW s \in Buffer, s[MAXLINE] = Nul, s[1] = Nul PROVE String(s) = <<>>
<1>1. /\ StrLen(s) \in 0 .. MAXLINE - 1 /\ \A i \in 1 .. StrLen(s) : s[i] # Nul
      /\ String(s) \in Seq(Byte) /\ Len(String(s)) = StrLen(s)
  BY StrLenOf, StringOf
<1>2. StrLen(s) = 0
  BY <1>1, Sizes
<1> QED  BY <1>1, <1>2, EmptySeq

\* The string of a buffer that begins with a line.
LEMMA LineString ==
    ASSUME NEW s \in Buffer, s[MAXLINE] = Nul, NEW l \in 0 .. MAXLINE - 1,
           s[l + 1] = Nul, \A i \in 1 .. l : s[i] # Nul
    PROVE  StrLen(s) = l
<1>1. /\ StrLen(s) \in 0 .. MAXLINE - 1 /\ s[StrLen(s) + 1] = Nul
      /\ \A i \in 1 .. StrLen(s) : s[i] # Nul
  BY StrLenOf
<1> QED  BY <1>1, Sizes

LEMMA Chars == /\ Nul \in Byte /\ Nul.i = 0
               /\ \A f, k, i : Char(f, k, i).f = f /\ Char(f, k, i).k = k /\ Char(f, k, i).i = i
               /\ \A f \in File, k \in Nat, i \in Nat : Char(f, k, i) \in Byte
               /\ \A f, k : \A i \in Nat \ {0} : Char(f, k, i) # Nul
BY DEF Char, Nul, Byte

\* One line more.
LEMMA NextLine ==
    ASSUME NEW f \in File, NEW n \in Nat, n < Len(Lines[f]), NEW s \in Seq(Byte), NEW t \in Seq(Byte),
           FirstLines(s, f, n), Len(t) = Lines[f][n + 1],
           \A i \in 1 .. Lines[f][n + 1] : t[i] = Char(f, n + 1, i)
    PROVE  FirstLines(s \o t, f, n + 1)
<1> DEFINE u == s \o t  l == Lines[f][n + 1]  h == Len(s)
<1>1. n + 1 \in 1 .. Len(Lines[f]) /\ l \in 1 .. MAXLINE - 1
  BY Sizes
<1>2. /\ DOMAIN s = 1 .. h /\ DOMAIN t = 1 .. l /\ h \in Nat /\ l \in Nat
      /\ \A i \in DOMAIN u : \/ i \in DOMAIN s /\ u[i] = s[i]
                             \/ i - h \in DOMAIN t /\ i > h /\ u[i] = t[i - h]
      /\ \A i \in DOMAIN s : i \in DOMAIN u /\ u[i] = s[i]
      /\ \A i \in DOMAIN t : h + i \in DOMAIN u /\ u[h + i] = t[i]
  BY Joined
<1>3. \A i \in DOMAIN t : t[i] = Char(f, n + 1, i) /\ i \in 1 .. l
  BY <1>2
<1>4. u \in Seq(Byte) /\ DOMAIN u = 1 .. Len(u) /\ Len(u) \in Nat
  <2>1. u \in Seq(Byte)
    BY Joined
  <2> HIDE DEF u
  <2> QED  BY <2>1, LenProperties
<1> HIDE DEF u, h
<1>5. /\ \A j \in DOMAIN s : s[j].f = f /\ s[j].k \in 1 .. n /\ s[j].i \in 1 .. Lines[f][s[j].k]
      /\ \A k \in 1 .. n : \A i \in 1 .. Lines[f][k] : \E j \in DOMAIN s : s[j] = Char(f, k, i)
      /\ \A j, m \in DOMAIN s : j < m => s[j].k < s[m].k \/ (s[j].k = s[m].k /\ s[j].i < s[m].i)
  BY DEF FirstLines
<1>6. \A j \in DOMAIN u : \/ j \in DOMAIN s /\ u[j] = s[j]
                          \/ j - h \in 1 .. l /\ u[j] = Char(f, n + 1, j - h) /\ j > h
  BY <1>2, <1>3
<1>7. \A j \in DOMAIN u : u[j].f = f /\ u[j].k \in 1 .. (n + 1) /\ u[j].i \in 1 .. Lines[f][u[j].k]
  <2> TAKE j \in DOMAIN u
  <2>1. CASE j \in DOMAIN s /\ u[j] = s[j]
    BY <1>5, <2>1
  <2>2. CASE j - h \in 1 .. l /\ u[j] = Char(f, n + 1, j - h)
    BY <1>1, <2>2, Chars
  <2> QED  BY <1>6, <2>1, <2>2
<1>8. ASSUME NEW k \in 1 .. (n + 1), NEW i \in 1 .. Lines[f][k]
      PROVE  \E j \in DOMAIN u : u[j] = Char(f, k, i)
  <2>1. CASE k \in 1 .. n
    <3>1. PICK j \in DOMAIN s : s[j] = Char(f, k, i)
      BY <1>5, <2>1
    <3> QED  BY <1>2, <3>1
  <2>2. CASE k = n + 1
    <3>1. i \in DOMAIN t
      BY <1>2, <2>2
    <3>2. h + i \in DOMAIN u /\ u[h + i] = Char(f, k, i)
      BY <1>2, <1>3, <2>2, <3>1
    <3> QED  BY <3>2
  <2> QED  BY <2>1, <2>2
<1> HIDE DEF l
<1>9. ASSUME NEW j \in DOMAIN u, NEW m \in DOMAIN u, j < m
      PROVE  u[j].k < u[m].k \/ (u[j].k = u[m].k /\ u[j].i < u[m].i)
  <2>0. j \in Nat /\ m \in Nat
    BY <1>4
  <2>1. CASE m \in DOMAIN s /\ u[m] = s[m]
    <3>1. m \in 1 .. h
      BY <1>2, <2>1
    <3>2. ~(j > h)
      BY <1>2, <1>9, <2>0, <3>1
    <3>3. j \in DOMAIN s /\ u[j] = s[j]
      BY <1>2, <3>2
    <3> QED  BY <1>5, <1>9, <2>1, <3>3
  <2>2. CASE m - h \in 1 .. l /\ u[m] = Char(f, n + 1, m - h)
    <3>1. u[m].k = n + 1 /\ u[m].i = m - h
      BY <2>2, Chars
    <3>2. CASE j \in DOMAIN s /\ u[j] = s[j]
      BY <1>5, <3>1, <3>2
    <3>3. CASE j - h \in 1 .. l /\ u[j] = Char(f, n + 1, j - h)
      <4>1. u[j].k = n + 1 /\ u[j].i = j - h
        BY <3>3, Chars
      <4>2. j - h < m - h
        BY <1>2, <1>9, <2>0
      <4> QED  BY <3>1, <4>1, <4>2
    <3> QED  BY <1>6, <3>2, <3>3
  <2> QED  BY <1>6, <2>1, <2>2
<1> QED  BY <1>7, <1>8, <1>9 DEF FirstLines, u

-----------------------------------------------------------------------------
(* Frames. *)

\* Nothing about c has changed; the server may have ended.
Still(c) ==
    /\ cli'[c] = cli[c] /\ text'[c] = text[c] /\ toCli'[c] = toCli[c]
    /\ recvline'[c] = recvline[c] /\ disk'[c] = disk[c] /\ toSrv'[c] = toSrv[c]
    /\ want'[c] = want[c] /\ (c \in behind' <=> c \in behind) /\ (Alive' => Alive)

LEMMA HoldsSame ==
    ASSUME NEW c \in Client, Holds(c), text'[c] = text[c], toCli'[c] = toCli[c],
           recvline'[c] = recvline[c], want'[c] = want[c]
    PROVE  Holds(c)'
BY DEF Holds, Given, Asked

LEMMA KeepsUpSame ==
    ASSUME NEW c \in Client, KeepsUp(c), text'[c] = text[c], toCli'[c] = toCli[c],
           recvline'[c] = recvline[c], want'[c] = want[c], c \in behind' <=> c \in behind,
           cli'[c] # "gone" => cli[c] # "gone",
           c \in open' => c \in open /\ Count(c)' = Count(c)
    PROVE  KeepsUp(c)'
<1>1. Asked(c)' = Asked(c)
  BY DEF Asked
<1>2. \A n : Ready(c, n) => Ready(c, n)'
  BY <1>1 DEF Ready
<1>3. \A n : FirstLines(text[c], Asked(c), n)' <=> FirstLines(text[c], Asked(c), n)
  BY <1>1
<1> QED  BY <1>1, <1>2, <1>3 DEF KeepsUp

LEMMA OwnStill ==
    ASSUME NEW c \in Client, Own(c), Still(c),
           c \in reset' => c \in reset \/ (Fresh(c) /\ ~Alive'),
           c \in open' => c \in open /\ Count(c)' = Count(c)
    PROVE  Own(c)'
<1>1. Holds(c)' /\ KeepsUp(c)'
  BY HoldsSame, KeepsUpSame DEF Own, Still
<1>2. Unread(c)' /\ disk'[c] = <<>>
  BY DEF Own, Unread, Fresh, Still
<1> QED  BY <1>1, <1>2 DEF Own

\* A step of client c that leaves the server alone.
LEMMA ClientMoves ==
    ASSUME Inv, NEW c \in Client, Types', Own(c)', UNCHANGED <<srvVars, readf>>,
           \A d \in Client \ {c} : Still(d) /\ (d \in reset' => d \in reset),
           cli'[c] # "off", Fresh(c) => Fresh(c)',
           srv.pc \in {"send", "failed"} /\ srv.c = c =>
               toSrv'[c] = <<>> /\ cli'[c] # "send" /\ want'[c] = want[c]
    PROVE  Inv'
<1>0. UNCHANGED <<srv, readf, open, queue>>
  BY DEF srvVars
<1>1. \A d \in Client \ {c} : Own(d)'
  <2> TAKE d \in Client \ {c}
  <2>1. Own(d) /\ Still(d) /\ (d \in reset' => d \in reset)
    BY DEF Inv
  <2>2. Count(d)' = Count(d) /\ open' = open
    BY <1>0, <2>1 DEF Count, Asked, Still
  <2> QED  BY <2>1, <2>2, OwnStill
<1>2. Connections'
  <2>1. \A i \in DOMAIN queue : queue[i] \in Client
    <3>1. queue \in Seq(Client)
      BY DEF Inv, Types
    <3> QED  BY <3>1, Element
  <2>2. \A d \in Client \ {c} : cli'[d] = cli[d] /\ (Fresh(d) => Fresh(d)')
    BY DEF Still, Fresh
  <2>3. \A d \in Client : (cli[d] # "off" => cli'[d] # "off") /\ (Fresh(d) => Fresh(d)')
    BY <2>2
  <2>4. queue' = queue /\ open' = open /\ open \subseteq Client /\ Connections
    BY <1>0 DEF Inv, Types
  <2>5. \A d \in open : cli'[d] # "off"
    BY <2>3, <2>4 DEF Connections
  <2>6. ASSUME NEW i \in DOMAIN queue
        PROVE  /\ queue[i] \notin open /\ cli'[queue[i]] # "off"
               /\ text'[queue[i]] = <<>> /\ toCli'[queue[i]] = <<>> /\ recvline'[queue[i]] = Blank
               /\ \A j \in DOMAIN queue : i # j => queue[i] # queue[j]
    BY <2>1, <2>3, <2>4 DEF Connections, Fresh
  <2> QED  BY <2>4, <2>5, <2>6 DEF Connections, Fresh
<1>3. Serving'
  <2>1. CASE srv.c = c
    BY <1>0, <2>1 DEF Inv, Serving, Asked
  <2>2. CASE srv.c # c
    <3>1. srv.c \in Client \ {c}
      BY <2>2 DEF Inv, Types
    <3> QED  BY <1>0, <2>2, <3>1 DEF Inv, Serving, Asked, Still
  <2> QED  BY <2>1, <2>2
<1>4. InPlace'
  BY <1>0 DEF Inv, InPlace
<1> QED  BY <1>1, <1>2, <1>3, <1>4 DEF Inv

-----------------------------------------------------------------------------
(* The client. *)

LEMMA ConnectInv == ASSUME Inv, NEW c \in Client, Connect(c) PROVE Inv'
<1>1. CASE Alive
  <2>1. /\ cli' = [cli EXCEPT ![c] = "send"] /\ queue' = Append(queue, c) /\ cli[c] = "off"
        /\ UNCHANGED <<srv, readf, open, want, recvline, text, disk, toSrv, toCli, reset, behind>>
    BY <1>1 DEF Connect, cliVars
  <2>2. Types' /\ Fresh(c) /\ toSrv[c] = <<>> /\ \A d \in Client : Own(d)
    BY <2>1, AppendProperties DEF Inv, Types, Own, Unread
  <2>3. \A d \in Client : Count(d)' = Count(d)
    BY <2>1 DEF Count, Asked
  <2>4. Own(c)'
    <3>1. cli'[c] = "send" /\ c \notin reset'
      BY <1>1, <2>1 DEF Inv, Types, Own, Unread
    <3>2. Holds(c)' /\ KeepsUp(c)'
      BY <2>1, <2>2, <2>3, HoldsSame, KeepsUpSame DEF Own
    <3>3. Unread(c)' /\ disk'[c] = <<>>
      BY <2>1, <2>2, <3>1 DEF Own, Unread, Fresh
    <3> QED  BY <3>2, <3>3 DEF Own
  <2>5. \A d \in Client \ {c} : Own(d)'
    <3> TAKE d \in Client \ {c}
    <3>1. Still(d) /\ Own(d)
      BY <2>1, <2>2 DEF Inv, Types, Still, Alive
    <3> QED  BY <2>1, <2>3, <3>1, OwnStill
  <2>6. Connections'
    <3>1. \A d \in Client : Fresh(d)' <=> Fresh(d)
      BY <2>1 DEF Fresh
    <3>2. \A d \in Client : cli'[d] = IF d = c THEN "send" ELSE cli[d]
      BY <2>1 DEF Inv, Types
    <3> queue \in Seq(Client)
      BY DEF Inv, Types
    <3>3. \A i \in DOMAIN queue : queue[i] \in Client
      BY Element
    <3>4. c \notin open /\ \A i \in DOMAIN queue : queue[i] # c
      BY <2>1 DEF Inv, Connections
    <3>5. \A i \in DOMAIN queue' : \/ i \in DOMAIN queue /\ queue'[i] = queue[i]
                                   \/ i = Len(queue) + 1 /\ queue'[i] = c
      BY <2>1, Appended
    <3>6. open' = open /\ open \subseteq Client /\ Connections
      BY <2>1 DEF Inv, Types
    <3> QED  BY <2>2, <3>1, <3>2, <3>3, <3>4, <3>5, <3>6 DEF Connections, Fresh
  <2>7. Serving' /\ InPlace'
    <3>1. srv.pc \in {"send", "failed"} => srv.c # c
      BY <2>1 DEF Inv, Serving
    <3>2. srv.c \in Client
      BY DEF Inv, Types
    <3> QED  BY <2>1, <3>1, <3>2 DEF Inv, Types, Serving, Asked, InPlace
  <2> QED  BY <2>2, <2>4, <2>5, <2>6, <2>7 DEF Inv
<1>2. CASE ~Alive
  <2>1. /\ cli' = [cli EXCEPT ![c] = "gone"] /\ cli[c] = "off"
        /\ UNCHANGED <<srv, readf, open, queue, want, recvline, text, disk, toSrv, toCli, reset, behind>>
    BY <1>2 DEF Connect, cliVars
  <2>2. Types' /\ Fresh(c) /\ Fresh(c)' /\ toSrv'[c] = <<>> /\ cli'[c] = "gone" /\ Own(c)
    BY <2>1 DEF Inv, Types, Own, Unread, Fresh
  <2>3. Own(c)'
    <3>1. Count(c)' = Count(c)
      BY <2>1 DEF Count, Asked
    <3>2. Holds(c)' /\ KeepsUp(c)'
      BY <2>1, <2>2, <3>1, HoldsSame, KeepsUpSame DEF Own
    <3>3. Unread(c)' /\ disk'[c] = <<>>
      BY <2>1, <2>2 DEF Own, Unread, Fresh
    <3> QED  BY <3>2, <3>3 DEF Own
  <2>4. \A d \in Client \ {c} : Still(d)
    BY <2>1 DEF Inv, Types, Still, Alive
  <2>5. srv.pc \notin {"send", "failed"}
    BY <1>2, <2>1 DEF Alive, Inv, Serving
  <2> QED  BY <2>1, <2>2, <2>3, <2>4, <2>5, ClientMoves DEF srvVars
<1> QED  BY <1>1, <1>2

LEMMA SendInv == ASSUME Inv, NEW c \in Client, Send(c) PROVE Inv'
<1>1. /\ cli[c] = "send"
      /\ UNCHANGED <<srv, readf, open, queue, want, recvline, text, disk, toCli, behind>>
  BY DEF Send, srvVars, cliVars
<1>2. Fresh(c) /\ toSrv[c] = <<>> /\ ~(srv.pc \in {"send", "failed"} /\ srv.c = c) /\ Own(c)
  BY <1>1 DEF Inv, Own, Unread, Serving
<1>3. First8[want[c]] \in Name
  BY LineServerAssumption DEF Inv, Types
<1>4. Types'
  <2>1. Types
    BY DEF Inv
  <2>2. cli' \in [Client -> {"off", "send", "recv", "gone"}] /\ reset' \subseteq Client
    BY <2>1 DEF Send, Types
  <2>3. toSrv' \in [Client -> Seq(Name)]
    <3>1. <<First8[want[c]]>> \in Seq(Name)
      BY <1>3
    <3> QED  BY <2>1, <3>1 DEF Send, Types
  <2> QED  BY <1>1, <2>1, <2>2, <2>3 DEF Types
<1>5. /\ Fresh(c)' /\ cli'[c] \in {"recv", "gone"}
      /\ (toSrv'[c] = <<>> \/ toSrv'[c] = <<First8[want[c]]>>)
      /\ (c \in reset' => cli'[c] = "gone" \/ ~Alive')
  BY <1>1, <1>2 DEF Send, Inv, Types, Fresh, Alive
<1>6. Own(c)'
  <2>1. Count(c)' = Count(c)
    BY <1>1 DEF Count, Asked
  <2>2. Holds(c)' /\ KeepsUp(c)'
    BY <1>1, <1>2, <2>1, HoldsSame, KeepsUpSame DEF Own
  <2>3. Unread(c)' /\ disk'[c] = <<>>
    BY <1>1, <1>2, <1>5 DEF Own, Unread
  <2> QED  BY <2>2, <2>3 DEF Own
<1>7. \A d \in Client \ {c} : Still(d) /\ (d \in reset' => d \in reset)
  BY <1>1 DEF Send, Inv, Types, Still, Alive
<1> QED  BY <1>1, <1>2, <1>4, <1>5, <1>6, <1>7, ClientMoves DEF srvVars

LEMMA InterruptInv == ASSUME Inv, NEW c \in Client, Interrupt(c) PROVE Inv'
<1>1. /\ cli' = [cli EXCEPT ![c] = "gone"] /\ cli[c] # "off"
      /\ UNCHANGED <<srv, readf, open, queue, want, recvline, text, disk, toSrv, toCli, reset, behind>>
  BY DEF Interrupt, srvVars, cliVars
<1>2. Types' /\ cli'[c] = "gone" /\ Own(c)
  BY <1>1 DEF Inv, Types
<1>3. Own(c)'
  <2>1. Count(c)' = Count(c)
    BY <1>1 DEF Count, Asked
  <2>2. Holds(c)' /\ KeepsUp(c)'
    BY <1>1, <1>2, <2>1, HoldsSame, KeepsUpSame DEF Own
  <2>3. Unread(c)' /\ disk'[c] = <<>>
    BY <1>1, <1>2 DEF Own, Unread, Fresh
  <2> QED  BY <2>2, <2>3 DEF Own
<1>4. \A d \in Client \ {c} : Still(d)
  BY <1>1 DEF Inv, Types, Still, Alive
<1>5. srv.pc \in {"send", "failed"} /\ srv.c = c => toSrv'[c] = <<>>
  BY <1>1 DEF Inv, Serving
<1> QED
  BY <1>1, <1>2, <1>3, <1>4, <1>5, ClientMoves DEF Fresh, srvVars

\* A reset connection had nothing read, so there is nothing to write out.
LEMMA RecvErrorInv == ASSUME Inv, NEW c \in Client, RecvError(c) PROVE Inv'
<1>1. /\ cli[c] = "recv" /\ c \in reset
      /\ cli' = [cli EXCEPT ![c] = "gone"] /\ disk' = [disk EXCEPT ![c] = text[c]]
      /\ UNCHANGED <<srv, readf, open, queue, want, recvline, text, toSrv, toCli, reset, behind>>
  BY DEF RecvError, srvVars
<1>2. Types /\ Own(c)
  BY DEF Inv
<1>3. Fresh(c) /\ text[c] = <<>>
  BY <1>1, <1>2 DEF Own, Unread, Fresh
<1>4. Types' /\ cli'[c] = "gone" /\ disk'[c] = <<>>
  BY <1>1, <1>2, <1>3 DEF Types
<1>5. Own(c)'
  <2>1. Count(c)' = Count(c)
    BY <1>1 DEF Count, Asked
  <2>2. Holds(c)' /\ KeepsUp(c)'
    BY <1>1, <1>2, <2>1, HoldsSame, KeepsUpSame DEF Own
  <2>3. Unread(c)'
    BY <1>1, <1>2, <1>4 DEF Own, Unread, Fresh
  <2> QED  BY <1>4, <2>2, <2>3 DEF Own
<1>6. \A d \in Client \ {c} : Still(d)
  BY <1>1, <1>2 DEF Types, Still, Alive
<1>7. /\ Fresh(c) => Fresh(c)'
      /\ srv.pc \in {"send", "failed"} /\ srv.c = c => toSrv'[c] = <<>>
  BY <1>1 DEF Fresh, Inv, Serving
<1> QED
  BY <1>1, <1>4, <1>5, <1>6, <1>7, ClientMoves DEF srvVars

\* deal_recv() stores the string that is in recvline now, or the client is gone.
LEMMA DealRecv ==
    ASSUME Types, NEW c \in Client, cli[c] = "recv", deal_recv(c),
           recvline' \in [Client -> Buffer], recvline'[c][MAXLINE] = Nul
    PROVE  /\ text' \in [Client -> Seq(Byte)]
           /\ cli' \in [Client -> {"off", "send", "recv", "gone"}]
           /\ \/ cli'[c] = "recv" /\ text'[c] = text[c] \o String(recvline'[c])
              \/ cli'[c] = "gone" /\ text'[c] = text[c]
           /\ \A d \in Client \ {c} : cli'[d] = cli[d] /\ text'[d] = text[d]
<1> DEFINE s == String(recvline'[c])
<1>1. s \in Seq(Byte) /\ text[c] \in Seq(Byte)
  BY StringOf DEF Types
<1> HIDE DEF s
<1>2. text[c] \o s \in Seq(Byte)
  BY <1>1, ConcatProperties
<1>3. \/ cli' = cli /\ text' = [text EXCEPT ![c] = text[c] \o s]
      \/ cli' = [cli EXCEPT ![c] = "gone"] /\ text' = text
  BY DEF deal_recv, s
<1>4. CASE cli' = cli /\ text' = [text EXCEPT ![c] = text[c] \o s]
  BY <1>2, <1>4 DEF Types, s
<1>5. CASE cli' = [cli EXCEPT ![c] = "gone"] /\ text' = text
  BY <1>5 DEF Types
<1> QED  BY <1>3, <1>4, <1>5

\* What deal_recv() stores was in recvline.
LEMMA StoredGiven ==
    ASSUME NEW c \in Client, NEW t \in Seq(Byte), NEW s \in Buffer, s[MAXLINE] = Nul,
           \A j \in DOMAIN t : Given(c, t[j]),
           \A i \in 1 .. MAXLINE : s[i] = Nul \/ Given(c, s[i])
    PROVE  \A j \in DOMAIN (t \o String(s)) : Given(c, (t \o String(s))[j])
<1> DEFINE w == String(s)
<1>1. w \in Seq(Byte) /\ \A i \in DOMAIN w : Given(c, w[i])
  BY StringOf
<1> HIDE DEF w
<1>2. \A j \in DOMAIN (t \o w) : \/ j \in DOMAIN t /\ (t \o w)[j] = t[j]
                                 \/ \E i \in DOMAIN w : (t \o w)[j] = w[i]
  BY <1>1, Joined
<1>3. \A j \in DOMAIN (t \o w) : Given(c, (t \o w)[j])
  BY <1>1, <1>2
<1> QED  BY <1>3 DEF w

\* A client that has something under way was served: its request was read.
LEMMA Served1 ==
    ASSUME Inv, NEW c \in Client, cli[c] = "recv", ~Fresh(c)
    PROVE  toSrv[c] = <<>> /\ c \notin reset
BY DEF Inv, Own, Unread

LEMMA RecvInv == ASSUME Inv, NEW c \in Client, Recv(c) PROVE Inv'
<1>1. /\ cli[c] = "recv" /\ toCli[c] # <<>> /\ deal_recv(c)
      /\ UNCHANGED <<srv, readf, open, queue, want, disk, toSrv, reset>>
  BY DEF Recv, srvVars
<1>2. PICK n \in 1 .. MAXLINE - 1 :
          /\ n <= Len(toCli[c])
          /\ recvline' = [recvline EXCEPT ![c] =
                             [i \in 1 .. MAXLINE |-> IF i <= n THEN toCli[c][i] ELSE @[i]]]
          /\ toCli' = [toCli EXCEPT ![c] = SubSeq(@, n + 1, Len(@))]
          /\ behind' = behind \cup IF /\ Len(toCli[c]) <= MAXLINE
                                      /\ n \in {Len(toCli[c]), MAXLINE - 1}
                                   THEN {} ELSE {c}
  BY DEF Recv
<1>3. Types /\ Own(c) /\ toCli[c] \in Seq(Byte) /\ text[c] \in Seq(Byte) /\ n \in Nat /\ n > 0
  <2>1. n \in Nat /\ n > 0
    BY Sizes
  <2> QED  BY <2>1 DEF Inv, Types
<1> DEFINE t == SubSeq(toCli[c], n + 1, Len(toCli[c]))
           r == [i \in 1 .. MAXLINE |-> IF i <= n THEN toCli[c][i] ELSE recvline[c][i]]
<1>4. /\ t \in Seq(Byte) /\ Len(t) = Len(toCli[c]) - n
      /\ \A i \in DOMAIN t : i + n \in DOMAIN toCli[c] /\ t[i] = toCli[c][i + n]
      /\ DOMAIN t = 1 .. Len(t)
  <2>1. /\ t \in Seq(Byte) /\ Len(t) = Len(toCli[c]) - n
        /\ \A i \in DOMAIN t : i + n \in DOMAIN toCli[c] /\ t[i] = toCli[c][i + n]
    BY <1>2, <1>3, Left
  <2> HIDE DEF t
  <2> QED  BY <2>1, LenProperties
<1>5. DOMAIN toCli[c] = 1 .. Len(toCli[c]) /\ Len(toCli[c]) \in Nat
      /\ \A i \in 1 .. Len(toCli[c]) : toCli[c][i] \in Byte
  BY <1>3, LenProperties
<1>6. /\ r \in Buffer /\ r[MAXLINE] = Nul
      /\ \A i \in 1 .. MAXLINE : \/ i <= n /\ i \in DOMAIN toCli[c] /\ r[i] = toCli[c][i]
                                 \/ ~(i <= n) /\ r[i] = recvline[c][i]
  <2>1. recvline[c] \in Buffer /\ recvline[c][MAXLINE] = Nul
    BY <1>3 DEF Types, Own, Holds
  <2>2. \A i \in 1 .. MAXLINE : \/ i <= n /\ i \in DOMAIN toCli[c] /\ r[i] = toCli[c][i]
                                \/ ~(i <= n) /\ r[i] = recvline[c][i]
    BY <1>2, <1>3, <1>5
  <2>3. r[MAXLINE] = recvline[c][MAXLINE]
    BY <1>2, Sizes
  <2>4. \A i \in 1 .. MAXLINE : r[i] \in Byte
    BY <1>5, <2>1, <2>2 DEF Buffer
  <2>5. r \in Buffer
    BY <2>4 DEF Buffer
  <2> QED  BY <2>1, <2>2, <2>3, <2>5
<1>7. toCli' = [toCli EXCEPT ![c] = t] /\ recvline' = [recvline EXCEPT ![c] = r]
  BY <1>2, <1>3 DEF Types
<1> HIDE DEF t, r
<1>8. /\ toCli' \in [Client -> Seq(Byte)] /\ recvline' \in [Client -> Buffer]
      /\ toCli'[c] = t /\ recvline'[c] = r
      /\ \A d \in Client \ {c} : toCli'[d] = toCli[d] /\ recvline'[d] = recvline[d]
  BY <1>3, <1>4, <1>6, <1>7 DEF Types
<1>9. /\ text' \in [Client -> Seq(Byte)] /\ cli' \in [Client -> {"off", "send", "recv", "gone"}]
      /\ \/ cli'[c] = "recv" /\ text'[c] = text[c] \o String(r)
         \/ cli'[c] = "gone" /\ text'[c] = text[c]
      /\ \A d \in Client \ {c} : cli'[d] = cli[d] /\ text'[d] = text[d]
  BY <1>1, <1>3, <1>6, <1>8, DealRecv
<1>10. Types'
  BY <1>1, <1>3, <1>8, <1>9 DEF Types
<1>11. \A b : Given(c, b)' <=> Given(c, b)
  BY <1>1 DEF Given, Asked
<1>12. Holds(c)'
  <2>1. \A i \in 1 .. MAXLINE : r[i] = Nul \/ Given(c, r[i])
    BY <1>3, <1>6 DEF Own, Holds
  <2>2. \A j \in DOMAIN t : t[j] = Nul \/ Given(c, t[j])
    BY <1>3, <1>4 DEF Own, Holds
  <2>3. \A j \in DOMAIN text'[c] : Given(c, text'[c][j])
    <3>1. \A j \in DOMAIN text[c] : Given(c, text[c][j])
      BY <1>3 DEF Own, Holds
    <3>2. CASE text'[c] = text[c] \o String(r)
      BY <1>3, <1>6, <2>1, <3>1, <3>2, StoredGiven
    <3> QED  BY <1>9, <3>1, <3>2
  <2> QED  BY <1>6, <1>8, <1>11, <2>1, <2>2, <2>3 DEF Holds
<1>13. KeepsUp(c)'
  <2> SUFFICES ASSUME Asked(c) \in File, c \notin behind'
               PROVE  \E m \in 0 .. Len(Lines[Asked(c)]) :
                        FirstLines(text'[c], Asked(c), m) /\ (cli'[c] # "gone" => Ready(c, m)')
    <3>1. Asked(c)' = Asked(c)
      BY <1>1 DEF Asked
    <3> QED  BY <3>1 DEF KeepsUp
  <2>1. c \notin behind /\ Len(toCli[c]) <= MAXLINE /\ n \in {Len(toCli[c]), MAXLINE - 1}
    BY <1>2
  <2>2. PICK m \in 0 .. Len(Lines[Asked(c)]) : FirstLines(text[c], Asked(c), m) /\ Ready(c, m)
    BY <1>1, <1>3, <2>1 DEF Own, KeepsUp
  <2>3. Count(c)' = Count(c) /\ open' = open /\ Asked(c)' = Asked(c)
    BY <1>1 DEF Count, Asked
  <2>4. CASE cli'[c] = "gone"
    BY <1>9, <2>2, <2>4
  <2>5. CASE cli'[c] = "recv" /\ text'[c] = text[c] \o String(r) /\ toCli[c] = <<Nul>>
                              /\ (c \in open => m = Count(c))
    <3>1. Len(toCli[c]) = 1 /\ toCli[c][1] = Nul /\ n = 1
      BY <1>2, <1>3, <2>5
    <3>2. r[1] = Nul /\ t = <<>>
      BY <1>4, <1>6, <3>1, Sizes, EmptySeq
    <3>3. text'[c] = text[c]
      BY <1>3, <1>6, <2>5, <3>2, NoString, ConcatEmptySeq
    <3>4. Ready(c, m)'
      BY <1>8, <2>3, <2>5, <3>2 DEF Ready
    <3> QED  BY <2>2, <3>3, <3>4
  <2>6. CASE /\ cli'[c] = "recv" /\ text'[c] = text[c] \o String(r)
             /\ m < Len(Lines[Asked(c)]) /\ LineBlock(toCli[c], Asked(c), m + 1)
             /\ c \in open => m + 1 = Count(c)
    <3> DEFINE l == Lines[Asked(c)][m + 1]
    <3>1. /\ m \in Nat /\ m + 1 \in 0 .. Len(Lines[Asked(c)]) /\ m + 1 \in 1 .. Len(Lines[Asked(c)])
          /\ l \in 1 .. MAXLINE - 1
      BY <2>6, Sizes
    <3>2. /\ Len(toCli[c]) = MAXLINE /\ toCli[c][MAXLINE] = Nul /\ toCli[c][l + 1] = Nul
          /\ \A i \in 1 .. l : toCli[c][i] = Char(Asked(c), m + 1, i)
      BY <2>6 DEF LineBlock
    <3> HIDE DEF l
    <3>3. n = MAXLINE - 1
      BY <1>2, <2>1, <3>2, Sizes
    <3>4. Len(t) = 1 /\ t[1] = Nul
      <4>1. Len(t) = 1 /\ 1 \in DOMAIN t
        BY <1>4, <3>2, <3>3, Sizes
      <4>2. t[1] = toCli[c][1 + n] /\ 1 + n = MAXLINE
        BY <1>4, <3>3, <4>1, Sizes
      <4> QED  BY <3>2, <4>1, <4>2
    <3>5. t = <<Nul>>
      <4>1. <<Nul>> \in Seq(Byte) /\ Len(<<Nul>>) = 1 /\ <<Nul>>[1] = Nul
        BY Chars
      <4>2. \A i \in 1 .. Len(t) : t[i] = <<Nul>>[i]
        BY <3>4, <4>1
      <4> QED  BY <1>4, <3>4, <4>1, <4>2, SeqEqual
    <3>6. r[l + 1] = Nul /\ \A i \in 1 .. l : r[i] = Char(Asked(c), m + 1, i)
      <4>1. \A i \in 1 .. MAXLINE - 1 : r[i] = toCli[c][i]
        <5>1. \A i \in 1 .. MAXLINE - 1 : i \in 1 .. MAXLINE /\ i <= n
          BY <3>3, Sizes
        <5> QED  BY <1>6, <5>1
      <4>2. CASE l + 1 \in 1 .. MAXLINE - 1
        BY <3>1, <3>2, <4>1, <4>2
      <4>3. CASE l + 1 = MAXLINE
        BY <1>6, <3>1, <3>2, <4>1, <4>3
      <4> QED  BY <3>1, <4>2, <4>3, Sizes
    <3>7. StrLen(r) = l
      <4>1. \A i \in 1 .. l : r[i] # Nul
        BY <3>1, <3>6, Chars
      <4>2. l \in 0 .. MAXLINE - 1
        BY <3>1
      <4> QED  BY <1>6, <3>6, <4>1, <4>2, LineString
    <3>8. /\ String(r) \in Seq(Byte) /\ Len(String(r)) = l
          /\ \A i \in 1 .. l : String(r)[i] = Char(Asked(c), m + 1, i)
      BY <1>6, <3>6, <3>7, StringOf
    <3>9. FirstLines(text'[c], Asked(c), m + 1)
      BY <1>3, <2>2, <2>6, <3>1, <3>8, NextLine DEF l
    <3>10. Ready(c, m + 1)'
      BY <1>8, <2>3, <2>6, <3>5 DEF Ready
    <3> QED  BY <3>1, <3>9, <3>10
  <2> QED  BY <1>1, <1>5, <1>9, <2>1, <2>2, <2>4, <2>5, <2>6, Sizes DEF Ready
<1>14. ~Fresh(c) /\ toSrv[c] = <<>> /\ c \notin reset
  BY <1>1, Served1 DEF Fresh
<1>15. Own(c)'
  BY <1>1, <1>3, <1>9, <1>12, <1>13, <1>14 DEF Own, Unread
<1>16. \A d \in Client \ {c} : Still(d) /\ (d \in reset' => d \in reset)
  BY <1>1, <1>2, <1>8, <1>9 DEF Still, Alive
<1> QED
  BY <1>1, <1>9, <1>10, <1>14, <1>15, <1>16, ClientMoves DEF srvVars

\* After the end of the stream the string of recvline is stored again: the
\* empty one, if the client has kept up.
LEMMA RecvEndInv == ASSUME Inv, NEW c \in Client, RecvEnd(c) PROVE Inv'
<1> DEFINE r == recvline[c]
<1>1. /\ cli[c] = "recv" /\ toCli[c] = <<>> /\ ~Alive /\ c \notin reset /\ deal_recv(c)
      /\ UNCHANGED <<srv, readf, open, queue, want, recvline, disk, toSrv, toCli, reset, behind>>
  BY DEF RecvEnd, srvVars
<1>2. Types /\ Own(c) /\ text[c] \in Seq(Byte) /\ r \in Buffer /\ r[MAXLINE] = Nul
  BY DEF Inv, Types, Own, Holds
<1>3. /\ text' \in [Client -> Seq(Byte)] /\ cli' \in [Client -> {"off", "send", "recv", "gone"}]
      /\ \/ cli'[c] = "recv" /\ text'[c] = text[c] \o String(r)
         \/ cli'[c] = "gone" /\ text'[c] = text[c]
      /\ \A d \in Client \ {c} : cli'[d] = cli[d] /\ text'[d] = text[d]
  BY <1>1, <1>2, DealRecv DEF Types
<1>4. Types' /\ srv.pc \notin {"send", "failed"}
  BY <1>1, <1>2, <1>3 DEF Types, Inv, Alive, Serving
<1>5. r[1] = Nul => text'[c] = text[c]
  BY <1>2, <1>3, NoString, ConcatEmptySeq
<1>6. Holds(c)'
  <2>1. \A b : Given(c, b)' <=> Given(c, b)
    BY <1>1 DEF Given, Asked
  <2>2. \A j \in DOMAIN text'[c] : Given(c, text'[c][j])
    <3>1. \A j \in DOMAIN text[c] : Given(c, text[c][j])
      BY <1>2 DEF Own, Holds
    <3>2. \A i \in 1 .. MAXLINE : r[i] = Nul \/ Given(c, r[i])
      BY <1>2 DEF Own, Holds
    <3>3. CASE text'[c] = text[c] \o String(r)
      BY <1>2, <3>1, <3>2, <3>3, StoredGiven
    <3> QED  BY <1>3, <3>1, <3>3
  <2> QED  BY <1>1, <1>2, <2>1, <2>2 DEF Own, Holds
<1>7. KeepsUp(c)'
  <2> SUFFICES ASSUME Asked(c) \in File, c \notin behind PROVE KeepsUp(c)'
    BY <1>1 DEF KeepsUp, Asked
  <2>1. PICK m \in 0 .. Len(Lines[Asked(c)]) : FirstLines(text[c], Asked(c), m) /\ Ready(c, m)
    BY <1>1, <1>2 DEF Own, KeepsUp
  <2>2. r[1] = Nul
    <3>1. Len(toCli[c]) = 0 /\ toCli[c] # <<Nul>>
      BY <1>1, EmptySeq
    <3> QED  BY <2>1, <3>1, Sizes DEF Ready, LineBlock
  <2>3. Count(c)' = Count(c) /\ KeepsUp(c) /\ cli[c] # "gone"
    BY <1>1, <1>2 DEF Count, Asked, Own
  <2> QED  BY <1>1, <1>5, <2>2, <2>3, KeepsUpSame
<1>8. Fresh(c) => Fresh(c)'
  <2>1. Blank[1] = Nul
    BY Sizes DEF Blank
  <2> QED  BY <1>1, <1>5, <2>1 DEF Fresh
<1>9. Own(c)'
  <2>1. Unread(c)'
    BY <1>1, <1>2, <1>3, <1>8 DEF Own, Unread
  <2> QED  BY <1>1, <1>2, <1>6, <1>7, <2>1 DEF Own
<1>10. \A d \in Client \ {c} : Still(d) /\ (d \in reset' => d \in reset)
  BY <1>1, <1>3 DEF Still, Alive
<1> QED
  BY <1>1, <1>3, <1>4, <1>8, <1>9, <1>10, ClientMoves DEF srvVars

-----------------------------------------------------------------------------
(* The server. *)

LEMMA ExitInv ==
    ASSUME Inv, Exit, UNCHANGED <<cli, cliVars, toSrv, toCli, behind>>, Types', InPlace'
    PROVE  Inv'
<1>1. /\ Types /\ Connections /\ \A c \in Client : Own(c)
      /\ srv' = [srv EXCEPT !.pc = "exited"] /\ open' = {} /\ queue' = <<>>
      /\ UNCHANGED <<cli, want, recvline, text, disk, toSrv, toCli, behind>>
  BY DEF Exit, Inv, cliVars
<1>2. reset' = reset \cup {c \in open : toSrv[c] # <<>>}
                     \cup {c \in Client : \E i \in DOMAIN queue : queue[i] = c}
  BY DEF Exit
<1>3. srv'.pc = "exited" /\ ~Alive'
  BY <1>1 DEF Types, Alive
<1>4. ASSUME NEW c \in Client PROVE Own(c)'
  <2>1. Still(c)
    BY <1>1, <1>3 DEF Still
  <2>2. c \in reset' => c \in reset \/ Fresh(c)
    BY <1>1, <1>2 DEF Connections, Own, Unread
  <2> QED  BY <1>1, <1>3, <2>1, <2>2, OwnStill
<1>5. Connections'
  BY <1>1 DEF Connections
<1>6. Serving'
  BY <1>3 DEF Serving
<1> QED  BY <1>4, <1>5, <1>6 DEF Inv

LEMMA ExitTypes ==
    ASSUME Types, Exit, UNCHANGED <<cli, cliVars, toSrv, toCli, behind>>, readf' \in Buffer
    PROVE  Types'
<1>1. srv' \in [pc : {"accept", "recv", "send", "failed", "exited"}, c : Client,
                f : File \cup {Nul.f}, k : Nat]
  BY DEF Types, Exit
<1>2. reset' \subseteq Client /\ queue' \in Seq(Client) /\ open' \subseteq Client
  BY DEF Types, Exit
<1> QED  BY <1>1, <1>2 DEF Types, cliVars

LEMMA EndInv ==
    ASSUME Inv, Exit, UNCHANGED <<readf, cli, cliVars, toSrv, toCli, behind>>
    PROVE  Inv'
<1>1. Types' /\ InPlace'
  BY ExitTypes DEF Inv, Types, InPlace
<1> QED  BY <1>1, ExitInv

LEMMA AcceptInv == ASSUME Inv, Accept PROVE Inv'
<1>1. CASE Exit
  BY <1>1, EndInv DEF Accept
<1>2. CASE ~Exit
  <2> PICK h : h = Head(queue)
    OBVIOUS
  <2>1. /\ queue # <<>> /\ srv' = [srv EXCEPT !.pc = "recv", !.c = h] /\ srv.pc = "accept"
        /\ open' = open \cup {h} /\ queue' = Tail(queue)
        /\ UNCHANGED <<readf, cli, want, recvline, text, disk, toSrv, toCli, reset, behind>> /\ Alive
    BY <1>2 DEF Accept, cliVars, Alive
  <2>2. /\ Types /\ Connections /\ queue \in Seq(Client) /\ \A c \in Client : Own(c)
    BY DEF Inv, Types
  <2>3. /\ queue' \in Seq(Client) /\ h \in Client /\ h = queue[1] /\ 1 \in DOMAIN queue
        /\ \A i \in DOMAIN queue' : i + 1 \in DOMAIN queue /\ queue'[i] = queue[i + 1]
    BY <2>1, <2>2, TailOf
  <2>4. \A i \in DOMAIN queue' : i \in Nat /\ i >= 1
    BY <2>3, LenProperties
  <2>5. srv'.pc = "recv" /\ srv'.c = h
    BY <2>1, <2>2 DEF Types
  <2>6. Types'
    <3>1. srv' \in [pc : {"accept", "recv", "send", "failed", "exited"}, c : Client,
                    f : File \cup {Nul.f}, k : Nat]
      BY <2>1, <2>2, <2>3 DEF Types
    <3> QED  BY <2>1, <2>2, <2>3, <3>1 DEF Types
  <2>7. \A c \in Client \ {h} : Own(c)'
    <3> TAKE c \in Client \ {h}
    <3>1. Still(c) /\ Own(c)
      BY <2>1, <2>2 DEF Still
    <3>2. Count(c)' = Count(c)
      BY <2>1, <2>5 DEF Count, Asked
    <3> QED  BY <2>1, <3>1, <3>2, OwnStill
  <2>8. Own(h)'
    <3>1. Own(h) /\ Fresh(h) /\ Fresh(h)'
      BY <2>1, <2>2, <2>3 DEF Connections, Fresh
    <3>2. Holds(h)'
      BY <2>1, <2>3, <3>1, HoldsSame DEF Own
    <3>3. KeepsUp(h)'
      <4> SUFFICES ASSUME Asked(h) \in File, h \notin behind PROVE KeepsUp(h)'
        BY <2>1 DEF KeepsUp, Asked
      <4>1. Count(h)' = 0 /\ 0 \in 0 .. Len(Lines[Asked(h)]) /\ Asked(h)' = Asked(h)
        BY <2>1, <2>5, Sizes DEF Count, Asked
      <4>2. Blank[1] = Nul
        BY Sizes DEF Blank
      <4>3. Ready(h, 0)'
        BY <3>1, <4>1, <4>2 DEF Ready, Fresh
      <4>4. FirstLines(text'[h], Asked(h), 0)
        BY <3>1 DEF Fresh, FirstLines
      <4> QED  BY <4>1, <4>3, <4>4 DEF KeepsUp
    <3>4. Unread(h)'
      BY <2>1, <3>1 DEF Own, Unread, Fresh, Alive
    <3> QED  BY <2>1, <3>1, <3>2, <3>3, <3>4 DEF Own
  <2>9. Connections'
    <3>1. \A c \in open' : cli'[c] # "off"
      BY <2>1, <2>2, <2>3 DEF Connections
    <3>2. ASSUME NEW i \in DOMAIN queue'
          PROVE  /\ queue'[i] \notin open' /\ cli'[queue'[i]] # "off" /\ text'[queue'[i]] = <<>>
                 /\ toCli'[queue'[i]] = <<>> /\ recvline'[queue'[i]] = Blank
      <4>1. i + 1 \in DOMAIN queue /\ queue'[i] = queue[i + 1] /\ i + 1 # 1
        BY <2>3, <2>4
      <4> QED  BY <2>1, <2>2, <2>3, <4>1 DEF Connections, Fresh
    <3>3. ASSUME NEW i \in DOMAIN queue', NEW j \in DOMAIN queue', i # j
          PROVE  queue'[i] # queue'[j]
      <4>1. i + 1 # j + 1
        BY <2>4, <3>3
      <4> QED  BY <2>2, <2>3, <4>1 DEF Connections
    <3> QED  BY <3>1, <3>2, <3>3 DEF Connections, Fresh
  <2>10. Serving' /\ InPlace'
    BY <2>1, <2>5 DEF Inv, Serving, InPlace
  <2> QED  BY <2>6, <2>7, <2>8, <2>9, <2>10 DEF Inv
<1> QED  BY <1>1, <1>2

LEMMA RequestInv == ASSUME Inv, Request PROVE Inv'
<1>0. srv.c \in Client
  BY DEF Inv, Types
<1> PICK c \in Client : c = srv.c
  BY <1>0
<1> PICK n : n = First8[want[c]]
  OBVIOUS
<1>1. CASE toSrv[c] = <<>>
  BY <1>1, EndInv DEF Request, HungUp
<1>2. CASE toSrv[c] # <<>>
  <2>1. /\ Types /\ Connections /\ Serving /\ InPlace /\ c \in Client /\ Own(c)
        /\ srv.pc = "recv" /\ Alive
        /\ UNCHANGED <<readf, cli, want, recvline, text, disk, open, queue, reset, behind>>
    BY <1>2 DEF Request, Inv, Types, cliVars, Alive
  <2>2. /\ Fresh(c) /\ toSrv[c] = <<n>> /\ cli[c] \notin {"off", "send"}
        /\ c \in reset => cli[c] = "gone"
    BY <1>2, <2>1 DEF Own, Unread, Types
  <2>3. toSrv' = [toSrv EXCEPT ![c] = <<>>] /\ Head(toSrv[c]) = n
    BY <1>2, <2>2 DEF Request
  <2>4. toSrv' \in [Client -> Seq(Name)] /\ toSrv'[c] = <<>> /\ \A d \in Client \ {c} : toSrv'[d] = toSrv[d]
    BY <2>1, <2>3 DEF Types
  <2>5. CASE n \in File
    <3>1. /\ srv' = [srv EXCEPT !.pc = "send", !.k = 0, !.f = n] /\ toCli' = toCli
      BY <1>2, <2>3, <2>5 DEF Request
    <3>2. srv'.pc = "send" /\ srv'.c = c /\ srv'.f = n /\ srv'.k = 0 /\ Alive'
      BY <2>1, <3>1 DEF Types, Alive
    <3>3. srv' \in [pc : {"accept", "recv", "send", "failed", "exited"}, c : Client,
                    f : File \cup {Nul.f}, k : Nat]
      BY <2>1, <2>5, <3>1 DEF Types
    <3>4. Types'
      BY <2>1, <2>4, <3>1, <3>3 DEF Types
    <3>5. Own(c)'
      <4>1. Count(c)' = Count(c)
        BY <2>1, <3>2 DEF Count
      <4>2. Holds(c)' /\ KeepsUp(c)'
        BY <2>1, <3>1, <4>1, HoldsSame, KeepsUpSame DEF Own
      <4>3. Unread(c)' /\ disk'[c] = <<>>
        BY <2>1, <2>2, <2>4 DEF Own, Unread
      <4> QED  BY <4>2, <4>3 DEF Own
    <3>6. \A d \in Client \ {c} : Own(d)'
      <4> TAKE d \in Client \ {c}
      <4>1. Still(d) /\ Own(d)
        BY <2>1, <2>4, <3>1 DEF Still, Inv
      <4>2. Count(d)' = Count(d)
        BY <2>1, <3>2 DEF Count, Asked
      <4> QED  BY <2>1, <4>1, <4>2, OwnStill
    <3>7. Connections'
      BY <2>1, <3>1 DEF Connections, Fresh
    <3>8. Serving' /\ InPlace'
      <4>1. cli'[c] \notin {"off", "send"} /\ c \in open'
        BY <2>1, <2>2, <3>1 DEF Serving
      <4>2. n = Asked(c)'
        BY <2>1 DEF Asked
      <4> QED  BY <2>1, <2>4, <2>5, <3>2, <4>1, <4>2 DEF Serving, InPlace
    <3> QED  BY <3>4, <3>5, <3>6, <3>7, <3>8 DEF Inv
  <2>6. CASE n \notin File
    <3>1. srv' = [srv EXCEPT !.pc = "failed"] /\ toCli' = [toCli EXCEPT ![c] = @ \o Message]
      BY <1>2, <2>3, <2>6 DEF Request
    <3>2. srv'.pc = "failed" /\ srv'.c = c /\ Alive'
      BY <2>1, <3>1 DEF Types, Alive
    <3>3. Message \in Seq(Byte) /\ DOMAIN Message = 1 .. 2 /\ \A i \in 1 .. 2 : Message[i].f = NoSuchFile
      BY DEF Message, Byte, Char
    <3>4. /\ toCli'[c] = Message /\ \A d \in Client \ {c} : toCli'[d] = toCli[d]
          /\ toCli' \in [Client -> Seq(Byte)]
      <4>1. toCli[c] \o Message = Message
        BY <2>2, <3>3, ConcatEmptySeq DEF Fresh
      <4> QED  BY <2>1, <3>1, <3>3, <4>1 DEF Types
    <3>5. Types'
      <4>1. srv' \in [pc : {"accept", "recv", "send", "failed", "exited"}, c : Client,
                      f : File \cup {Nul.f}, k : Nat]
        BY <2>1, <3>1 DEF Types
      <4> QED  BY <2>1, <2>4, <3>4, <4>1 DEF Types
    <3>6. Own(c)'
      <4>1. Asked(c)' = n /\ Asked(c) = n
        BY <2>1 DEF Asked
      <4>2. Holds(c)'
        <5>1. \A i \in DOMAIN Message : Given(c, Message[i])'
          BY <2>6, <3>3, <4>1 DEF Given
        <5>2. \A b : Given(c, b)' <=> Given(c, b)
          BY <2>1 DEF Given, Asked
        <5> QED  BY <2>1, <3>4, <5>1, <5>2 DEF Own, Holds
      <4>3. KeepsUp(c)'
        BY <2>6, <4>1 DEF KeepsUp
      <4>4. Unread(c)' /\ disk'[c] = <<>>
        BY <2>1, <2>2, <2>4 DEF Own, Unread
      <4> QED  BY <4>2, <4>3, <4>4 DEF Own
    <3>7. \A d \in Client \ {c} : Own(d)'
      <4> TAKE d \in Client \ {c}
      <4>1. Still(d) /\ Own(d)
        BY <2>1, <2>4, <3>4 DEF Still, Inv, Alive
      <4>2. Count(d)' = Count(d)
        BY <2>1, <3>2 DEF Count, Asked
      <4> QED  BY <2>1, <4>1, <4>2, OwnStill
    <3>8. Connections'
      <4>1. c \in open /\ \A i \in DOMAIN queue : queue[i] \in Client \ {c}
        BY <2>1, Element DEF Connections, Serving, Types
      <4>2. ASSUME NEW i \in DOMAIN queue
            PROVE  /\ queue[i] \notin open /\ cli[queue[i]] # "off" /\ text[queue[i]] = <<>>
                   /\ toCli'[queue[i]] = <<>> /\ recvline[queue[i]] = Blank
                   /\ \A j \in DOMAIN queue : i # j => queue[i] # queue[j]
        BY <2>1, <3>4, <4>1 DEF Connections, Fresh
      <4> QED  BY <2>1, <4>2 DEF Connections, Fresh
    <3>9. Serving' /\ InPlace'
      BY <2>1, <2>2, <2>4, <3>2 DEF Serving, InPlace
    <3> QED  BY <3>5, <3>6, <3>7, <3>8, <3>9 DEF Inv
  <2> QED  BY <2>5, <2>6
<1> QED  BY <1>1, <1>2

LEMMA ServedInv == ASSUME Inv, Served PROVE Inv'
<1>1. /\ Types /\ Connections /\ Serving /\ InPlace /\ \A c \in Client : Own(c)
      /\ srv.pc = "send" /\ srv.k = Len(Lines[srv.f])
      /\ srv' = [srv EXCEPT !.pc = "accept"] /\ Alive
      /\ UNCHANGED <<readf, open, queue, cli, want, recvline, text, disk, toSrv, toCli, reset, behind>>
  BY DEF Served, Inv, cliVars, Alive
<1>2. srv'.pc = "accept" /\ srv'.c = srv.c /\ Types'
  BY <1>1 DEF Types
<1>3. \A c \in Client : Own(c)'
  <2> TAKE c \in Client
  <2>1. Count(c)' = Count(c)
    BY <1>1, <1>2 DEF Count, Asked, Serving
  <2>2. Own(c) /\ Still(c)
    BY <1>1 DEF Still
  <2> QED  BY <1>1, <2>1, <2>2, OwnStill
<1>4. Connections' /\ Serving' /\ InPlace'
  BY <1>1, <1>2 DEF Connections, Serving, Fresh, InPlace
<1> QED  BY <1>2, <1>3, <1>4 DEF Inv

\* The block of the next line: what is behind the line and its NUL stood there
\* before.
LEMMA Block ==
    ASSUME Inv, NEW f \in File, NEW k \in 1 .. Len(Lines[f]), NEW b, b = fgets(f, k)
    PROVE  /\ b \in Buffer /\ b \in Seq(Byte) /\ DOMAIN b = 1 .. MAXLINE /\ LineBlock(b, f, k)
           /\ \A i \in 1 .. MAXLINE : b[i] = Nul \/ b[i].i = i
           /\ \A i \in 1 .. MAXLINE : b[i] = Nul \/ b[i].f = f \/ b[i].i > Lines[f][k] + 1
<1> DEFINE l == Lines[f][k]
<1>1. l \in 1 .. MAXLINE - 1 /\ MAXLINE \in Nat /\ readf \in Buffer
  BY Sizes DEF Inv, Types
<1>2. /\ DOMAIN b = 1 .. MAXLINE
      /\ \A i \in 1 .. MAXLINE : b[i] = IF i <= l THEN Char(f, k, i)
                                        ELSE IF i = l + 1 THEN Nul ELSE readf[i]
      /\ b = [i \in 1 .. MAXLINE |-> b[i]]
  BY DEF fgets
<1> HIDE DEF l
<1>3. \A i \in 1 .. MAXLINE : b[i] \in Byte
  <2> TAKE i \in 1 .. MAXLINE
  <2>1. readf[i] \in Byte /\ Nul \in Byte
    BY <1>1, Chars DEF Buffer
  <2>2. Char(f, k, i) \in Byte
    BY <1>1, Sizes, Chars
  <2> QED  BY <1>2, <2>1, <2>2
<1>4. b \in Buffer
  BY <1>2, <1>3 DEF Buffer
<1>5. b \in Seq(Byte) /\ Len(b) = MAXLINE
  <2>1. b \in Seq(Byte)
    BY <1>1, <1>4, SeqDef DEF Buffer
  <2>2. DOMAIN b = 1 .. Len(b) /\ Len(b) \in Nat
    BY <2>1, LenProperties
  <2> QED  BY <1>1, <1>2, <2>1, <2>2
<1>6. InPlace
  BY DEF Inv
<1>7. \A i \in 1 .. MAXLINE : /\ b[i] = Nul \/ b[i].i = i
                              /\ b[i] = Nul \/ b[i].f = f \/ b[i].i > l + 1
  <2> TAKE i \in 1 .. MAXLINE
  <2>1. CASE i <= l
    BY <1>2, <2>1, Chars
  <2>2. CASE i = l + 1
    BY <1>1, <1>2, <2>2
  <2>3. CASE i > l + 1
    <3>1. b[i] = readf[i]
      BY <1>1, <1>2, <2>3
    <3> QED  BY <1>6, <2>3, <3>1 DEF InPlace
  <2> QED  BY <1>1, <2>1, <2>2, <2>3
<1>8. /\ b[l + 1] = Nul /\ b[MAXLINE] = Nul
      /\ \A i \in 1 .. l : b[i] = Char(f, k, i)
  <2>1. \A i \in 1 .. l : b[i] = Char(f, k, i)
    BY <1>1, <1>2
  <2>2. b[l + 1] = Nul
    <3>1. l + 1 \in 1 .. MAXLINE /\ ~(l + 1 <= l)
      BY <1>1
    <3> QED  BY <1>2, <3>1
  <2>3. b[MAXLINE] = Nul
    <3>1. MAXLINE \in 1 .. MAXLINE /\ ~(MAXLINE <= l)
      BY <1>1, Sizes
    <3> QED  BY <1>2, <1>6, <3>1 DEF InPlace
  <2> QED  BY <2>1, <2>2, <2>3
<1> QED  BY <1>2, <1>4, <1>5, <1>7, <1>8 DEF LineBlock, l

LEMMA SendLineInv == ASSUME Inv, SendLine PROVE Inv'
<1>0. srv.c \in Client
  BY DEF Inv, Types
<1> PICK c \in Client : c = srv.c
  BY <1>0
<1> DEFINE b == fgets(srv.f, srv.k + 1)
<1>1. /\ Types /\ Connections /\ Serving /\ InPlace /\ Own(c)
      /\ srv.pc = "send" /\ Alive /\ srv.f \in File /\ srv.f = Asked(c) /\ srv.k \in Nat
      /\ srv.k < Len(Lines[srv.f]) /\ readf' = b
      /\ UNCHANGED <<cli, want, recvline, text, disk, toSrv, behind>>
  BY DEF SendLine, Inv, Types, Serving, cliVars, Alive
<1>2. srv.k + 1 \in 1 .. Len(Lines[srv.f])
  BY <1>1, Sizes
<1>3. /\ b \in Buffer /\ b \in Seq(Byte) /\ DOMAIN b = 1 .. MAXLINE /\ LineBlock(b, Asked(c), srv.k + 1)
      /\ \A i \in 1 .. MAXLINE : b[i] = Nul \/ b[i].i = i
      /\ \A i \in 1 .. MAXLINE : b[i] = Nul \/ b[i].f = srv.f \/ b[i].i > Lines[srv.f][srv.k + 1] + 1
  BY <1>1, <1>2, Block
<1> HIDE DEF b
<1>4. InPlace'
  BY <1>1, <1>3 DEF InPlace, LineBlock
<1>5. CASE Exit /\ UNCHANGED toCli
  <2>1. Types'
    BY <1>1, <1>3, <1>5, ExitTypes DEF cliVars, SendLine
  <2> QED  BY <1>4, <1>5, <2>1, ExitInv DEF SendLine
<1>6. CASE ~(Exit /\ UNCHANGED toCli)
  <2>1. /\ c \notin reset /\ UNCHANGED <<open, queue>> /\ srv' = [srv EXCEPT !.k = @ + 1]
        /\ IF cli[c] = "gone" THEN reset' = reset \cup {c} /\ UNCHANGED toCli
           ELSE toCli' = [toCli EXCEPT ![c] = @ \o b] /\ UNCHANGED reset
    BY <1>1, <1>6 DEF SendLine, SendBlock
  <2>2. /\ srv'.pc = "send" /\ srv'.c = c /\ srv'.f = srv.f /\ srv'.k = srv.k + 1 /\ Alive'
        /\ srv' \in [pc : {"accept", "recv", "send", "failed", "exited"}, c : Client,
                     f : File \cup {Nul.f}, k : Nat]
    <3> DEFINE m == srv.k + 1
    <3>1. srv' = [srv EXCEPT !.k = m] /\ m \in Nat
      BY <1>1, <2>1
    <3> HIDE DEF m
    <3>2. /\ srv'.pc = "send" /\ srv'.c = c /\ srv'.f = srv.f /\ srv'.k = m
          /\ srv' \in [pc : {"accept", "recv", "send", "failed", "exited"}, c : Client,
                       f : File \cup {Nul.f}, k : Nat]
      BY <1>1, <3>1 DEF Types
    <3> QED  BY <3>2 DEF m, Alive
  <2>3. \A d \in Client \ {c} : Count(d)' = Count(d) /\ Asked(d)' = Asked(d)
    BY <1>1, <2>2 DEF Count, Asked
  <2>4. Asked(c)' = Asked(c) /\ Count(c) = srv.k /\ Count(c)' = srv.k + 1 /\ c \in open
        /\ toSrv[c] = <<>> /\ cli[c] \notin {"off", "send"}
    BY <1>1, <2>2 DEF Count, Asked, Serving
  <2>5. Serving'
    BY <1>1, <2>1, <2>2, <2>4 DEF Serving
  <2>6. CASE cli[c] = "gone"
    <3>1. reset' = reset \cup {c} /\ toCli' = toCli
      BY <2>1, <2>6
    <3>2. Types'
      BY <1>1, <1>3, <2>1, <2>2, <3>1 DEF Types
    <3>3. Own(c)'
      <4>1. Holds(c)'
        BY <1>1, <3>1, HoldsSame DEF Own
      <4>2. KeepsUp(c)'
        BY <1>1, <2>4, <2>6 DEF Own, KeepsUp
      <4>3. Unread(c)' /\ disk'[c] = <<>>
        BY <1>1, <2>6, <3>1 DEF Own, Unread, Fresh
      <4> QED  BY <4>1, <4>2, <4>3 DEF Own
    <3>4. \A d \in Client \ {c} : Own(d)'
      <4> TAKE d \in Client \ {c}
      <4>1. Own(d) /\ Still(d)
        BY <1>1, <3>1 DEF Inv, Still
      <4> QED  BY <2>1, <2>3, <3>1, <4>1, OwnStill
    <3>5. Connections'
      BY <1>1, <2>1, <3>1 DEF Connections, Fresh
    <3> QED  BY <1>4, <2>5, <3>2, <3>3, <3>4, <3>5 DEF Inv
  <2>7. CASE cli[c] # "gone"
    <3> DEFINE u == toCli[c] \o b
    <3>1. reset' = reset /\ toCli' = [toCli EXCEPT ![c] = u]
      BY <2>1, <2>7
    <3>2. /\ u \in Seq(Byte) /\ Len(u) = Len(toCli[c]) + MAXLINE /\ Len(toCli[c]) \in Nat
          /\ \A i \in DOMAIN u : \/ i \in DOMAIN toCli[c] /\ u[i] = toCli[c][i]
                                 \/ i - Len(toCli[c]) \in DOMAIN b /\ u[i] = b[i - Len(toCli[c])]
      <4>1. toCli[c] \in Seq(Byte) /\ b \in Seq(Byte) /\ Len(b) = MAXLINE
        BY <1>1, <1>3 DEF Types, LineBlock
      <4>2. /\ u \in Seq(Byte) /\ Len(u) = Len(toCli[c]) + Len(b) /\ Len(toCli[c]) \in Nat
            /\ \A i \in DOMAIN u :
                  \/ i \in DOMAIN toCli[c] /\ u[i] = toCli[c][i]
                  \/ i - Len(toCli[c]) \in DOMAIN b /\ i > Len(toCli[c]) /\ u[i] = b[i - Len(toCli[c])]
        <5> DEFINE t == toCli[c]
        <5>1. t \in Seq(Byte) /\ b \in Seq(Byte)
          BY <4>1
        <5> HIDE DEF t
        <5>2. /\ t \o b \in Seq(Byte) /\ Len(t \o b) = Len(t) + Len(b)
              /\ DOMAIN t = 1 .. Len(t) /\ DOMAIN b = 1 .. Len(b) /\ Len(t) \in Nat /\ Len(b) \in Nat
              /\ \A i \in DOMAIN (t \o b) :
                    \/ i \in DOMAIN t /\ (t \o b)[i] = t[i]
                    \/ i - Len(t) \in DOMAIN b /\ i > Len(t) /\ (t \o b)[i] = b[i - Len(t)]
          BY <5>1, Joined
        <5> QED  BY <5>2, Zenon DEF t
      <4> HIDE DEF u
      <4> QED  BY <4>1, <4>2
    <3>3. toCli[c] = <<>> => u = b
      BY <1>3, ConcatEmptySeq
    <3> HIDE DEF u
    <3>4. /\ toCli' \in [Client -> Seq(Byte)] /\ toCli'[c] = u
          /\ \A d \in Client \ {c} : toCli'[d] = toCli[d]
      BY <1>1, <3>1, <3>2 DEF Types
    <3>5. Types'
      BY <1>1, <1>3, <2>1, <2>2, <3>1, <3>4 DEF Types
    <3>6. Holds(c)'
      <4>1. \A x : Given(c, x)' <=> Given(c, x)
        BY <1>1 DEF Given, Asked
      <4>2. \A i \in 1 .. MAXLINE : b[i] = Nul \/ Given(c, b[i])
        <5>1. srv.k + 1 \in DOMAIN Lines[Asked(c)]
          BY <1>1, <1>2, Sizes
        <5> QED  BY <1>1, <1>3, <5>1 DEF Given
      <4>3. \A i \in DOMAIN u : u[i] = Nul \/ Given(c, u[i])
        BY <1>1, <1>3, <3>2, <4>2 DEF Own, Holds
      <4> QED  BY <1>1, <3>4, <4>1, <4>3 DEF Own, Holds
    <3>7. KeepsUp(c)'
      <4> SUFFICES ASSUME c \notin behind PROVE KeepsUp(c)'
        BY <1>1 DEF KeepsUp
      <4>1. PICK n \in 0 .. Len(Lines[Asked(c)]) : FirstLines(text[c], Asked(c), n) /\ Ready(c, n)
        BY <1>1, <2>7 DEF Own, KeepsUp
      <4>2. Ready(c, n)'
        <5>1. CASE toCli[c] = <<>>
          <6>1. n = srv.k
            <7>1. Len(toCli[c]) = 0 /\ toCli[c] # <<Nul>>
              BY <5>1, EmptySeq
            <7> QED  BY <2>4, <4>1, <7>1, Sizes DEF Ready, LineBlock
          <6> QED  BY <1>1, <1>3, <2>4, <3>3, <3>4, <5>1, <6>1 DEF Ready
        <5>2. CASE toCli[c] # <<>>
          <6>1. Len(toCli[c]) # 0
            BY <1>1, <5>2, EmptySeq DEF Types
          <6>2. Len(u) > MAXLINE
            BY <3>2, <6>1, Sizes
          <6> QED  BY <3>4, <6>2 DEF Ready
        <5> QED  BY <5>1, <5>2
      <4> QED  BY <1>1, <2>4, <4>1, <4>2 DEF KeepsUp
    <3>8. Own(c)'
      <4>1. Unread(c)' /\ disk'[c] = <<>>
        BY <1>1, <2>1, <2>4, <2>7, <3>1 DEF Own, Unread
      <4> QED  BY <3>6, <3>7, <4>1 DEF Own
    <3>9. \A d \in Client \ {c} : Own(d)'
      <4> TAKE d \in Client \ {c}
      <4>1. Own(d) /\ Still(d)
        BY <1>1, <3>4 DEF Inv, Still
      <4> QED  BY <2>1, <2>3, <3>1, <4>1, OwnStill
    <3>10. Connections'
      <4>1. c \in open /\ \A i \in DOMAIN queue : queue[i] \in Client \ {c}
        BY <1>1, <2>4, Element DEF Connections, Types
      <4>2. ASSUME NEW i \in DOMAIN queue
            PROVE  /\ queue[i] \notin open /\ cli[queue[i]] # "off" /\ text[queue[i]] = <<>>
                   /\ toCli'[queue[i]] = <<>> /\ recvline[queue[i]] = Blank
                   /\ \A j \in DOMAIN queue : i # j => queue[i] # queue[j]
        BY <1>1, <3>4, <4>1 DEF Connections, Fresh
      <4> QED  BY <1>1, <2>1, <4>2 DEF Connections, Fresh
    <3> QED  BY <1>4, <2>5, <3>5, <3>8, <3>9, <3>10 DEF Inv
  <2> QED  BY <2>6, <2>7
<1> QED  BY <1>5, <1>6

-----------------------------------------------------------------------------
(* Every step, and the theorems. *)

LEMMA InitInv == ASSUME Init PROVE Inv
<1>1. Blank \in Buffer /\ Blank[1] = Nul /\ Blank[MAXLINE] = Nul /\ \A i \in 1 .. MAXLINE : Blank[i] = Nul
  BY Sizes, Chars DEF Blank, Buffer
<1>2. /\ readf = Blank /\ \A c \in Client : recvline[c] = Blank
  BY DEF Init, Blank
<1>3. Types
  <2>1. recvline = [c \in Client |-> Blank] /\ readf = Blank
    BY DEF Init, Blank
  <2>2. recvline \in [Client -> Buffer] /\ readf \in Buffer
    BY <1>1, <2>1
  <2>3. srv \in [pc : {"accept", "recv", "send", "failed", "exited"}, c : Client,
                 f : File \cup {Nul.f}, k : Nat]
    BY DEF Init
  <2>4. want \in [Client -> Name] /\ open \subseteq Client /\ reset \subseteq Client
        /\ queue \in Seq(Client) /\ cli \in [Client -> {"off", "send", "recv", "gone"}]
    BY DEF Init
  <2>5. /\ text \in [Client -> Seq(Byte)] /\ disk \in [Client -> Seq(Byte)]
        /\ toCli \in [Client -> Seq(Byte)] /\ toSrv \in [Client -> Seq(Name)]
    BY EmptySeq DEF Init
  <2> QED  BY <2>2, <2>3, <2>4, <2>5 DEF Types
<1>4. Connections /\ Serving /\ InPlace
  <2>1. InPlace
    BY <1>1, <1>2 DEF InPlace
  <2>2. srv.pc = "accept" /\ open = {} /\ queue = <<>>
    BY DEF Init
  <2> QED  BY <2>1, <2>2 DEF Connections, Serving
<1>5. ASSUME NEW c \in Client PROVE Own(c)
  <2>1. Fresh(c) /\ c \notin open /\ disk[c] = <<>> /\ cli[c] = "off"
    BY <1>2 DEF Init, Fresh
  <2>2. Holds(c)
    BY <1>1, <2>1 DEF Fresh, Holds
  <2>3. KeepsUp(c)
    <3> SUFFICES ASSUME Asked(c) \in File PROVE KeepsUp(c)
      BY DEF KeepsUp
    <3>1. 0 \in 0 .. Len(Lines[Asked(c)]) /\ FirstLines(text[c], Asked(c), 0)
      BY <2>1, Sizes DEF Fresh, FirstLines
    <3>2. Ready(c, 0)
      BY <1>1, <2>1 DEF Ready, Fresh
    <3> QED  BY <3>1, <3>2 DEF KeepsUp
  <2>4. Unread(c)
    BY <2>1 DEF Init, Unread
  <2> QED  BY <2>1, <2>2, <2>3, <2>4 DEF Own
<1> QED  BY <1>3, <1>4, <1>5 DEF Inv

LEMMA StutterInv == ASSUME Inv, UNCHANGED vars PROVE Inv'
<1>1. /\ UNCHANGED <<srv, readf, open, queue, cli, want, recvline, text, disk, toSrv, toCli, reset, behind>>
      /\ Types /\ Connections /\ Serving /\ InPlace
  BY DEF vars, srvVars, cliVars, Inv
<1>2. Types' /\ Connections' /\ Serving' /\ InPlace'
  BY <1>1 DEF Types, Connections, Serving, Fresh, Asked, InPlace
<1>3. \A c \in Client : Own(c)'
  <2> TAKE c \in Client
  <2>1. Own(c) /\ Still(c) /\ Count(c)' = Count(c)
    BY <1>1 DEF Inv, Still, Alive, Count, Asked
  <2> QED  BY <1>1, <2>1, OwnStill
<1> QED  BY <1>2, <1>3 DEF Inv

LEMMA NextInv == ASSUME Inv, [Next]_vars PROVE Inv'
<1>1. CASE Server
  BY <1>1, AcceptInv, RequestInv, SendLineInv, ServedInv, EndInv DEF Server, NotFound
<1>2. CASE Kill
  BY <1>2, EndInv DEF Kill
<1>3. ASSUME NEW c \in Client, Program(c) \/ Connect(c) \/ Interrupt(c) PROVE Inv'
  BY <1>3, SendInv, RecvInv, RecvEndInv, RecvErrorInv, ConnectInv, InterruptInv DEF Program
<1>4. CASE UNCHANGED vars
  BY <1>4, StutterInv
<1> QED  BY <1>1, <1>2, <1>3, <1>4 DEF Next

\* A client that keeps up stores the lines of its own file, in their order and
\* each once, and when the server has sent everything none is missing: for any
\* clients, names, files and lines, however they take their turns, although
\* the blocks hold the remains of other lines (srv.c:22, 45-48; cli.c:48, 63).
THEOREM InOrderHolds == Spec => []InOrder
<1>1. Init => Inv
  BY InitInv
<1>2. Inv /\ [Next]_vars => Inv'
  BY NextInv
<1>3. Inv => InOrder
  <2> SUFFICES ASSUME Inv, NEW c \in Client, Asked(c) \in File, c \notin behind
               PROVE  \E n \in 0 .. Len(Lines[Asked(c)]) :
                        FirstLines(text[c], Asked(c), n) /\ (Received(c) => n = Len(Lines[Asked(c)]))
    BY DEF InOrder
  <2>1. PICK n \in 0 .. Len(Lines[Asked(c)]) :
            FirstLines(text[c], Asked(c), n) /\ (cli[c] # "gone" => Ready(c, n))
    BY DEF Inv, Own, KeepsUp
  <2>2. Received(c) => n = Len(Lines[Asked(c)])
    <3>1. toCli[c] = <<>> => Len(toCli[c]) = 0 /\ toCli[c] # <<Nul>>
      BY EmptySeq
    <3> QED  BY <2>1, <3>1, Sizes DEF Received, Ready, LineBlock, Count
  <2> QED  BY <2>1, <2>2
<1> QED  BY <1>1, <1>2, <1>3, PTL DEF Spec

\* Whatever its reads are, a client stores bytes of its own file, or the
\* remains of lines that are longer than one of its own: because what is in
\* readf stands where it stood in its line (srv.c:22, 45-48).
THEOREM RemainsHolds == Spec => []Remains
<1>1. Init => Inv
  BY InitInv
<1>2. Inv /\ [Next]_vars => Inv'
  BY NextInv
<1>3. Inv => Remains
  BY DEF Inv, Own, Holds, Remains
<1> QED  BY <1>1, <1>2, <1>3, PTL DEF Spec

\* And none of it ever reaches the disk: the one exit() that would write it out
\* is that of a client that got nothing (cli.c:25, 59-61).
THEOREM NothingStoredHolds == Spec => []NothingStored
<1>1. Init => Inv
  BY InitInv
<1>2. Inv /\ [Next]_vars => Inv'
  BY NextInv
<1>3. Inv => NothingStored
  BY DEF Inv, Own, NothingStored
<1> QED  BY <1>1, <1>2, <1>3, PTL DEF Spec
=============================================================================
