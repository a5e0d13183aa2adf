------------------------------ MODULE MCStartup ------------------------------
(***************************************************************************)
(* Instances of Startup for TLC: three processes that meet on one port.    *)
(***************************************************************************)
EXTENDS Startup, TLC

CONSTANTS one, two, three

Three(a, b, c, n) ==
    one :> [prog |-> a, port |-> n] @@ two :> [prog |-> b, port |-> n]
    @@ three :> [prog |-> c, port |-> n]

\* Two servers on one port and their client (cli02 is told another port, which
\* it does not use), the two drafts of the proxy, and the UDP programs.
AllJobs == {Three("srv", "srv", "cli", 8260), Three("srv", "proxy", "cli", 21),
            [Three("srv02", "srv02", "cli02", 6280) EXCEPT ![three].port = 8261],
            Three("ftp_proxy", "proxy", "cli", 21),
            Three("udpsrv", "udpsrv", "udpcli", 6280),
            Three("udpsrv", "udpcli", "udpcli", 6280),
            Three("udpsrv02", "udpsrv02", "udpcli02", 8260)}

\* Every process has sockets of both families, of one, or of none.
SomeWorks == [Proc -> {Addr}] \cup [Proc -> {{2}}]
             \cup {[x \in Proc |-> IF x = y THEN S ELSE Addr] :
                      y \in {one, three}, S \in {{}, {1}, {2}}}
=============================================================================
