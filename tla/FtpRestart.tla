----------------------------- MODULE FtpRestart -----------------------------
(***************************************************************************)
(* The system of FtpSystem when the proxy is killed, or exits, and started *)
(* again.  The files of its working directory, which are the cache, are    *)
(* all that it finds again; main() does not look at them.                  *)
(*                                                                         *)
(* The kernel closes the connections of the old process: what it has       *)
(* written still arrives, what it has not read is lost.  Left out: a port  *)
(* 21 that is still in TIME_WAIT, where bind() fails and the user must try *)
(* again.                                                                  *)
(***************************************************************************)
EXTENDS FtpSystem

CONSTANT NCrash          \* how often the proxy may be killed

ASSUME RestartAssumption == NCrash \in Nat

VARIABLES
    crashes,   \* history: how often it was
    damaged    \* history: files whose transfer was under way at that moment

restartVars == <<vars, crashes, damaged>>

UnderWay == {op[client[s].n].m : s \in {s \in Session :
                client[s].ph \in {"setup", "ready", "busy"}}}

Restart ==
    /\ crashes < NCrash /\ crashes' = crashes + 1
    /\ damaged' = damaged \cup {f \in File : \E m \in UnderWay \cap Named : m.f = f}
    /\ status' = "running"
    /\ fdt' = [fd \in Fd |-> IF fd < 3 THEN Std
                             ELSE IF fd = 3 THEN Listener(CmdPort) ELSE Free]
    /\ master' = {3} /\ read_fds' = {} /\ pos' = <<0, 0>>
    /\ sock' = [r \in Role |-> IF r = "proxy_cmd" THEN 3 ELSE 0]
    /\ proxy_data_mode' \in {"PORT", "PASV"}
    /\ proxy_file_mode' \in {"RETR", "STOR"}
    /\ proxy_data_port' = 0 /\ file' = NoName
    /\ cache' = FALSE /\ bytes_creat' = 0
    /\ cmdbuf' = Junk /\ repbuf' = Junk
    /\ inq' = [c \in Conn |-> <<>>]
    /\ sigpipe' = {Dead}
    /\ backlog' = [p \in Port |-> <<>>]
    /\ UNCHANGED <<disk, outq, est, fin, lsn, peers>>

RestartNext == Restart \/ (Next /\ UNCHANGED <<crashes, damaged>>)

RestartSpec == /\ SysInit /\ crashes = 0 /\ damaged = {}
               /\ [][RestartNext]_restartVars

-----------------------------------------------------------------------------
\* CrashContained: a crash damages the files whose transfer was under way and
\* no other.  Those may be left in part in the cache or on the server, and
\* stay so: nothing tells a partial file of the cache from a whole one (lines
\* 215, 301), and the server takes the end of the connection for the end of
\* an upload.  Any other file that is in the cache, on the server or
\* delivered is one whole version.
CrashContained ==
    \A f \in File \ damaged :
        /\ f \in DOMAIN disk => CacheOpen(f) \/ Whole(f, disk[f])
        /\ f \in DOMAIN sdisk => Whole(f, sdisk[f])
        /\ \A n \in Op : Finished(n, "RETR") /\ op[n].m.f = f => Whole(f, op[n].got)
=============================================================================
