----------------------------- MODULE ModalStartup -----------------------------
(***************************************************************************)
(* scripts/modal_vllm_m2.py, serve(): the startup hook of the container    *)
(* that holds the vLLM server.  The hook may run more than once in one     *)
(* container, also at the same time; a pid file and a sentinel file in     *)
(* /tmp are there to have only one of them launch.  All hooks of a         *)
(* container run in one Python process, the parent of the servers.         *)
(***************************************************************************)
EXTENDS Naturals, FiniteSets

CONSTANTS Hooks, None

ASSUME ModalAssumption == None \notin Hooks

VARIABLES
  hpc,        (* hpc[h]: where hook h is in serve()                          *)
  sentinel,   (* lsp_m2_vllm.starting exists                                 *)
  pidfile,    (* lsp_m2_vllm.pid: None, "empty" or the hook whose server it names *)
  server,     (* server[h]: the server that hook h launched                  *)
  port        (* whose server listens, or None                               *)

vars == <<hpc, sentinel, pidfile, server, port>>

TypeOK ==
  /\ hpc \in [Hooks -> {"idle", "checked", "reading", "clearing", "cleared", "claiming",
                        "claimed", "launched", "writing", "done", "skipped", "crashed"}]
  /\ sentinel \in BOOLEAN
  /\ pidfile \in Hooks \cup {None, "empty"}
  /\ server \in [Hooks -> {"absent", "booting", "listening", "zombie", "gone"}]
  /\ port \in Hooks \cup {None}

Init ==
  /\ hpc = [h \in Hooks |-> "idle"]
  /\ sentinel = FALSE
  /\ pidfile = None
  /\ server = [h \in Hooks |-> "absent"]
  /\ port = None

Goto(h, from, to) == hpc[h] = from /\ hpc' = [hpc EXCEPT ![h] = to]

(* Nobody waits for a server: one that has ended is a zombie until Python    *)
(* polls it, when its Popen object is dropped and at every later Popen.      *)
Reap(procs, dropped) ==
  [h \in Hooks |-> IF h \in dropped /\ procs[h] = "zombie" THEN "gone" ELSE procs[h]]

-----------------------------------------------------------------------------
CheckPort(h) ==
  /\ Goto(h, "idle", IF port # None THEN "skipped" ELSE "checked")
  /\ UNCHANGED <<sentinel, pidfile, server, port>>

CheckPidFile(h) ==
  /\ Goto(h, "checked", IF pidfile # None THEN "reading" ELSE "claiming")
  /\ UNCHANGED <<sentinel, pidfile, server, port>>

(* A file that is gone or empty, or names a process that is gone, is cleared *)
(* away with the sentinel.  kill(pid, 0) finds a zombie alive.               *)
ReadPid(h) ==
  /\ Goto(h, "reading", IF \E g \in Hooks : pidfile = g /\ server[g] # "gone"
                          THEN "skipped" ELSE "clearing")
  /\ UNCHANGED <<sentinel, pidfile, server, port>>

(* A mutant of UnlinkPid: the file is truncated and left there.              *)
UnlinkPidTruncates(h) ==
  /\ Goto(h, "clearing", "cleared")
  /\ pidfile' = "truncated"
  /\ UNCHANGED <<sentinel, server, port>>

UnlinkPid(h) ==
  /\ Goto(h, "clearing", "cleared")
  /\ pidfile' = None
  /\ UNCHANGED <<sentinel, server, port>>

UnlinkSentinel(h) ==
  /\ Goto(h, "cleared", "claiming")
  /\ sentinel' = FALSE
  /\ UNCHANGED <<pidfile, server, port>>

(* A mutant of Claim: the first hook skips, the next one goes on.            *)
ClaimReversed(h) ==
  /\ Goto(h, "claiming", IF sentinel THEN "claimed" ELSE "skipped")
  /\ sentinel' = TRUE
  /\ UNCHANGED <<pidfile, server, port>>

(* touch(exist_ok=False)                                                     *)
Claim(h) ==
  /\ Goto(h, "claiming", IF sentinel THEN "skipped" ELSE "claimed")
  /\ sentinel' = TRUE
  /\ UNCHANGED <<pidfile, server, port>>

Launch(h) ==
  /\ Goto(h, "claimed", "launched")
  /\ server' = [Reap(server, {g \in Hooks : hpc[g] \in {"done", "crashed"}})
                  EXCEPT ![h] = "booting"]
  /\ UNCHANGED <<sentinel, pidfile, port>>

(* write_text opens, and thereby empties, the pid file before it fills it.   *)
OpenPidFile(h) ==
  /\ Goto(h, "launched", "writing")
  /\ pidfile' = "empty"
  /\ UNCHANGED <<sentinel, server, port>>

FillPidFile(h) ==
  /\ Goto(h, "writing", "done")
  /\ pidfile' = h
  /\ server' = Reap(server, {h})
  /\ UNCHANGED <<sentinel, port>>

(* The hook is cut off by its timeout, or an operation of it raises.         *)
Crash(h) ==
  /\ hpc[h] \notin {"done", "skipped", "crashed"}
  /\ hpc' = [hpc EXCEPT ![h] = "crashed"]
  /\ server' = Reap(server, {h})
  /\ UNCHANGED <<sentinel, pidfile, port>>

ServerBinds(h) ==
  /\ server[h] = "booting"
  /\ server' = [server EXCEPT ![h] = IF port = None THEN "listening" ELSE "zombie"]
  /\ port' = IF port = None THEN h ELSE port
  /\ UNCHANGED <<hpc, sentinel, pidfile>>

ServerEnds(h) ==
  /\ server[h] \in {"booting", "listening"}
  /\ server' = [server EXCEPT ![h] = "zombie"]
  /\ port' = IF port = h THEN None ELSE port
  /\ UNCHANGED <<hpc, sentinel, pidfile>>

HookStep(h) ==
  \/ CheckPort(h) \/ CheckPidFile(h) \/ ReadPid(h) \/ UnlinkPid(h)
  \/ UnlinkSentinel(h) \/ Claim(h) \/ Launch(h) \/ OpenPidFile(h)
  \/ FillPidFile(h)
ServerStep(h) == ServerBinds(h) \/ ServerEnds(h)

Next == \E h \in Hooks : HookStep(h) \/ Crash(h) \/ ServerStep(h)

Spec == Init /\ [][Next]_vars

-----------------------------------------------------------------------------
Running == {h \in Hooks : server[h] \in {"booting", "listening"}}

(* "skipping duplicate startup hook" (the message of the sentinel check): a  *)
(* container never has two servers on its one GPU.                           *)
AtMostOneServer == Cardinality(Running) <= 1

(* The hooks never all give way to each other: behind every hook that skips  *)
(* there is one that has taken the sentinel, and launched unless it crashed. *)
SkippedBehindLaunch ==
  \A h \in Hooks : hpc[h] = "skipped" =>
    \E g \in Hooks : hpc[g] \in {"claimed", "launched", "writing", "done", "crashed"}

=============================================================================
