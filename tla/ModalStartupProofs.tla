-------------------------- MODULE ModalStartupProofs --------------------------
(***************************************************************************)
(* For any number of hooks, with TLAPS: the hooks of a container never all *)
(* give way to each other, and as long as they come one after the other    *)
(* they start at most one server.                                          *)
(***************************************************************************)
EXTENDS ModalStartup, FiniteSetTheorems, TLAPS

USE DEF Goto

(* A hook has taken the sentinel.                                            *)
Committed(h) == hpc[h] \in {"claimed", "launched", "writing", "done", "crashed"}

(* Everything a hook may give way to, the port, the pid file and the         *)
(* sentinel, is there because a hook has taken the sentinel.                 *)
Behind ==
  /\ \A h \in Hooks : server[h] # "absent" => Committed(h)
  /\ port # None => \E h \in Hooks : Committed(h)
  /\ pidfile # None => \E h \in Hooks : Committed(h)
  /\ sentinel => \E h \in Hooks : Committed(h)
  /\ SkippedBehindLaunch

LEMMA TypeStep == TypeOK /\ [Next]_vars => TypeOK'
<1> SUFFICES ASSUME TypeOK, [Next]_vars PROVE TypeOK'
  OBVIOUS
<1> USE DEF TypeOK
<1>1. CASE UNCHANGED vars
  BY <1>1 DEF vars
<1>2. ASSUME NEW h \in Hooks, HookStep(h) PROVE TypeOK'
  <2>1. CASE CheckPort(h) \/ CheckPidFile(h) \/ ReadPid(h)
    BY <2>1 DEF CheckPort, CheckPidFile, ReadPid
  <2>2. CASE UnlinkPid(h) \/ UnlinkSentinel(h)
    BY <2>2 DEF UnlinkPid, UnlinkSentinel
  <2>3. CASE Claim(h) \/ OpenPidFile(h)
    BY <2>3 DEF Claim, OpenPidFile
  <2>4. CASE Launch(h)
    BY <2>4 DEF Launch, Reap
  <2>5. CASE FillPidFile(h)
    BY <2>5 DEF FillPidFile, Reap
  <2>6. QED BY <1>2, <2>1, <2>2, <2>3, <2>4, <2>5 DEF HookStep
<1>3. ASSUME NEW h \in Hooks, Crash(h) PROVE TypeOK'
  BY <1>3 DEF Crash, Reap
<1>4. ASSUME NEW h \in Hooks, ServerStep(h) PROVE TypeOK'
  BY <1>4 DEF ServerStep, ServerBinds, ServerEnds
<1>5. QED BY <1>1, <1>2, <1>3, <1>4 DEF Next

(* A step that moves no committed hook back, and puts nothing in the way of  *)
(* the others that is not backed by one, keeps Behind.                       *)
LEMMA BehindStep == TypeOK /\ Behind /\ [Next]_vars => Behind'
<1> SUFFICES ASSUME TypeOK, Behind, [Next]_vars PROVE Behind'
  OBVIOUS
<1> USE DEF TypeOK, Behind, Committed, SkippedBehindLaunch
<1>1. CASE UNCHANGED vars
  BY <1>1 DEF vars
<1>2. ASSUME NEW h \in Hooks, HookStep(h) PROVE Behind'
  <2>1. CASE CheckPort(h)
    BY <2>1 DEF CheckPort
  <2>2. CASE CheckPidFile(h)
    BY <2>2 DEF CheckPidFile
  <2>3. CASE ReadPid(h)
    <3>1. CASE \E g \in Hooks : pidfile = g /\ server[g] # "gone"
      <4>1. PICK f \in Hooks : Committed(f)
        BY <3>1, ModalAssumption
      <4>2. hpc' = [hpc EXCEPT ![h] = "skipped"] /\ f # h
        BY <2>3, <3>1, <4>1 DEF ReadPid
      <4>3. QED BY <2>3, <4>1, <4>2 DEF ReadPid
    <3>2. CASE ~\E g \in Hooks : pidfile = g /\ server[g] # "gone"
      <4>1. hpc' = [hpc EXCEPT ![h] = "clearing"]
        BY <2>3, <3>2 DEF ReadPid
      <4>2. QED BY <2>3, <4>1 DEF ReadPid
    <3>3. QED BY <3>1, <3>2
  <2>4. CASE UnlinkPid(h)
    BY <2>4 DEF UnlinkPid
  <2>5. CASE UnlinkSentinel(h)
    BY <2>5 DEF UnlinkSentinel
  <2>6. CASE Claim(h)
    BY <2>6 DEF Claim
  <2>7. CASE Launch(h)
    BY <2>7 DEF Launch, Reap
  <2>8. CASE OpenPidFile(h)
    BY <2>8 DEF OpenPidFile
  <2>9. CASE FillPidFile(h)
    BY <2>9 DEF FillPidFile, Reap
  <2>10. QED
    BY <1>2, <2>1, <2>2, <2>3, <2>4, <2>5, <2>6, <2>7, <2>8, <2>9 DEF HookStep
<1>3. ASSUME NEW h \in Hooks, Crash(h) PROVE Behind'
  BY <1>3 DEF Crash, Reap
<1>4. ASSUME NEW h \in Hooks, ServerStep(h) PROVE Behind'
  BY <1>4, ModalAssumption DEF ServerStep, ServerBinds, ServerEnds
<1>5. QED BY <1>1, <1>2, <1>3, <1>4 DEF Next

(* The hooks, their servers and the two files keep to their sets of states.  *)
THEOREM StartupTypes == Spec => []TypeOK
<1>1. Init => TypeOK
  BY DEF Init, TypeOK
<1>2. QED BY <1>1, TypeStep, PTL DEF Spec

(* Behind every hook that skips there is one that took the sentinel.         *)
THEOREM SkipsBehindLaunch == Spec => []SkippedBehindLaunch
<1>1. Init => TypeOK /\ Behind
  BY DEF Init, TypeOK, Behind, SkippedBehindLaunch
<1>2. (TypeOK /\ Behind) /\ [Next]_vars => (TypeOK /\ Behind)'
  BY TypeStep, BehindStep
<1>3. Behind => SkippedBehindLaunch
  BY DEF Behind
<1>4. QED BY <1>1, <1>2, <1>3, PTL DEF Spec

-----------------------------------------------------------------------------
(* What the two files need to keep the servers apart: the hooks come one     *)
(* after the other, and none is cut off between the opening of the pid file  *)
(* and the writing of it.                                                    *)
Active(h) == hpc[h] \notin {"idle", "done", "skipped", "crashed"}

Orderly ==
  /\ \A g, h \in Hooks : Active(g) /\ Active(h) => g = h
  /\ pidfile = "empty" => \E h \in Hooks : hpc[h] = "writing"

(* What a hook has found in the files, or left in them.                      *)
FilesFit(h) ==
  /\ hpc[h] = "reading" => pidfile # None
  /\ hpc[h] \in {"cleared", "claiming", "claimed", "launched"} => pidfile = None
  /\ hpc[h] = "claimed" => sentinel
  /\ hpc[h] = "writing" => pidfile = "empty"

(* A running server is announced: by the pid file once its hook is done, and *)
(* by the sentinel before that and when the hook has crashed.                *)
Announced(h) ==
  /\ sentinel
  /\ \/ hpc[h] \in {"launched", "crashed"} /\ pidfile = None
     \/ hpc[h] = "writing"
     \/ hpc[h] = "done" /\ pidfile = h

(* No other hook has got past the files.                                     *)
KeptOut(g) ==
  /\ server[g] \notin {"booting", "listening"}
  /\ hpc[g] \notin {"clearing", "cleared", "claimed", "launched", "writing"}

OneServer ==
  /\ \A h \in Hooks : FilesFit(h)
  /\ \A h \in Running : Announced(h) /\ \A g \in Hooks \ {h} : KeptOut(g)

LEMMA OneServerStep ==
  TypeOK /\ OneServer /\ Orderly /\ Orderly' /\ [Next]_vars => OneServer'
<1> SUFFICES ASSUME TypeOK, OneServer, Orderly, Orderly', [Next]_vars  PROVE OneServer'
  OBVIOUS
<1> USE ModalAssumption
    DEF TypeOK, OneServer, Orderly, Active, FilesFit, Announced, KeptOut, Running
<1>1. CASE UNCHANGED vars
  BY <1>1 DEF vars
<1>2. ASSUME NEW h \in Hooks, HookStep(h)  PROVE OneServer'
  <2>1. CASE CheckPort(h)
    BY <2>1 DEF CheckPort
  <2>2. CASE CheckPidFile(h)
    BY <2>2 DEF CheckPidFile
  <2>3. CASE ReadPid(h)
    BY <2>3 DEF ReadPid
  <2>4. CASE UnlinkPid(h)
    BY <2>4 DEF UnlinkPid
  <2>5. CASE UnlinkSentinel(h)
    BY <2>5 DEF UnlinkSentinel
  <2>6. CASE Claim(h)
    BY <2>6 DEF Claim
  <2>7. CASE Launch(h)
    BY <2>7 DEF Launch, Reap
  <2>8. CASE OpenPidFile(h)
    BY <2>8 DEF OpenPidFile
  <2>9. CASE FillPidFile(h)
    BY <2>9 DEF FillPidFile, Reap
  <2>10. QED
    BY <1>2, <2>1, <2>2, <2>3, <2>4, <2>5, <2>6, <2>7, <2>8, <2>9 DEF HookStep
<1>3. ASSUME NEW h \in Hooks, Crash(h)  PROVE OneServer'
  BY <1>3 DEF Crash, Reap
<1>4. ASSUME NEW h \in Hooks, ServerStep(h)  PROVE OneServer'
  BY <1>4 DEF ServerStep, ServerBinds, ServerEnds
<1>5. QED BY <1>1, <1>2, <1>3, <1>4 DEF Next

(* Hooks that come one after the other start no second server.  Two at once  *)
(* may, as the run of AtMostOneServer shows, and so may one that follows a   *)
(* hook cut off while it wrote its pid file.                                 *)
THEOREM OneServerWhenOrderly == Spec /\ []Orderly => []AtMostOneServer
<1>1. Init => TypeOK /\ OneServer
  BY DEF Init, TypeOK, OneServer, FilesFit, Running
<1>2. TypeOK /\ OneServer /\ Orderly /\ Orderly' /\ [Next]_vars => (TypeOK /\ OneServer)'
  BY TypeStep, OneServerStep
<1>3. OneServer => AtMostOneServer
  <2>1. SUFFICES ASSUME OneServer  PROVE Cardinality(Running) <= 1
    BY DEF AtMostOneServer
  <2>2. CASE Running = {}
    BY <2>2, FS_EmptySet
  <2>3. ASSUME NEW h \in Running  PROVE Running = {h}
    BY <2>1 DEF OneServer, KeptOut, Running
  <2>4. ASSUME NEW h \in Running  PROVE Cardinality(Running) = 1
    BY <2>3, <2>4, FS_Singleton
  <2>5. QED BY <2>2, <2>4
<1>4. QED BY <1>1, <1>2, <1>3, PTL DEF Spec

=============================================================================
