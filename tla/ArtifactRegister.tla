--------------------------- MODULE ArtifactRegister ---------------------------
(***************************************************************************)
(* What the artifact directories promise to their readers, without files:  *)
(* every run directory is a register that one run may claim and that the   *)
(* same run may then publish one verdict in.                               *)
(***************************************************************************)
CONSTANTS Runs, None, Dirs, Target

VARIABLE pub    (* pub[d]: the state of directory d and the run behind it    *)

Absent == [by |-> None, state |-> "absent"]

TypeOK == pub \in [Dirs -> [by : Runs \cup {None},
                            state : {"absent", "claimed", "success", "failed"}]]

Init == pub = [d \in Dirs |-> Absent]

(* A run makes the directory its run id names.                               *)
Claim(w) ==
  /\ pub[Target[w]] = Absent
  /\ pub' = [pub EXCEPT ![Target[w]] = [by |-> w, state |-> "claimed"]]

(* The run that made the directory publishes a verdict in it.                *)
Publish(w, verdict) ==
  /\ pub[Target[w]] = [by |-> w, state |-> "claimed"]
  /\ pub' = [pub EXCEPT ![Target[w]] = [by |-> w, state |-> verdict]]

Next == \E w \in Runs : Claim(w) \/ \E v \in {"success", "failed"} : Publish(w, v)

Spec == Init /\ [][Next]_pub

=============================================================================
