----------------------------- MODULE ServingHost -----------------------------
(***************************************************************************)
(* The machine the adapters work against: the server processes and the one *)
(* endpoint (host and port) that every adapter of a backend config talks   *)
(* to.  None of this is code of the repository; it is modelled from how    *)
(* lsp/backends/vllm_adapter.py uses it: subprocess.Popen, Popen.poll,     *)
(* terminate, kill, wait, and urlopen on the base url.                     *)
(*                                                                         *)
(* A run starts at most one server process, so the process a run starts is *)
(* named after the run.  External is a server nobody in the lab started.   *)
(***************************************************************************)
EXTENDS LabConfig

CONSTANT External

ASSUME HostAssumption == External \notin Runs \cup {None}

VARIABLES
  proc,     (* proc[p]: how far server process p has come                    *)
  signal,   (* signal[p]: the strongest signal sent to p                     *)
  bound     (* the process listening on the endpoint, or None                *)

hostVars == <<proc, signal, bound>>

Procs == Runs \cup {External}

HostTypeOK ==
  /\ proc \in [Procs -> {"absent", "booting", "serving", "exited"}]
  /\ signal \in [Procs -> {"none", "term", "kill"}]
  /\ bound \in Procs \cup {None}

HostInit ==
  /\ proc = [p \in Procs |-> "absent"]
  /\ signal = [p \in Procs |-> "none"]
  /\ bound = None

Alive(p) == proc[p] \in {"booting", "serving"}

(* An operator starts a server outside the benchmark command.                *)
StartExternal ==
  /\ proc[External] = "absent"
  /\ proc' = [proc EXCEPT ![External] = "booting"]
  /\ UNCHANGED <<signal, bound>>

(* A booted server takes the port if it is free, and gives up if it is not.  *)
Bind(p) ==
  /\ proc[p] = "booting"
  /\ IF bound = None
       THEN /\ bound' = p
            /\ proc' = [proc EXCEPT ![p] = "serving"]
       ELSE /\ proc' = [proc EXCEPT ![p] = "exited"]
            /\ UNCHANGED bound
  /\ UNCHANGED signal

(* A process ends, on its own or because of a signal, and frees its port.    *)
ProcExit(p) ==
  /\ Alive(p)
  /\ proc' = [proc EXCEPT ![p] = "exited"]
  /\ bound' = IF bound = p THEN None ELSE bound
  /\ UNCHANGED signal

HostStep == StartExternal \/ \E p \in Procs : Bind(p) \/ ProcExit(p)

(* What urlopen and the decoding behind it can make of one request: a 200   *)
(* answer with a JSON object the caller accepts or rejects, a JSON object    *)
(* with another 2xx status, an HTTPError, a URLError or TimeoutError, a body *)
(* that is not JSON, JSON that is not an object, and a connection that is    *)
(* reset or cut short, or a body that is not UTF-8.                          *)
Replies == {"accepted", "rejected", "non200", "http_error",
            "unreachable", "not_json", "not_object", "dropped"}

(* A request to an endpoint nobody listens on is refused.                    *)
PossibleReplies == IF bound = None THEN {"unreachable"} ELSE Replies

=============================================================================
