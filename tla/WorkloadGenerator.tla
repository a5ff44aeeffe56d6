-------------------------- MODULE WorkloadGenerator --------------------------
(***************************************************************************)
(* lsp/workloads/generator.py: the requests of a workload, one iteration   *)
(* of generate_requests per step.  The random numbers are any numbers;     *)
(* times are counted in ticks, Unit to a second, to tell a period below    *)
(* one second from one above.                                              *)
(***************************************************************************)
EXTENDS Integers, Sequences, FiniteSets

CONSTANTS
  Unit,       (* ticks per second                                            *)
  Workloads,  (* the workload configs                                        *)
  NoWorkload

(* How making a part of a request up ends: well, in a ValidationError, or in *)
(* an exception of another class.                                            *)
Ends == {"good", "refused", "crashed"}

(* kind and sound: what WorkloadConfig checks.  arrival.numbers: rates and   *)
(* times are positive numbers, something else, or "unusable": numbers that   *)
(* pass the check, and at which int(), round() or the arithmetic may fail    *)
(* (infinite, NaN, tiny or huge ones).  lengths: the ends a draw of the      *)
(* lengths can have.  Several are possible, since a mixture draws one of its *)
(* components, and a huge p95 overflows for some draws.  A component that is *)
(* no mapping is met in every draw, and ends it as an AttributeError.        *)
WorkloadsOK ==
  \A w \in Workloads :
    /\ w.kind \in {"synthetic", "workload_shaped", "other"} /\ w.sound \in BOOLEAN
    /\ w.request_count \in Int
    /\ w.arrival.pattern \in {"poisson", "bursty_poisson", "other"}
    /\ w.arrival.numbers \in {"positive", "invalid", "unusable"}
    /\ w.arrival.burst_every \in Nat /\ w.arrival.burst_duration \in Nat
    /\ w.lengths \in SUBSET Ends \ {{}}
    /\ w.prefix.enabled \in {"yes", "no", "invalid"}
    /\ w.prefix.probability \in {"one", "less", "invalid", "huge"}
    /\ w.prefix.pool \in Int

ASSUME GeneratorAssumption ==
  Unit \in Nat \ {0} /\ NoWorkload \notin Workloads /\ WorkloadsOK

VARIABLES
  workload,   (* the config requests are made of                             *)
  requests,   (* the requests so far                                         *)
  outcome     (* how generate_requests goes                                  *)

genVars == <<workload, requests, outcome>>

Key(kind, number) == [kind |-> kind, number |-> number]
Requests == [burst : BOOLEAN, prefix_key : [kind : {"shared", "unique"}, number : Nat]]

GenTypeOK ==
  /\ workload \in Workloads \cup {NoWorkload}
  /\ requests \in Seq(Requests)
  /\ outcome \in {"none", "generating", "generated", "refused", "crashed"}

(* WorkloadConfig.from_dict                                                  *)
AcceptsWorkload(w) ==
  w.kind \in {"synthetic", "workload_shaped"} /\ w.sound /\ w.request_count > 0

-----------------------------------------------------------------------------
(* int() of a positive number of seconds.                                    *)
Whole(ticks) == ticks \div Unit

HasPeriod(a) == a.pattern = "bursty_poisson" => Whole(a.burst_every) > 0

(* _next_arrival_ms: the checks come before the arithmetic, and a period     *)
(* that int() has made zero is a ZeroDivisionError.                          *)
ArrivalEnds(a) ==
  IF a.pattern = "other" \/ a.numbers = "invalid" THEN {"refused"}
  ELSE (IF HasPeriod(a) THEN {"good"} ELSE {"crashed"})
         \cup (IF a.numbers = "unusable" THEN {"crashed"} ELSE {})

(* A mutant of InBurst: the last request of a burst is counted twice.        *)
InBurstInclusive(a, index) ==
  /\ a.pattern = "bursty_poisson"
  /\ index % Whole(a.burst_every) <= Whole(a.burst_duration)

(* _next_arrival_ms: bursts are windows of the request index.                *)
InBurst(a, index) ==
  /\ a.pattern = "bursty_poisson"
  /\ index % Whole(a.burst_every) < Whole(a.burst_duration)

(* _prefix_key: nothing else is looked at when it is not enabled; float() of *)
(* a huge integer is an OverflowError.                                       *)
PrefixEnd(p) ==
  CASE p.enabled = "no"                             -> "good"
    [] p.enabled = "yes" /\ p.probability = "huge"  -> "crashed"
    [] p.enabled = "yes" /\ p.probability \in {"one", "less"} /\ p.pool > 0 -> "good"
    [] OTHER                                        -> "refused"

(* A mutant of PrefixKeys: the pool goes one too far.                        *)
PrefixKeysOneMore(p, index) ==
  IF p.enabled = "no" THEN {Key("unique", index)}
  ELSE { Key("shared", k) : k \in 0 .. p.pool }
         \cup (IF p.probability = "one" THEN {} ELSE {Key("unique", index)})

(* _prefix_key                                                               *)
PrefixKeys(p, index) ==
  IF p.enabled = "no" THEN {Key("unique", index)}
  ELSE { Key("shared", k) : k \in 0 .. p.pool - 1 }
         \cup (IF p.probability = "one" THEN {} ELSE {Key("unique", index)})

-----------------------------------------------------------------------------
GenInit ==
  /\ workload = NoWorkload
  /\ requests = <<>>
  /\ outcome = "none"

(* The call of generate_requests, with a workload the config has accepted.   *)
StartGeneration(w) ==
  /\ outcome = "none"
  /\ AcceptsWorkload(w)
  /\ workload' = w
  /\ outcome' = "generating"
  /\ UNCHANGED requests

Iterating == outcome = "generating" /\ Len(requests) < workload.request_count

(* The first part of a request that is not good decides how it ends.         *)
RequestMayFail(w, end) ==
  \/ end \in ArrivalEnds(w.arrival)
  \/ "good" \in ArrivalEnds(w.arrival) /\ end \in w.lengths
  \/ "good" \in ArrivalEnds(w.arrival) /\ "good" \in w.lengths /\ end = PrefixEnd(w.prefix)

(* A mutant of GenerationFails: what has been made up so far is returned.    *)
GenerationCutShort ==
  /\ Iterating
  /\ \E end \in {"refused", "crashed"} : RequestMayFail(workload, end)
  /\ outcome' = "generated"
  /\ UNCHANGED <<workload, requests>>

(* A field that only generation looks at is bad.  Which one is met may be a  *)
(* matter of the draw, and so of how many requests have been made up.        *)
GenerationFails ==
  /\ Iterating
  /\ \E end \in {"refused", "crashed"} :
       RequestMayFail(workload, end) /\ outcome' = end
  /\ UNCHANGED <<workload, requests>>

GenerateRequest ==
  /\ Iterating
  /\ "good" \in ArrivalEnds(workload.arrival)
  /\ "good" \in workload.lengths
  /\ PrefixEnd(workload.prefix) = "good"
  /\ LET index == Len(requests) IN
     \E key \in PrefixKeys(workload.prefix, index) :
       requests' = Append(requests, [burst |-> InBurst(workload.arrival, index),
                                     prefix_key |-> key])
  /\ UNCHANGED <<workload, outcome>>

EndGeneration ==
  /\ outcome = "generating"
  /\ Len(requests) = workload.request_count
  /\ outcome' = "generated"
  /\ UNCHANGED <<workload, requests>>

GenStep == GenerationFails \/ GenerateRequest \/ EndGeneration

-----------------------------------------------------------------------------
(* A burst is a share of the requests: of any burst_every in a row, as many  *)
(* are sent at the burst rate as the burst lasts, whole seconds counted.     *)
BurstShare ==
  workload # NoWorkload =>
  LET a == workload.arrival
      every == Whole(a.burst_every)
      lasting == Whole(a.burst_duration) IN
  a.pattern = "bursty_poisson" /\ every > 0 =>
    \A first \in 1 .. Len(requests) - every + 1 :
      Cardinality({ i \in first .. first + every - 1 : requests[i].burst })
        = IF lasting < every THEN lasting ELSE every

(* Prefixes are shared only as configured: two requests with one prefix have *)
(* it from the pool of an enabled reuse, and with a reuse probability of one *)
(* there are no prefixes but those of the pool.                              *)
InPool(key) == key.kind = "shared" /\ key.number < workload.prefix.pool

SharingIsConfigured ==
  /\ \A i, j \in 1 .. Len(requests) :
       i # j /\ requests[i].prefix_key = requests[j].prefix_key =>
         workload.prefix.enabled = "yes" /\ InPool(requests[i].prefix_key)
  /\ \A i \in 1 .. Len(requests) :
       workload.prefix.enabled = "yes" /\ workload.prefix.probability = "one" =>
         InPool(requests[i].prefix_key)

=============================================================================
