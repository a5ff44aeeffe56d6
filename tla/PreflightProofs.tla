---------------------------- MODULE PreflightProofs ----------------------------
(***************************************************************************)
(* For every set of backend and workload configs, with TLAPS: what is true *)
(* of the backend, the workload and the launch plan when traffic starts,   *)
(* and what a validated report says.                                       *)
(***************************************************************************)
EXTENDS Preflight, GuideReportProofs, FiniteSetTheorems

-----------------------------------------------------------------------------
(* Remainders.                                                               *)

(* The only multiple of m between -m and m is zero.                          *)
LEMMA NoSmallMultiple ==
  ASSUME NEW k \in Int, NEW m \in Nat \ {0}, m * k < m, -m < m * k
  PROVE  k = 0
<1>1. CASE k >= 1
  <2>1. m * (k - 1) >= 0
    BY <1>1, SMT
  <2>2. m * (k - 1) = m * k - m
    BY SMT
  <2>3. QED BY <2>1, <2>2
<1>2. CASE k <= -1
  <2>1. m * (-k - 1) >= 0
    BY <1>2, SMT
  <2>2. m * (-k - 1) = -(m * k) - m
    BY SMT
  <2>3. QED BY <2>1, <2>2
<1>3. QED BY <1>1, <1>2

(* Division with remainder, for any modulus.                                 *)
LEMMA Division ==
  ASSUME NEW x \in Nat, NEW m \in Nat \ {0}
  PROVE  /\ x = m * (x \div m) + (x % m)
         /\ x \div m \in Int /\ x % m \in 0 .. m - 1
BY SMT

(* There is one remainder only.                                              *)
LEMMA RemainderIs ==
  ASSUME NEW x \in Nat, NEW m \in Nat \ {0}, NEW q \in Int, NEW k \in 0 .. m - 1,
         x = m * q + k
  PROVE  x % m = k
<1> DEFINE p == x \div m
           r == x % m
<1>1. x = m * p + r /\ p \in Int /\ r \in 0 .. m - 1
  BY Division
<1> HIDE DEF p, r
<1>2. m * (p - q) = m * p - m * q
  BY <1>1, SMT
<1>3. p - q = 0
  BY <1>1, <1>2, NoSmallMultiple
<1>4. QED BY <1>1, <1>3 DEF r

(* Of m indices in a row, d have a remainder below d: i |-> (i - 1) % m is a *)
(* bijection from them to 0 .. d - 1, or to 0 .. m - 1 if d is not smaller.  *)
LEMMA WindowShare ==
  ASSUME NEW m \in Nat \ {0}, NEW d \in Nat, NEW first \in Nat \ {0}
  PROVE  Cardinality({ i \in first .. first + m - 1 : (i - 1) % m < d })
           = IF d < m THEN d ELSE m
<1> DEFINE W == { i \in first .. first + m - 1 : (i - 1) % m < d }
           n == IF d < m THEN d ELSE m
           T == 0 .. n - 1
           f == [i \in W |-> (i - 1) % m]
<1>1. \A i \in W : i - 1 \in Nat /\ (i - 1) % m \in 0 .. m - 1
  BY Division
<1>2. f \in [W -> T]
  BY <1>1
<1>3. ASSUME NEW i \in W, NEW j \in W, f[i] = f[j]
      PROVE  i = j
  <2> DEFINE p == (i - 1) \div m
             q == (j - 1) \div m
  <2>1. i - 1 = m * p + f[i] /\ j - 1 = m * q + f[j] /\ p \in Int /\ q \in Int
    BY <1>1, Division
  <2>2. f[i] \in Int
    BY <1>1
  <2> HIDE DEF p, q, f
  <2>3. m * (p - q) = m * p - m * q
    BY <2>1, SMT
  <2>4. i - j = m * (p - q)
    BY <1>3, <2>1, <2>2, <2>3
  <2>5. p - q = 0
    BY <2>1, <2>4, NoSmallMultiple
  <2>6. QED BY <1>3, <2>1, <2>5
<1>4. ASSUME NEW k \in T
      PROVE  \E i \in W : f[i] = k
  <2> DEFINE r == (first - 1) % m
             q == (first - 1) \div m
             i == IF k < r THEN first + (k - r) + m ELSE first + (k - r)
             c == IF k < r THEN q + 1 ELSE q
  <2>1. first - 1 = m * q + r /\ q \in Int /\ r \in 0 .. m - 1
    BY Division
  <2> HIDE DEF r, q
  <2>2. m * (q + 1) = m * q + m
    BY <2>1, SMT
  <2>3. i \in first .. first + m - 1 /\ c \in Int
    BY <2>1
  <2>4. i - 1 = m * c + k
    BY <2>1, <2>2
  <2>5. i - 1 \in Nat /\ k \in 0 .. m - 1
    BY <2>3
  <2> HIDE DEF i, c
  <2>6. (i - 1) % m = k
    BY <2>3, <2>4, <2>5, RemainderIs
  <2>7. i \in W
    BY <2>3, <2>6
  <2>8. f[i] = k
    BY <2>6, <2>7
  <2>9. QED BY <2>7, <2>8
<1> HIDE DEF f
<1>5. f \in Bijection(W, T)
  BY <1>2, <1>3, <1>4 DEF Bijection, Injection, Surjection, IsInjective
<1>6. ExistsBijection(W, T)
  BY <1>5 DEF ExistsBijection
<1>7. IsFiniteSet(W)
  <2>1. IsFiniteSet(first .. first + m - 1)
    BY FS_Interval
  <2>2. QED BY <2>1, FS_Subset
<1>8. Cardinality(T) = Cardinality(W)
  BY <1>6, <1>7, FS_Bijection
<1>9. Cardinality(T) = n
  BY FS_Interval
<1>10. QED BY <1>8, <1>9

-----------------------------------------------------------------------------
(* The generator.                                                            *)

(* A prefix key has a number, and comes from the pool if it is shared.       *)
LEMMA PrefixKeyType ==
  ASSUME NEW w \in Workloads, NEW index \in Nat,
         NEW key \in PrefixKeys(w.prefix, index)
  PROVE  key \in [kind : {"shared", "unique"}, number : Nat]
<1>1. w.prefix.pool \in Int
  BY GeneratorAssumption DEF WorkloadsOK
<1>2. QED BY <1>1 DEF PrefixKeys, Key

LEMMA InBurstType ==
  ASSUME NEW a, NEW index
  PROVE  InBurst(a, index) \in BOOLEAN
BY DEF InBurst

(* A request is added with a key and a rate of its own index.                *)
LEMMA GenerateRequestType ==
  ASSUME GenTypeOK, workload \in Workloads, GenerateRequest
  PROVE  /\ requests' \in Seq(Requests)
         /\ Len(requests') = Len(requests) + 1
         /\ \A i \in 1 .. Len(requests) : requests'[i] = requests[i]
         /\ requests'[Len(requests')].prefix_key
              \in PrefixKeys(workload.prefix, Len(requests))
         /\ requests'[Len(requests')].burst = InBurst(workload.arrival, Len(requests))
<1>1. PICK key \in PrefixKeys(workload.prefix, Len(requests)) :
        requests' = Append(requests, [burst |-> InBurst(workload.arrival, Len(requests)),
                                      prefix_key |-> key])
  BY DEF GenerateRequest
<1> DEFINE new == [burst |-> InBurst(workload.arrival, Len(requests)), prefix_key |-> key]
<1>2. requests \in Seq(Requests) /\ Len(requests) \in Nat
  BY DEF GenTypeOK
<1>3. new \in Requests
  BY <1>2, PrefixKeyType, InBurstType DEF Requests
<1>4. requests' = Append(requests, new)
  BY <1>1
<1>5. new.prefix_key = key /\ new.burst = InBurst(workload.arrival, Len(requests))
  OBVIOUS
<1> HIDE DEF new
<1>6. QED BY <1>1, <1>2, <1>3, <1>4, <1>5

(* What the generator keeps: a key is one its index may have, a request is   *)
(* sent at the rate of its index, and a list that is handed out is complete. *)
GenInv ==
  /\ outcome # "none" => workload \in Workloads
  /\ outcome = "none" => requests = <<>>
  /\ \A i \in 1 .. Len(requests) :
       /\ requests[i].prefix_key \in PrefixKeys(workload.prefix, i - 1)
       /\ requests[i].burst = InBurst(workload.arrival, i - 1)
       /\ PrefixEnd(workload.prefix) = "good"
  /\ outcome = "generated" => Len(requests) = workload.request_count

LEMMA GenStepInv ==
  ASSUME GenTypeOK, GenInv, GenStep
  PROVE  GenTypeOK' /\ GenInv'
<1> USE DEF GenTypeOK, GenInv
<1>1. CASE GenerationFails
  BY <1>1 DEF GenerationFails, Iterating
<1>2. CASE GenerateRequest
  <2>1. workload \in Workloads /\ outcome = "generating" /\ PrefixEnd(workload.prefix) = "good"
        /\ UNCHANGED <<workload, outcome>>
    BY <1>2 DEF GenerateRequest, Iterating
  <2>2. /\ requests' \in Seq(Requests)
        /\ Len(requests') = Len(requests) + 1
        /\ \A i \in 1 .. Len(requests) : requests'[i] = requests[i]
        /\ requests'[Len(requests')].prefix_key
             \in PrefixKeys(workload.prefix, Len(requests))
        /\ requests'[Len(requests')].burst = InBurst(workload.arrival, Len(requests))
    BY <1>2, <2>1, GenerateRequestType
  <2>3. \A i \in 1 .. Len(requests') :
          /\ requests'[i].prefix_key \in PrefixKeys(workload.prefix, i - 1)
          /\ requests'[i].burst = InBurst(workload.arrival, i - 1)
    <3>1. TAKE i \in 1 .. Len(requests')
    <3>2. Len(requests) \in Nat
      OBVIOUS
    <3>3. CASE i \in 1 .. Len(requests)
      BY <2>2, <3>3
    <3>4. CASE i = Len(requests')
      <4>1. Len(requests) = i - 1
        BY <2>2, <3>2, <3>4
      <4>2. QED BY <2>2, <3>4, <4>1
    <3>5. QED BY <2>2, <3>2, <3>3, <3>4
  <2>4. QED BY <2>1, <2>2, <2>3
<1>3. CASE EndGeneration
  BY <1>3 DEF EndGeneration
<1>4. QED BY <1>1, <1>2, <1>3 DEF GenStep

(* Rates that follow the index share the requests as the bursts last.        *)
LEMMA ShareFromIndex == GenTypeOK /\ GenInv => BurstShare
<1> SUFFICES ASSUME GenTypeOK, GenInv, workload # NoWorkload,
                    workload.arrival.pattern = "bursty_poisson",
                    Whole(workload.arrival.burst_every) > 0,
                    NEW first \in 1 .. Len(requests) - Whole(workload.arrival.burst_every) + 1
             PROVE  LET every == Whole(workload.arrival.burst_every)
                        lasting == Whole(workload.arrival.burst_duration) IN
                    Cardinality({ i \in first .. first + every - 1 : requests[i].burst })
                      = IF lasting < every THEN lasting ELSE every
  BY DEF BurstShare
<1> DEFINE every == Whole(workload.arrival.burst_every)
           lasting == Whole(workload.arrival.burst_duration)
<1>1. workload.arrival.burst_every \in Nat /\ workload.arrival.burst_duration \in Nat
  BY GeneratorAssumption DEF GenTypeOK, WorkloadsOK
<1>2. every \in Nat \ {0} /\ lasting \in Nat
  BY <1>1, GeneratorAssumption DEF Whole
<1>3. Len(requests) \in Nat /\ first \in Nat \ {0}
  BY DEF GenTypeOK
<1>4. ASSUME NEW i \in first .. first + every - 1
      PROVE  requests[i].burst <=> (i - 1) % every < lasting
  <2>1. i \in 1 .. Len(requests)
    BY <1>2, <1>3
  <2>2. requests[i].burst = InBurst(workload.arrival, i - 1)
    BY <2>1 DEF GenInv
  <2>3. QED BY <2>2 DEF InBurst
<1> HIDE DEF every, lasting
<1>5. { i \in first .. first + every - 1 : requests[i].burst }
        = { i \in first .. first + every - 1 : (i - 1) % every < lasting }
  BY <1>4
<1>6. Cardinality({ i \in first .. first + every - 1 : (i - 1) % every < lasting })
        = IF lasting < every THEN lasting ELSE every
  BY <1>2, <1>3, WindowShare
<1>7. Cardinality({ i \in first .. first + every - 1 : requests[i].burst })
        = IF lasting < every THEN lasting ELSE every
  BY <1>5, <1>6
<1>8. QED BY <1>7 DEF every, lasting

(* Keys that may be had at their index are shared as configured.             *)
LEMMA SharingFromKeys == GenTypeOK /\ GenInv => SharingIsConfigured
<1> SUFFICES ASSUME GenTypeOK, GenInv PROVE SharingIsConfigured
  OBVIOUS
<1>1. ASSUME NEW i \in 1 .. Len(requests)
      PROVE  /\ \/ requests[i].prefix_key = Key("unique", i - 1)
                \/ workload.prefix.enabled = "yes" /\ InPool(requests[i].prefix_key)
             /\ workload.prefix.enabled = "yes" /\ workload.prefix.probability = "one" =>
                  InPool(requests[i].prefix_key)
  <2>1. /\ requests[i].prefix_key \in PrefixKeys(workload.prefix, i - 1)
        /\ PrefixEnd(workload.prefix) = "good"
    BY <1>1 DEF GenInv
  <2>2. workload \in Workloads
    <3>1. outcome # "none"
      BY <1>1 DEF GenInv
    <3>2. QED BY <3>1 DEF GenInv
  <2>3. workload.prefix.pool \in Int /\ workload.prefix.enabled \in {"yes", "no", "invalid"}
    BY <2>2, GeneratorAssumption DEF WorkloadsOK
  <2>4. QED BY <2>1, <2>3 DEF PrefixKeys, PrefixEnd, Key, InPool
<1>2. ASSUME NEW i \in 1 .. Len(requests), NEW j \in 1 .. Len(requests), i # j,
             requests[i].prefix_key = requests[j].prefix_key
      PROVE  workload.prefix.enabled = "yes" /\ InPool(requests[i].prefix_key)
  <2>1. Key("unique", i - 1) # Key("unique", j - 1)
    BY <1>2 DEF Key, GenTypeOK
  <2>2. QED BY <1>1, <1>2, <2>1
<1>3. QED BY <1>1, <1>2 DEF SharingIsConfigured

-----------------------------------------------------------------------------
(* The commands.                                                             *)

(* A resolved vllm config has a mode the plan knows.                         *)
IsResolved(b) == b.kind = "vllm" => b.attach # "other"

IsReady(b, found) ==
  b.kind = "vllm" /\ HardwareExplicit(b) /\ Blockers(b, found) = {}

(* What the config is known to be at each stage; that the launch plan and    *)
(* the generator's list belong to it; and that the verdict is the one on the *)
(* summary the state still holds.                                            *)
PreInv ==
  /\ stage = "config" => backend \in Configs /\ plan = None
  /\ stage \in {"loaded", "ready", "running", "traffic"} =>
       backend \in Backends /\ IsResolved(backend)
  /\ stage \in {"running", "traffic"} => CanAdapt(backend)
  /\ stage = "ready" => IsReady(backend, tools)
  /\ stage \in {"running", "traffic"} /\ via = "make" => IsReady(backend, tools)
  /\ plan # None => plan = LaunchPlan(backend)
  /\ stage \in {"running", "traffic"} <=> outcome # "none"
  /\ stage = "traffic" => outcome = "generated"
  /\ verdict # "none" =>
       /\ stage = "validated"
       /\ summary \in Summaries /\ verdict = Verdict(summary, expected)

LEMMA ResolvedOK ==
  ASSUME NEW b \in Backends, Accepts(b)
  PROVE  Resolved(b) \in Backends /\ IsResolved(Resolved(b))
<1>1. b.kind = "vllm" => b.attach # "other"
  BY DEF Accepts, AcceptsVLLM
<1>2. CASE b.base = None
  BY <1>1, <1>2 DEF Resolved, IsResolved
<1>3. CASE b.base # None
  <2>1. b.base \in URLs
    BY <1>3 DEF Backends
  <2>2. Stripped(b.base) \in URLs
    BY <2>1 DEF Stripped, URLs
  <2>3. Resolved(b) = [b EXCEPT !.base = Stripped(b.base)]
    BY <1>3 DEF Resolved
  <2>4. Resolved(b) \in Backends
    BY <2>2, <2>3 DEF Backends
  <2>5. Resolved(b).kind = b.kind /\ Resolved(b).attach = b.attach
    BY <2>3 DEF Backends
  <2>6. QED BY <1>1, <2>4, <2>5 DEF IsResolved
<1>4. QED BY <1>2, <1>3

LEMMA LaunchPlanType ==
  ASSUME NEW b \in Backends, b.attach # "other"
  PROVE  LaunchPlan(b) \in Plans
BY DEF LaunchPlan, Plans, Backends

Inv == PreflightTypeOK /\ GenInv /\ PreInv

LEMMA InitInv == Init => Inv
<1> SUFFICES ASSUME Init PROVE Inv
  OBVIOUS
<1> USE PreflightAssumption, GeneratorAssumption, ScrapeAssumption DEF Init, GenInit
<1>1. PreflightTypeOK
  BY DEF PreflightTypeOK, GenTypeOK
<1>2. GenInv
  BY DEF GenInv
<1>3. PreInv
  BY DEF PreInv
<1>4. QED BY <1>1, <1>2, <1>3 DEF Inv

(* The invariants of the generator in a step that leaves it alone.           *)
LEMMA GenUnchanged ==
  ASSUME GenTypeOK, GenInv, UNCHANGED genVars
  PROVE  GenTypeOK' /\ GenInv'
BY DEF GenTypeOK, GenInv, genVars

LEMMA LoadBackendInv == Inv /\ LoadBackend => Inv'
<1> SUFFICES ASSUME Inv, LoadBackend PROVE Inv'
  OBVIOUS
<1> USE DEF Inv, LoadBackend
<1>1. GenTypeOK' /\ GenInv'
  BY GenUnchanged DEF PreflightTypeOK
<1>2. backend \in Backends /\ plan = None
  BY PreflightAssumption DEF PreInv
<1>3. CASE Accepts(backend)
  <2>1. backend' \in Backends /\ IsResolved(backend')
    BY <1>2, <1>3, ResolvedOK
  <2>2. PreflightTypeOK'
    BY <1>1, <1>3, <2>1 DEF PreflightTypeOK, probeVars, reportVars
  <2>3. PreInv'
    BY <1>2, <1>3, <2>1 DEF PreInv, probeVars, reportVars, genVars
  <2>4. QED BY <1>1, <2>2, <2>3
<1>4. CASE ~Accepts(backend)
  <2>1. PreflightTypeOK'
    BY <1>1, <1>4 DEF PreflightTypeOK, probeVars, reportVars
  <2>2. PreInv'
    BY <1>2, <1>4 DEF PreInv, probeVars, reportVars, genVars
  <2>3. QED BY <1>1, <2>1, <2>2
<1>5. QED BY <1>3, <1>4

LEMMA RenderLaunchInv == Inv /\ RenderLaunch => Inv'
<1> SUFFICES ASSUME Inv, RenderLaunch PROVE Inv'
  OBVIOUS
<1> USE DEF Inv, RenderLaunch
<1>1. GenTypeOK' /\ GenInv'
  BY GenUnchanged DEF PreflightTypeOK
<1>2. plan' \in Plans
  BY LaunchPlanType DEF PreInv, IsResolved, CanPlan
<1>3. PreflightTypeOK'
  BY <1>1, <1>2 DEF PreflightTypeOK, probeVars, reportVars
<1>4. PreInv'
  BY DEF PreInv, probeVars, reportVars, genVars
<1>5. QED BY <1>1, <1>3, <1>4

LEMMA CheckReadinessInv == Inv /\ CheckReadiness => Inv'
<1> SUFFICES ASSUME Inv, CheckReadiness PROVE Inv'
  OBVIOUS
<1> USE DEF Inv, CheckReadiness
<1>1. GenTypeOK' /\ GenInv'
  BY GenUnchanged DEF PreflightTypeOK
<1>2. /\ tools' \in SUBSET Tools
      /\ stage' \in {"refused", "blocked", "ready"}
      /\ stage' = "ready" => IsReady(backend, tools')
  BY DEF IsReady
<1>3. PreflightTypeOK'
  BY <1>1, <1>2 DEF PreflightTypeOK, probeVars, reportVars
<1>4. PreInv'
  BY <1>2 DEF PreInv, probeVars, reportVars, genVars
<1>5. QED BY <1>1, <1>3, <1>4

LEMMA ProbeInv == Inv /\ Probe => Inv'
<1> SUFFICES ASSUME Inv, Probe PROVE Inv'
  OBVIOUS
<1> USE DEF Inv, Probe
<1>1. GenTypeOK' /\ GenInv'
  BY GenUnchanged DEF PreflightTypeOK
<1>2. missing' \in SUBSET Metrics
  BY DEF Missing
<1>3. PreflightTypeOK'
  BY <1>1, <1>2 DEF PreflightTypeOK, reportVars
<1>4. PreInv'
  BY DEF PreInv, reportVars, genVars
<1>5. QED BY <1>1, <1>3, <1>4

LEMMA BeginRunInv == Inv /\ BeginRun => Inv'
<1> SUFFICES ASSUME Inv, BeginRun PROVE Inv'
  OBVIOUS
<1> USE DEF Inv, BeginRun
<1>1. PICK w \in Workloads :
        IF HardwareExplicit(backend) /\ CanAdapt(backend) /\ AcceptsWorkload(w)
          THEN stage' = "running" /\ StartGeneration(w)
          ELSE stage' = "refused" /\ UNCHANGED genVars
  OBVIOUS
<1>2. stage \in {"loaded", "ready"} /\ (via = "make" => stage = "ready")
  BY DEF PreflightTypeOK
<1>3. CASE stage' = "running" /\ StartGeneration(w) /\ CanAdapt(backend)
  <2>1. GenTypeOK'
    BY <1>3 DEF StartGeneration, PreflightTypeOK, GenTypeOK
  <2>2. requests' = <<>> /\ outcome' = "generating" /\ workload' \in Workloads
    BY <1>3 DEF StartGeneration, GenInv
  <2>3. GenInv'
    BY <2>2 DEF GenInv
  <2>4. PreflightTypeOK'
    BY <1>3, <2>1 DEF PreflightTypeOK, setupVars, probeVars, reportVars
  <2>5. PreInv'
    BY <1>2, <1>3, <2>2 DEF PreInv, setupVars, probeVars, reportVars
  <2>6. QED BY <2>3, <2>4, <2>5
<1>4. CASE stage' = "refused" /\ UNCHANGED genVars
  <2>1. GenTypeOK' /\ GenInv'
    BY <1>4, GenUnchanged DEF PreflightTypeOK
  <2>2. PreflightTypeOK'
    BY <1>4, <2>1 DEF PreflightTypeOK, setupVars, probeVars, reportVars
  <2>3. PreInv'
    BY <1>2, <1>4 DEF PreInv, setupVars, probeVars, reportVars, genVars
  <2>4. QED BY <2>1, <2>2, <2>3
<1>5. QED BY <1>1, <1>3, <1>4

LEMMA GenerateInv == Inv /\ Generate => Inv'
<1> SUFFICES ASSUME Inv, Generate PROVE Inv'
  OBVIOUS
<1> USE DEF Inv, Generate
<1>1. GenTypeOK' /\ GenInv'
  BY GenStepInv DEF PreflightTypeOK
<1>2. outcome' # "none"
  BY DEF PreInv, GenStep, GenerationFails, GenerateRequest, EndGeneration
<1>3. PreflightTypeOK'
  BY <1>1 DEF PreflightTypeOK, setupVars, probeVars, reportVars
<1>4. PreInv'
  BY <1>2 DEF PreInv, setupVars, probeVars, reportVars
<1>5. QED BY <1>1, <1>3, <1>4

LEMMA StartTrafficInv == Inv /\ StartTraffic => Inv'
<1> SUFFICES ASSUME Inv, StartTraffic PROVE Inv'
  OBVIOUS
<1> USE DEF Inv, StartTraffic
<1>1. GenTypeOK' /\ GenInv'
  BY GenUnchanged DEF PreflightTypeOK
<1>2. PreflightTypeOK'
  BY <1>1 DEF PreflightTypeOK, setupVars, probeVars, reportVars
<1>3. PreInv'
  BY DEF PreInv, setupVars, probeVars, reportVars, genVars
<1>4. QED BY <1>1, <1>2, <1>3

LEMMA PlanCrossCheckInv == Inv /\ PlanCrossCheck => Inv'
<1> SUFFICES ASSUME Inv, PlanCrossCheck PROVE Inv'
  OBVIOUS
<1> USE DEF Inv, PlanCrossCheck
<1>1. GenTypeOK' /\ GenInv'
  BY DEF PreflightTypeOK, GenTypeOK, GenInv
<1>2. expected' \in Nat
  BY DEF PreflightTypeOK, GenTypeOK
<1>3. PreflightTypeOK'
  BY <1>1, <1>2 DEF PreflightTypeOK, probeVars
<1>4. verdict = "none"
  BY DEF PreInv
<1>5. PreInv'
  BY <1>4 DEF PreInv, probeVars
<1>6. QED BY <1>1, <1>3, <1>5

LEMMA ValidateReportInv == Inv /\ ValidateReport => Inv'
<1> SUFFICES ASSUME Inv, ValidateReport PROVE Inv'
  OBVIOUS
<1> USE DEF Inv, ValidateReport
<1>1. GenTypeOK' /\ GenInv'
  BY GenUnchanged DEF PreflightTypeOK
<1>2. PreflightTypeOK'
  BY <1>1 DEF PreflightTypeOK, setupVars, probeVars, Verdict
<1>3. PreInv'
  BY DEF PreInv, setupVars, probeVars, genVars
<1>4. QED BY <1>1, <1>2, <1>3

LEMMA NextInv == Inv /\ [Next]_vars => Inv'
<1> SUFFICES ASSUME Inv, [Next]_vars PROVE Inv'
  OBVIOUS
<1>1. CASE Next
  BY <1>1, LoadBackendInv, RenderLaunchInv, CheckReadinessInv, ProbeInv, BeginRunInv,
     GenerateInv, StartTrafficInv, PlanCrossCheckInv, ValidateReportInv DEF Next
<1>2. CASE UNCHANGED vars
  <2> USE <1>2 DEF vars, setupVars, probeVars, reportVars
  <2>1. GenTypeOK' /\ GenInv'
    BY GenUnchanged DEF Inv, PreflightTypeOK
  <2>2. PreflightTypeOK'
    BY <2>1 DEF Inv, PreflightTypeOK
  <2>3. PreInv'
    BY DEF Inv, PreInv, genVars
  <2>4. QED BY <2>1, <2>2, <2>3 DEF Inv
<1>3. QED BY <1>1, <1>2

(* Every reachable state satisfies the invariant.                            *)
THEOREM PreflightCorrect == Spec => []Inv
BY InitInv, NextInv, PTL DEF Spec

-----------------------------------------------------------------------------
(* Each variable of the commands stays in its set.                           *)
THEOREM PreflightTypes == Spec => []PreflightTypeOK
<1>1. Inv => PreflightTypeOK
  BY DEF Inv
<1>2. QED BY <1>1, PreflightCorrect, PTL

(* `make reproduce` sends no traffic past a placeholder or a missing tool.   *)
THEOREM ReadyBeforeTraffic == Spec => []ReproduceIsReady
<1>1. Inv => ReproduceIsReady
  <2> SUFFICES ASSUME Inv, stage = "traffic", via = "make"
               PROVE  /\ EndpointRoot(backend) # "example"
                      /\ backend.scrape.root # "example"
                      /\ backend.hardware \notin {"absent", "placeholder"}
                      /\ "guidellm" \in tools
                      /\ backend.hardware = "modal" => {"modal", "modal_auth"} \subseteq tools
    BY DEF ReproduceIsReady
  <2>1. HardwareExplicit(backend) /\ Blockers(backend, tools) = {}
    BY DEF Inv, PreInv, IsReady
  <2>2. \A id \in {"base_url", "metrics_endpoint", "hardware", "guidellm", "modal",
                   "modal_auth"} : id \notin Blockers(backend, tools)
    BY <2>1
  <2>3. QED BY <2>1, <2>2 DEF Blockers, HardwareExplicit
<1>2. QED BY <1>1, PreflightCorrect, PTL

(* The list that traffic is made of is the whole workload.                   *)
THEOREM WholeWorkload == Spec => []TrafficIsWholeWorkload
<1>1. Inv => TrafficIsWholeWorkload
  BY DEF Inv, PreInv, GenInv, TrafficIsWholeWorkload
<1>2. QED BY <1>1, PreflightCorrect, PTL

(* Of every launch block that both take: the launch plan has a command to    *)
(* spawn exactly if the adapter has one.  On the mode they are shown to      *)
(* agree only where attach_mode is not set.                                  *)
THEOREM PlanMatches == Spec => []PlanMatchesLaunch
<1>1. Inv => PlanMatchesLaunch
  <2> SUFFICES ASSUME Inv, stage \in {"running", "traffic"}, plan # None
               PROVE  /\ plan.has_spawn_command <=> Spawns(backend)
                      /\ plan.command = "command" <=> Spawns(backend)
                      /\ backend.attach = "absent" =>
                           (plan.attach = "spawn" <=> Spawns(backend))
    BY DEF PlanMatchesLaunch
  <2>1. plan = LaunchPlan(backend) /\ CanAdapt(backend)
    BY DEF Inv, PreInv
  <2>2. backend.command \in {"absent", "strings"}
    BY <2>1 DEF CanAdapt
  <2>3. CASE backend.command = "absent"
    BY <2>1, <2>3 DEF LaunchPlan, Spawns
  <2>4. CASE backend.command = "strings"
    BY <2>1, <2>4 DEF LaunchPlan, Spawns
  <2>5. QED BY <2>2, <2>3, <2>4
<1>2. QED BY <1>1, PreflightCorrect, PTL

(* Prefixes are shared as configured.                                        *)
THEOREM SharingAsConfigured == Spec => []SharingIsConfigured
<1>1. Inv => SharingIsConfigured
  BY SharingFromKeys DEF Inv, PreflightTypeOK
<1>2. QED BY <1>1, PreflightCorrect, PTL

(* Of any burst_every requests in a row as many are in a burst as the burst  *)
(* lasts, for periods, durations and lists of any length.                    *)
THEOREM SharesAsBurstsLast == Spec => []BurstShare
<1>1. Inv => BurstShare
  BY ShareFromIndex DEF Inv, PreflightTypeOK
<1>2. QED BY <1>1, PreflightCorrect, PTL

(* The validation passes the clean reports, whatever their counters.         *)
THEOREM PassedAreClean == Spec => []PassedIffClean
<1>1. Inv => PassedIffClean
  <2> SUFFICES ASSUME Inv, verdict # "none"
               PROVE  verdict = "passed" <=> Clean(summary, expected)
    BY DEF PassedIffClean
  <2>1. summary \in Summaries /\ verdict = Verdict(summary, expected)
    BY DEF Inv, PreInv
  <2>2. Issues(summary, expected) = {} <=> Clean(summary, expected)
    BY <2>1, NoIssuesIffClean DEF Inv, PreflightTypeOK
  <2>3. QED BY <2>1, <2>2 DEF Verdict
<1>2. QED BY <1>1, PreflightCorrect, PTL

=============================================================================
