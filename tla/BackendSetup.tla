----------------------------- MODULE BackendSetup -----------------------------
(***************************************************************************)
(* A backend config on its way to a measurement: what BackendConfig        *)
(* accepts (lsp/config/models.py), the launch plan and the readiness check *)
(* made of it (lsp/m2_scaffolding.py), and the adapter that is built of it *)
(* (lsp/backends/vllm_adapter.py).  They read the same launch block with   *)
(* different rules.                                                        *)
(***************************************************************************)
CONSTANT None

(* A URL: its scheme and host, its path, whether it ends with a slash, and   *)
(* whether it is one: http or https, with a host, no query and no fragment.  *)
URLs == [root : {"example", "endpoint", "local"}, path : {"", "/v1", "/metrics"},
         slash : BOOLEAN, valid : BOOLEAN]

(* A value where a list of strings is expected; "mixed" holds other things.  *)
Lists == {"absent", "empty", "strings", "mixed", "scalar"}

(* The config of a backend.  sound: what concerns no other field, from the   *)
(* keys it may have to its mode and model.  local: its host and port, which  *)
(* stand for the root "local".  settings: the timeouts, cwd and env of the   *)
(* launch block are of the right kind.  A placeholder accelerator may be of  *)
(* any provider: it blocks whatever else is there.                           *)
Backends ==
  [kind : {"vllm", "sglang", "other"}, sound : BOOLEAN,
   base : URLs \cup {None}, local : {"none", "partial", "full"},
   scrape : URLs \cup {None},
   command : Lists, template : Lists,
   attach : {"absent", "external", "spawn", "other"}, settings : BOOLEAN,
   hardware : {"absent", "malformed", "placeholder", "modal", "machine"}]

-----------------------------------------------------------------------------
(* _ensure_http_url with strip_trailing_slash                                *)
Stripped(u) == [u EXCEPT !.slash = FALSE]

(* What from_dict leaves in `resolved`.                                      *)
Resolved(b) == IF b.base = None THEN b ELSE [b EXCEPT !.base = Stripped(b.base)]

(* _resolve_base_url: the root that /health, /version and /v1/completions    *)
(* are joined to, and that GuideLLM is pointed at.                           *)
EndpointRoot(b) == IF b.base = None THEN "local" ELSE b.base.root

MetricsOf(root) == [root |-> root, path |-> "/metrics", slash |-> FALSE, valid |-> TRUE]

(* One endpoint: base_url or host and port, not both; the root and nothing   *)
(* below it; and the scrape goes to /metrics of the same root.               *)
EndpointLayout(b) ==
  /\ b.base = None => b.local = "full"
  /\ b.base # None => b.local = "none" /\ b.base.valid /\ b.base.path = ""
  /\ b.scrape # None
  /\ b.scrape = MetricsOf(EndpointRoot(b))

(* BackendConfig.from_dict of a vllm backend.                                *)
AcceptsVLLM(b) ==
  /\ b.sound
  /\ b.hardware # "malformed"
  /\ EndpointLayout(b)
  /\ b.command # "scalar" /\ b.template # "scalar"
  /\ b.attach # "other"

Accepts(b) == \/ b.kind = "vllm" /\ AcceptsVLLM(b)
              \/ b.kind = "sglang" /\ b.sound /\ b.hardware # "malformed"

-----------------------------------------------------------------------------
(* A plan of `lsp render-vllm-launch`.                                       *)
Plans == [attach : {"external", "spawn"}, has_spawn_command : BOOLEAN,
          command : {"none", "command", "template"}]

(* build_vllm_launch_plan raises for what _string_list does not take; the    *)
(* empty list is taken.                                                      *)
CanPlan(b) == b.kind = "vllm" /\ b.command # "mixed" /\ b.template # "mixed"

(* A mutant of LaunchPlan: the default of attach_mode is forgotten.          *)
LaunchPlanNoDefault(b) ==
  [attach |-> b.attach,
   has_spawn_command |-> b.command # "absent",
   command |-> IF b.command = "strings" THEN "command"
               ELSE IF b.template = "strings" THEN "template" ELSE "none"]

LaunchPlan(b) ==
  [attach |-> IF b.attach # "absent" THEN b.attach
              ELSE IF b.command = "strings" THEN "spawn" ELSE "external",
   has_spawn_command |-> b.command # "absent",
   command |-> IF b.command = "strings" THEN "command"
               ELSE IF b.template = "strings" THEN "template" ELSE "none"]

(* A mutant of CanAdapt: the empty command is taken for none.                *)
CanAdaptEmpty(b) ==
  b.kind = "vllm" /\ b.settings /\ b.command \in {"absent", "empty", "strings"}

(* VLLMAdapter.__init__ and _parse_launch_settings: without a command the    *)
(* server is expected to run, with one it is spawned.  attach_mode is not    *)
(* looked at.                                                                *)
CanAdapt(b) == b.kind = "vllm" /\ b.settings /\ b.command \in {"absent", "strings"}

Spawns(b) == b.command = "strings"

-----------------------------------------------------------------------------
(* describe_backend_hardware with require_explicit                           *)
HardwareExplicit(b) == b.hardware # "absent"

(* The tools check_m2_readiness looks for: modal_auth is `modal profile      *)
(* current` naming a profile.                                                *)
Tools == {"guidellm", "modal", "modal_auth"}

(* A mutant of Blockers: a missing modal ends the checks of the tools.       *)
BlockersOneTool(b, tools) ==
  { id \in {"base_url", "metrics_endpoint", "hardware", "tool"} :
      \/ id = "base_url"         /\ EndpointRoot(b) = "example"
      \/ id = "metrics_endpoint" /\ b.scrape.root = "example"
      \/ id = "hardware"         /\ b.hardware = "placeholder"
      \/ id = "tool"             /\ IF b.hardware = "modal" THEN "modal" \notin tools
                                    ELSE "guidellm" \notin tools }

(* The checks of check_m2_readiness that come out as "blocked".              *)
Blockers(b, tools) ==
  { id \in {"base_url", "metrics_endpoint", "hardware", "guidellm", "modal", "modal_auth"} :
      \/ id = "base_url"         /\ EndpointRoot(b) = "example"
      \/ id = "metrics_endpoint" /\ b.scrape.root = "example"
      \/ id = "hardware"         /\ b.hardware = "placeholder"
      \/ id = "guidellm"         /\ "guidellm" \notin tools
      \/ id = "modal"            /\ b.hardware = "modal" /\ "modal" \notin tools
      \/ id = "modal_auth"       /\ b.hardware = "modal" /\ "modal" \in tools
                                 /\ "modal_auth" \notin tools }

=============================================================================
