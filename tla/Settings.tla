------------------------------- MODULE Settings -------------------------------
(***************************************************************************)
(* The part of config.py that decides which model server a session talks   *)
(* to and which database holds its rows: the sections llm and storage of   *)
(* loopcoder.yaml, the defaults of their classes, the overrides of a       *)
(* request to the API and the two ways to an endpoint.                     *)
(*                                                                         *)
(* A mapping read from YAML or JSON is a function whose domain is the keys *)
(* it has; a configuration is one in which every field has a value.        *)
(***************************************************************************)

None == "none"     \* Python's None

\* What the classes say of a field that the file leaves out.  An entry of
\* `models' is a record of base_url and model.
Defaults ==
  [llm     |-> [base_url |-> "http://127.0.0.1:8000/v1", model |-> "Qwen/Qwen3-Coder-480B-A35B-Instruct-FP8",
                models |-> [k \in {} |-> None], default_model |-> None],
   storage |-> [state_db |-> "/var/lib/loopcoder/sessions.db"]]

Sections == DOMAIN Defaults

\* Two mappings, the second wins.
Over(base, override) ==
  [k \in DOMAIN base \cup DOMAIN override |-> IF k \in DOMAIN override THEN override[k] ELSE base[k]]

\* LoopCoderConfig.model_validate.
Validated(raw) ==
  [s \in Sections |-> IF s \in DOMAIN raw THEN Over(Defaults[s], raw[s]) ELSE Defaults[s]]

\* post_session: {**cfg.model_dump(), **overrides} replaces whole sections.
Overridden(cfg, overrides) == Validated(Over(cfg, overrides))

\* Mutant: the name of the entry's model with the flat URL.
ResolveEndpointMixed(llm, requested) ==
  LET key == IF requested # None THEN requested ELSE llm.default_model IN
  IF key \in DOMAIN llm.models
    THEN [base_url |-> llm.base_url, model |-> llm.models[key].model]
    ELSE [base_url |-> llm.base_url, model |-> IF requested # None THEN requested ELSE llm.model]

\* LlmConfig.resolve_endpoint, which the command line uses.
ResolveEndpoint(llm, requested) ==
  LET key == IF requested # None THEN requested ELSE llm.default_model IN
  IF key \in DOMAIN llm.models
    THEN [base_url |-> llm.models[key].base_url, model |-> llm.models[key].model]
    ELSE [base_url |-> llm.base_url, model |-> IF requested # None THEN requested ELSE llm.model]

\* start_session of the API: plan.llm.model or cfg.llm.model, at the flat URL.
FlatEndpoint(llm, requested) ==
  [base_url |-> llm.base_url, model |-> IF requested # None THEN requested ELSE llm.model]

\* The endpoints a configuration describes, and what each of them serves.
Described(llm) ==
  {[base_url |-> llm.base_url, model |-> llm.model]} \cup
  {[base_url |-> llm.models[k].base_url, model |-> llm.models[k].model] : k \in DOMAIN llm.models}
=============================================================================
