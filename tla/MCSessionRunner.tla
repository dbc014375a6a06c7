--------------------------- MODULE MCSessionRunner ---------------------------
(* A file with a table of two models, and requests that name one of them,   *)
(* a model it has not, none at all, or another database.                    *)
EXTENDS SessionRunner

Table ==
  [llm |-> [base_url |-> "http://gpu:8000/v1", model |-> "coder", default_model |-> "small",
            models |-> [small |-> [base_url |-> "http://gpu:8001/v1", model |-> "coder-7b"],
                        large |-> [base_url |-> "http://gpu:8002/v1", model |-> "coder-480b"]]],
   storage |-> [state_db |-> "/data/sessions.db"]]

MCFiles == {Table}

MCRequests ==
  {NoRequest, [NoRequest EXCEPT !.model = "large"], [NoRequest EXCEPT !.model = "my-model"],
   [NoRequest EXCEPT !.overrides = [storage |-> [state_db |-> "/tmp/other.db"]]]}
=============================================================================
