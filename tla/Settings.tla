------------------------------- MODULE Settings -------------------------------
(***************************************************************************)
(* The configuration (src/ipa/core/config.py): what the environment may    *)
(* hold, require_model and validate_startup.  Of the settings only those   *)
(* are here that a check or a property looks at; a model ID or a key is    *)
(* blank or not.                                                           *)
(***************************************************************************)

CONSTANTS
    Capabilities,   \* of {"llm", "vlm", "embed"}: a feature switch and a model each
    EnvNames,       \* IPA_ENV, of {"local", "test", "staging", "production"}
    Dimensions      \* values of NVIDIA_EMBED_DIM

ASSUME SettingsAssumption ==
    /\ Capabilities \subseteq {"llm", "vlm", "embed"}
    /\ EnvNames \subseteq {"local", "test", "staging", "production"}

Environments == [env : EnvNames,
                 placeholder : BOOLEAN,         \* IPA_SECRET_KEY is "change-me"
                 features : SUBSET Capabilities,\* the enabled features
                 models : SUBSET Capabilities,  \* the model IDs that are not blank
                 api_key : BOOLEAN,             \* NVIDIA_API_KEY is not blank
                 embed_dim : Dimensions]

is_production(s) == s.env \in {"staging", "production"}

\* The settings that require_model misses, the first one of them: it raises
\* ConfigurationError, or returns the model.
require_model(s, capability) ==
    IF capability \notin s.models THEN {<<"model", capability>>}
    ELSE IF ~ s.api_key THEN {<<"api_key", capability>>}
    ELSE {}

\* The problems that validate_startup collects from every enabled feature ...
ModelProblems(s) == UNION {require_model(s, c) : c \in s.features}

\* ... and from the secret key; it raises ConfigurationError when there are any.
validate_startup(s) ==
    ModelProblems(s)
      \cup (IF is_production(s) /\ s.placeholder THEN {<<"secret_key", "">>} ELSE {})
=============================================================================
