------------------------------ MODULE Startup ------------------------------
(***************************************************************************)
(* The main function of avs_server/src/main.rs and the configuration of    *)
(* avs_server/src/config.rs.  Every step awaits the one before it, and an  *)
(* error ends the process.  An Option is a sequence of at most one element. *)
(***************************************************************************)
CONSTANTS Files,      \* what the orchestrator may hand out as configuration
          DEFAULT_TCA_ENDPOINT

Fields == {"use_self_signed_cert", "tca_endpoint", "include_development_policy",
           "enable_c2sp_tlog"}

\* A file is empty, or no UTF-8 or no JSON of the right types ("broken"), or
\* an object that sets some of the fields.
ASSUME FilesAssumption ==
    \A f \in Files :
      /\ f.kind \in {"empty", "broken", "json"}
      /\ DOMAIN f.set \subseteq Fields
      /\ f.kind # "json" => DOMAIN f.set = {}
      /\ \A field \in DOMAIN f.set \ {"tca_endpoint"} : f.set[field] \in BOOLEAN

VARIABLES phase,    \* the step of main
          file,     \* what the orchestrator hands out
          config,   \* Option<AppConfig>
          service,  \* what the service was built with, an Option too
          ready     \* TRUE iff the orchestrator was told that the service is ready

mainVars == <<phase, file, config, service, ready>>

MainInit ==
    /\ phase = "channel"
    /\ file \in Files
    /\ config = <<>>
    /\ service = <<>>
    /\ ready = FALSE

-----------------------------------------------------------------------------
\* impl Default for AppConfig, made of the default of each field.
Default ==
    [use_self_signed_cert |-> FALSE,
     tca_endpoint |-> DEFAULT_TCA_ENDPOINT,
     include_development_policy |-> TRUE,
     enable_c2sp_tlog |-> FALSE]

\* serde gives a field that is absent its default.
FromJson(json) == [f \in Fields |-> IF f \in DOMAIN json THEN json[f] ELSE Default[f]]

Exit ==
    /\ phase' = "exited"
    /\ UNCHANGED <<file, config, service, ready>>

\* The channel to the orchestrator is built.
OpenChannel ==
    /\ phase = "channel"
    /\ \/ phase' = "configure" /\ UNCHANGED <<file, config, service, ready>>
       \/ Exit

\* Mutant: a configuration that cannot be parsed is taken for an empty one.
ConfigureAnyway ==
    /\ phase = "configure"
    /\ \/ /\ phase' = "client"
          /\ config' = IF file.kind = "json" THEN <<FromJson(file.set)>> ELSE <<Default>>
          /\ UNCHANGED <<file, service, ready>>
       \/ Exit

\* get_application_config, which may fail, and its result.
Configure ==
    /\ phase = "configure"
    /\ \/ /\ file.kind # "broken"
          /\ phase' = "client"
          /\ config' = IF file.kind = "empty" THEN <<Default>> ELSE <<FromJson(file.set)>>
          /\ UNCHANGED <<file, service, ready>>
       \/ Exit

\* The TCA client opens a channel of its own; without one the service makes
\* self-signed authorities.  The server is a future that nobody polls yet.
BuildService ==
    /\ phase = "client"
    /\ \/ /\ phase' = "announce"
          /\ service' = <<[tca_client |-> IF config[1].use_self_signed_cert THEN <<>>
                                          ELSE <<config[1].tca_endpoint>>,
                           include_development_policy |-> config[1].include_development_policy,
                           enable_c2sp_tlog |-> config[1].enable_c2sp_tlog]>>
          /\ UNCHANGED <<file, config, ready>>
       \/ ~config[1].use_self_signed_cert /\ Exit

\* Mutant: the server is awaited first, and readiness announced afterwards.
ServeFirst ==
    /\ phase = "announce"
    /\ phase' = "serving"
    /\ UNCHANGED <<file, config, service, ready>>

\* notify_app_ready; when it fails the orchestrator may have been told.
Announce ==
    /\ phase = "announce"
    /\ \/ phase' = "bind" /\ ready' = TRUE
       \/ phase' = "exited" /\ ready' \in BOOLEAN
    /\ UNCHANGED <<file, config, service>>

\* server.await: the port is bound, or the process ends.
Bind ==
    /\ phase = "bind"
    /\ \/ phase' = "serving" /\ UNCHANGED <<file, config, service, ready>>
       \/ Exit

MainNext == OpenChannel \/ Configure \/ BuildService \/ Announce \/ Bind
=============================================================================
