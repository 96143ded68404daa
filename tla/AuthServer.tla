------------------------------ MODULE AuthServer ------------------------------
(***************************************************************************)
(* How the authentication service comes to serve (auth/server,             *)
(* auth/config, auth/cmd/server).  A program makes a server from options,  *)
(* which are applied in the order they are given; WithCustomMetrics makes  *)
(* the handlers on the spot, with the configuration the server has by      *)
(* then.  Options without a bearing on the configuration (metrics and      *)
(* their path, test mode) are left out.                                    *)
(***************************************************************************)
EXTENDS AuthService, Sequences

CONSTANTS
    Defaults,           \* the fields config.New begins with
    Changes,            \* fields set by options of config.New, or in the environment
    Files,              \* what the file holds: a configuration, NoConfig if unreadable
    MaxOptions          \* bound: options given to server.New

\* config.New: each option sets a field over the default.
New(changes) ==
    [f \in DOMAIN Defaults |-> IF f \in DOMAIN changes THEN changes[f] ELSE Defaults[f]]

ASSUME ServerAssumption ==
    /\ \A changes \in Changes : New(changes) \in Configs
    /\ Files \subseteq Configs \cup {NoConfig}
    /\ MaxOptions \in Nat

VARIABLES
    phase,              \* "down", "options" while server.New runs, "serving"
    serverConfig,       \* s.config
    handlers,           \* s.handlers: <<>> if nil, otherwise the configuration they have
    options,            \* options applied so far
    ordered             \* history: was every WithConfig given before WithCustomMetrics?

serverVars == <<phase, serverConfig, handlers, options, ordered>>

-------------------------------------------------------------------------------
\* A variable that is no number is as good as one that is not set.
LoadFromEnv(env) ==
    IF "JWTSecret" \in DOMAIN env /\ env["JWTSecret"] # 0 THEN New(env) ELSE NoConfig

\* config.Validate; the Argon2 parameters are left out.
Validate(cfg) ==
    /\ cfg.JWTSecret # 0
    /\ cfg.PuzzleDifficulty >= 0
    /\ cfg.RequestsPerToken > 0
    /\ cfg.TokenExpiryMinutes > 0

ServerInit ==
    /\ Init
    /\ phase = "down"
    /\ serverConfig = NoConfig
    /\ handlers = <<>>
    /\ options = 0
    /\ ordered = TRUE

\* server.New is called with options that are still to come.
Begin ==
    /\ phase = "down"
    /\ starts < MaxStarts
    /\ phase' = "options"
    /\ UNCHANGED <<serverConfig, handlers, options, ordered, vars>>

\* main of auth/cmd/server: the environment comes first, then the file; with
\* neither it exits.
Main(env, file) ==
    LET cfg == IF LoadFromEnv(env) # NoConfig THEN LoadFromEnv(env) ELSE file
    IN /\ phase = "down"
       /\ starts < MaxStarts
       /\ cfg # NoConfig
       /\ phase' = "options"
       /\ serverConfig' = cfg
       /\ options' = MaxOptions
       /\ UNCHANGED <<handlers, ordered, vars>>

Option ==
    /\ phase = "options"
    /\ options < MaxOptions
    /\ options' = options + 1
    /\ UNCHANGED <<phase, vars>>

WithConfig(cfg) ==
    /\ Option
    /\ serverConfig' = cfg
    /\ ordered' = (ordered /\ handlers = <<>>)
    /\ UNCHANGED handlers

\* Only the first of several makes handlers.
WithCustomMetrics ==
    /\ Option
    /\ IF handlers = <<>>
       THEN /\ handlers' = <<serverConfig>>
            /\ ordered' = (ordered /\ serverConfig # NoConfig)
       ELSE UNCHANGED <<handlers, ordered>>
    /\ UNCHANGED serverConfig

Down ==
    /\ phase' = "down"
    /\ serverConfig' = NoConfig
    /\ handlers' = <<>>
    /\ options' = 0
    /\ ordered' = TRUE

\* The handlers that have been made serve, or new ones with the configuration cfg.
Serve(cfg) ==
    /\ phase' = "serving"
    /\ serverConfig' = cfg
    /\ handlers' = IF handlers = <<>> THEN <<cfg>> ELSE handlers
    /\ IF handlers' = <<NoConfig>> THEN UNCHANGED vars ELSE Start(handlers'[1])
    /\ options' = 0
    /\ UNCHANGED ordered

\* The configuration of server.New: the one it was given, or the file's.
Loaded(file) == IF serverConfig # NoConfig THEN serverConfig ELSE file

\* Mutant: a configuration the program gave is not validated.
AfterOptionsTrusting(file) ==
    LET cfg == Loaded(file)
    IN /\ phase = "options"
       /\ IF cfg # NoConfig /\ (serverConfig # NoConfig \/ Validate(cfg))
          THEN Serve(cfg)
          ELSE Down /\ UNCHANGED vars

\* server.New after its options, and the beginning of ListenAndServe.  An error ends
\* the process, through log.Fatal or the panic of MustNew.
AfterOptions(file) ==
    LET cfg == Loaded(file)
    IN /\ phase = "options"
       /\ IF cfg # NoConfig /\ Validate(cfg)
          THEN Serve(cfg)
          ELSE Down /\ UNCHANGED vars

\* The process ends, at any moment.
Exit == phase # "down" /\ Down /\ Stop

ServerNext ==
    \/ Begin
    \/ \E env \in Changes, file \in Files : Main(env, file)
    \/ \E changes \in Changes : WithConfig(New(changes))
    \/ WithCustomMetrics
    \/ \E file \in Files : AfterOptions(file)
    \/ Exit
    \/ phase = "serving" /\ Request /\ UNCHANGED serverVars
    \/ Tick /\ UNCHANGED serverVars

ServerSpec == ServerInit /\ [][ServerNext]_<<vars, serverVars>>

-------------------------------------------------------------------------------
(* Properties.                                                             *)

\* If WithConfig came first, requests are answered under the configuration that
\* server.Config reports, and that one has been found valid, wherever it came from.
\* In another order the handlers keep a nil or an older configuration.
ServesItsConfig ==
    /\ phase = "serving" /\ ordered =>
          /\ config = serverConfig
          /\ config.JWTSecret # 0 /\ config.PuzzleDifficulty >= 0
          /\ config.RequestsPerToken > 0 /\ config.TokenExpiryMinutes > 0
    /\ phase # "serving" => ~ Up

===============================================================================
