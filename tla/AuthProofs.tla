------------------------------- MODULE AuthProofs -------------------------------
(***************************************************************************)
(* The safety of AuthService for any number of puzzles, starts and         *)
(* configurations, valid or not, and of AuthServer, which implements it.   *)
(* A puzzle carries the signature of its own fields (Made); an accepted    *)
(* request agrees with the configuration in force until its token is       *)
(* signed (Accepted), so the puzzle its signature comes from has the       *)
(* expiry, the difficulty and the secret of the request, whatever its      *)
(* challenge and salt are (SignedPuzzle), and the token remembers them     *)
(* (TokensEarned).  What a token ID has had, with what it may still be     *)
(* used for, never exceeds the quotas granted (WithinQuota).               *)
(***************************************************************************)
EXTENDS AuthServer, TLAPS

Made ==
    \A p \in puzzles : \E secret \in Int :
        p.hmac = HMAC(p.challenge, p.salt, p.difficulty, p.expiresAt, secret)

Accepted ==
    \A s \in solving :
        /\ s.request.hmac = HMAC(s.request.challenge, s.request.salt, config.PuzzleDifficulty,
                                 s.request.expiresAt, config.JWTSecret)
        /\ s.at <= s.request.expiresAt
        /\ now <= s.at + SolveTime

\* A token was given for the puzzle p.
Earned(tok, p) ==
    /\ p.hmac = tok.hmac
    /\ p.difficulty = tok.cfg.PuzzleDifficulty
    /\ tok.hmac = HMAC(p.challenge, p.salt, p.difficulty, p.expiresAt, tok.cfg.JWTSecret)
    /\ tok.exp <= p.expiresAt + SolveTime + tok.cfg.TokenExpiryMinutes

TokensEarned == \A tok \in tokens : \E p \in puzzles : Earned(tok, p)

Granted == IF Up THEN Quota(config) ELSE 0

WithinQuota == \A id \in Challenges : passed[id] + Granted <= allowed + tokenUsage[id]

AInv == TypeOK /\ Made /\ Accepted /\ TokensEarned /\ WithinQuota

-------------------------------------------------------------------------------
LEMMA QuotaNat == ASSUME NEW cfg \in Configs PROVE Quota(cfg) \in Nat
  BY AuthAssumption DEF Quota, Config

LEMMA GrantedNat == ASSUME TypeOK PROVE Granted \in Nat
  BY QuotaNat DEF TypeOK, Granted, Up

\* The fields of a configuration that serves are numbers.
LEMMA UpConfig ==
  ASSUME TypeOK, Up
  PROVE  /\ config \in Configs
         /\ config.JWTSecret \in Int /\ config.PuzzleDifficulty \in Int
         /\ config.RequestsPerToken \in Int /\ config.TokenExpiryMinutes \in Int
  BY AuthAssumption DEF TypeOK, Up, Config

LEMMA AInvInit == Init => AInv
  BY AuthAssumption DEF Init, AInv, TypeOK, Up, None, Made, Accepted, TokensEarned,
                        WithinQuota, Granted

LEMMA AInvPuzzle ==
  ASSUME AInv, NEW c \in Challenges, NEW s \in Salts, PuzzleHandler(c, s)
  PROVE  AInv'
<1> DEFINE expiresAt == now + config.TokenExpiryMinutes
           new == [ challenge |-> c, salt |-> s, expiresAt |-> expiresAt,
                    difficulty |-> config.PuzzleDifficulty,
                    hmac |-> HMAC(c, s, config.PuzzleDifficulty, expiresAt, config.JWTSecret) ]
<1>1. /\ Up /\ puzzles' = puzzles \cup {new}
      /\ UNCHANGED <<now, config, solving, tokens, verifying, tokenUsage, starts, allowed, passed>>
  BY DEF PuzzleHandler
<1>2. config \in Configs /\ config.JWTSecret \in Int /\ expiresAt \in Int
  BY <1>1, UpConfig DEF AInv, TypeOK
<1>3. new \in Puzzle
  <2>1. config.PuzzleDifficulty \in Difficulties
    BY <1>2 DEF Difficulties
  <2>2. HMAC(c, s, config.PuzzleDifficulty, expiresAt, config.JWTSecret) \in Signature
    BY <1>2, <2>1 DEF HMAC, Signature
  <2> QED
    BY <1>2, <2>1, <2>2 DEF Puzzle
<1>4. TypeOK'
  <2>1. SolveRequest \subseteq SolveRequest'
    BY <1>1 DEF SolveRequest
  <2>2. solving' \subseteq [request : SolveRequest', at : 0..now']
    BY <1>1, <2>1 DEF AInv, TypeOK
  <2> QED
    BY <1>1, <1>3, <2>2 DEF AInv, TypeOK, Up
<1>5. Made'
  BY <1>1, <1>2 DEF AInv, Made
<1>6. TokensEarned'
  BY <1>1 DEF AInv, TokensEarned, Earned
<1> QED
  BY <1>1, <1>4, <1>5, <1>6 DEF AInv, Accepted, WithinQuota, Granted, Up

LEMMA AInvSolve ==
  ASSUME AInv, NEW req \in SolveRequest, SolveHandler(req)
  PROVE  AInv'
<1>1. /\ Up /\ Valid(req) /\ solving' = solving \cup {[request |-> req, at |-> now]}
      /\ UNCHANGED <<now, config, puzzles, tokens, verifying, tokenUsage, starts, allowed, passed>>
  BY DEF SolveHandler
<1>2. TypeOK'
  <2>1. SolveRequest' = SolveRequest
    BY <1>1 DEF SolveRequest
  <2>2. [request |-> req, at |-> now] \in [request : SolveRequest, at : 0..now]
    BY DEF AInv, TypeOK
  <2>3. solving' \subseteq [request : SolveRequest', at : 0..now']
    BY <1>1, <2>1, <2>2 DEF AInv, TypeOK
  <2> QED
    BY <1>1, <2>3 DEF AInv, TypeOK, Up
<1>3. Accepted'
  BY <1>1, AuthAssumption DEF AInv, TypeOK, Accepted, Valid
<1> QED
  BY <1>1, <1>2, <1>3 DEF AInv, Made, TokensEarned, Earned, WithinQuota, Granted, Up

\* The signature of an accepted request comes from a puzzle that was handed out under
\* the terms of the configuration in force, and that ends when the request says.
LEMMA SignedPuzzle ==
  ASSUME AInv, NEW s \in solving
  PROVE  \E p \in puzzles :
            /\ p.hmac = s.request.hmac
            /\ p.expiresAt = s.request.expiresAt
            /\ p.difficulty = config.PuzzleDifficulty
            /\ p.hmac = HMAC(p.challenge, p.salt, p.difficulty, p.expiresAt, config.JWTSecret)
<1> DEFINE r == s.request
<1>1. /\ r.challenge \in Challenges /\ r.salt \in Salts
      /\ r.hmac \in {p.hmac : p \in puzzles}
  BY DEF AInv, TypeOK, SolveRequest
<1>2. PICK p \in puzzles : p.hmac = r.hmac
  BY <1>1
<1>3. /\ p.challenge \in Challenges /\ p.salt \in Salts /\ p.difficulty \in Difficulties
  BY DEF AInv, TypeOK, Puzzle
<1>4. PICK secret \in Int :
         p.hmac = HMAC(p.challenge, p.salt, p.difficulty, p.expiresAt, secret)
  BY DEF AInv, Made
<1>5. r.hmac = HMAC(r.challenge, r.salt, config.PuzzleDifficulty, r.expiresAt, config.JWTSecret)
  BY DEF AInv, Accepted
<1>6. config.PuzzleDifficulty \in Difficulties
  BY DEF AInv, TypeOK, Up, Difficulties
<1>7. /\ Text(p.challenge, p.salt, p.difficulty)
              = Text(r.challenge, r.salt, config.PuzzleDifficulty)
      /\ p.expiresAt = r.expiresAt /\ secret = config.JWTSecret
  <2>1. <<Text(p.challenge, p.salt, p.difficulty), p.expiresAt, secret>>
           = <<Text(r.challenge, r.salt, config.PuzzleDifficulty), r.expiresAt, config.JWTSecret>>
    BY <1>2, <1>4, <1>5, Zenon DEF HMAC
  <2> HIDE DEF r
  <2> QED
    BY <2>1
<1>8. p.difficulty = config.PuzzleDifficulty
  BY <1>1, <1>3, <1>6, <1>7, OneDigitAssumption
<1> QED
  BY <1>2, <1>4, <1>7, <1>8

LEMMA AInvGenerate ==
  ASSUME AInv, NEW s \in solving, Generate(s)
  PROVE  AInv'
<1> DEFINE tok == [ ID |-> s.request.challenge, exp |-> now + config.TokenExpiryMinutes,
                    cfg |-> config, hmac |-> s.request.hmac ]
<1>1. /\ tokens' = tokens \cup {tok} /\ solving' = solving \ {s}
      /\ UNCHANGED <<now, config, puzzles, verifying, tokenUsage, starts, allowed, passed>>
  BY DEF Generate
<1>2. Up /\ s.request \in SolveRequest /\ s.at \in 0..now /\ now \in Nat
  BY DEF AInv, TypeOK
<1>3. PICK p \in puzzles :
         /\ p.hmac = s.request.hmac
         /\ p.expiresAt = s.request.expiresAt
         /\ p.difficulty = config.PuzzleDifficulty
         /\ p.hmac = HMAC(p.challenge, p.salt, p.difficulty, p.expiresAt, config.JWTSecret)
  BY SignedPuzzle
<1>4. p.expiresAt \in Int /\ p.hmac \in Signature
  BY DEF AInv, TypeOK, Puzzle
<1>5. config \in Configs /\ config.TokenExpiryMinutes \in Int
  BY <1>2, UpConfig DEF AInv
<1>6. TypeOK'
  <2>1. tok \in Token
    BY <1>2, <1>3, <1>4, <1>5 DEF Token, SolveRequest
  <2>2. SolveRequest' = SolveRequest
    BY <1>1 DEF SolveRequest
  <2>3. solving' \subseteq [request : SolveRequest', at : 0..now']
    BY <1>1, <2>2 DEF AInv, TypeOK
  <2> QED
    BY <1>1, <1>2, <2>1, <2>3 DEF AInv, TypeOK, Up
<1>7. Earned(tok, p)
  <2>1. now <= s.at + SolveTime /\ s.at <= p.expiresAt
    BY <1>3 DEF AInv, Accepted
  <2>2. tok.exp <= p.expiresAt + SolveTime + config.TokenExpiryMinutes
    BY <1>2, <1>4, <1>5, <2>1, AuthAssumption
  <2> QED
    BY <1>3, <2>2 DEF Earned
<1>8. TokensEarned'
  BY <1>1, <1>7 DEF AInv, TokensEarned, Earned
<1>9. Accepted'
  BY <1>1 DEF AInv, Accepted
<1> QED
  BY <1>1, <1>6, <1>8, <1>9 DEF AInv, Made, WithinQuota, Granted, Up

LEMMA AInvVerify ==
  ASSUME AInv, NEW tok \in tokens, Verify(tok)
  PROVE  AInv'
<1>1. /\ Up /\ verifying' = [verifying EXCEPT ![tok.ID] = @ + 1]
      /\ UNCHANGED <<now, config, puzzles, solving, tokens, tokenUsage, starts, allowed, passed>>
  BY DEF Verify
<1>2. tok.ID \in Challenges
  BY DEF AInv, TypeOK, Token
<1>3. verifying' \in [Challenges -> Nat]
  BY <1>1, <1>2 DEF AInv, TypeOK
<1>4. TypeOK'
  BY <1>1, <1>3 DEF AInv, TypeOK, SolveRequest, Up, Quota
<1> QED
  BY <1>1, <1>4 DEF AInv, Made, Accepted, TokensEarned, Earned, WithinQuota, Granted, Up

LEMMA AInvCount ==
  ASSUME AInv, NEW id \in Challenges, Count(id)
  PROVE  AInv'
<1>1. /\ verifying[id] > 0 /\ verifying' = [verifying EXCEPT ![id] = @ - 1]
      /\ UNCHANGED <<now, config, puzzles, solving, tokens, starts, allowed>>
  BY DEF Count
<1>2. Up
  BY <1>1 DEF AInv, TypeOK, None
<1>3. /\ tokenUsage \in [Challenges -> Nat] /\ passed \in [Challenges -> Nat]
      /\ verifying \in [Challenges -> Nat]
      /\ config.RequestsPerToken \in Int /\ allowed \in Nat /\ Granted \in Nat
  BY <1>2, UpConfig, GrantedNat DEF AInv, TypeOK
<1>4. verifying' \in [Challenges -> Nat]
  BY <1>1, <1>3
<1>5. CASE tokenUsage[id] >= config.RequestsPerToken
  <2>1. UNCHANGED <<tokenUsage, passed>>
    BY <1>5 DEF Count
  <2>2. TypeOK'
    BY <1>1, <1>2, <1>4, <2>1 DEF AInv, TypeOK, SolveRequest, Up, Quota
  <2> QED
    BY <1>1, <2>1, <2>2 DEF AInv, Made, Accepted, TokensEarned, Earned, WithinQuota, Granted, Up
<1>6. CASE ~ (tokenUsage[id] >= config.RequestsPerToken)
  <2>1. /\ tokenUsage' = [tokenUsage EXCEPT ![id] = @ + 1]
        /\ passed' = [passed EXCEPT ![id] = @ + 1]
    BY <1>6 DEF Count
  <2>2. tokenUsage' \in [Challenges -> Nat] /\ passed' \in [Challenges -> Nat]
    BY <1>3, <2>1
  <2>3. \A c \in Challenges : tokenUsage'[c] <= Quota(config)
    BY <1>2, <1>3, <1>6, <2>1 DEF AInv, TypeOK, Quota
  <2>4. TypeOK'
    BY <1>1, <1>2, <1>4, <2>2, <2>3 DEF AInv, TypeOK, SolveRequest, Up, Quota
  <2>5. WithinQuota'
    <3>1. Granted' = Granted
      BY <1>1 DEF Granted, Up
    <3>2. \A c \in Challenges : passed'[c] + Granted <= allowed + tokenUsage'[c]
      BY <1>3, <2>1 DEF AInv, WithinQuota
    <3> QED
      BY <1>1, <3>1, <3>2 DEF WithinQuota
  <2> QED
    BY <1>1, <2>4, <2>5 DEF AInv, Made, Accepted, TokensEarned, Earned
<1> QED
  BY <1>5, <1>6

\* A start adds what it grants to what is allowed.
LEMMA AInvStart ==
  ASSUME AInv, NEW cfg \in Configs, Start(cfg)
  PROVE  AInv'
<1>1. /\ ~ Up /\ config' = cfg /\ allowed' = allowed + Quota(cfg) /\ starts' = starts + 1
      /\ UNCHANGED <<now, puzzles, solving, tokens, verifying, tokenUsage, passed>>
  BY DEF Start
<1>2. /\ solving = {} /\ verifying = None /\ tokenUsage = None /\ Up' /\ Quota(cfg) \in Nat
      /\ allowed \in Nat /\ passed \in [Challenges -> Nat]
  BY <1>1, AuthAssumption, QuotaNat DEF AInv, TypeOK, Up
<1>3. TypeOK'
  BY <1>1, <1>2 DEF AInv, TypeOK, Up, None
<1>4. WithinQuota'
  <2>1. Granted = 0 /\ Granted' = Quota(cfg) /\ \A c \in Challenges : tokenUsage'[c] = 0
    BY <1>1, <1>2 DEF Granted, None, Quota
  <2>2. \A c \in Challenges : passed[c] <= allowed
    BY <1>2, <2>1 DEF AInv, TypeOK, WithinQuota, None
  <2>3. \A c \in Challenges : passed[c] + Quota(cfg) <= allowed'
    BY <1>1, <1>2, <2>2
  <2> QED
    BY <1>1, <1>2, <2>1, <2>3 DEF WithinQuota
<1> QED
  BY <1>1, <1>2, <1>3, <1>4 DEF AInv, Made, Accepted, TokensEarned, Earned

\* A stop gives up what was granted and not used.
LEMMA AInvStop ==
  ASSUME AInv, Stop
  PROVE  AInv'
<1>1. /\ ~ Up' /\ solving' = {} /\ verifying' = None /\ tokenUsage' = None
      /\ config' = NoConfig
      /\ UNCHANGED <<now, puzzles, tokens, starts, allowed, passed>>
  BY DEF Stop, Up
<1>2. TypeOK'
  BY <1>1 DEF AInv, TypeOK, None
<1>3. WithinQuota'
  <2>1. \A c \in Challenges : passed[c] <= allowed
    BY GrantedNat DEF AInv, TypeOK, WithinQuota, Granted, None
  <2> QED
    BY <1>1, <2>1 DEF AInv, TypeOK, WithinQuota, Granted, None
<1> QED
  BY <1>1, <1>2, <1>3 DEF AInv, Made, Accepted, TokensEarned, Earned

LEMMA AInvTick ==
  ASSUME AInv, Tick
  PROVE  AInv'
<1>1. /\ now' = now + 1 /\ \A s \in solving : now < s.at + SolveTime
      /\ UNCHANGED <<config, puzzles, solving, tokens, verifying, tokenUsage, starts, allowed, passed>>
  BY DEF Tick
<1>2. TypeOK'
  <2>1. 0..now \subseteq 0..now'
    BY <1>1 DEF AInv, TypeOK
  <2> QED
    BY <1>1, <2>1 DEF AInv, TypeOK, SolveRequest, Up
<1>3. Accepted'
  <2>1. \A s \in solving : s.at \in Nat
    BY DEF AInv, TypeOK
  <2> QED
    BY <1>1, <2>1, AuthAssumption DEF AInv, TypeOK, Accepted
<1> QED
  BY <1>1, <1>2, <1>3 DEF AInv, Made, TokensEarned, Earned, WithinQuota, Granted, Up

LEMMA AInvAlways == Spec => []AInv
<1>1. AInv /\ [Next]_vars => AInv'
  <2> SUFFICES ASSUME AInv, [Next]_vars
               PROVE  AInv'
    OBVIOUS
  <2>1. CASE UNCHANGED vars
    BY <2>1 DEF vars, AInv, TypeOK, SolveRequest, Up, None, Made, Accepted, TokensEarned,
                Earned, WithinQuota, Granted
  <2> QED
    BY <2>1, AInvPuzzle, AInvSolve, AInvGenerate, AInvVerify, AInvCount, AInvStart, AInvStop, AInvTick
       DEF Next, Request
<1> QED
  BY <1>1, AInvInit, PTL DEF Spec

-------------------------------------------------------------------------------
(* AuthServer implements AuthService.                                      *)

ServerInv ==
    /\ phase \in {"down", "options", "serving"}
    /\ serverConfig \in Configs \cup {NoConfig}
    /\ handlers = <<>> \/ \E cfg \in Configs \cup {NoConfig} : handlers = <<cfg>>
    /\ phase = "down" => handlers = <<>>
    /\ phase = "serving" => /\ handlers = <<config>>
                            /\ Validate(serverConfig) /\ serverConfig # NoConfig
    /\ phase # "serving" => ~ Up
    /\ ordered /\ handlers # <<>> => handlers = <<serverConfig>> /\ serverConfig # NoConfig

\* What server.New does at its end is a start of the service, or nothing to it when
\* the handlers it has made cannot serve.
LEMMA ServeStep ==
  ASSUME ServerInv, phase = "options", NEW cfg \in Configs, Validate(cfg), Serve(cfg),
         serverConfig # NoConfig => cfg = serverConfig
  PROVE  ServerInv' /\ [Next]_vars
<1>1. cfg # NoConfig
  BY AuthAssumption
<1>2. PICK h \in Configs \cup {NoConfig} : handlers' = <<h>>
  BY DEF Serve, ServerInv
<1>3. handlers'[1] = h
  BY <1>2
<1>4. CASE h = NoConfig
  <2>1. UNCHANGED vars
    BY <1>2, <1>4 DEF Serve
  <2>2. config' = NoConfig
    BY <2>1 DEF vars, ServerInv, Up
  <2> QED
    BY <1>1, <1>2, <1>4, <2>1, <2>2 DEF ServerInv, Serve, Validate, Up
<1>5. CASE h # NoConfig
  <2>1. Start(h) /\ h \in Configs
    BY <1>2, <1>3, <1>5 DEF Serve
  <2>2. config' = h
    BY <2>1 DEF Start
  <2>3. Next
    BY <2>1 DEF Next
  <2> QED
    BY <1>1, <1>2, <2>2, <2>3 DEF ServerInv, Serve, Validate, Up
<1> QED
  BY <1>4, <1>5

LEMMA AfterOptionsStep ==
  ASSUME ServerInv, NEW file \in Files, AfterOptions(file)
  PROVE  ServerInv' /\ [Next]_vars
<1>1. Loaded(file) \in Configs \cup {NoConfig} /\ phase = "options"
  BY ServerAssumption DEF ServerInv, Loaded, AfterOptions
<1>2. CASE Loaded(file) # NoConfig /\ Validate(Loaded(file))
  BY <1>1, <1>2, ServeStep DEF AfterOptions, Loaded
<1>3. CASE ~ (Loaded(file) # NoConfig /\ Validate(Loaded(file)))
  BY <1>3 DEF AfterOptions, Down, ServerInv, vars, Up
<1> QED
  BY <1>2, <1>3

LEMMA ServerStep ==
  ASSUME ServerInv, [ServerNext]_<<vars, serverVars>>
  PROVE  ServerInv' /\ [Next]_vars
<1>1. CASE UNCHANGED <<vars, serverVars>>
  BY <1>1 DEF vars, serverVars, ServerInv, Validate, Up
<1>2. CASE Begin
  BY <1>2 DEF Begin, vars, ServerInv, Up
<1>3. ASSUME NEW env \in Changes, NEW file \in Files, Main(env, file)
      PROVE  ServerInv' /\ [Next]_vars
  <2>1. LoadFromEnv(env) \in Configs \cup {NoConfig}
    BY ServerAssumption DEF LoadFromEnv
  <2>2. serverConfig' \in Configs \cup {NoConfig} /\ UNCHANGED vars
    BY <1>3, <2>1, ServerAssumption DEF Main
  <2> QED
    BY <1>3, <2>2 DEF Main, vars, ServerInv, Up
<1>4. ASSUME NEW changes \in Changes, WithConfig(New(changes))
      PROVE  ServerInv' /\ [Next]_vars
  BY <1>4, ServerAssumption DEF WithConfig, Option, vars, ServerInv, Up
<1>5. CASE WithCustomMetrics
  BY <1>5 DEF WithCustomMetrics, Option, vars, ServerInv, Up
<1>6. CASE Exit
  BY <1>6 DEF Exit, Down, Stop, Next, ServerInv, Up
<1>7. CASE phase = "serving" /\ Request /\ UNCHANGED serverVars
  <2>1. config' = config
    BY <1>7 DEF Request, PuzzleHandler, SolveHandler, Generate, Verify, Count
  <2> QED
    BY <1>7, <2>1 DEF Next, serverVars, ServerInv, Validate, Up
<1>8. CASE Tick /\ UNCHANGED serverVars
  BY <1>8 DEF Tick, Next, serverVars, ServerInv, Validate, Up
<1> QED
  BY <1>1, <1>2, <1>3, <1>4, <1>5, <1>6, <1>7, <1>8, AfterOptionsStep DEF ServerNext

LEMMA ServerInvInit == ServerInit => ServerInv
  BY DEF ServerInit, Init, ServerInv, Up

LEMMA ServerInvAlways == ServerSpec => []ServerInv
  BY ServerInvInit, ServerStep, PTL DEF ServerSpec

\* Whatever the options and their order, the environment and the file, what the
\* server does with requests is what the service does.
THEOREM ServerIsService == ServerSpec => Spec
<1>1. ServerInit => Init
  BY DEF ServerInit
<1> QED
  BY <1>1, ServerInvInit, ServerStep, PTL DEF ServerSpec, Spec

\* With its options in order, the server answers under the valid configuration that
\* it reports.
THEOREM OrderedServesItsConfig == ServerSpec => []ServesItsConfig
<1>1. ServerInv => ServesItsConfig
  <2> SUFFICES ASSUME ServerInv
               PROVE  ServesItsConfig
    OBVIOUS
  <2>1. ASSUME phase = "serving", ordered
        PROVE  config = serverConfig
    <3>1. handlers = <<config>> /\ handlers = <<serverConfig>>
      BY <2>1 DEF ServerInv
    <3> QED
      BY <3>1
  <2> QED
    BY <2>1 DEF ServerInv, ServesItsConfig, Validate
<1> QED
  BY <1>1, ServerInvAlways, PTL

-------------------------------------------------------------------------------
\* Types; no token is used more often than the service said it could be.
THEOREM AuthTypes == ServerSpec => []TypeOK
<1>1. AInv => TypeOK
  BY DEF AInv
<1> QED
  BY <1>1, AInvAlways, ServerIsService, PTL

\* What passes with one token ID, through all the tokens that have it, is at most the
\* quotas of the configurations served.  A puzzle may have several IDs: nothing is
\* assumed of Text that would tell where a challenge ends.
THEOREM QuotaHolds == ServerSpec => []QuotaPerTokenID
<1>1. AInv => QuotaPerTokenID
  <2> SUFFICES ASSUME AInv, NEW c \in Challenges
               PROVE  passed[c] <= allowed
    BY DEF QuotaPerTokenID
  <2>1. /\ passed[c] \in Nat /\ allowed \in Nat /\ tokenUsage[c] \in Nat /\ Granted \in Nat
        /\ passed[c] + Granted <= allowed + tokenUsage[c]
    BY GrantedNat DEF AInv, TypeOK, WithinQuota
  <2>2. tokenUsage[c] <= Granted
    BY DEF AInv, TypeOK, Granted, None
  <2> QED
    BY <2>1, <2>2
<1> QED
  BY <1>1, AInvAlways, ServerIsService, PTL

\* No solution is good for tokens for ever.
THEOREM SolutionsEnd == ServerSpec => []TokensEnd
<1>1. AInv => TokensEnd
  BY DEF AInv, TokensEarned, Earned, TokensEnd
<1> QED
  BY <1>1, AInvAlways, ServerIsService, PTL

\* Difficulty and secret of a token are those a puzzle with its signature had,
\* through any sequence of starts.
THEOREM TermsKept == ServerSpec => []SolvedOnTheseTerms
<1>1. AInv => SolvedOnTheseTerms
  BY DEF AInv, TokensEarned, Earned, SolvedOnTheseTerms
<1> QED
  BY <1>1, AInvAlways, ServerIsService, PTL

===============================================================================
