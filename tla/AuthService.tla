------------------------------ MODULE AuthService ------------------------------
(***************************************************************************)
(* The authentication service (auth/handlers, auth/puzzle, auth/jwt): it   *)
(* hands out puzzles, exchanges a solution for a token and counts what     *)
(* each token ID is used for.  Nothing is stored but those counts, in the  *)
(* memory of the process: a puzzle comes back to the server in the         *)
(* client's request, a token carries its own expiry, and both are signed   *)
(* with the secret of the configuration.                                   *)
(*                                                                         *)
(* SHA-256 and Argon2 do what they are for: a signature is the data and    *)
(* the secret it was made with, nobody else can make one, and a solution   *)
(* is a hash that was computed for the challenge and the salt it is sent   *)
(* with.  All fields of a request are the client's choice; what is signed  *)
(* of a puzzle is one text (Text), from which no field is told but by its  *)
(* place.  How a configuration gets here is AuthServer's matter: the       *)
(* service runs on any, valid or not.                                      *)
(***************************************************************************)
EXTENDS Integers, FiniteSets

CONSTANTS
    Challenges, Salts,  \* what is not empty in these fields of a request
    Drawn,              \* challenge and salt as crypto/rand may draw them
    Text(_, _, _),      \* a challenge, a salt and a difficulty, written in a row
    Configs,            \* configurations the service is started with
    NoConfig,           \* a nil configuration, and that of a service that is down
    SolveTime,          \* minutes from the check of an expiry to the token
    MaxTime, MaxStarts, MaxSolving, MaxTokens, MaxVerifying      \* bounds, the last for each ID

Config == [JWTSecret : Int, PuzzleDifficulty : Int,
           RequestsPerToken : Int, TokenExpiryMinutes : Int]

ASSUME AuthAssumption ==
    /\ Drawn \subseteq Challenges \X Salts
    /\ Configs \subseteq Config
    /\ NoConfig \notin Configs
    /\ SolveTime \in Nat /\ MaxTime \in Nat /\ MaxStarts \in Nat
    /\ MaxSolving \in Nat /\ MaxTokens \in Nat /\ MaxVerifying \in Nat

Difficulties == {cfg.PuzzleDifficulty : cfg \in Configs}

\* The difficulties in use are of one digit each (the default is 1): it is the last
\* of the text, whatever comes before it.
ASSUME OneDigitAssumption ==
    \A c, d \in Challenges, s, t \in Salts, m, n \in Difficulties :
        Text(c, s, m) = Text(d, t, n) => m = n

VARIABLES
    now,                \* in minutes
    config,             \* h.config
    puzzles,            \* the puzzles handed out
    solving,            \* solutions accepted whose token is not signed yet
    tokens,             \* the tokens handed out
    verifying,          \* VerifyHandler calls past jwt.Verify, for each token ID
    tokenUsage,         \* h.tokenUsage
    starts,             \* history: how often the service has been started
    allowed,            \* history: the sum of their RequestsPerToken
    passed              \* history: the verifications each token ID has had

vars == <<now, config, puzzles, solving, tokens, verifying, tokenUsage, starts, allowed, passed>>

-------------------------------------------------------------------------------
None == [id \in Challenges |-> 0]

\* What computeHMAC signs, and the secret it uses.  The expiry, of a fixed form, is
\* told from the text before it.
HMAC(c, s, difficulty, expiresAt, secret) == <<Text(c, s, difficulty), expiresAt, secret>>

Init ==
    /\ now = 0
    /\ config = NoConfig
    /\ puzzles = {} /\ solving = {} /\ tokens = {}
    /\ verifying = None /\ tokenUsage = None
    /\ starts = 0 /\ allowed = 0
    /\ passed = None

\* Every handler reads h.config before it changes anything.  If it is nil the
\* handler panics, and net/http ends the request and nothing else.
Up == config # NoConfig

\* puzzle.Generate, for PuzzleHandler and for TestSolveHandler.  No challenge is
\* drawn twice.
PuzzleHandler(c, s) ==
    LET expiresAt == now + config.TokenExpiryMinutes
    IN /\ Up
       /\ <<c, s>> \in Drawn /\ \A p \in puzzles : p.challenge # c
       /\ puzzles' = puzzles \cup
             {[ challenge |-> c, salt |-> s, expiresAt |-> expiresAt,
                difficulty |-> config.PuzzleDifficulty,
                hmac |-> HMAC(c, s, config.PuzzleDifficulty, expiresAt, config.JWTSecret) ]}
       /\ UNCHANGED <<now, config, solving, tokens, verifying, tokenUsage, starts, allowed, passed>>

\* Any challenge and salt, with a signature that some puzzle was handed out with; an
\* expiry that no puzzle has would not agree with it.
SolveRequest == [ challenge : Challenges, salt : Salts,
                  expiresAt : {p.expiresAt : p \in puzzles}, hmac : {p.hmac : p \in puzzles} ]

\* Mutants: the expiry is not looked at; the signature is not.
ValidIgnoringExpiry(req) ==
    req.hmac = HMAC(req.challenge, req.salt, config.PuzzleDifficulty, req.expiresAt,
                    config.JWTSecret)

ValidIgnoringHMAC(req) == now <= req.expiresAt

\* SolveHandler's own check of the expiry and ValidateHMACProtectedSolution, for a
\* hash that meets the difficulty of the configuration.
Valid(req) ==
    /\ now <= req.expiresAt
    /\ req.hmac = HMAC(req.challenge, req.salt, config.PuzzleDifficulty, req.expiresAt,
                       config.JWTSecret)

\* SolveHandler up to its verdict.  A client may send one solution many times.
SolveHandler(req) ==
    /\ Up
    /\ Cardinality(solving) < MaxSolving /\ Cardinality(tokens) < MaxTokens
    /\ Valid(req)
    /\ solving' = solving \cup {[request |-> req, at |-> now]}
    /\ UNCHANGED <<now, config, puzzles, tokens, verifying, tokenUsage, starts, allowed, passed>>

\* SolveHandler from jwt.Generate on: the challenge of the request is the ID of the
\* token.  A token also remembers, as history, the signature of the request and the
\* configuration it was made under, whose secret signs it.
Generate(s) ==
    /\ tokens' = tokens \cup
          {[ ID |-> s.request.challenge, exp |-> now + config.TokenExpiryMinutes,
             cfg |-> config, hmac |-> s.request.hmac ]}
    /\ solving' = solving \ {s}
    /\ UNCHANGED <<now, config, puzzles, verifying, tokenUsage, starts, allowed, passed>>

\* VerifyHandler up to jwt.Verify, with a token that is good.
Verify(tok) ==
    /\ Up
    /\ verifying[tok.ID] < MaxVerifying
    /\ tok.cfg.JWTSecret = config.JWTSecret
    /\ now < tok.exp
    /\ verifying' = [verifying EXCEPT ![tok.ID] = @ + 1]
    /\ UNCHANGED <<now, config, puzzles, solving, tokens, tokenUsage, starts, allowed, passed>>

\* Mutant: one use more than the limit.
CountOneMore(id) ==
    /\ verifying[id] > 0
    /\ verifying' = [verifying EXCEPT ![id] = @ - 1]
    /\ IF tokenUsage[id] > config.RequestsPerToken
       THEN UNCHANGED <<tokenUsage, passed>>
       ELSE /\ tokenUsage' = [tokenUsage EXCEPT ![id] = @ + 1]
            /\ passed' = [passed EXCEPT ![id] = @ + 1]
    /\ UNCHANGED <<now, config, puzzles, solving, tokens, starts, allowed>>

\* VerifyHandler under tokenMutex and its answer, 429 or 200: the count is read and
\* written under one lock, the token is not looked at again.
Count(id) ==
    /\ verifying[id] > 0
    /\ verifying' = [verifying EXCEPT ![id] = @ - 1]
    /\ IF tokenUsage[id] >= config.RequestsPerToken
       THEN UNCHANGED <<tokenUsage, passed>>
       ELSE /\ tokenUsage' = [tokenUsage EXCEPT ![id] = @ + 1]
            /\ passed' = [passed EXCEPT ![id] = @ + 1]
    /\ UNCHANGED <<now, config, puzzles, solving, tokens, starts, allowed>>

-------------------------------------------------------------------------------
\* The requests an accepted solution pays for.
Quota(cfg) == IF cfg.RequestsPerToken > 0 THEN cfg.RequestsPerToken ELSE 0

\* handlers.New in a process that begins to serve.
Start(cfg) ==
    /\ ~ Up
    /\ starts < MaxStarts
    /\ config' = cfg
    /\ starts' = starts + 1
    /\ allowed' = allowed + Quota(cfg)
    /\ UNCHANGED <<now, puzzles, solving, tokens, verifying, tokenUsage, passed>>

\* The process ends, and with it the requests it was serving.
Stop ==
    /\ config' = NoConfig
    /\ solving' = {}
    /\ verifying' = None /\ tokenUsage' = None
    /\ UNCHANGED <<now, puzzles, tokens, starts, allowed, passed>>

Tick ==
    /\ now < MaxTime
    /\ \A s \in solving : now < s.at + SolveTime
    /\ now' = now + 1
    /\ UNCHANGED <<config, puzzles, solving, tokens, verifying, tokenUsage, starts, allowed, passed>>

Request ==
    \/ \E c \in Challenges, s \in Salts : PuzzleHandler(c, s)
    \/ \E req \in SolveRequest : SolveHandler(req)
    \/ \E s \in solving : Generate(s)
    \/ \E tok \in tokens : Verify(tok)
    \/ \E id \in Challenges : Count(id)

Next == Request \/ Tick \/ Stop \/ \E cfg \in Configs : Start(cfg)

Spec == Init /\ [][Next]_vars

-------------------------------------------------------------------------------
(* Properties.                                                             *)

Signature == {Text(c, s, n) : c \in Challenges, s \in Salts, n \in Difficulties} \X Int \X Int

Puzzle == [challenge : Challenges, salt : Salts, expiresAt : Int, difficulty : Difficulties,
           hmac : Signature]

Token == [ID : Challenges, exp : Int, cfg : Configs, hmac : Signature]

\* Types of the variables; a token ID is used at most as often as X-RateLimit-Limit
\* says, so that X-RateLimit-Remaining is never negative; a service that is down
\* has nothing under way.
TypeOK ==
    /\ now \in Nat
    /\ config \in Configs \cup {NoConfig}
    /\ puzzles \subseteq Puzzle
    /\ solving \subseteq [request : SolveRequest, at : 0..now]
    /\ tokens \subseteq Token
    /\ verifying \in [Challenges -> Nat]
    /\ tokenUsage \in [Challenges -> Nat]
    /\ \A id \in Challenges : Up => tokenUsage[id] <= Quota(config)
    /\ ~ Up => solving = {} /\ verifying = None /\ tokenUsage = None
    /\ starts \in Nat /\ allowed \in Nat
    /\ passed \in [Challenges -> Nat]

\* Tokens of one ID share one count: however often their solution is sent and
\* exchanged, and however many requests are verified at once, RequestsPerToken of
\* them pass for each start of the service.  This is said of the ID, which is the
\* challenge of the request, and not of the puzzle: the text that is signed does not
\* tell where a challenge ends and the salt begins.
QuotaPerTokenID == \A id \in Challenges : passed[id] <= allowed

\* A solution does not work for ever: a token ends at most one token's life, that of
\* the configuration which signed it, after a puzzle with its signature has expired,
\* give or take the time to solve.
TokensEnd ==
    \A tok \in tokens : \E p \in puzzles :
        /\ p.hmac = tok.hmac
        /\ tok.exp <= p.expiresAt + SolveTime + tok.cfg.TokenExpiryMinutes

\* A token is signed under the difficulty and the secret that a puzzle with its
\* signature was handed out with, across starts with other configurations.
SolvedOnTheseTerms ==
    \A tok \in tokens : \E p \in puzzles :
        /\ p.difficulty = tok.cfg.PuzzleDifficulty
        /\ tok.hmac = HMAC(p.challenge, p.salt, p.difficulty, p.expiresAt, tok.cfg.JWTSecret)

===============================================================================
