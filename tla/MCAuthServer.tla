----------------------------- MODULE MCAuthServer -----------------------------
EXTENDS AuthServer, TLC

\* Two puzzles, and a challenge that takes a letter from the salt of the first: with
\* the shorter salt it makes the same text.
FewChallenges == {<<"a">>, <<"c">>, <<"a", "b">>}

FewSalts == {<<"b", "d">>, <<"d">>}

FewDrawn == {<< <<"a">>, <<"b", "d">> >>, << <<"c">>, <<"b", "d">> >>}

Concatenated(c, s, difficulty) == c \o s \o <<difficulty>>

\* One request and one minute, where the code has 100 and 10.
FewDefaults ==
    [ JWTSecret |-> 0, PuzzleDifficulty |-> 1,
      RequestsPerToken |-> 1, TokenExpiryMinutes |-> 1 ]

\* No secret and no requests, which are refused; another life and another difficulty
\* under the same secret.
FewChanges ==
    { [RequestsPerToken |-> 2],
      [JWTSecret |-> 1, RequestsPerToken |-> 0],
      [JWTSecret |-> 1],
      [JWTSecret |-> 1, TokenExpiryMinutes |-> 2, PuzzleDifficulty |-> 2] }

\* Another secret.
File == [FewDefaults EXCEPT !.JWTSecret = 2, !.RequestsPerToken = 2]

FewFiles == {NoConfig, File}

FewConfigs == {New(changes) : changes \in FewChanges} \cup {File}

===============================================================================
