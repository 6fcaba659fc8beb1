--------------------------- MODULE MCRemoteSigning ---------------------------
(***************************************************************************)
(* Small instances of RemoteSigning: two runs.                             *)
(***************************************************************************)
EXTENDS RemoteSigning, TLC

CONSTANTS a, b

MCRun == {a, b}

\* A configuration with a token file and a fixed port, and one with an inline
\* token, a credential and no endpoints of its own.
Stored == [wellFormed |-> TRUE, tokenFile |-> TRUE, inline |-> None, endpoints |-> TRUE, fixedPort |-> TRUE,
           credential |-> FALSE, interactive |-> TRUE]
Given  == [wellFormed |-> TRUE, tokenFile |-> FALSE, inline |-> 1, endpoints |-> FALSE, fixedPort |-> FALSE,
           credential |-> TRUE, interactive |-> FALSE]

\* A service whose credential takes a PIN, and one whose credential takes a
\* round of its own.
Explicit == [version |-> 2, digests |-> TRUE, endpoints |-> FALSE, credentials |-> 1, credential |-> "usable",
             oauth2 |-> FALSE, algorithms |-> {"pss", "ec"}, params |-> TRUE, expires |-> TRUE]
Rounds   == [Explicit EXCEPT !.oauth2 = TRUE, !.algorithms = {"rsa", "ec"}]

\* Services a run refuses, each for another reason.
Odd == {[Explicit EXCEPT !.version = 1], [Explicit EXCEPT !.digests = FALSE], [Explicit EXCEPT !.credentials = 0],
        [Explicit EXCEPT !.credentials = 2], [Explicit EXCEPT !.credential = "disabled"],
        [Explicit EXCEPT !.algorithms = {}],
        [Explicit EXCEPT !.algorithms = {"pss"}, !.params = FALSE]}

Both(x, y) == a :> x @@ b :> y
Of(config, service, kind, n) ==
    [config |-> config, service |-> service, kind |-> kind, signatures |-> n]

MCSetups ==
    {Of(Stored, Explicit, Both(x, "sign"), 1) : x \in {"login", "sign"}}
    \union {Of([Stored EXCEPT !.credential = TRUE], [Rounds EXCEPT !.credential = "disabled", !.expires = FALSE],
               Both("login", "sign"), 1)}
    \union {Of([Given EXCEPT !.credential = FALSE], service, Both("login", "sign"), 1) : service \in Odd}
    \union {Of([Given EXCEPT !.wellFormed = FALSE], Explicit, Both("login", "sign"), 1)}
    \union {Of(Given, service, Both("sign", "sign"), 2) : service \in {Explicit, Rounds}}
    \union {Of([Given EXCEPT !.interactive = TRUE], Rounds, Both("login", "sign"), 1),
            Of([Given EXCEPT !.interactive = TRUE, !.fixedPort = TRUE, !.endpoints = TRUE], Rounds,
               Both("sign", "sign"), 2)}

Pair == [token |-> 1, record |-> [state |-> "whole", expires |-> 2, refresh |-> 1, of |-> 1]]
MCStores == {[token |-> None, record |-> NoRecord], Pair}
==============================================================================
