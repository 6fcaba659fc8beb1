------------------------------ MODULE Transport ------------------------------
(***************************************************************************)
(* The fetches of one run (openszigno-cli online/mod.rs and pinned.rs):    *)
(* the redirect loop, in which every hop is vetted by the policy of        *)
(* Destination and pinned before it is sent, and the resolver that only    *)
(* knows the last pin.                                                     *)
(*                                                                         *)
(* The name server answers every lookup anew, and the peer chooses status, *)
(* redirect and size of its answers.                                       *)
(***************************************************************************)
EXTENDS Destination, FiniteSets

CONSTANTS
    Plans,          \* the fetches of a run, in order: [url, request]
    Targets,        \* the Location headers peers send, but for relative ones
    Lookups,        \* what a name may resolve to: sets of addresses
    AllowPrivate,   \* --online-allow-private: the values tried
    Proxied,        \* --online-proxy: the values tried
    MaxRedirects    \* MAX_REDIRECTS, 3

\* Where no address is spelled, or it is the proxy that dials: <<>>.
Addresses == {<<>>} \union AddressV4 \union AddressV6
Urls      == [scheme : STRING, user : BOOLEAN, host : STRING, address : Addresses, port : Int]
Requests  == [credentials : BOOLEAN, anyStatus : BOOLEAN]

ASSUME TransportAssumption ==
    /\ Plans \subseteq Seq([url : Urls, request : Requests])
    /\ \A target \in Targets : target.url \in Urls
    /\ Lookups \subseteq SUBSET (AddressV4 \union AddressV6)
    /\ AllowPrivate \subseteq BOOLEAN /\ Proxied \subseteq BOOLEAN
    /\ MaxRedirects \in Nat

VARIABLES
    options,     \* allowPrivate and proxied
    todo,        \* the fetches still to make
    pc,
    fetch,       \* the first URL, the request [credentials, anyStatus], the current URL and its hop
    pins,        \* the endpoint the resolver knows, with its addresses
    answer,      \* what the last lookup of the policy gave
    contacts,    \* what this fetch has sent so far
    outcome

vars == <<options, todo, pc, fetch, pins, answer, contacts, outcome>>

Idle     == [url |-> <<>>, request |-> <<>>, current |-> <<>>, hop |-> 0]
NoPins   == [host |-> "", address |-> <<>>, port |-> NoPort, addresses |-> {}]
-----------------------------------------------------------------------------
End(how) ==
    /\ pc' = "idle" /\ outcome' = how
    /\ UNCHANGED <<options, todo, fetch, pins, contacts>>

\* post_der, post_json, post_form and the GET of a CRL: what differs is
\* whether credentials travel and whether any status is an answer.
Request ==
    /\ pc = "idle" /\ todo # <<>>
    /\ LET next == Head(todo)
       IN  fetch' = [url |-> next.url, request |-> next.request, current |-> next.url, hop |-> 0]
    /\ todo' = Tail(todo)
    /\ pc' = "vet" /\ outcome' = "none" /\ contacts' = <<>> /\ answer' = {}
    /\ UNCHANGED <<options, pins>>

\* A slip: the credential rule is applied to the URL that was asked for.
InsecureAtFirst == fetch.request.credentials /\ fetch.hop = 0 /\ fetch.current.scheme # "https"

Insecure == fetch.request.credentials /\ fetch.current.scheme # "https"

\* The hop passes the credential rule and the policy, and its addresses are
\* pinned.  With no host at all there is no fetch.
Vet ==
    /\ pc = "vet"
    /\ \E looked \in IF IsLiteral(fetch.current) THEN {{}} ELSE Lookups :
        /\ answer' = looked
        /\ LET vetted == Permitted(fetch.current, options.allowPrivate, looked)
           IN  IF fetch.current.scheme = "none" \/ ~Named(fetch.current) THEN End("invalid")
               ELSE IF Insecure /\ ~options.allowPrivate THEN End("plaintext_credentials")
               ELSE IF vetted.refusal # "none" THEN End(vetted.refusal)
               ELSE IF Insecure /\ ~LoopbackOnly(vetted.addresses) THEN End("plaintext_credentials")
               ELSE /\ pins' = [host |-> fetch.current.host, address |-> fetch.current.address,
                                port |-> PortOf(fetch.current), addresses |-> vetted.addresses]
                    /\ pc' = "send"
                    /\ UNCHANGED <<options, todo, fetch, contacts, outcome>>

\* A slip: a name is looked up again when it is dialled.
DialledAfresh(url) == IF IsLiteral(url) THEN {url.address} ELSE UNION Lookups

\* The addresses the resolver answers with: those pinned for this endpoint.
Dialled(url) ==
    IF pins.host = url.host /\ pins.address = url.address /\ pins.port = PortOf(url)
    THEN pins.addresses ELSE {}

\* Through a proxy it is the proxy that dials.
ProxyAddress == <<>>

Send ==
    /\ pc = "send"
    /\ \/ \E how \in {"transport", "timeout"} : End(how)
       \/ \E address \in IF options.proxied THEN {ProxyAddress} ELSE Dialled(fetch.current) :
            /\ contacts' = Append(contacts, [url |-> fetch.current, address |-> address, answer |-> answer,
                                             credentials |-> fetch.request.credentials])
            /\ pc' = "answer"
            /\ UNCHANGED <<options, todo, fetch, pins, outcome>>
    /\ UNCHANGED answer

\* A slip: another port of the host is the same host.
SameName(url) == url.host = fetch.url.host /\ url.address = fetch.url.address

\* "The same host" is the authority of the URL that was asked for.
SameHost(url) == Authority(url) = Authority(fetch.url)

\* Where a redirect leads, or why it does not.
RedirectRefusal(next) ==
    IF ~SameHost(next) \/ next.scheme \notin {"http", "https"} THEN "redirect"
    ELSE IF fetch.current.scheme = "https" /\ next.scheme = "http" THEN "redirect_downgrade"
    ELSE "none"

MayFollow == fetch.hop < MaxRedirects

Redirected ==
    /\ pc = "answer"
    /\ \E location \in Targets \union {[kind |-> "relative"], [kind |-> "none"]} :
        LET next == IF location.kind = "relative" THEN fetch.current ELSE location.url
        IN  IF location.kind = "none" THEN End("redirect")
            ELSE IF RedirectRefusal(next) # "none" THEN End(RedirectRefusal(next))
            ELSE IF ~MayFollow THEN End("redirect")
            ELSE /\ fetch' = [fetch EXCEPT !.current = next, !.hop = @ + 1]
                 /\ pc' = "vet"
                 /\ UNCHANGED <<options, todo, pins, contacts, outcome>>
    /\ UNCHANGED answer

\* Any other answer: its status, its body within the limit or not, or a timeout
\* before it is there.
Read ==
    /\ pc = "answer"
    /\ \E status \in {"200", "other"}, body \in {"read", "too_large", "timeout", "transport"} :
        End(IF status # "200" /\ ~fetch.request.anyStatus THEN "http_status"
            ELSE IF body = "read" THEN "ok" ELSE body)
    /\ UNCHANGED answer

Init ==
    /\ options \in [allowPrivate : AllowPrivate, proxied : Proxied]
    /\ pc = "idle" /\ fetch = Idle /\ pins = NoPins /\ answer = {}
    /\ todo \in Plans
    /\ contacts = <<>> /\ outcome = "none"

Done == pc = "idle" /\ todo = <<>> /\ UNCHANGED vars

Next == Request \/ Vet \/ Send \/ Redirected \/ Read \/ Done

Spec == Init /\ [][Next]_vars
-----------------------------------------------------------------------------
Contacts == [url : Urls, address : Addresses, answer : SUBSET Addresses, credentials : BOOLEAN]

\* What a fetch is about is there while it is under way.
TypeOK ==
    /\ options \in [allowPrivate : BOOLEAN, proxied : BOOLEAN]
    /\ todo \in Seq([url : Urls, request : Requests])
    /\ pc \in {"idle", "vet", "send", "answer"}
    /\ pc # "idle" => fetch \in [url : Urls, request : Requests, current : Urls, hop : 0..MaxRedirects]
    /\ pins.addresses \subseteq Addresses
    /\ answer \subseteq Addresses
    /\ contacts \in Seq(Contacts)

\* Without a proxy, what is connected to is what the policy's own lookup for
\* this very hop gave, or the address the URL spells: there is no second lookup
\* and no pin left over from an earlier hop or fetch (pinned.rs).
ConnectsWhereVetted ==
    ~options.proxied => \A i \in DOMAIN contacts :
        LET c == contacts[i] IN c.address \in (IF IsLiteral(c.url) THEN {c.url.address} ELSE c.answer)

\* The policy is the list of ranges its documentation gives, in whatever form an
\* address is written: without --online-allow-private and a proxy nothing
\* listed is connected to, and no address is refused that is not listed.
PolicyIsTheListedOne ==
    /\ ~options.allowPrivate /\ ~options.proxied =>
         \A i \in DOMAIN contacts : ~IsListed(contacts[i].address)
    /\ outcome = "address" =>
         \E a \in answer \union {fetch.current.address} : a # <<>> /\ IsListed(a)

\* Credentials travel over https, or to this machine alone and only where
\* --online-allow-private says so, on every hop (request).  A proxy in between
\* sees what it is sent.
CredentialsAreProtected ==
    \A i \in DOMAIN contacts :
        LET c == contacts[i]
        IN  c.credentials =>
              \/ c.url.scheme = "https"
              \/ options.allowPrivate /\ (options.proxied \/ IsLoopback(c.address))

\* A fetch stays with the authority it was for, is sent at most once and once
\* more per redirect, and never goes on in the clear what began over https
\* (redirect_target, MAX_REDIRECTS).
StaysWithItsHost ==
    /\ Len(contacts) <= MaxRedirects + 1
    /\ \A i \in DOMAIN contacts : Authority(contacts[i].url) = Authority(fetch.url)
    /\ \A i \in DOMAIN contacts : \A j \in 1..i :
         contacts[j].url.scheme = "https" => contacts[i].url.scheme = "https"

\* A fetch goes to its own authority, at an address vetted for it.
GoesWhereVetted == ConnectsWhereVetted /\ StaysWithItsHost
=============================================================================
