--------------------------- MODULE Transport_proofs ---------------------------
(***************************************************************************)
(* For every plan of fetches, name server and peer: a fetch is sent to the *)
(* authority it was for, at an address the policy vetted for that very     *)
(* hop, no more often than the redirect limit allows; and credentials      *)
(* travel protected on every hop.                                          *)
(*                                                                         *)
(* The invariant says what Vet has established once the fetch may be sent. *)
(* Nothing between Vet and Send may disturb it: it relates the pins, which *)
(* only Vet writes, to the URL, which only Request and Redirected do.      *)
(***************************************************************************)
EXTENDS Transport, SequenceTheorems, TLAPS

\* The addresses of a URL: the one it spells, or what its name resolved to.
Reached(url, looked) == IF IsLiteral(url) THEN {url.address} ELSE looked

\* What the policy allows to be contacted is what the host is, or resolved to.
Pinned ==
    pc = "send" =>
        /\ pins.host = fetch.current.host /\ pins.address = fetch.current.address
        /\ pins.port = PortOf(fetch.current)
        /\ pins.addresses = Reached(fetch.current, answer)

\* Credentials that may be sent in the clear stay on this machine.
Guarded ==
    (pc = "send" /\ Insecure) => options.allowPrivate /\ LoopbackOnly(pins.addresses)

\* One contact a hop, all of them with one authority.
Counted ==
    CASE pc \in {"vet", "send"} -> Len(contacts) = fetch.hop
      [] pc = "answer"          -> Len(contacts) = fetch.hop + 1
      [] pc = "idle"            -> Len(contacts) <= MaxRedirects + 1

AtHome == pc # "idle" => Authority(fetch.current) = Authority(fetch.url)

\* What was sent over https so far is still over https.
StillSecure ==
    pc # "idle" => \A i \in DOMAIN contacts :
        contacts[i].url.scheme = "https" => fetch.current.scheme = "https"

\* What Permitted returns, when it refuses nothing.
LEMMA PermittedAddresses ==
    ASSUME NEW url \in Urls, NEW allow, NEW looked,
           Permitted(url, allow, looked).refusal = "none"
    PROVE  Permitted(url, allow, looked).addresses = Reached(url, looked)
<1>1. \/ \E why \in {"scheme", "no_host", "userinfo", "localhost", "address", "unresolvable"} :
            Permitted(url, allow, looked) = Refused(why)
      \/ Permitted(url, allow, looked) = [refusal |-> "none", addresses |-> Reached(url, looked)]
    BY Zenon DEF Permitted, Reached
<1>2. \A why \in {"scheme", "no_host", "userinfo", "localhost", "address", "unresolvable"} :
        Refused(why).refusal # "none"
    BY DEF Refused
<1> QED
    BY <1>1, <1>2

LEMMA TypeStep ==
    ASSUME TypeOK, Next
    PROVE  TypeOK'
<1>. USE TransportAssumption DEF TypeOK
<1>1. CASE Request
    <2>1. /\ Head(todo) \in [url : Urls, request : Requests]
          /\ Tail(todo) \in Seq([url : Urls, request : Requests])
        BY <1>1, HeadTailProperties DEF Request
    <2> QED
        BY <1>1, <2>1 DEF Request
<1>2. CASE Vet
    <2>1. PICK looked \in IF IsLiteral(fetch.current) THEN {{}} ELSE Lookups :
            /\ answer' = looked
            /\ \/ \E how : End(how)
               \/ /\ Permitted(fetch.current, options.allowPrivate, looked).refusal = "none"
                  /\ pins' = [host |-> fetch.current.host, address |-> fetch.current.address,
                              port |-> PortOf(fetch.current),
                              addresses |-> Permitted(fetch.current, options.allowPrivate, looked).addresses]
                  /\ pc' = "send"
                  /\ UNCHANGED <<options, todo, fetch, contacts, outcome>>
        BY <1>2, Zenon DEF Vet
    <2>2. looked \subseteq Addresses /\ fetch.current \in Urls
        <3>1. looked = {} \/ looked \in Lookups
            BY <2>1
        <3> QED
            BY <1>2, <3>1 DEF Vet, Addresses
    <2>3. CASE \E how : End(how)
        BY <2>1, <2>2, <2>3 DEF End
    <2>4. CASE ~\E how : End(how)
        <3>1. Permitted(fetch.current, options.allowPrivate, looked).addresses
                = Reached(fetch.current, looked)
            <4>1. Permitted(fetch.current, options.allowPrivate, looked).refusal = "none"
                BY <2>1, <2>4, Zenon
            <4> QED
                BY <2>2, <4>1, PermittedAddresses, Zenon
        <3>2. fetch.current.address \in Addresses
            BY <2>2 DEF Urls
        <3>3. Permitted(fetch.current, options.allowPrivate, looked).addresses \subseteq Addresses
            BY <2>2, <3>1, <3>2 DEF Reached
        <3> QED
            BY <1>2, <2>1, <2>2, <2>4, <3>3 DEF Vet
    <2> QED
        BY <2>3, <2>4
<1>3. CASE Send
    <2>1. CASE \E how : End(how)
        BY <1>3, <2>1 DEF Send, End
    <2>2. CASE ~\E how : End(how)
        <3>1. PICK address \in IF options.proxied THEN {ProxyAddress} ELSE Dialled(fetch.current) :
                /\ contacts' = Append(contacts, [url |-> fetch.current, address |-> address, answer |-> answer,
                                                 credentials |-> fetch.request.credentials])
                /\ pc' = "answer"
                /\ UNCHANGED <<options, todo, fetch, pins, answer>>
            BY <1>3, <2>2 DEF Send
        <3>2. address \in Addresses
            <4>1. <<>> \in Addresses
                BY DEF Addresses
            <4> QED
                BY <3>1, <4>1 DEF Dialled, ProxyAddress
        <3>3. pc = "send" /\ fetch.current \in Urls /\ fetch.request.credentials \in BOOLEAN
            BY <1>3 DEF Send, Requests
        <3>4. [url |-> fetch.current, address |-> address, answer |-> answer,
               credentials |-> fetch.request.credentials] \in Contacts
            BY <3>2, <3>3 DEF Contacts
        <3>5. contacts' \in Seq(Contacts)
            BY <3>1, <3>4
        <3> QED
            BY <3>1, <3>3, <3>5
    <2> QED
        BY <2>1, <2>2
<1>4. CASE Redirected
    <2>1. CASE \E how : End(how)
        BY <1>4, <2>1 DEF Redirected, End
    <2>2. CASE ~\E how : End(how)
        <3>1. PICK location \in Targets \union {[kind |-> "relative"], [kind |-> "none"]} :
                LET next == IF location.kind = "relative" THEN fetch.current ELSE location.url
                IN  /\ location.kind # "none" /\ MayFollow
                    /\ fetch' = [fetch EXCEPT !.current = next, !.hop = @ + 1]
                    /\ pc' = "vet"
                    /\ UNCHANGED <<options, todo, pins, contacts, answer>>
            BY <1>4, <2>2, Zenon DEF Redirected
        <3>2. pc = "answer"
            BY <1>4 DEF Redirected
        <3>3. fetch \in [url : Urls, request : Requests, current : Urls, hop : 0..MaxRedirects]
            BY <3>2
        <3>4. (IF location.kind = "relative" THEN fetch.current ELSE location.url) \in Urls
            BY <3>1, <3>3
        <3>5. fetch.hop + 1 \in 0..MaxRedirects
            BY <3>1, <3>3 DEF MayFollow
        <3>6. fetch' \in [url : Urls, request : Requests, current : Urls, hop : 0..MaxRedirects]
            BY <3>1, <3>3, <3>4, <3>5
        <3> QED
            BY <3>1, <3>6
    <2> QED
        BY <2>1, <2>2
<1>5. CASE Read
    BY <1>5 DEF Read, End
<1>6. CASE Done
    BY <1>6 DEF Done, vars
<1> QED
    BY <1>1, <1>2, <1>3, <1>4, <1>5, <1>6 DEF Next

THEOREM Typing == Spec => []TypeOK
<1>1. Init => TypeOK
    <2>. SUFFICES ASSUME Init PROVE TypeOK
        OBVIOUS
    <2>1. todo \in Seq([url : Urls, request : Requests]) /\ options \in [allowPrivate : BOOLEAN, proxied : BOOLEAN]
        BY TransportAssumption DEF Init
    <2> QED
        BY <2>1, EmptySeq DEF Init, TypeOK, NoPins
<1>2. TypeOK /\ [Next]_vars => TypeOK'
    <2>1. ASSUME TypeOK, UNCHANGED vars PROVE TypeOK'
        BY <2>1 DEF TypeOK, vars
    <2> QED
        BY <2>1, TypeStep
<1> QED
    BY <1>1, <1>2, PTL DEF Spec

-----------------------------------------------------------------------------
(* Each of the remaining conjuncts, over the steps that can disturb it.    *)

\* What a step of the loop leaves of a fetch: it stops, is vetted, sent or
\* sent on.  The properties need no more of the actions than this.
Stopped == pc' = "idle" /\ UNCHANGED <<options, fetch, contacts>>

Begun ==
    /\ pc = "idle" /\ pc' = "vet" /\ contacts' = <<>>
    /\ fetch'.hop = 0 /\ fetch'.current = fetch'.url
    /\ UNCHANGED options

Vetted ==
    /\ pc = "vet" /\ pc' = "send"
    /\ pins'.host = fetch.current.host /\ pins'.address = fetch.current.address
    /\ pins'.port = PortOf(fetch.current)
    /\ pins'.addresses = Reached(fetch.current, answer')
    /\ Insecure => options.allowPrivate /\ LoopbackOnly(pins'.addresses)
    /\ UNCHANGED <<options, fetch, contacts>>

Sent ==
    /\ pc = "send" /\ pc' = "answer"
    /\ \E address \in IF options.proxied THEN {ProxyAddress} ELSE Dialled(fetch.current) :
          contacts' = Append(contacts, [url |-> fetch.current, address |-> address, answer |-> answer,
                                        credentials |-> fetch.request.credentials])
    /\ UNCHANGED <<options, fetch>>

Followed ==
    /\ pc = "answer" /\ pc' = "vet"
    /\ fetch'.hop = fetch.hop + 1 /\ fetch'.hop <= MaxRedirects
    /\ fetch'.url = fetch.url /\ fetch'.request = fetch.request
    /\ Authority(fetch.current) = Authority(fetch.url) => Authority(fetch'.current) = Authority(fetch.url)
    /\ fetch.current.scheme = "https" => fetch'.current.scheme = "https"
    /\ UNCHANGED <<options, contacts>>

LEMMA Steps ==
    ASSUME TypeOK, [Next]_vars
    PROVE  Stopped \/ Begun \/ Vetted \/ Sent \/ Followed \/ UNCHANGED vars
<1>. USE TransportAssumption
<1>1. CASE Request
    BY <1>1 DEF Request, Begun
<1>2. CASE Vet
    <2>1. PICK looked : answer' = looked
            /\ \/ \E how : End(how)
               \/ /\ Permitted(fetch.current, options.allowPrivate, looked).refusal = "none"
                  /\ Insecure => options.allowPrivate
                  /\ Insecure => LoopbackOnly(Permitted(fetch.current, options.allowPrivate, looked).addresses)
                  /\ pins' = [host |-> fetch.current.host, address |-> fetch.current.address,
                              port |-> PortOf(fetch.current),
                              addresses |-> Permitted(fetch.current, options.allowPrivate, looked).addresses]
                  /\ pc' = "send"
                  /\ UNCHANGED <<options, todo, fetch, contacts, outcome>>
        BY <1>2, Zenon DEF Vet
    <2>2. CASE \E how : End(how)
        BY <2>2 DEF End, Stopped
    <2>3. CASE ~\E how : End(how)
        <3>1. pc = "vet" /\ fetch.current \in Urls
            BY <1>2 DEF Vet, TypeOK
        <3>2. Permitted(fetch.current, options.allowPrivate, looked).refusal = "none"
            BY <2>1, <2>3, Zenon
        <3>3. Permitted(fetch.current, options.allowPrivate, looked).addresses
                = Reached(fetch.current, answer')
            BY <2>1, <3>1, <3>2, PermittedAddresses, Zenon
        <3>4. /\ pins'.addresses = Reached(fetch.current, answer')
              /\ pins'.addresses = Permitted(fetch.current, options.allowPrivate, looked).addresses
            BY <2>1, <2>3, <3>3
        <3>5. Insecure => options.allowPrivate /\ LoopbackOnly(pins'.addresses)
            BY <2>1, <2>3, <3>4, Zenon
        <3> QED
            BY <2>1, <2>3, <3>1, <3>4, <3>5 DEF Vetted
    <2> QED
        BY <2>2, <2>3
<1>3. CASE Send
    BY <1>3, Zenon DEF Send, Sent, End, Stopped
<1>4. CASE Redirected
    <2>1. CASE \E how : End(how)
        BY <2>1 DEF End, Stopped
    <2>2. CASE ~\E how : End(how)
        <3>1. PICK next :
                /\ next = fetch.current \/ RedirectRefusal(next) = "none"
                /\ MayFollow
                /\ fetch' = [fetch EXCEPT !.current = next, !.hop = @ + 1]
                /\ pc' = "vet"
                /\ UNCHANGED <<options, todo, pins, contacts>>
            BY <1>4, <2>2, Zenon DEF Redirected
        <3>2. pc = "answer" /\ fetch \in [url : Urls, request : Requests, current : Urls, hop : 0..MaxRedirects]
            BY <1>4 DEF Redirected, TypeOK
        <3>3. DEFINE moved == [fetch EXCEPT !.current = next]
        <3>4. fetch' = [moved EXCEPT !.hop = fetch.hop + 1]
            BY <3>1, Zenon
        <3> QED
            BY <3>1, <3>2, <3>4 DEF MayFollow, RedirectRefusal, SameHost, Followed
    <2> QED
        BY <2>1, <2>2
<1>5. CASE Read
    BY <1>5 DEF Read, End, Stopped
<1> QED
    BY <1>1, <1>2, <1>3, <1>4, <1>5 DEF Next, Done

\* A sequence extended by one: the old contacts and the new one.
LEMMA Extended ==
    ASSUME NEW S, NEW seq \in Seq(S), NEW elt \in S
    PROVE  /\ Len(Append(seq, elt)) = Len(seq) + 1
           /\ DOMAIN Append(seq, elt) = 1 .. Len(seq) + 1
           /\ \A i \in DOMAIN Append(seq, elt) :
                 \/ i \in DOMAIN seq /\ Append(seq, elt)[i] = seq[i]
                 \/ i = Len(seq) + 1 /\ Append(seq, elt)[i] = elt
BY AppendProperties

Props == GoesWhereVetted /\ CredentialsAreProtected
Loop  == Pinned /\ Guarded /\ Counted /\ AtHome /\ StillSecure

\* Sending appends one contact: with the authority of the fetch, at a pinned
\* address or through the proxy, and protected if it carries credentials.
LEMMA SentIsSound ==
    ASSUME TypeOK, TypeOK', Loop, Props, Sent
    PROVE  Props' /\ Counted' /\ AtHome' /\ StillSecure'
<1>. DEFINE new(address) == [url |-> fetch.current, address |-> address, answer |-> answer,
                             credentials |-> fetch.request.credentials]
<1>1. PICK address \in IF options.proxied THEN {ProxyAddress} ELSE Dialled(fetch.current) :
        contacts' = Append(contacts, new(address))
    BY DEF Sent
<1>2. /\ pc = "send" /\ pc' = "answer" /\ options' = options /\ fetch' = fetch
      /\ fetch \in [url : Urls, request : Requests, current : Urls, hop : 0..MaxRedirects]
      /\ contacts \in Seq(Contacts)
    BY DEF Sent, TypeOK
<1>3. new(address) \in Contacts
    <2>1. address \in Addresses
        <3>1. <<>> \in Addresses
            BY DEF Addresses
        <3> QED
            BY <1>1, <3>1 DEF Dialled, ProxyAddress, TypeOK
    <2> QED
        BY <1>2, <2>1 DEF TypeOK, Contacts, Requests
<1>4. /\ Len(contacts') = Len(contacts) + 1
      /\ DOMAIN contacts' = 1 .. Len(contacts) + 1
      /\ \A i \in DOMAIN contacts' :
            \/ i \in DOMAIN contacts /\ contacts'[i] = contacts[i]
            \/ i = Len(contacts) + 1 /\ contacts'[i] = new(address)
    BY <1>1, <1>2, <1>3, Extended
<1>5. Len(contacts) = fetch.hop /\ fetch.hop \in 0..MaxRedirects /\ MaxRedirects \in Nat
    BY <1>2, TransportAssumption DEF Loop, Counted
<1>6. ConnectsWhereVetted'
    <2>1. ~options.proxied => address \in Reached(fetch.current, answer)
        BY <1>1, <1>2 DEF Dialled, Loop, Pinned
    <2>2. ASSUME ~options.proxied, NEW i \in DOMAIN contacts'
          PROVE  contacts'[i].address \in Reached(contacts'[i].url, contacts'[i].answer)
        <3>1. CASE i \in DOMAIN contacts /\ contacts'[i] = contacts[i]
            BY <2>2, <3>1 DEF ConnectsWhereVetted, Props, GoesWhereVetted, Reached
        <3>2. CASE contacts'[i] = new(address)
            BY <2>1, <2>2, <3>2
        <3> QED
            BY <1>4, <3>1, <3>2
    <2> QED
        BY <1>2, <2>2 DEF ConnectsWhereVetted, Reached
<1>7. StaysWithItsHost'
    <2>1. Len(contacts') <= MaxRedirects + 1
        BY <1>4, <1>5
    <2>2. \A i \in DOMAIN contacts' : Authority(contacts'[i].url) = Authority(fetch'.url)
        BY <1>2, <1>4 DEF Props, GoesWhereVetted, StaysWithItsHost, Loop, AtHome
    <2>3. ASSUME NEW i \in DOMAIN contacts', NEW j \in 1..i, contacts'[j].url.scheme = "https"
          PROVE  contacts'[i].url.scheme = "https"
        <3>1. j \in DOMAIN contacts' /\ i \in Nat /\ j \in Nat /\ DOMAIN contacts = 1..Len(contacts) /\ Len(contacts) \in Nat
            BY <1>2, <1>4, <1>5, <2>3
        <3>2. CASE i \in DOMAIN contacts
            <4>1. j \in DOMAIN contacts /\ contacts'[j] = contacts[j] /\ contacts'[i] = contacts[i]
                BY <1>4, <3>1, <3>2
            <4> QED
                BY <2>3, <3>2, <4>1 DEF Props, GoesWhereVetted, StaysWithItsHost
        <3>3. CASE i = Len(contacts) + 1 /\ contacts'[i] = new(address)
            BY <1>2, <1>4, <2>3, <3>1, <3>3 DEF Loop, StillSecure
        <3> QED
            BY <1>4, <3>2, <3>3
    <2> QED
        BY <2>1, <2>2, <2>3 DEF StaysWithItsHost
<1>8. CredentialsAreProtected'
    <2>1. ASSUME fetch.request.credentials, fetch.current.scheme # "https"
          PROVE  options.allowPrivate /\ (options.proxied \/ IsLoopback(address))
        BY <1>1, <1>2, <2>1 DEF Loop, Guarded, Insecure, LoopbackOnly, Dialled
    <2> QED
        BY <1>2, <1>4, <2>1 DEF CredentialsAreProtected, Props
<1>9. Counted' /\ AtHome' /\ StillSecure'
    <2>1. Counted'
        BY <1>2, <1>4, <1>5 DEF Counted
    <2>2. AtHome'
        BY <1>2 DEF AtHome, Loop
    <2>3. StillSecure'
        BY <1>2, <1>4 DEF StillSecure, Loop
    <2> QED
        BY <2>1, <2>2, <2>3
<1> QED
    BY <1>6, <1>7, <1>8, <1>9 DEF Props, GoesWhereVetted

LEMMA InvStep ==
    ASSUME TypeOK, TypeOK', Loop, Props, [Next]_vars
    PROVE  Loop' /\ Props'
<1>1. CASE Stopped
    <2>1. Props'
        BY <1>1 DEF Stopped, Props, GoesWhereVetted, ConnectsWhereVetted, StaysWithItsHost,
                    CredentialsAreProtected
    <2>2. Counted'
        BY <1>1 DEF Stopped, Counted, Props, GoesWhereVetted, StaysWithItsHost
    <2> QED
        BY <1>1, <2>1, <2>2 DEF Stopped, Loop, Pinned, Guarded, AtHome, StillSecure
<1>2. CASE Begun
    <2>1. contacts' = <<>> /\ DOMAIN contacts' = {} /\ Len(contacts') = 0 /\ MaxRedirects \in Nat
        BY <1>2, EmptySeq, TransportAssumption DEF Begun
    <2>2. Props'
        BY <1>2, <2>1 DEF Begun, Props, GoesWhereVetted, ConnectsWhereVetted, StaysWithItsHost,
                          CredentialsAreProtected
    <2> QED
        BY <1>2, <2>1, <2>2 DEF Begun, Loop, Pinned, Guarded, Counted, AtHome, StillSecure
<1>3. CASE Vetted
    <2>1. Props'
        BY <1>3 DEF Vetted, Props, GoesWhereVetted, ConnectsWhereVetted, StaysWithItsHost,
                    CredentialsAreProtected
    <2>2. Pinned' /\ Guarded'
        BY <1>3 DEF Vetted, Pinned, Guarded, Insecure
    <2> QED
        BY <1>3, <2>1, <2>2 DEF Vetted, Loop, Counted, AtHome, StillSecure
<1>4. CASE Sent
    <2>1. Props' /\ Counted' /\ AtHome' /\ StillSecure'
        BY <1>4, SentIsSound
    <2> QED
        BY <1>4, <2>1 DEF Sent, Loop, Pinned, Guarded
<1>5. CASE Followed
    <2>1. Props'
        BY <1>5 DEF Followed, Props, GoesWhereVetted, ConnectsWhereVetted, StaysWithItsHost,
                    CredentialsAreProtected
    <2> QED
        BY <1>5, <2>1 DEF Followed, Loop, Pinned, Guarded, Counted, AtHome, StillSecure
<1>6. CASE UNCHANGED vars
    <2>1. Props'
        BY <1>6 DEF vars, Props, GoesWhereVetted, ConnectsWhereVetted, StaysWithItsHost,
                    CredentialsAreProtected
    <2> QED
        BY <1>6, <2>1 DEF vars, Loop, Pinned, Guarded, Counted, AtHome, StillSecure, Insecure
<1> QED
    BY <1>1, <1>2, <1>3, <1>4, <1>5, <1>6, Steps

LEMMA InvStart ==
    ASSUME Init
    PROVE  Loop /\ Props
<1>1. pc = "idle" /\ contacts = <<>> /\ DOMAIN contacts = {} /\ Len(contacts) = 0 /\ MaxRedirects \in Nat
    BY EmptySeq, TransportAssumption DEF Init
<1> QED
    BY <1>1 DEF Loop, Pinned, Guarded, Counted, AtHome, StillSecure, Props, GoesWhereVetted,
                ConnectsWhereVetted, StaysWithItsHost, CredentialsAreProtected

\* Every fetch goes to its own authority, at an address that was vetted for
\* that very hop (pinned.rs), as often as MAX_REDIRECTS allows.
THEOREM Destinations == Spec => []GoesWhereVetted
<1>1. Init => Loop /\ Props
    BY InvStart
<1>2. Loop /\ Props /\ TypeOK /\ TypeOK' /\ [Next]_vars => Loop' /\ Props'
    BY InvStep
<1>3. Props => GoesWhereVetted
    BY DEF Props
<1> QED
    BY <1>1, <1>2, <1>3, Typing, PTL DEF Spec

\* Credentials travel over https, or within this machine where that is
\* allowed, on the first hop and on every other (request in online/mod.rs).
THEOREM Credentials == Spec => []CredentialsAreProtected
<1>1. Init => Loop /\ Props
    BY InvStart
<1>2. Loop /\ Props /\ TypeOK /\ TypeOK' /\ [Next]_vars => Loop' /\ Props'
    BY InvStep
<1>3. Props => CredentialsAreProtected
    BY DEF Props
<1> QED
    BY <1>1, <1>2, <1>3, Typing, PTL DEF Spec

-----------------------------------------------------------------------------
(* The policy and the list.  An address lies in a range when each of its   *)
(* parts has the bits the prefix fixes; from there on the two are          *)
(* arithmetic on octets and segments.                                      *)

\* The first `bits` bits of two parts `width` wide are the same.
Same(x, y, bits, width) == x \div 2 ^ (width - bits) = y \div 2 ^ (width - bits)

LEMMA OctetBits ==
    ASSUME NEW x, NEW y
    PROVE  /\ Same(x, y, 0, 8) <=> x \div 256 = y \div 256
           /\ Same(x, y, 8, 8) <=> x \div 1 = y \div 1
           /\ Same(x, y, 2, 8) <=> x \div 64 = y \div 64
           /\ Same(x, y, 4, 8) <=> x \div 16 = y \div 16
           /\ Same(x, y, 7, 8) <=> x \div 2 = y \div 2
BY DEF Same

LEMMA SegmentBits ==
    ASSUME NEW x, NEW y
    PROVE  /\ Same(x, y, 0, 16) <=> x \div 65536 = y \div 65536
           /\ Same(x, y, 16, 16) <=> x \div 1 = y \div 1
           /\ Same(x, y, 4, 16) <=> x \div 4096 = y \div 4096
           /\ Same(x, y, 7, 16) <=> x \div 512 = y \div 512
           /\ Same(x, y, 8, 16) <=> x \div 256 = y \div 256
           /\ Same(x, y, 10, 16) <=> x \div 64 = y \div 64
           /\ Same(x, y, 12, 16) <=> x \div 16 = y \div 16
           /\ Same(x, y, 15, 16) <=> x \div 2 = y \div 2
BY DEF Same

Octet(x)   == x \in Nat /\ x <= MaxOctet
Segment(x) == x \in Nat /\ x <= MaxSegment

\* Of a part nothing is fixed, or all of it.
LEMMA Octets ==
    ASSUME NEW x, Octet(x), NEW y, Octet(y)
    PROVE  Same(x, y, 0, 8) /\ (Same(x, y, 8, 8) <=> x = y)
BY DEF Same, Octet, MaxOctet

LEMMA Segments ==
    ASSUME NEW x, Segment(x), NEW y, Segment(y)
    PROVE  Same(x, y, 0, 16) /\ (Same(x, y, 16, 16) <=> x = y)
BY DEF Same, Segment, MaxSegment

LEMMA OctetsOf ==
    ASSUME NEW a \in AddressV4
    PROVE  Len(a) = 4 /\ Octet(a[1]) /\ Octet(a[2]) /\ Octet(a[3]) /\ Octet(a[4])
<1>1. a \in Seq(0..MaxOctet) /\ Len(a) = 4
    BY DEF AddressV4, IsV4
<1>2. ASSUME NEW i \in 1..4
      PROVE  Octet(a[i])
    <2>1. a[i] \in 0..MaxOctet
        BY <1>1, ElementOfSeq
    <2> QED
        BY <2>1 DEF Octet
<1> QED
    BY <1>1, <1>2

LEMMA SegmentsOf ==
    ASSUME NEW a \in AddressV6
    PROVE  Len(a) = 8 /\ \A i \in 1..8 : Segment(a[i])
<1>1. a \in Seq(0..MaxSegment) /\ Len(a) = 8
    BY DEF AddressV6, IsV6
<1>2. ASSUME NEW i \in 1..8
      PROVE  Segment(a[i])
    <2>1. a[i] \in 0..MaxSegment
        BY <1>1, ElementOfSeq
    <2> QED
        BY <2>1 DEF Segment
<1> QED
    BY <1>1, <1>2

LEMMA RangeOfOctets ==
    ASSUME NEW a \in AddressV4, NEW p, NEW q, NEW r, NEW s, NEW bits
    PROVE  InRange(a, Range4(<<p, q, r, s>>, bits)) <=>
             /\ Same(a[1], p, Fixed(bits, 1, 8), 8) /\ Same(a[2], q, Fixed(bits, 2, 8), 8)
             /\ Same(a[3], r, Fixed(bits, 3, 8), 8) /\ Same(a[4], s, Fixed(bits, 4, 8), 8)
<1>. DEFINE first == <<p, q, r, s>>
            matches(i) == Same(a[i], first[i], Fixed(bits, i, 8), 8)
<1>1. Len(a) = 4 /\ Len(first) = 4 /\ first[1] = p /\ first[2] = q /\ first[3] = r /\ first[4] = s
    BY OctetsOf
<1>2. InRange(a, Range4(first, bits)) <=> \A i \in 1..4 : matches(i)
    BY <1>1, Zenon DEF InRange, Range4, IsV4, Same
<1>3. (\A i \in 1..4 : matches(i)) <=> matches(1) /\ matches(2) /\ matches(3) /\ matches(4)
    <2>. HIDE DEF matches
    <2>1. 1..4 = {1, 2, 3, 4}
        OBVIOUS
    <2> QED
        BY <2>1, Zenon
<1> QED
    BY <1>1, <1>2, <1>3, Zenon

LEMMA RangeOfSegments ==
    ASSUME NEW a \in AddressV6, NEW first, Len(first) = 8, NEW bits
    PROVE  InRange(a, [of |-> first, bits |-> bits]) <=>
             /\ Same(a[1], first[1], Fixed(bits, 1, 16), 16) /\ Same(a[2], first[2], Fixed(bits, 2, 16), 16)
             /\ Same(a[3], first[3], Fixed(bits, 3, 16), 16) /\ Same(a[4], first[4], Fixed(bits, 4, 16), 16)
             /\ Same(a[5], first[5], Fixed(bits, 5, 16), 16) /\ Same(a[6], first[6], Fixed(bits, 6, 16), 16)
             /\ Same(a[7], first[7], Fixed(bits, 7, 16), 16) /\ Same(a[8], first[8], Fixed(bits, 8, 16), 16)
<1>. DEFINE matches(i) == Same(a[i], first[i], Fixed(bits, i, 16), 16)
<1>1. Len(a) = 8 /\ ~IsV4(a)
    BY SegmentsOf DEF IsV4
<1>2. InRange(a, [of |-> first, bits |-> bits]) <=> \A i \in 1..8 : matches(i)
    BY <1>1, Zenon DEF InRange, Same
<1>3. (\A i \in 1..8 : matches(i)) <=>
        /\ matches(1) /\ matches(2) /\ matches(3) /\ matches(4)
        /\ matches(5) /\ matches(6) /\ matches(7) /\ matches(8)
    <2>. HIDE DEF matches
    <2>1. 1..8 = {1, 2, 3, 4, 5, 6, 7, 8}
        OBVIOUS
    <2> QED
        BY <2>1, Zenon
<1> QED
    BY <1>2, <1>3, Zenon

\* A prefix within the first octet, or within the second.
LEMMA WithinFirstOctet ==
    ASSUME NEW a \in AddressV4, NEW p, Octet(p), NEW bits \in Nat, bits <= 8
    PROVE  InRange(a, Range4(<<p, 0, 0, 0>>, bits)) <=> Same(a[1], p, bits, 8)
<1>1. Fixed(bits, 1, 8) = bits /\ Fixed(bits, 2, 8) = 0 /\ Fixed(bits, 3, 8) = 0 /\ Fixed(bits, 4, 8) = 0
    BY DEF Fixed
<1>2. Octet(0)
    BY DEF Octet, MaxOctet
<1>3. Same(a[2], 0, 0, 8) /\ Same(a[3], 0, 0, 8) /\ Same(a[4], 0, 0, 8)
    BY <1>2, OctetsOf, Octets
<1> QED
    BY <1>1, <1>3, RangeOfOctets

LEMMA WithinSecondOctet ==
    ASSUME NEW a \in AddressV4, NEW p, Octet(p), NEW q, Octet(q), NEW bits \in Nat, bits <= 8
    PROVE  InRange(a, Range4(<<p, q, 0, 0>>, 8 + bits)) <=> a[1] = p /\ Same(a[2], q, bits, 8)
<1>1. /\ Fixed(8 + bits, 1, 8) = 8 /\ Fixed(8 + bits, 2, 8) = bits
      /\ Fixed(8 + bits, 3, 8) = 0 /\ Fixed(8 + bits, 4, 8) = 0
    BY DEF Fixed
<1>2. Octet(0)
    BY DEF Octet, MaxOctet
<1>3. Same(a[1], p, 8, 8) <=> a[1] = p
    BY OctetsOf, Octets
<1>4. Same(a[3], 0, 0, 8) /\ Same(a[4], 0, 0, 8)
    BY <1>2, OctetsOf, Octets
<1> QED
    BY <1>1, <1>3, <1>4, RangeOfOctets

\* The ranges of the list within IPv4, one by one.
LEMMA ListedOctets ==
    ASSUME NEW a \in AddressV4
    PROVE  /\ InRange(a, Range4(<<127, 0, 0, 0>>, 8)) <=> a[1] = 127
           /\ InRange(a, Range4(<<10, 0, 0, 0>>, 8)) <=> a[1] = 10
           /\ InRange(a, Range4(<<0, 0, 0, 0>>, 8)) <=> a[1] = 0
           /\ InRange(a, Range4(<<224, 0, 0, 0>>, 4)) <=> a[1] \in 224..239
           /\ InRange(a, Range4(<<172, 16, 0, 0>>, 12)) <=> a[1] = 172 /\ a[2] \in 16..31
           /\ InRange(a, Range4(<<192, 168, 0, 0>>, 16)) <=> a[1] = 192 /\ a[2] = 168
           /\ InRange(a, Range4(<<169, 254, 0, 0>>, 16)) <=> a[1] = 169 /\ a[2] = 254
           /\ InRange(a, Range4(<<100, 64, 0, 0>>, 10)) <=> a[1] = 100 /\ a[2] \in 64..127
           /\ InRange(a, Range4(<<198, 18, 0, 0>>, 15)) <=> a[1] = 198 /\ a[2] \in {18, 19}
           /\ InRange(a, Range4(<<192, 0, 0, 0>>, 24)) <=> a[1] = 192 /\ a[2] = 0 /\ a[3] = 0
           /\ InRange(a, Range4(<<255, 255, 255, 255>>, 32)) <=>
                a[1] = 255 /\ a[2] = 255 /\ a[3] = 255 /\ a[4] = 255
<1>. DEFINE within(first, bits) == InRange(a, Range4(first, bits))
<1>1. /\ Octet(a[1]) /\ Octet(a[2]) /\ Octet(a[3]) /\ Octet(a[4])
      /\ a[1] \in Nat /\ a[2] \in Nat
    BY OctetsOf DEF Octet
<1>2. /\ Octet(127) /\ Octet(10) /\ Octet(0) /\ Octet(192) /\ Octet(168) /\ Octet(169) /\ Octet(254)
      /\ Octet(224) /\ Octet(172) /\ Octet(16) /\ Octet(100) /\ Octet(64) /\ Octet(198) /\ Octet(18) /\ Octet(255)
    BY DEF Octet, MaxOctet
<1>3. ASSUME NEW p, Octet(p)
      PROVE  within(<<p, 0, 0, 0>>, 8) <=> a[1] = p
    <2>1. within(<<p, 0, 0, 0>>, 8) <=> Same(a[1], p, 8, 8)
        BY <1>3, WithinFirstOctet
    <2> QED
        BY <1>1, <1>3, <2>1, Octets
<1>4. within(<<224, 0, 0, 0>>, 4) <=> a[1] \in 224..239
    <2>1. within(<<224, 0, 0, 0>>, 4) <=> Same(a[1], 224, 4, 8)
        BY <1>2, WithinFirstOctet
    <2>2. Same(a[1], 224, 4, 8) <=> a[1] \div 16 = 224 \div 16
        BY OctetBits
    <2>3. a[1] \div 16 = 224 \div 16 <=> a[1] \in 224..239
        BY <1>1
    <2> QED
        BY <2>1, <2>2, <2>3
<1>5. ASSUME NEW p, Octet(p), NEW q, Octet(q)
      PROVE  within(<<p, q, 0, 0>>, 16) <=> a[1] = p /\ a[2] = q
    <2>1. within(<<p, q, 0, 0>>, 8 + 8) <=> a[1] = p /\ Same(a[2], q, 8, 8)
        BY <1>5, WithinSecondOctet
    <2> QED
        BY <1>1, <1>5, <2>1, Octets
<1>6. within(<<172, 16, 0, 0>>, 12) <=> a[1] = 172 /\ a[2] \in 16..31
    <2>1. within(<<172, 16, 0, 0>>, 8 + 4) <=> a[1] = 172 /\ Same(a[2], 16, 4, 8)
        BY <1>2, WithinSecondOctet
    <2>2. Same(a[2], 16, 4, 8) <=> a[2] \div 16 = 16 \div 16
        BY OctetBits
    <2>3. a[2] \div 16 = 16 \div 16 <=> a[2] \in 16..31
        BY <1>1
    <2> QED
        BY <2>1, <2>2, <2>3
<1>7. within(<<100, 64, 0, 0>>, 10) <=> a[1] = 100 /\ a[2] \in 64..127
    <2>1. within(<<100, 64, 0, 0>>, 8 + 2) <=> a[1] = 100 /\ Same(a[2], 64, 2, 8)
        BY <1>2, WithinSecondOctet
    <2>2. Same(a[2], 64, 2, 8) <=> a[2] \div 64 = 64 \div 64
        BY OctetBits
    <2>3. a[2] \div 64 = 64 \div 64 <=> a[2] \in 64..127
        BY <1>1
    <2> QED
        BY <2>1, <2>2, <2>3
<1>8. within(<<198, 18, 0, 0>>, 15) <=> a[1] = 198 /\ a[2] \in {18, 19}
    <2>1. within(<<198, 18, 0, 0>>, 8 + 7) <=> a[1] = 198 /\ Same(a[2], 18, 7, 8)
        BY <1>2, WithinSecondOctet
    <2>2. Same(a[2], 18, 7, 8) <=> a[2] \div 2 = 18 \div 2
        BY OctetBits
    <2>3. a[2] \div 2 = 18 \div 2 <=> a[2] \in {18, 19}
        BY <1>1
    <2> QED
        BY <2>1, <2>2, <2>3
<1>9. within(<<192, 0, 0, 0>>, 24) <=> a[1] = 192 /\ a[2] = 0 /\ a[3] = 0
    <2>1. Fixed(24, 1, 8) = 8 /\ Fixed(24, 2, 8) = 8 /\ Fixed(24, 3, 8) = 8 /\ Fixed(24, 4, 8) = 0
        BY DEF Fixed
    <2> QED
        BY <1>1, <1>2, <2>1, RangeOfOctets, Octets
<1>10. within(<<255, 255, 255, 255>>, 32) <=> a[1] = 255 /\ a[2] = 255 /\ a[3] = 255 /\ a[4] = 255
    <2>1. Fixed(32, 1, 8) = 8 /\ Fixed(32, 2, 8) = 8 /\ Fixed(32, 3, 8) = 8 /\ Fixed(32, 4, 8) = 8
        BY DEF Fixed
    <2> QED
        BY <1>1, <1>2, <2>1, RangeOfOctets, Octets
<1>11. /\ within(<<127, 0, 0, 0>>, 8) <=> a[1] = 127
       /\ within(<<10, 0, 0, 0>>, 8) <=> a[1] = 10
       /\ within(<<0, 0, 0, 0>>, 8) <=> a[1] = 0
    BY <1>2, <1>3
<1>12. /\ within(<<192, 168, 0, 0>>, 16) <=> a[1] = 192 /\ a[2] = 168
       /\ within(<<169, 254, 0, 0>>, 16) <=> a[1] = 169 /\ a[2] = 254
    BY <1>2, <1>5
<1> QED
    BY <1>4, <1>6, <1>7, <1>8, <1>9, <1>10, <1>11, <1>12

\* Of the ranges of IPv4 the policy restricts those the list names.
LEMMA RestrictedOctets ==
    ASSUME NEW a \in AddressV4
    PROVE  IsRestrictedV4(a) <=> \E r \in ListedV4 : InRange(a, r)
<1>. DEFINE within(first, bits) == InRange(a, Range4(first, bits))
<1>1. a = <<255, 255, 255, 255>> <=> a[1] = 255 /\ a[2] = 255 /\ a[3] = 255 /\ a[4] = 255
    <2>1. a \in Seq(0..MaxOctet) /\ Len(a) = 4
        BY DEF AddressV4, IsV4
    <2> QED
        BY <2>1
<1>2. (\E r \in ListedV4 : InRange(a, r)) <=>
        \/ within(<<127, 0, 0, 0>>, 8) \/ within(<<10, 0, 0, 0>>, 8) \/ within(<<172, 16, 0, 0>>, 12)
        \/ within(<<192, 168, 0, 0>>, 16) \/ within(<<169, 254, 0, 0>>, 16) \/ within(<<0, 0, 0, 0>>, 8)
        \/ within(<<255, 255, 255, 255>>, 32) \/ within(<<224, 0, 0, 0>>, 4) \/ within(<<100, 64, 0, 0>>, 10)
        \/ within(<<192, 0, 0, 0>>, 24) \/ within(<<198, 18, 0, 0>>, 15)
    BY DEF ListedV4
<1>3. IsRestrictedV4(a) <=>
        \/ a[1] = 0 \/ a[1] = 10 \/ a[1] = 127 \/ a[1] \in 224..239
        \/ a[1] = 172 /\ a[2] \in 16..31
        \/ a[1] = 192 /\ a[2] = 168
        \/ a[1] = 169 /\ a[2] = 254
        \/ a = <<255, 255, 255, 255>>
        \/ a[1] = 100 /\ a[2] \in 64..127
        \/ a[1] = 192 /\ a[2] = 0 /\ a[3] = 0
        \/ a[1] = 198 /\ a[2] \in {18, 19}
    BY Zenon DEF IsRestrictedV4
<1> QED
    BY <1>1, <1>2, <1>3, ListedOctets

LEMMA Hexadecimal ==
    /\ \hffff = 65535 /\ \hff00 = 65280 /\ \hfc00 = 64512 /\ \hfdff = 65023 /\ \hfe80 = 65152 /\ \hfebf = 65215
    /\ \hfec0 = 65216 /\ \hfeff = 65279 /\ \h2002 = 8194 /\ \h2001 = 8193 /\ \h64 = 100 /\ \hff9b = 65435
    /\ \hfd00 = 64768
OBVIOUS

\* A prefix within the first segment.
LEMMA WithinFirstSegment ==
    ASSUME NEW a \in AddressV6, NEW p, Segment(p), NEW bits \in Nat, bits <= 16
    PROVE  InRange(a, [of |-> <<p, 0, 0, 0, 0, 0, 0, 0>>, bits |-> bits]) <=> Same(a[1], p, bits, 16)
<1>. DEFINE first == <<p, 0, 0, 0, 0, 0, 0, 0>>
<1>1. /\ Len(first) = 8 /\ first[1] = p /\ first[2] = 0 /\ first[3] = 0 /\ first[4] = 0 /\ first[5] = 0
      /\ first[6] = 0 /\ first[7] = 0 /\ first[8] = 0
    OBVIOUS
<1>2. /\ Fixed(bits, 1, 16) = bits
      /\ Fixed(bits, 2, 16) = 0 /\ Fixed(bits, 3, 16) = 0 /\ Fixed(bits, 4, 16) = 0 /\ Fixed(bits, 5, 16) = 0
      /\ Fixed(bits, 6, 16) = 0 /\ Fixed(bits, 7, 16) = 0 /\ Fixed(bits, 8, 16) = 0
    BY DEF Fixed
<1>3. \A i \in 1..8 : Same(a[i], 0, 0, 16)
    <2>1. Segment(0)
        BY DEF Segment, MaxSegment
    <2> QED
        BY <2>1, SegmentsOf, Segments
<1> HIDE DEF first
<1>4. InRange(a, [of |-> first, bits |-> bits]) <=>
        /\ Same(a[1], p, bits, 16)
        /\ Same(a[2], 0, 0, 16) /\ Same(a[3], 0, 0, 16) /\ Same(a[4], 0, 0, 16) /\ Same(a[5], 0, 0, 16)
        /\ Same(a[6], 0, 0, 16) /\ Same(a[7], 0, 0, 16) /\ Same(a[8], 0, 0, 16)
    BY <1>1, <1>2, RangeOfSegments
<1> QED
    BY <1>3, <1>4 DEF first

\* A prefix of whole segments.
LEMMA WholeSegments ==
    ASSUME NEW a \in AddressV6, NEW first \in AddressV6, NEW n \in 1..8,
           NEW bits, bits = 16 * n
    PROVE  InRange(a, [of |-> first, bits |-> bits]) <=> \A i \in 1..n : a[i] = first[i]
<1>1. Len(first) = 8 /\ Len(a) = 8 /\ ~IsV4(a) /\ \A i \in 1..8 : Segment(a[i]) /\ Segment(first[i])
    BY SegmentsOf DEF IsV4
<1>2. ASSUME NEW i \in 1..8
      PROVE  Same(a[i], first[i], Fixed(16 * n, i, 16), 16) <=> (i <= n => a[i] = first[i])
    <2>1. CASE i <= n
        <3>1. Fixed(16 * n, i, 16) = 16
            BY <2>1 DEF Fixed
        <3> QED
            BY <1>1, <2>1, <3>1, Segments
    <2>2. CASE ~(i <= n)
        <3>1. Fixed(16 * n, i, 16) = 0
            BY <2>2 DEF Fixed
        <3> QED
            BY <1>1, <2>2, <3>1, Segments
    <2> QED
        BY <2>1, <2>2
<1>3. InRange(a, [of |-> first, bits |-> 16 * n])
        <=> \A i \in 1..8 : Same(a[i], first[i], Fixed(16 * n, i, 16), 16)
    BY <1>1, Zenon DEF InRange, Same
<1>4. \A i \in 1..n : i \in 1..8 /\ i <= n
    OBVIOUS
<1>5. \A i \in 1..8 : i <= n => i \in 1..n
    OBVIOUS
<1> QED
    BY <1>2, <1>3, <1>4, <1>5

\* The segments an address begins with.
LEMMA Beginning ==
    ASSUME NEW a \in AddressV6, NEW n \in 1..8,
           NEW first, first \in Seq(0..MaxSegment), Len(first) = n
    PROVE  SubSeq(a, 1, n) = first <=> \A i \in 1..n : a[i] = first[i]
<1>. DEFINE S == 0..MaxSegment
            begin == SubSeq(a, 1, n)
<1>1. a \in Seq(S) /\ Len(a) = 8
    BY DEF AddressV6, IsV6
<1> HIDE DEF S
<1>2. ASSUME NEW i \in 1..n
      PROVE  a[i] \in S
    <2>1. i \in 1..8
        OBVIOUS
    <2> QED
        BY <1>1, <2>1, ElementOfSeq
<1>3. begin \in Seq(S) /\ Len(begin) = n /\ \A i \in 1..n : begin[i] = a[i]
    BY <1>2, SubSeqProperties
<1> HIDE DEF begin
<1>4. first \in Seq(S)
    BY DEF S
<1>5. begin = first <=> \A i \in 1..n : begin[i] = first[i]
    BY <1>3, <1>4, SeqEqual
<1> QED
    BY <1>3, <1>5 DEF begin

AllZero(a, n) == \A i \in 1..n : a[i] = 0

\* The ranges the list has within IPv6 alone, one by one.
LEMMA ListedSegments ==
    ASSUME NEW a \in AddressV6
    PROVE  /\ InRange(a, [of |-> <<0, 0, 0, 0, 0, 0, 0, 1>>, bits |-> 128]) <=> AllZero(a, 7) /\ a[8] = 1
           /\ InRange(a, [of |-> <<0, 0, 0, 0, 0, 0, 0, 0>>, bits |-> 128]) <=> AllZero(a, 7) /\ a[8] = 0
           /\ InRange(a, [of |-> <<\hfe80, 0, 0, 0, 0, 0, 0, 0>>, bits |-> 10]) <=> a[1] >= \hfe80 /\ a[1] <= \hfebf
           /\ InRange(a, [of |-> <<\hfc00, 0, 0, 0, 0, 0, 0, 0>>, bits |-> 7]) <=> a[1] >= \hfc00 /\ a[1] <= \hfdff
           /\ InRange(a, [of |-> <<\hff00, 0, 0, 0, 0, 0, 0, 0>>, bits |-> 8]) <=> a[1] >= \hff00
           /\ InRange(a, [of |-> <<\hfec0, 0, 0, 0, 0, 0, 0, 0>>, bits |-> 10]) <=> a[1] >= \hfec0 /\ a[1] <= \hfeff
           /\ InRange(a, [of |-> <<\h2002, 0, 0, 0, 0, 0, 0, 0>>, bits |-> 16]) <=> a[1] = \h2002
           /\ InRange(a, [of |-> <<\h2001, 0, 0, 0, 0, 0, 0, 0>>, bits |-> 32]) <=> a[1] = \h2001 /\ a[2] = 0
           /\ InRange(a, [of |-> <<\h64, \hff9b, 0, 0, 0, 0, 0, 0>>, bits |-> 96]) <=>
                a[1] = \h64 /\ a[2] = \hff9b /\ a[3] = 0 /\ a[4] = 0 /\ a[5] = 0 /\ a[6] = 0
<1>. DEFINE at(p) == <<p, 0, 0, 0, 0, 0, 0, 0>>
            within(first, bits) == InRange(a, [of |-> first, bits |-> bits])
<1>1. \A i \in 1..8 : Segment(a[i])
    BY SegmentsOf
<1>2. a[1] \in Nat /\ a[1] <= 65535
    BY <1>1 DEF Segment, MaxSegment
<1>3. /\ Segment(0) /\ Segment(1) /\ Segment(\hfe80) /\ Segment(\hfc00) /\ Segment(\hff00) /\ Segment(\hfec0)
      /\ Segment(\h2002) /\ Segment(\h2001) /\ Segment(\h64) /\ Segment(\hff9b)
    BY DEF Segment, MaxSegment
<1>4. ASSUME NEW p, Segment(p), NEW q, Segment(q), NEW r, Segment(r)
      PROVE  <<p, q, 0, 0, 0, 0, 0, r>> \in AddressV6
    <2>1. p \in 0..MaxSegment /\ q \in 0..MaxSegment /\ r \in 0..MaxSegment /\ 0 \in 0..MaxSegment
        BY <1>3, <1>4 DEF Segment
    <2> QED
        BY <2>1 DEF AddressV6, IsV6
<1>5. ASSUME NEW r, Segment(r)
      PROVE  within(<<0, 0, 0, 0, 0, 0, 0, r>>, 128) <=> AllZero(a, 7) /\ a[8] = r
    <2>. DEFINE first == <<0, 0, 0, 0, 0, 0, 0, r>>
    <2>1. first \in AddressV6 /\ 8 \in 1..8 /\ 16 * 8 = 128
        BY <1>3, <1>4, <1>5
    <2>2. within(first, 128) <=> \A i \in 1..8 : a[i] = first[i]
        BY <2>1, WholeSegments
    <2>3. \A i \in 1..7 : first[i] = 0
        OBVIOUS
    <2>4. first[8] = r
        OBVIOUS
    <2>. HIDE DEF first
    <2>5. \A i \in 1..8 : i \in 1..7 \/ i = 8
        OBVIOUS
    <2>6. \A i \in 1..7 : i \in 1..8
        OBVIOUS
    <2>7. within(first, 128) <=> AllZero(a, 7) /\ a[8] = r
        BY <2>2, <2>3, <2>4, <2>5, <2>6 DEF AllZero
    <2> QED
        BY <2>7 DEF first
<1>6. within(at(\hfe80), 10) <=> a[1] >= \hfe80 /\ a[1] <= \hfebf
    <2>1. within(at(\hfe80), 10) <=> Same(a[1], \hfe80, 10, 16)
        BY <1>3, WithinFirstSegment
    <2>2. Same(a[1], \hfe80, 10, 16) <=> a[1] \div 64 = \hfe80 \div 64
        BY SegmentBits
    <2>3. a[1] \div 64 = \hfe80 \div 64 <=> a[1] >= \hfe80 /\ a[1] <= \hfebf
        BY <1>2
    <2> QED
        BY <2>1, <2>2, <2>3
<1>7. within(at(\hfec0), 10) <=> a[1] >= \hfec0 /\ a[1] <= \hfeff
    <2>1. within(at(\hfec0), 10) <=> Same(a[1], \hfec0, 10, 16)
        BY <1>3, WithinFirstSegment
    <2>2. Same(a[1], \hfec0, 10, 16) <=> a[1] \div 64 = \hfec0 \div 64
        BY SegmentBits
    <2>3. a[1] \div 64 = \hfec0 \div 64 <=> a[1] >= \hfec0 /\ a[1] <= \hfeff
        BY <1>2
    <2> QED
        BY <2>1, <2>2, <2>3
<1>8. within(at(\hfc00), 7) <=> a[1] >= \hfc00 /\ a[1] <= \hfdff
    <2>1. within(at(\hfc00), 7) <=> Same(a[1], \hfc00, 7, 16)
        BY <1>3, WithinFirstSegment
    <2>2. Same(a[1], \hfc00, 7, 16) <=> a[1] \div 512 = \hfc00 \div 512
        BY SegmentBits
    <2>3. a[1] \div 512 = \hfc00 \div 512 <=> a[1] >= \hfc00 /\ a[1] <= \hfdff
        BY <1>2
    <2> QED
        BY <2>1, <2>2, <2>3
<1>9. within(at(\hff00), 8) <=> a[1] >= \hff00
    <2>1. within(at(\hff00), 8) <=> Same(a[1], \hff00, 8, 16)
        BY <1>3, WithinFirstSegment
    <2>2. Same(a[1], \hff00, 8, 16) <=> a[1] \div 256 = \hff00 \div 256
        BY SegmentBits
    <2>3. a[1] \div 256 = \hff00 \div 256 <=> a[1] >= \hff00
        BY <1>2
    <2> QED
        BY <2>1, <2>2, <2>3
<1>10. within(at(\h2002), 16) <=> a[1] = \h2002
    <2>1. within(at(\h2002), 16) <=> Same(a[1], \h2002, 16, 16)
        BY <1>3, WithinFirstSegment
    <2>2. Segment(a[1])
        BY <1>1
    <2> QED
        BY <1>3, <2>1, <2>2, Segments
<1>11. within(at(\h2001), 32) <=> a[1] = \h2001 /\ a[2] = 0
    <2>. DEFINE first == at(\h2001)
    <2>1. first \in AddressV6 /\ 2 \in 1..8 /\ 16 * 2 = 32
        BY <1>3, <1>4
    <2>2. within(first, 32) <=> \A i \in 1..2 : a[i] = first[i]
        BY <2>1, WholeSegments
    <2>3. first[1] = \h2001 /\ first[2] = 0
        OBVIOUS
    <2>. HIDE DEF first
    <2>4. 1..2 = {1, 2}
        OBVIOUS
    <2>5. within(first, 32) <=> a[1] = \h2001 /\ a[2] = 0
        BY <2>2, <2>3, <2>4
    <2> QED
        BY <2>5 DEF first
<1>12. within(<<\h64, \hff9b, 0, 0, 0, 0, 0, 0>>, 96) <=>
         a[1] = \h64 /\ a[2] = \hff9b /\ a[3] = 0 /\ a[4] = 0 /\ a[5] = 0 /\ a[6] = 0
    <2>. DEFINE first == <<\h64, \hff9b, 0, 0, 0, 0, 0, 0>>
    <2>1. first \in AddressV6 /\ 6 \in 1..8 /\ 16 * 6 = 96
        BY <1>3, <1>4
    <2>2. within(first, 96) <=> \A i \in 1..6 : a[i] = first[i]
        BY <2>1, WholeSegments
    <2>3. first[1] = \h64 /\ first[2] = \hff9b /\ first[3] = 0 /\ first[4] = 0 /\ first[5] = 0 /\ first[6] = 0
        OBVIOUS
    <2>. HIDE DEF first
    <2>4. 1..6 = {1, 2, 3, 4, 5, 6}
        OBVIOUS
    <2>5. within(first, 96) <=>
            a[1] = \h64 /\ a[2] = \hff9b /\ a[3] = 0 /\ a[4] = 0 /\ a[5] = 0 /\ a[6] = 0
        BY <2>2, <2>3, <2>4
    <2> QED
        BY <2>5 DEF first
<1> QED
    BY <1>3, <1>5, <1>6, <1>7, <1>8, <1>9, <1>10, <1>11, <1>12

LEMMA SevenZeros ==
    ASSUME NEW a \in AddressV6
    PROVE  SubSeq(a, 1, 7) = <<0, 0, 0, 0, 0, 0, 0>> <=> AllZero(a, 7)
<1>. DEFINE first == <<0, 0, 0, 0, 0, 0, 0>>
<1>1. 0 \in 0..MaxSegment
    BY DEF MaxSegment
<1>2. first \in Seq(0..MaxSegment) /\ Len(first) = 7 /\ 7 \in 1..8
    BY <1>1
<1>3. \A i \in 1..7 : first[i] = 0
    OBVIOUS
<1>. HIDE DEF first
<1>4. SubSeq(a, 1, 7) = first <=> AllZero(a, 7)
    BY <1>2, <1>3, Beginning DEF AllZero
<1> QED
    BY <1>4 DEF first

\* Of the ranges of IPv6 alone the policy restricts those the list names.
LEMMA RestrictedSegments ==
    ASSUME NEW a \in AddressV6
    PROVE  IsRestrictedV6(a) <=> \E r \in ListedV6 : InRange(a, r)
<1>. DEFINE within(first, bits) == InRange(a, [of |-> first, bits |-> bits])
<1>1. a[1] \in Nat /\ a[1] <= 65535 /\ a[8] \in Nat
    BY SegmentsOf DEF Segment, MaxSegment
<1>2. SubSeq(a, 1, 7) = <<0, 0, 0, 0, 0, 0, 0>> <=> AllZero(a, 7)
    BY SevenZeros
<1>3. SubSeq(a, 1, 6) = Nat64 <=>
        a[1] = \h64 /\ a[2] = \hff9b /\ a[3] = 0 /\ a[4] = 0 /\ a[5] = 0 /\ a[6] = 0
    <2>. DEFINE first == <<\h64, \hff9b, 0, 0, 0, 0>>
    <2>1. Segment(0) /\ Segment(\h64) /\ Segment(\hff9b)
        BY DEF Segment, MaxSegment
    <2>2. 0 \in 0..MaxSegment /\ \h64 \in 0..MaxSegment /\ \hff9b \in 0..MaxSegment
        BY <2>1 DEF Segment
    <2>3. first \in Seq(0..MaxSegment) /\ Len(first) = 6 /\ 6 \in 1..8
        BY <2>2
    <2>4. first[1] = \h64 /\ first[2] = \hff9b /\ first[3] = 0 /\ first[4] = 0 /\ first[5] = 0 /\ first[6] = 0
        OBVIOUS
    <2>5. 1..6 = {1, 2, 3, 4, 5, 6}
        OBVIOUS
    <2>. HIDE DEF first
    <2>6. SubSeq(a, 1, 6) = first <=> \A i \in 1..6 : a[i] = first[i]
        BY <2>3, Beginning
    <2>7. SubSeq(a, 1, 6) = first <=>
            a[1] = \h64 /\ a[2] = \hff9b /\ a[3] = 0 /\ a[4] = 0 /\ a[5] = 0 /\ a[6] = 0
        BY <2>4, <2>5, <2>6
    <2> QED
        BY <2>7 DEF first, Nat64
<1>4. /\ a[1] \in Multicast <=> a[1] >= \hff00
      /\ a[1] \in UniqueLocal <=> a[1] >= \hfc00 /\ a[1] <= \hfdff
      /\ a[1] \in LinkLocal <=> a[1] >= \hfe80 /\ a[1] <= \hfebf
      /\ a[1] \in SiteLocal <=> a[1] >= \hfec0 /\ a[1] <= \hfeff
    BY <1>1 DEF Multicast, UniqueLocal, LinkLocal, SiteLocal
<1>5. (\E r \in ListedV6 : InRange(a, r)) <=>
        \/ within(<<0, 0, 0, 0, 0, 0, 0, 1>>, 128) \/ within(<<0, 0, 0, 0, 0, 0, 0, 0>>, 128)
        \/ within(<<\hfe80, 0, 0, 0, 0, 0, 0, 0>>, 10) \/ within(<<\hfc00, 0, 0, 0, 0, 0, 0, 0>>, 7)
        \/ within(<<\hff00, 0, 0, 0, 0, 0, 0, 0>>, 8) \/ within(<<\hfec0, 0, 0, 0, 0, 0, 0, 0>>, 10)
        \/ within(<<\h2002, 0, 0, 0, 0, 0, 0, 0>>, 16) \/ within(<<\h2001, 0, 0, 0, 0, 0, 0, 0>>, 32)
        \/ within(<<\h64, \hff9b, 0, 0, 0, 0, 0, 0>>, 96)
    BY DEF ListedV6
<1>6. IsRestrictedV6(a) <=>
        \/ SubSeq(a, 1, 7) = <<0, 0, 0, 0, 0, 0, 0>> /\ (a[8] = 0 \/ a[8] = 1)
        \/ a[1] \in Multicast \/ a[1] \in UniqueLocal \/ a[1] \in LinkLocal \/ a[1] \in SiteLocal
        \/ a[1] = SixToFour
        \/ a[1] = Teredo /\ a[2] = 0
        \/ SubSeq(a, 1, 6) = Nat64
    BY Zenon DEF IsRestrictedV6
<1>. HIDE DEF within
<1>7. /\ within(<<0, 0, 0, 0, 0, 0, 0, 1>>, 128) <=> AllZero(a, 7) /\ a[8] = 1
      /\ within(<<0, 0, 0, 0, 0, 0, 0, 0>>, 128) <=> AllZero(a, 7) /\ a[8] = 0
      /\ within(<<\hfe80, 0, 0, 0, 0, 0, 0, 0>>, 10) <=> a[1] >= \hfe80 /\ a[1] <= \hfebf
      /\ within(<<\hfc00, 0, 0, 0, 0, 0, 0, 0>>, 7) <=> a[1] >= \hfc00 /\ a[1] <= \hfdff
      /\ within(<<\hff00, 0, 0, 0, 0, 0, 0, 0>>, 8) <=> a[1] >= \hff00
      /\ within(<<\hfec0, 0, 0, 0, 0, 0, 0, 0>>, 10) <=> a[1] >= \hfec0 /\ a[1] <= \hfeff
      /\ within(<<\h2002, 0, 0, 0, 0, 0, 0, 0>>, 16) <=> a[1] = \h2002
      /\ within(<<\h2001, 0, 0, 0, 0, 0, 0, 0>>, 32) <=> a[1] = \h2001 /\ a[2] = 0
      /\ within(<<\h64, \hff9b, 0, 0, 0, 0, 0, 0>>, 96) <=>
           a[1] = \h64 /\ a[2] = \hff9b /\ a[3] = 0 /\ a[4] = 0 /\ a[5] = 0 /\ a[6] = 0
    BY ListedSegments DEF within
<1>. DEFINE ranges ==
        \/ AllZero(a, 7) /\ (a[8] = 0 \/ a[8] = 1)
        \/ a[1] >= \hff00
        \/ a[1] >= \hfc00 /\ a[1] <= \hfdff
        \/ a[1] >= \hfe80 /\ a[1] <= \hfebf
        \/ a[1] >= \hfec0 /\ a[1] <= \hfeff
        \/ a[1] = \h2002
        \/ a[1] = \h2001 /\ a[2] = 0
        \/ a[1] = \h64 /\ a[2] = \hff9b /\ a[3] = 0 /\ a[4] = 0 /\ a[5] = 0 /\ a[6] = 0
<1>8. IsRestrictedV6(a) <=> ranges
    <2>. DEFINE zero == SubSeq(a, 1, 7) = <<0, 0, 0, 0, 0, 0, 0>>
                nat == SubSeq(a, 1, 6) = Nat64
    <2>1. SixToFour = \h2002 /\ Teredo = \h2001
        BY DEF SixToFour, Teredo
    <2>2. zero <=> AllZero(a, 7)
        BY <1>2
    <2>3. nat <=> a[1] = \h64 /\ a[2] = \hff9b /\ a[3] = 0 /\ a[4] = 0 /\ a[5] = 0 /\ a[6] = 0
        BY <1>3
    <2>4. IsRestrictedV6(a) <=>
            \/ zero /\ (a[8] = 0 \/ a[8] = 1)
            \/ a[1] \in Multicast \/ a[1] \in UniqueLocal \/ a[1] \in LinkLocal \/ a[1] \in SiteLocal
            \/ a[1] = SixToFour
            \/ a[1] = Teredo /\ a[2] = 0
            \/ nat
        BY <1>6
    <2>. HIDE DEF zero, nat
    <2> QED
        BY <1>4, <2>1, <2>2, <2>3, <2>4
<1>9. (\E r \in ListedV6 : InRange(a, r)) <=> ranges
    BY <1>5, <1>7
<1>. HIDE DEF ranges
<1> QED
    BY <1>8, <1>9

\* A segment made of two octets: its first bits are those of the two, for the
\* numbers of bits the ranges of IPv4 have.
Joined(p, q) == p * 256 + q

LEMMA Joining ==
    ASSUME NEW p, Octet(p), NEW q, Octet(q)
    PROVE  /\ Segment(Joined(p, q))
           /\ Joined(p, q) \div 4096 = p \div 16 /\ Joined(p, q) \div 256 = p
           /\ Joined(p, q) \div 64 = p * 4 + q \div 64 /\ Joined(p, q) \div 16 = p * 16 + q \div 16
           /\ Joined(p, q) \div 2 = p * 128 + q \div 2
<1>1. p \in Nat /\ p <= 255 /\ q \in Nat /\ q <= 255
    BY DEF Octet, MaxOctet
<1> QED
    BY <1>1 DEF Joined, Segment, MaxSegment

LEMMA Halves ==
    ASSUME NEW p, Octet(p), NEW q, Octet(q), NEW h, Octet(h), NEW l, Octet(l)
    PROVE  /\ Same(Joined(h, l), Joined(p, q), 0, 16)
           /\ Same(Joined(h, l), Joined(p, q), 4, 16) <=> Same(h, p, 4, 8)
           /\ Same(Joined(h, l), Joined(p, q), 8, 16) <=> h = p
           /\ Same(Joined(h, l), Joined(p, q), 10, 16) <=> h = p /\ Same(l, q, 2, 8)
           /\ Same(Joined(h, l), Joined(p, q), 12, 16) <=> h = p /\ Same(l, q, 4, 8)
           /\ Same(Joined(h, l), Joined(p, q), 15, 16) <=> h = p /\ Same(l, q, 7, 8)
           /\ Same(Joined(h, l), Joined(p, q), 16, 16) <=> h = p /\ l = q
<1>1. /\ p \in Nat /\ p <= 255 /\ q \in Nat /\ q <= 255
      /\ h \in Nat /\ h <= 255 /\ l \in Nat /\ l <= 255
    BY DEF Octet, MaxOctet
<1>2. /\ q \div 64 \in 0..3 /\ l \div 64 \in 0..3 /\ q \div 16 \in 0..15 /\ l \div 16 \in 0..15
      /\ q \div 2 \in 0..127 /\ l \div 2 \in 0..127
    BY <1>1
<1>3. Same(Joined(h, l), Joined(p, q), 0, 16) /\ (Same(Joined(h, l), Joined(p, q), 16, 16) <=> Joined(h, l) = Joined(p, q))
    BY Joining, Segments
<1>4. Joined(h, l) = Joined(p, q) <=> h = p /\ l = q
    BY <1>1 DEF Joined
<1>5. Same(Joined(h, l), Joined(p, q), 4, 16) <=> Same(h, p, 4, 8)
    BY Joining, SegmentBits, OctetBits
<1>6. Same(Joined(h, l), Joined(p, q), 8, 16) <=> h = p
    BY Joining, SegmentBits
<1>7. Same(Joined(h, l), Joined(p, q), 10, 16) <=> h = p /\ Same(l, q, 2, 8)
    <2>1. h * 4 + l \div 64 = p * 4 + q \div 64 <=> h = p /\ l \div 64 = q \div 64
        BY <1>1, <1>2
    <2> QED
        BY <2>1, Joining, SegmentBits, OctetBits
<1>8. Same(Joined(h, l), Joined(p, q), 12, 16) <=> h = p /\ Same(l, q, 4, 8)
    <2>1. h * 16 + l \div 16 = p * 16 + q \div 16 <=> h = p /\ l \div 16 = q \div 16
        BY <1>1, <1>2
    <2> QED
        BY <2>1, Joining, SegmentBits, OctetBits
<1>9. Same(Joined(h, l), Joined(p, q), 15, 16) <=> h = p /\ Same(l, q, 7, 8)
    <2>1. h * 128 + l \div 2 = p * 128 + q \div 2 <=> h = p /\ l \div 2 = q \div 2
        BY <1>1, <1>2
    <2> QED
        BY <2>1, Joining, SegmentBits, OctetBits
<1> QED
    BY <1>3, <1>4, <1>5, <1>6, <1>7, <1>8, <1>9

\* The IPv4 address in the last two segments.
Low(a) == <<a[7] \div 256, a[7] % 256, a[8] \div 256, a[8] % 256>>

LEMMA LowOctets ==
    ASSUME NEW a \in AddressV6
    PROVE  /\ Low(a) \in AddressV4
           /\ Octet(a[7] \div 256) /\ Octet(a[7] % 256) /\ a[7] = Joined(a[7] \div 256, a[7] % 256)
           /\ Octet(a[8] \div 256) /\ Octet(a[8] % 256) /\ a[8] = Joined(a[8] \div 256, a[8] % 256)
<1>1. ASSUME NEW x, Segment(x)
      PROVE  Octet(x \div 256) /\ Octet(x % 256) /\ x = Joined(x \div 256, x % 256)
    BY <1>1 DEF Segment, Octet, MaxSegment, MaxOctet, Joined
<1>2. Segment(a[7]) /\ Segment(a[8])
    BY SegmentsOf
<1>3. /\ a[7] \div 256 \in 0..MaxOctet /\ a[7] % 256 \in 0..MaxOctet
      /\ a[8] \div 256 \in 0..MaxOctet /\ a[8] % 256 \in 0..MaxOctet
    BY <1>1, <1>2 DEF Octet
<1>4. Low(a) \in AddressV4
    BY <1>3 DEF Low, AddressV4, IsV4
<1> QED
    BY <1>1, <1>2, <1>4

\* A range of IPv4, and the same within the mapped or compatible addresses.
LEMMA ListedForms ==
    ASSUME NEW r \in ListedV4
    PROVE  \E p, q, u, v, bits :
             /\ Octet(p) /\ Octet(q) /\ Octet(u) /\ Octet(v)
             /\ bits \in {4, 8, 10, 12, 15, 16, 24, 32}
             /\ r = Range4(<<p, q, u, v>>, bits)
<1>1. /\ Octet(127) /\ Octet(10) /\ Octet(0) /\ Octet(192) /\ Octet(168) /\ Octet(169) /\ Octet(254)
      /\ Octet(224) /\ Octet(172) /\ Octet(16) /\ Octet(100) /\ Octet(64) /\ Octet(198) /\ Octet(18) /\ Octet(255)
    BY DEF Octet, MaxOctet
<1>. DEFINE formed(x) == \E p, q, u, v, bits :
                /\ Octet(p) /\ Octet(q) /\ Octet(u) /\ Octet(v)
                /\ bits \in {4, 8, 10, 12, 15, 16, 24, 32}
                /\ x = Range4(<<p, q, u, v>>, bits)
<1>2. ASSUME NEW p, Octet(p), NEW q, Octet(q), NEW u, Octet(u), NEW v, Octet(v),
             NEW bits \in {4, 8, 10, 12, 15, 16, 24, 32}
      PROVE  formed(Range4(<<p, q, u, v>>, bits))
    BY <1>2, Zenon
<1>. HIDE DEF formed
<1>3. /\ formed(Range4(<<127, 0, 0, 0>>, 8)) /\ formed(Range4(<<10, 0, 0, 0>>, 8))
      /\ formed(Range4(<<172, 16, 0, 0>>, 12)) /\ formed(Range4(<<192, 168, 0, 0>>, 16))
      /\ formed(Range4(<<169, 254, 0, 0>>, 16)) /\ formed(Range4(<<0, 0, 0, 0>>, 8))
      /\ formed(Range4(<<255, 255, 255, 255>>, 32)) /\ formed(Range4(<<224, 0, 0, 0>>, 4))
      /\ formed(Range4(<<100, 64, 0, 0>>, 10)) /\ formed(Range4(<<192, 0, 0, 0>>, 24))
      /\ formed(Range4(<<198, 18, 0, 0>>, 15))
    BY <1>1, <1>2
<1>4. formed(r)
    BY <1>3 DEF ListedV4
<1> QED
    BY <1>4 DEF formed

LiftedTo(s, r) ==
    [of |-> <<0, 0, 0, 0, 0, s, Joined(r.of[1], r.of[2]), Joined(r.of[3], r.of[4])>>, bits |-> 96 + r.bits]

\* What is fixed of the last two segments, and of the octets they carry.
LEMMA LiftedBits ==
    ASSUME NEW a \in AddressV6, NEW p, Octet(p), NEW q, Octet(q), NEW u, Octet(u), NEW v, Octet(v),
           NEW bits \in {4, 8, 10, 12, 15, 16, 24, 32}
    PROVE  InRange(Low(a), Range4(<<p, q, u, v>>, bits)) <=>
             /\ Same(a[7], Joined(p, q), Fixed(96 + bits, 7, 16), 16)
             /\ Same(a[8], Joined(u, v), Fixed(96 + bits, 8, 16), 16)
<1>. DEFINE h == a[7] \div 256
            l == a[7] % 256
            k == a[8] \div 256
            m == a[8] % 256
<1>1. /\ Octet(h) /\ Octet(l) /\ Octet(k) /\ Octet(m)
      /\ a[7] = Joined(h, l) /\ a[8] = Joined(k, m)
      /\ Low(a) \in AddressV4
    BY LowOctets
<1>2. Low(a)[1] = h /\ Low(a)[2] = l /\ Low(a)[3] = k /\ Low(a)[4] = m
    BY DEF Low
<1>. HIDE DEF h, l, k, m
<1>3. InRange(Low(a), Range4(<<p, q, u, v>>, bits)) <=>
        /\ Same(h, p, Fixed(bits, 1, 8), 8) /\ Same(l, q, Fixed(bits, 2, 8), 8)
        /\ Same(k, u, Fixed(bits, 3, 8), 8) /\ Same(m, v, Fixed(bits, 4, 8), 8)
    BY <1>1, <1>2, RangeOfOctets
<1>4. /\ Same(h, p, 0, 8) /\ Same(l, q, 0, 8) /\ Same(k, u, 0, 8) /\ Same(m, v, 0, 8)
      /\ Same(h, p, 8, 8) <=> h = p
      /\ Same(l, q, 8, 8) <=> l = q
      /\ Same(k, u, 8, 8) <=> k = u
      /\ Same(m, v, 8, 8) <=> m = v
    BY <1>1, Octets
<1>5. CASE bits \in {4, 8}
    <2>1. /\ Fixed(bits, 1, 8) = bits /\ Fixed(bits, 2, 8) = 0 /\ Fixed(bits, 3, 8) = 0 /\ Fixed(bits, 4, 8) = 0
          /\ Fixed(96 + bits, 7, 16) = bits /\ Fixed(96 + bits, 8, 16) = 0
        BY <1>5 DEF Fixed
    <2>2. Same(a[8], Joined(u, v), 0, 16)
        BY <1>1, Halves
    <2>3. Same(a[7], Joined(p, q), bits, 16) <=> Same(h, p, bits, 8)
        BY <1>1, <1>4, <1>5, Halves
    <2> QED
        BY <1>3, <1>4, <2>1, <2>2, <2>3
<1>6. CASE bits \in {10, 12, 15, 16}
    <2>1. /\ Fixed(bits, 1, 8) = 8 /\ Fixed(bits, 2, 8) = bits - 8 /\ Fixed(bits, 3, 8) = 0 /\ Fixed(bits, 4, 8) = 0
          /\ Fixed(96 + bits, 7, 16) = bits /\ Fixed(96 + bits, 8, 16) = 0
        BY <1>6 DEF Fixed
    <2>2. Same(a[8], Joined(u, v), 0, 16)
        BY <1>1, Halves
    <2>3. Same(a[7], Joined(p, q), bits, 16) <=> h = p /\ Same(l, q, bits - 8, 8)
        BY <1>1, <1>4, <1>6, Halves
    <2> QED
        BY <1>3, <1>4, <2>1, <2>2, <2>3
<1>7. CASE bits \in {24, 32}
    <2>1. /\ Fixed(bits, 1, 8) = 8 /\ Fixed(bits, 2, 8) = 8 /\ Fixed(bits, 3, 8) = 8 /\ Fixed(bits, 4, 8) = bits - 24
          /\ Fixed(96 + bits, 7, 16) = 16 /\ Fixed(96 + bits, 8, 16) = bits - 16
        BY <1>7 DEF Fixed
    <2>2. Same(a[7], Joined(p, q), 16, 16) <=> h = p /\ l = q
        BY <1>1, Halves
    <2>3. Same(a[8], Joined(u, v), bits - 16, 16) <=> k = u /\ Same(m, v, bits - 24, 8)
        BY <1>1, <1>4, <1>7, Halves
    <2> QED
        BY <1>3, <1>4, <2>1, <2>2, <2>3
<1> QED
    BY <1>5, <1>6, <1>7

LEMMA LiftedRange ==
    ASSUME NEW a \in AddressV6, NEW r \in ListedV4, NEW s, Segment(s)
    PROVE  InRange(a, LiftedTo(s, r)) <=> AllZero(a, 5) /\ a[6] = s /\ InRange(Low(a), r)
<1>1. PICK p, q, u, v, bits :
        /\ Octet(p) /\ Octet(q) /\ Octet(u) /\ Octet(v)
        /\ bits \in {4, 8, 10, 12, 15, 16, 24, 32}
        /\ r = Range4(<<p, q, u, v>>, bits)
    BY ListedForms
<1>. DEFINE first == <<0, 0, 0, 0, 0, s, Joined(p, q), Joined(u, v)>>
<1>2. LiftedTo(s, r) = [of |-> first, bits |-> 96 + bits]
    BY <1>1 DEF LiftedTo, Range4
<1>3. /\ Len(first) = 8
      /\ first[1] = 0 /\ first[2] = 0 /\ first[3] = 0 /\ first[4] = 0 /\ first[5] = 0 /\ first[6] = s
      /\ first[7] = Joined(p, q) /\ first[8] = Joined(u, v)
    OBVIOUS
<1>. HIDE DEF first
<1>4. /\ Fixed(96 + bits, 1, 16) = 16 /\ Fixed(96 + bits, 2, 16) = 16 /\ Fixed(96 + bits, 3, 16) = 16
      /\ Fixed(96 + bits, 4, 16) = 16 /\ Fixed(96 + bits, 5, 16) = 16 /\ Fixed(96 + bits, 6, 16) = 16
    BY <1>1 DEF Fixed
<1>5. InRange(a, [of |-> first, bits |-> 96 + bits]) <=>
        /\ Same(a[1], 0, 16, 16) /\ Same(a[2], 0, 16, 16) /\ Same(a[3], 0, 16, 16) /\ Same(a[4], 0, 16, 16)
        /\ Same(a[5], 0, 16, 16) /\ Same(a[6], s, 16, 16)
        /\ Same(a[7], Joined(p, q), Fixed(96 + bits, 7, 16), 16)
        /\ Same(a[8], Joined(u, v), Fixed(96 + bits, 8, 16), 16)
    BY <1>3, <1>4, RangeOfSegments
<1>6. /\ Segment(0)
      /\ Segment(a[1]) /\ Segment(a[2]) /\ Segment(a[3]) /\ Segment(a[4]) /\ Segment(a[5]) /\ Segment(a[6])
    BY SegmentsOf DEF Segment, MaxSegment
<1>7. /\ Same(a[1], 0, 16, 16) <=> a[1] = 0
      /\ Same(a[2], 0, 16, 16) <=> a[2] = 0
      /\ Same(a[3], 0, 16, 16) <=> a[3] = 0
      /\ Same(a[4], 0, 16, 16) <=> a[4] = 0
      /\ Same(a[5], 0, 16, 16) <=> a[5] = 0
      /\ Same(a[6], s, 16, 16) <=> a[6] = s
    BY <1>6, Segments
<1>8. AllZero(a, 5) <=> a[1] = 0 /\ a[2] = 0 /\ a[3] = 0 /\ a[4] = 0 /\ a[5] = 0
    <2>1. 1..5 = {1, 2, 3, 4, 5}
        OBVIOUS
    <2> QED
        BY <2>1 DEF AllZero
<1>9. InRange(Low(a), r) <=>
        /\ Same(a[7], Joined(p, q), Fixed(96 + bits, 7, 16), 16)
        /\ Same(a[8], Joined(u, v), Fixed(96 + bits, 8, 16), 16)
    BY <1>1, LiftedBits
<1> QED
    BY <1>2, <1>5, <1>7, <1>8, <1>9

LEMMA ListedParts ==
    ASSUME NEW a
    PROVE  IsListed(a) <=>
             \/ \E r \in ListedV4 : InRange(a, r)
             \/ \E r \in ListedV6 : InRange(a, r)
             \/ \E r \in ListedV4 : InRange(a, LiftedTo(0, r)) \/ InRange(a, LiftedTo(\hffff, r))
<1>1. \A r : Lifted(r) = {LiftedTo(s, r) : s \in {0, \hffff}}
    BY DEF Lifted, LiftedTo, Joined
<1>2. \A r : \A x : x \in Lifted(r) <=> x = LiftedTo(0, r) \/ x = LiftedTo(\hffff, r)
    BY <1>1
<1>3. IsListed(a) <=> \/ \E r \in ListedV4 : InRange(a, r)
                      \/ \E r \in ListedV6 : InRange(a, r)
                      \/ \E r \in ListedV4 : \E x \in Lifted(r) : InRange(a, x)
    BY Zenon DEF IsListed, Listed
<1> QED
    BY <1>2, <1>3

\* A range is of one family of addresses.
LEMMA Families ==
    /\ \A r \in ListedV4 : Len(r.of) = 4 /\ \A s : Len(LiftedTo(s, r).of) = 8
    /\ \A r \in ListedV6 : Len(r.of) = 8
<1>1. \A r \in ListedV4 : Len(r.of) = 4
    BY DEF ListedV4, Range4
<1>2. \A r : \A s : Len(LiftedTo(s, r).of) = 8
    BY DEF LiftedTo
<1>3. \A r \in ListedV6 : Len(r.of) = 8
    BY DEF ListedV6
<1> QED
    BY <1>1, <1>2, <1>3

LEMMA JudgedV4 ==
    ASSUME NEW a \in AddressV4
    PROVE  IsRestrictedV4(a) <=> IsListed(a)
<1>1. Len(a) = 4
    BY OctetsOf
<1>2. \A r : InRange(a, r) => Len(r.of) = 4
    BY <1>1 DEF InRange
<1>3. IsListed(a) <=> \E r \in ListedV4 : InRange(a, r)
    BY <1>2, ListedParts, Families
<1> QED
    BY <1>3, RestrictedOctets

\* Carrying an IPv4 address is being mapped or compatible.
LEMMA CarriedAddress ==
    ASSUME NEW a \in AddressV6
    PROVE  IF AllZero(a, 5) /\ (a[6] = 0 \/ a[6] = \hffff) THEN Carried(a) = Low(a) ELSE Carried(a) = a
<1>1. /\ 0 \in 0..MaxSegment /\ \hffff \in 0..MaxSegment
    <2>1. Segment(0) /\ Segment(\hffff)
        BY DEF Segment, MaxSegment
    <2> QED
        BY <2>1 DEF Segment
<1>2. ASSUME NEW s \in 0..MaxSegment
      PROVE  SubSeq(a, 1, 6) = <<0, 0, 0, 0, 0, s>> <=> AllZero(a, 5) /\ a[6] = s
    <2>. DEFINE first == <<0, 0, 0, 0, 0, s>>
    <2>1. first \in Seq(0..MaxSegment) /\ Len(first) = 6 /\ 6 \in 1..8
        BY <1>1
    <2>2. first[1] = 0 /\ first[2] = 0 /\ first[3] = 0 /\ first[4] = 0 /\ first[5] = 0 /\ first[6] = s
        OBVIOUS
    <2>. HIDE DEF first
    <2>3. SubSeq(a, 1, 6) = first <=> \A i \in 1..6 : a[i] = first[i]
        BY <2>1, Beginning
    <2>4. 1..6 = {1, 2, 3, 4, 5, 6} /\ 1..5 = {1, 2, 3, 4, 5}
        OBVIOUS
    <2>5. SubSeq(a, 1, 6) = first <=> AllZero(a, 5) /\ a[6] = s
        BY <2>2, <2>3, <2>4 DEF AllZero
    <2> QED
        BY <2>5 DEF first
<1>3. IsV6(a)
    BY SegmentsOf DEF IsV6
<1>4. CASE AllZero(a, 5) /\ (a[6] = 0 \/ a[6] = \hffff)
    <2>1. SubSeq(a, 1, 6) = <<0, 0, 0, 0, 0, 0>> \/ SubSeq(a, 1, 6) = <<0, 0, 0, 0, 0, \hffff>>
        BY <1>1, <1>2, <1>4
    <2> QED
        BY <1>3, <1>4, <2>1 DEF Carried, Low
<1>5. CASE ~(AllZero(a, 5) /\ (a[6] = 0 \/ a[6] = \hffff))
    <2>1. ~(SubSeq(a, 1, 6) = <<0, 0, 0, 0, 0, 0>> \/ SubSeq(a, 1, 6) = <<0, 0, 0, 0, 0, \hffff>>)
        BY <1>1, <1>2, <1>5
    <2> QED
        BY <1>5, <2>1 DEF Carried
<1> QED
    BY <1>4, <1>5

\* An IPv6 address is judged as the IPv4 address it carries, and the list has
\* every IPv4 range in both forms.
LEMMA JudgedV6 ==
    ASSUME NEW a \in AddressV6
    PROVE  Restricted(Carried(a)) <=> IsListed(a)
<1>1. Len(a) = 8 /\ ~IsV4(a) /\ \A i \in 1..8 : Segment(a[i])
    BY SegmentsOf DEF IsV4
<1>2. \A r : InRange(a, r) => Len(r.of) = 8
    BY <1>1 DEF InRange
<1>3. Segment(0) /\ Segment(\hffff)
    BY DEF Segment, MaxSegment
<1>4. IsListed(a) <=>
        \/ IsRestrictedV6(a)
        \/ AllZero(a, 5) /\ (a[6] = 0 \/ a[6] = \hffff) /\ \E r \in ListedV4 : InRange(Low(a), r)
    BY <1>2, <1>3, ListedParts, Families, RestrictedSegments, LiftedRange
<1>5. CASE AllZero(a, 5) /\ (a[6] = 0 \/ a[6] = \hffff)
    <2>1. Carried(a) = Low(a) /\ Low(a) \in AddressV4
        BY <1>5, CarriedAddress, LowOctets
    <2>2. Restricted(Carried(a)) <=> IsRestrictedV4(Low(a))
        BY <2>1, OctetsOf DEF Restricted, IsV4
    <2>3. IsRestrictedV6(a) => IsRestrictedV4(Low(a))
        <3>1. a[1] = 0
            BY <1>5 DEF AllZero
        <3>2. /\ 0 \notin Multicast /\ 0 \notin UniqueLocal /\ 0 \notin LinkLocal /\ 0 \notin SiteLocal
              /\ 0 # SixToFour /\ 0 # Teredo
            BY DEF Multicast, UniqueLocal, LinkLocal, SiteLocal, SixToFour, Teredo
        <3>3. SubSeq(a, 1, 6) # Nat64
            <4>1. Segment(\h64) /\ Segment(\hff9b)
                BY DEF Segment, MaxSegment
            <4>2. Nat64 \in Seq(0..MaxSegment) /\ Len(Nat64) = 6 /\ Nat64[1] = \h64
                <5>1. \h64 \in 0..MaxSegment /\ \hff9b \in 0..MaxSegment /\ 0 \in 0..MaxSegment
                    BY <1>3, <4>1 DEF Segment
                <5> QED
                    BY <5>1 DEF Nat64
            <4> QED
                BY <3>1, <4>2, Beginning
        <3>4. ASSUME SubSeq(a, 1, 7) = <<0, 0, 0, 0, 0, 0, 0>>
              PROVE  Low(a)[1] = 0
            <4>1. a[7] = 0
                BY <3>4, SevenZeros DEF AllZero
            <4> QED
                BY <4>1 DEF Low
        <3>5. ASSUME IsRestrictedV6(a)
              PROVE  SubSeq(a, 1, 7) = <<0, 0, 0, 0, 0, 0, 0>>
            <4>1. a[1] \notin Multicast \union UniqueLocal \union LinkLocal \union SiteLocal
                BY <3>1, <3>2
            <4> QED
                BY <3>1, <3>2, <3>3, <3>5, <4>1, Zenon DEF IsRestrictedV6
        <3>6. ASSUME Low(a)[1] = 0
              PROVE  IsRestrictedV4(Low(a))
            <4>1. Low(a)[1] \in {0, 10, 127} \union 224..239
                BY <3>6
            <4> QED
                BY <4>1, Zenon DEF IsRestrictedV4
        <3> QED
            BY <3>4, <3>5, <3>6
    <2> QED
        BY <1>4, <1>5, <2>1, <2>2, <2>3, RestrictedOctets
<1>6. CASE ~(AllZero(a, 5) /\ (a[6] = 0 \/ a[6] = \hffff))
    BY <1>1, <1>4, <1>6, CarriedAddress DEF Restricted
<1> QED
    BY <1>5, <1>6

\* The policy of destination.rs is the list its documentation gives: for every
\* IPv4 and IPv6 address, in whatever form it is written.
THEOREM PolicyIsTheList ==
    ASSUME NEW a \in AddressV4 \union AddressV6
    PROVE  Verdict(a) = "permitted" <=> ~IsListed(a)
<1>1. Restricted(MetadataV4)
    <2>1. Len(MetadataV4) = 4 /\ MetadataV4[1] = 169 /\ MetadataV4[2] = 254
        BY DEF MetadataV4
    <2> QED
        BY <2>1, Zenon DEF Restricted, IsRestrictedV4, IsV4
<1>2. Restricted(MetadataV6)
    <2>1. Len(MetadataV6) # 4 /\ MetadataV6[1] = \hfd00
        BY DEF MetadataV6
    <2>2. MetadataV6[1] \in Multicast \union UniqueLocal \union LinkLocal \union SiteLocal
        BY <2>1 DEF UniqueLocal
    <2>3. ~IsV4(MetadataV6)
        BY <2>1 DEF IsV4
    <2> QED
        BY <2>2, <2>3, Zenon DEF Restricted, IsRestrictedV6
<1>3. Verdict(a) = "permitted" <=> ~Restricted(Carried(a))
    BY <1>1, <1>2 DEF Verdict
<1>4. CASE a \in AddressV4
    <2>1. Carried(a) = a /\ IsV4(a)
        BY <1>4, OctetsOf DEF Carried, IsV6, IsV4
    <2> QED
        BY <1>3, <1>4, <2>1, JudgedV4 DEF Restricted
<1>5. CASE a \in AddressV6
    BY <1>3, <1>5, JudgedV6
<1> QED
    BY <1>4, <1>5

-----------------------------------------------------------------------------
(* What is contacted was judged, and what is refused was judged too.       *)

Judged ==
    /\ pc = "send" => /\ pins.addresses \subseteq AddressV4 \union AddressV6
                      /\ ~options.allowPrivate => \A a \in pins.addresses : Verdict(a) = "permitted"
    /\ pc # "idle" => outcome = "none"

\* What Permitted says of the verdicts it was made of.
LEMMA PermittedVerdicts ==
    ASSUME NEW url \in Urls, NEW allow, NEW looked \in SUBSET (AddressV4 \union AddressV6)
    PROVE  /\ Reached(url, looked) \subseteq AddressV4 \union AddressV6
           /\ (Permitted(url, allow, looked).refusal = "none" /\ ~allow) =>
                \A a \in Reached(url, looked) : Verdict(a) = "permitted"
           /\ Permitted(url, allow, looked).refusal = "address" =>
                \E a \in Reached(url, looked) : Verdict(a) # "permitted"
<1>1. Reached(url, looked) \subseteq AddressV4 \union AddressV6
    BY DEF Reached, IsLiteral, Urls, Addresses
<1>2. \A why : Refused(why).refusal = why
    BY DEF Refused
<1>. DEFINE bad == ~allow /\ \E a \in Reached(url, looked) : Verdict(a) # "permitted"
<1>3. \/ \E why \in {"scheme", "no_host", "userinfo", "localhost", "unresolvable"} :
            Permitted(url, allow, looked) = Refused(why)
      \/ bad /\ Permitted(url, allow, looked) = Refused("address")
      \/ ~bad /\ Permitted(url, allow, looked) = [refusal |-> "none", addresses |-> Reached(url, looked)]
    BY Zenon DEF Permitted, Reached
<1> QED
    BY <1>1, <1>2, <1>3

LEMMA JudgedStep ==
    ASSUME TypeOK, Judged, PolicyIsTheListedOne, [Next]_vars
    PROVE  Judged' /\ PolicyIsTheListedOne'
<1>. DEFINE proper == AddressV4 \union AddressV6
<1>1. CASE Request
    <2>1. pc' = "vet" /\ outcome' = "none" /\ contacts' = <<>> /\ DOMAIN contacts' = {}
        BY <1>1 DEF Request
    <2> QED
        BY <2>1 DEF Judged, PolicyIsTheListedOne
<1>2. CASE Vet
    <2>1. PICK looked \in IF IsLiteral(fetch.current) THEN {{}} ELSE Lookups :
            /\ answer' = looked
            /\ \/ End(Permitted(fetch.current, options.allowPrivate, looked).refusal)
               \/ End("invalid") \/ End("plaintext_credentials")
               \/ /\ Permitted(fetch.current, options.allowPrivate, looked).refusal = "none"
                  /\ pins' = [host |-> fetch.current.host, address |-> fetch.current.address,
                              port |-> PortOf(fetch.current),
                              addresses |-> Permitted(fetch.current, options.allowPrivate, looked).addresses]
                  /\ pc' = "send"
                  /\ UNCHANGED <<options, todo, fetch, contacts, outcome>>
        BY <1>2, Zenon DEF Vet
    <2>2. looked \in SUBSET proper
        <3>1. looked = {} \/ looked \in Lookups
            BY <2>1
        <3> QED
            BY <3>1, TransportAssumption
    <2>3. pc = "vet" /\ fetch.current \in Urls /\ outcome = "none"
        BY <1>2 DEF Vet, TypeOK, Judged
    <2>. DEFINE vetted == Permitted(fetch.current, options.allowPrivate, looked)
    <2>4. CASE End("invalid") \/ End("plaintext_credentials")
        BY <2>4 DEF End, Judged, PolicyIsTheListedOne
    <2>5. CASE End(vetted.refusal)
        <3>1. /\ pc' = "idle" /\ outcome' = vetted.refusal
              /\ UNCHANGED <<options, fetch, contacts>>
            BY <2>5 DEF End
        <3>2. ASSUME vetted.refusal = "address"
              PROVE  \E a \in answer' \union {fetch'.current.address} : a # <<>> /\ IsListed(a)
            <4>1. PICK a \in Reached(fetch.current, looked) : Verdict(a) # "permitted"
                BY <2>2, <2>3, <3>2, PermittedVerdicts
            <4>2. a \in proper
                BY <2>2, <2>3, <4>1, PermittedVerdicts
            <4>3. IsListed(a)
                BY <4>1, <4>2, PolicyIsTheList
            <4>4. a # <<>>
                BY <4>2, OctetsOf, SegmentsOf
            <4>5. a \in answer' \union {fetch'.current.address}
                BY <2>1, <3>1, <4>1 DEF Reached
            <4> QED
                BY <4>3, <4>4, <4>5
        <3> HIDE DEF vetted
        <3> QED
            BY <3>1, <3>2 DEF Judged, PolicyIsTheListedOne
    <2>6. ASSUME /\ vetted.refusal = "none"
                 /\ pins'.addresses = vetted.addresses
                 /\ pc' = "send"
                 /\ UNCHANGED <<options, todo, fetch, contacts, outcome>>
          PROVE  Judged' /\ PolicyIsTheListedOne'
        <3>1. pins'.addresses = Reached(fetch.current, looked)
            BY <2>3, <2>6, PermittedAddresses
        <3>2. /\ Reached(fetch.current, looked) \subseteq proper
              /\ ~options.allowPrivate => \A a \in Reached(fetch.current, looked) : Verdict(a) = "permitted"
            BY <2>2, <2>3, <2>6, PermittedVerdicts
        <3> QED
            BY <2>3, <2>6, <3>1, <3>2 DEF Judged, PolicyIsTheListedOne
    <2> QED
        BY <2>1, <2>4, <2>5, <2>6
<1>3. CASE Send
    <2>1. CASE \E how \in {"transport", "timeout"} : End(how)
        BY <2>1 DEF End, Judged, PolicyIsTheListedOne
    <2>2. CASE ~\E how \in {"transport", "timeout"} : End(how)
        <3>. DEFINE new(address) == [url |-> fetch.current, address |-> address, answer |-> answer,
                                     credentials |-> fetch.request.credentials]
        <3>1. PICK address \in IF options.proxied THEN {ProxyAddress} ELSE Dialled(fetch.current) :
                /\ contacts' = Append(contacts, new(address))
                /\ pc' = "answer"
                /\ UNCHANGED <<options, todo, fetch, pins, outcome>>
            BY <1>3, <2>2 DEF Send
        <3>2. pc = "send" /\ outcome = "none"
            BY <1>3 DEF Send, Judged
        <3>3. ASSUME ~options.allowPrivate, ~options.proxied
              PROVE  ~IsListed(address)
            <4>1. address \in pins.addresses
                BY <3>1, <3>3 DEF Dialled
            <4>2. Verdict(address) = "permitted" /\ address \in proper
                BY <3>2, <3>3, <4>1 DEF Judged
            <4> QED
                BY <4>2, PolicyIsTheList
        <3>4. \A i \in DOMAIN contacts' :
                 \/ i \in DOMAIN contacts /\ contacts'[i] = contacts[i]
                 \/ contacts'[i] = new(address)
            BY <3>1 DEF TypeOK
        <3> QED
            BY <3>1, <3>2, <3>3, <3>4 DEF Judged, PolicyIsTheListedOne
    <2> QED
        BY <2>1, <2>2
<1>4. CASE Redirected
    <2>1. CASE End("redirect") \/ End("redirect_downgrade")
        BY <2>1 DEF End, Judged, PolicyIsTheListedOne
    <2>2. CASE pc' = "vet" /\ UNCHANGED <<options, contacts, outcome>>
        BY <1>4, <2>2 DEF Redirected, Judged, PolicyIsTheListedOne
    <2>3. \A next : RedirectRefusal(next) \in {"none", "redirect", "redirect_downgrade"}
        BY DEF RedirectRefusal
    <2> QED
        BY <1>4, <2>1, <2>2, <2>3 DEF Redirected
<1>5. CASE Read
    <2>1. pc' = "idle" /\ outcome' # "address" /\ UNCHANGED <<options, contacts>>
        BY <1>5 DEF Read, End
    <2> QED
        BY <2>1 DEF Judged, PolicyIsTheListedOne
<1>6. CASE UNCHANGED vars
    BY <1>6 DEF vars, Judged, PolicyIsTheListedOne
<1> QED
    BY <1>1, <1>2, <1>3, <1>4, <1>5, <1>6 DEF Next, Done

\* Nothing listed is connected to, and nothing is refused as an address that
\* is not listed (permitted in destination.rs, request in online/mod.rs).
THEOREM Listing == Spec => []PolicyIsTheListedOne
<1>1. Init => Judged /\ PolicyIsTheListedOne
    BY DEF Init, Judged, PolicyIsTheListedOne
<1>2. TypeOK /\ Judged /\ PolicyIsTheListedOne /\ [Next]_vars => Judged' /\ PolicyIsTheListedOne'
    BY JudgedStep
<1> QED
    BY <1>1, <1>2, Typing, PTL DEF Spec

=============================================================================
