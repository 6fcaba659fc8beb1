----------------------------- MODULE MCTransport -----------------------------
(***************************************************************************)
(* Small instances of Transport: every listed range met at its borders, as *)
(* a literal, and names that resolve to some of them.                      *)
(***************************************************************************)
EXTENDS Transport

Url(scheme, host, port) ==
    [scheme |-> scheme, user |-> FALSE, host |-> host, address |-> <<>>, port |-> port]
At(scheme, address) ==
    [scheme |-> scheme, user |-> FALSE, host |-> "", address |-> address, port |-> NoPort]

Plain  == [credentials |-> FALSE, anyStatus |-> FALSE]
Bearer == [credentials |-> TRUE, anyStatus |-> TRUE]

\* The first and the last address of a range, and the ones next to it.
Top(r) ==
    LET width == IF IsV4(r.of) THEN 8 ELSE 16
    IN  [i \in DOMAIN r.of |-> r.of[i] + 2 ^ (width - Fixed(r.bits, i, width)) - 1]

Whole(a) == IF IsV4(a) THEN 255 ELSE 65535

RECURSIVE After(_, _), Before(_, _)
After(a, i) ==
    IF i = 0 THEN a
    ELSE IF a[i] < Whole(a) THEN [a EXCEPT ![i] = @ + 1] ELSE After([a EXCEPT ![i] = 0], i - 1)
Before(a, i) ==
    IF i = 0 THEN a
    ELSE IF a[i] > 0 THEN [a EXCEPT ![i] = @ - 1] ELSE Before([a EXCEPT ![i] = Whole(a)], i - 1)

\* The function as a tuple, which is how addresses are written.
Tuple(f) == IF IsV4(f) THEN <<f[1], f[2], f[3], f[4]>>
            ELSE <<f[1], f[2], f[3], f[4], f[5], f[6], f[7], f[8]>>

Borders == {Tuple(f) : f \in UNION {{r.of, Top(r), After(Top(r), Len(r.of)), Before(r.of, Len(r.of))} : r \in Listed}}
           \union {MetadataV4, MetadataV6}

Public == <<198, 51, 100, 7>>
Other  == <<203, 0, 113, 9>>
Mapped(a) == <<0, 0, 0, 0, 0, \hffff, a[1] * 256 + a[2], a[3] * 256 + a[4]>>

MCLookups ==
    {{}, {Public}, {Other}, {Public, Other}, {<<127, 0, 0, 1>>}, {Public, <<127, 0, 0, 1>>},
     {Mapped(<<127, 0, 0, 1>>)}, {Mapped(Public)}, {MetadataV4}, {<<10, 0, 0, 1>>}}

Ca   == Url("http", "ca", NoPort)
Tls  == Url("https", "ca", NoPort)
Alt  == Url("http", "ca", 8080)
Else == Url("http", "else", NoPort)

Strange ==
    {Url("ldap", "ca", NoPort), Url("none", "ca", NoPort), Url("http", "", NoPort), Url("http", "ca", BadPort),
     [Ca EXCEPT !.user = TRUE], Url("http", "localhost", NoPort)}

MCTargets == {[kind |-> "absolute", url |-> u] : u \in {Ca, Tls, Alt, Else} \union Strange}

Once(urls, request) == {<<[url |-> u, request |-> request]>> : u \in urls}

MCPlans ==
    Once({At("http", a) : a \in Borders}, Plain)
    \union Once(Strange \union {At("http", <<127, 0, 0, 1>>), At("http", Public)}, Bearer)
    \union {<<[url |-> u, request |-> q], [url |-> v, request |-> r]>> :
              u \in {Ca, Tls}, q \in {Plain}, v \in {Ca, Tls, Alt}, r \in {Bearer}}
==============================================================================
