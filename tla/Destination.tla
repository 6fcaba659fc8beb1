---------------------------- MODULE Destination ------------------------------
(***************************************************************************)
(* Where --online may connect (openszigno-cli online/destination.rs): the  *)
(* policy on URLs and addresses.                                           *)
(*                                                                         *)
(* An address is the tuple of its octets (IPv4) or segments (IPv6).  A URL *)
(* is a record of what the policy reads of it.  What a name resolves to is *)
(* an argument.                                                            *)
(***************************************************************************)
EXTENDS Integers, Sequences

IsV4(a) == Len(a) = 4
IsV6(a) == Len(a) = 8

MaxOctet   == 255
MaxSegment == 65535

AddressV4 == {a \in Seq(0..MaxOctet) : IsV4(a)}
AddressV6 == {a \in Seq(0..MaxSegment) : IsV6(a)}

MetadataV4 == <<169, 254, 169, 254>>
MetadataV6 == <<\hfd00, \h0ec2, 0, 0, 0, 0, 0, \h0254>>

\* The IPv4 address an IPv6 one carries, mapped or compatible; else itself.
Carried(a) ==
    IF IsV6(a) /\ \/ SubSeq(a, 1, 6) = <<0, 0, 0, 0, 0, 0>>
                  \/ SubSeq(a, 1, 6) = <<0, 0, 0, 0, 0, \hffff>>
    THEN <<a[7] \div 256, a[7] % 256, a[8] \div 256, a[8] % 256>>
    ELSE a

IsRestrictedV4(a) ==
    \/ a[1] \in {0, 10, 127} \union 224..239
    \/ a[1] = 172 /\ a[2] \in 16..31
    \/ a[1] = 192 /\ a[2] = 168
    \/ a[1] = 169 /\ a[2] = 254
    \/ a = <<255, 255, 255, 255>>
    \/ a[1] = 100 /\ a[2] \in 64..127
    \/ a[1] = 192 /\ a[2] = 0 /\ a[3] = 0
    \/ a[1] = 198 /\ a[2] \in {18, 19}

Multicast   == \hff00..\hffff
UniqueLocal == \hfc00..\hfdff
LinkLocal   == \hfe80..\hfebf
SiteLocal   == \hfec0..\hfeff
SixToFour   == \h2002
Teredo      == \h2001
Nat64       == <<\h64, \hff9b, 0, 0, 0, 0>>

IsRestrictedV6(a) ==
    \/ SubSeq(a, 1, 7) = <<0, 0, 0, 0, 0, 0, 0>> /\ a[8] \in {0, 1}
    \/ a[1] \in Multicast \union UniqueLocal \union LinkLocal \union SiteLocal
    \/ a[1] = SixToFour
    \/ a[1] = Teredo /\ a[2] = 0
    \/ SubSeq(a, 1, 6) = Nat64

Restricted(a) == IF IsV4(a) THEN IsRestrictedV4(a) ELSE IsRestrictedV6(a)

\* A slip: an address is judged in the form it is written in.
VerdictAsWritten(a) ==
    IF a \in {MetadataV4, MetadataV6} THEN "metadata"
    ELSE IF Restricted(a) THEN "restricted"
    ELSE "permitted"

Verdict(address) ==
    LET a == Carried(address)
    IN  IF a \in {MetadataV4, MetadataV6} THEN "metadata"
        ELSE IF Restricted(a) THEN "restricted"
        ELSE "permitted"

\* Judged as mapped, not as compatible.
IsLoopback(a) ==
    \/ (IsV4(a) /\ a[1] = 127)
    \/ a = <<0, 0, 0, 0, 0, 0, 0, 1>>
    \/ (IsV6(a) /\ SubSeq(a, 1, 6) = <<0, 0, 0, 0, 0, \hffff>> /\ a[7] \div 256 = 127)
-----------------------------------------------------------------------------
(* URLs: a scheme ("none" if the text has none), userinfo or not, a host,  *)
(* which is a name (possibly "") or, by its address, a literal, and a port *)
(* or NoPort, or a BadPort that is no number.                              *)

NoPort  == -1
BadPort == -2
DefaultPort(scheme) == IF scheme = "https" THEN 443 ELSE 80

\* What "the same host" is about: the text before the path, port and all.
Authority(url) == [user |-> url.user, host |-> url.host, address |-> url.address, port |-> url.port]

IsLiteral(url) == url.address # <<>>
Named(url) == IsLiteral(url) \/ url.host # ""
PortOf(url) == IF url.port = NoPort THEN DefaultPort(url.scheme) ELSE url.port

Refused(why) == [refusal |-> why, addresses |-> {}]

\* permitted: the addresses a URL may be contacted on, or why it may not be.
\* `answer` is what the host's name resolves to.
Permitted(url, allowPrivate, answer) ==
    IF url.scheme \notin {"http", "https"} THEN Refused("scheme")
    ELSE IF ~Named(url) THEN Refused("no_host")
    ELSE IF url.user THEN Refused("userinfo")
    ELSE IF url.port = BadPort THEN Refused("no_host")
    ELSE IF ~allowPrivate /\ url.host = "localhost" THEN Refused("localhost")
    ELSE LET addresses == IF IsLiteral(url) THEN {url.address} ELSE answer
         IN  IF ~allowPrivate /\ \E a \in addresses : Verdict(a) # "permitted" THEN Refused("address")
             ELSE IF addresses = {} THEN Refused("unresolvable")
             ELSE [refusal |-> "none", addresses |-> addresses]

LoopbackOnly(addresses) == addresses # {} /\ \A a \in addresses : IsLoopback(a)
-----------------------------------------------------------------------------
(* The list at the head of the file, as prefixes.                          *)

Range4(first, bits) == [of |-> first, bits |-> bits]

ListedV4 ==
    {Range4(<<127, 0, 0, 0>>, 8), Range4(<<10, 0, 0, 0>>, 8), Range4(<<172, 16, 0, 0>>, 12),
     Range4(<<192, 168, 0, 0>>, 16), Range4(<<169, 254, 0, 0>>, 16), Range4(<<0, 0, 0, 0>>, 8),
     Range4(<<255, 255, 255, 255>>, 32), Range4(<<224, 0, 0, 0>>, 4), Range4(<<100, 64, 0, 0>>, 10),
     Range4(<<192, 0, 0, 0>>, 24), Range4(<<198, 18, 0, 0>>, 15)}

ListedV6 ==
    {[of |-> <<0, 0, 0, 0, 0, 0, 0, 1>>, bits |-> 128], [of |-> <<0, 0, 0, 0, 0, 0, 0, 0>>, bits |-> 128],
     [of |-> <<\hfe80, 0, 0, 0, 0, 0, 0, 0>>, bits |-> 10], [of |-> <<\hfc00, 0, 0, 0, 0, 0, 0, 0>>, bits |-> 7],
     [of |-> <<\hff00, 0, 0, 0, 0, 0, 0, 0>>, bits |-> 8], [of |-> <<\hfec0, 0, 0, 0, 0, 0, 0, 0>>, bits |-> 10],
     [of |-> <<\h2002, 0, 0, 0, 0, 0, 0, 0>>, bits |-> 16], [of |-> <<\h2001, 0, 0, 0, 0, 0, 0, 0>>, bits |-> 32],
     [of |-> <<\h64, \hff9b, 0, 0, 0, 0, 0, 0>>, bits |-> 96]}

\* An IPv4 range within the mapped and the compatible addresses.
Lifted(r) ==
    {[of |-> <<0, 0, 0, 0, 0, s, r.of[1] * 256 + r.of[2], r.of[3] * 256 + r.of[4]>>, bits |-> 96 + r.bits] :
        s \in {0, \hffff}}

Listed == ListedV4 \union ListedV6 \union UNION {Lifted(r) : r \in ListedV4}

\* How many of the bits of part i the prefix fixes, parts being `width` wide.
Fixed(bits, i, width) ==
    LET n == bits - (i - 1) * width IN IF n < 0 THEN 0 ELSE IF n > width THEN width ELSE n

InRange(a, r) ==
    /\ Len(a) = Len(r.of)
    /\ LET width == IF IsV4(a) THEN 8 ELSE 16
       IN  \A i \in 1..Len(a) :
             LET unit == 2 ^ (width - Fixed(r.bits, i, width))
             IN  a[i] \div unit = r.of[i] \div unit

IsListed(a) == \E r \in Listed : InRange(a, r)
=============================================================================
