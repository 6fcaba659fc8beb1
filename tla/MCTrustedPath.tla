----------------------------- MODULE MCTrustedPath -----------------------------
(***************************************************************************)
(* An instance of TrustedPath: a root, the CA below it and two signers'    *)
(* certificates, one of them issued once eIDAS applied and denying its     *)
(* qualification; the operators of the list of lists and of the national   *)
(* list, with a renewed certificate for the key of the latter; and a rogue *)
(* that nobody answers for, with a certificate below it.                   *)
(***************************************************************************)
EXTENDS TrustedPath, TLC

MCCerts == {"root", "ca", "old", "late", "lotl", "tlso", "renewed", "rogue", "below"}

MCSubject == [c \in MCCerts |-> IF c = "renewed" THEN "tlso" ELSE c]

MCIssuer == [c \in MCCerts |->
    CASE c = "ca" -> "root" [] c \in {"old", "late"} -> "ca"
      [] c = "below" -> "rogue" [] OTHER -> MCSubject[c]]

MCKey == [c \in MCCerts |-> IF c = "renewed" THEN "tlso" ELSE c]

MCSignedWith == MCIssuer

MCSki == [c \in MCCerts |-> MCKey[c]]

MCStatements == [c \in MCCerts |->
    CASE c = "late" -> [form |-> "read", oids |-> {"sscd"}]
      [] c = "old" -> [form |-> "read", oids |-> {"sscd"}]
      [] OTHER -> [form |-> "absent", oids |-> {}]]

\* The store: one or two entries in anchors/, one in intermediates/, one beside
\* them.
MCName == 1 .. 4
MCPlace == <<"anchors", "anchors", "intermediates", "top">>

File(size, certs) == [kind |-> "file", size |-> size, certs |-> certs]
Gone == [kind |-> "gone", size |-> 0, certs |-> <<>>]
Link == [kind |-> "link", size |-> 1, certs |-> <<"rogue">>]

MCEntry == {File(2, <<"root">>), File(2, <<"rogue">>), File(1, <<"root", "tlso">>),
            File(2, <<"ca">>), File(1, <<"garbage">>), File(3, <<"lotl">>), Link, Gone,
            [kind |-> "other", size |-> 0, certs |-> <<>>]}

Tree(a, b, c, t) == [n \in MCName |-> <<a, b, c, t>>[n]]

\* What is in a directory that is not there is not there either.
Below(folders, tree) ==
    [n \in MCName |-> IF folders[MCPlace[n]] \in Enterable THEN tree[n] ELSE Gone]

Store(folders, tree) ==
    [store |-> TRUE, folders |-> folders, disk |-> Below(folders, tree),
     signer |-> FALSE, lotl |-> FALSE, lists |-> 0]

Directories(a, i, t) == [anchors |-> a, intermediates |-> i, top |-> t]
Layouts == {Directories("dir", "dir", "dir"), Directories("dir", "none", "dir"),
            Directories("none", "none", "dir")}

MCTrees == {Tree(a, Gone, a, Gone) : a \in {Gone, File(2, <<"root">>), File(2, <<"rogue">>)}}

WithStore ==
    {Store(f, Tree(File(2, <<"root">>), b, c, File(2, <<"root">>))) :
        f \in Layouts, b \in {Gone, File(1, <<"root", "tlso">>), File(1, <<"garbage">>)},
        c \in {File(2, <<"ca">>), Link}}
    \* directories that are links, or no directories
    \union {Store(f, Tree(File(2, <<"rogue">>), Gone, File(2, <<"ca">>), File(2, <<"root">>))) :
        f \in {Directories("link", "dir", "dir"), Directories("dir", "link", "dir"),
              Directories("other", "dir", "dir"), Directories("dir", "other", "dir"),
              Directories("dir", "dir", "link"), Directories("none", "none", "none")}}

AnchorsOnly == Directories("dir", "none", "dir")
Plain == Tree(File(2, <<"root">>), Gone, Gone, Gone)
NoStore == Tree(Gone, Gone, Gone, Gone)

WithLists ==
    {[store |-> s, folders |-> AnchorsOnly, disk |-> IF s THEN Plain ELSE NoStore,
      signer |-> o, lotl |-> l, lists |-> n] :
     s \in BOOLEAN, o \in BOOLEAN, l \in BOOLEAN, n \in 0 .. 1}

MCCommands ==
    WithStore \union WithLists \union
    {[store |-> FALSE, folders |-> AnchorsOnly, disk |-> NoStore,
      signer |-> TRUE, lotl |-> FALSE, lists |-> 2]}

MCSignerFiles == {<<"lotl">>, <<"tlso">>, <<"lotl", "tlso">>, <<"garbage">>}

Instance(kind, status, since, ids) ==
    [kind |-> kind, status |-> status, since |-> since, ids |-> ids]
Id(form, of) == [form |-> form, of |-> of]

\* The CA, accredited and then granted and withdrawn; named by certificate in
\* the present entry and by key in the history.
CaService ==
    <<Instance("ca_qc", "withdrawn", 4, {Id("certificate", "ca")}),
      Instance("ca_qc", "granted", 2, {Id("ski", "ca")}),
      Instance("ca_qc", "accredited", 0, {Id("certificate", "garbage")})>>

\* Named only, still at a status of before eIDAS, or a timestamping authority
\* until its status was withdrawn.
NamedService == <<Instance("ca_qc", "accredited", 0, {Id("name", "ca")})>>
TsaService ==
    <<Instance("tsa_qtst", "withdrawn", 4, {Id("certificate", "root")}),
      Instance("tsa_qtst", "granted", 0, {Id("certificate", "root")})>>
OtherService == <<Instance("other", "granted", 0, {Id("certificate", "rogue")})>>
RogueService == <<Instance("ca_qc", "granted", 0, {Id("certificate", "rogue")})>>

Content(pointers, svs) == [version |-> 5, pointers |-> pointers, services |-> svs]

ListOfLists == Content(<<"tlso", "garbage", "renewed">>, <<>>)
Redirected  == Content(<<"rogue">>, <<>>)
National    == Content(<<>>, <<CaService>>)
\* The last of these is beyond what is read of one list.
Extended    == Content(<<>>, <<CaService, RogueService, NamedService>>)
NameOnly    == Content(<<>>, <<NamedService, TsaService, OtherService>>)

Ref(target, recorded) ==
    [target |-> target, recorded |-> recorded, enveloped |-> target # "service", listed |-> TRUE]

Sig(by, designates, references) ==
    [listed |-> TRUE, intact |-> TRUE, by |-> by, designates |-> designates,
     references |-> references]

File0(content, sigs) == [usable |-> TRUE, content |-> content, signatures |-> sigs]

Properly(by, content) == Sig(by, by, <<Ref("document", content), Ref("properties", by)>>)

MCLists ==
    {File0(ListOfLists, <<Properly("lotl", ListOfLists)>>),
     File0(Redirected, <<Properly("lotl", ListOfLists)>>),
     File0(Redirected, <<Properly("rogue", Redirected)>>),
     File0(National, <<Properly("tlso", National)>>),
     File0(National, <<Sig("tlso", "renewed", <<Ref("list", National), Ref("properties", "renewed")>>)>>),
     File0(NameOnly, <<Sig("lotl", "none", <<Ref("list", NameOnly)>>)>>),
     File0(Extended, <<Properly("tlso", National)>>),
     File0(Extended, <<Sig("tlso", "none", <<Ref("service", CaService)>>)>>),
     File0(Extended, <<Properly("rogue", Extended)>>),
     File0(Extended, <<[Properly("tlso", Extended) EXCEPT !.intact = FALSE]>>),
     File0(Extended, <<Properly("tlso", National), Properly("rogue", Extended)>>),
     File0(National, <<Sig("tlso", "none", <<[Ref("document", National) EXCEPT !.enveloped = FALSE]>>)>>),
     File0(National, <<Sig("tlso", "none", <<Ref("document", National), Ref("external", 0)>>)>>),
     File0(National, <<>>),
     [File0(National, <<Properly("tlso", National)>>) EXCEPT !.content.version = 7]}

MCPaths ==
    {<<"old", "ca">>, <<"old", "ca", "root">>, <<"late", "ca">>, <<"late", "ca", "root">>,
     <<"below", "rogue">>}
MCTimes == {1, 3, 5}
-----------------------------------------------------------------------------
(* The search.                                                             *)

Always(x) == [c \in MCCerts |-> x]

MCNotBefore == Always(0)
MCNotAfter  == Always(5)
MCPathLen   == Always(2)
MCExcludes  == Always({})
MCUses      == Always(Purposes)

Said(sv, cert) == [cert |-> cert, entries |-> [k \in DOMAIN sv |-> Line(sv[k])]]

Ca    == Said(CaService, "ca")
Tsa   == Said(TsaService, "root")
Rogue == Said(RogueService, "rogue")

\* What the trust may come to without a store, and with one.
Listing(ends, svs) == [anchors |-> ends, vouched |-> {}, services |-> svs]

MCListings ==
    {Listing(<<>>, {}), Listing(<<>>, {Ca}), Listing(<<"root">>, {Tsa}),
     Listing(<<"rogue">>, {Ca, Rogue}), Listing(<<"root">>, {Ca, Tsa}),
     Listing(<<"root", "rogue">>, {Ca, Rogue, Tsa})}

Stored(ends, svs) == [anchors |-> ends, vouched |-> {"root"}, services |-> svs]

Asked(leaf, time, purpose, trust) ==
    [leaf |-> leaf, candidates |-> <<"ca", "rogue">>, anchors |-> trust.anchors,
     vouched |-> trust.vouched, services |-> trust.services, time |-> time,
     purpose |-> purpose]

OnLists ==
    {Asked(leaf, time, "signing", t) :
        leaf \in {"old", "late", "below"}, time \in MCTimes, t \in MCListings}
    \union {Asked("old", time, "timestamping", t) : time \in MCTimes, t \in MCListings}
    \* never what it comes to: a list's certificate is not vouched for by the store
    \union {Asked("old", 5, "signing", [Listing(<<"root">>, {Tsa}) EXCEPT !.vouched = {"root"}])}

OnStore ==
    {Asked("old", 3, "signing", Stored(<<"root">>, {})),
     Asked("old", 5, "signing", Stored(<<"root">>, {Ca})),
     Asked("old", 3, "timestamping", Stored(<<"root">>, {Tsa})),
     Asked("below", 3, "signing", Stored(<<"root", "rogue">>, {Ca, Rogue}))}

MCRequests == OnLists \union OnStore

\* A request is only looked at on a command line whose trust may come to it.
MCInit ==
    /\ TrustedInit
    /\ request \in (IF command.store THEN OnStore ELSE OnLists)
    /\ request.services # {} => command.lists > 0
    /\ Cardinality(request.services) = 3 => command.lists > 1

MCSpec == MCInit /\ [][TrustedNext]_<<vars, trustVars>>
=============================================================================
