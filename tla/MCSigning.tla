------------------------------ MODULE MCSigning ------------------------------
(***************************************************************************)
(* Small instances of Signing: dossiers of one and two documents, plain or *)
(* with what an earlier program may have left in them, and the requests a  *)
(* caller makes of them.                                                   *)
(***************************************************************************)
EXTENDS Signing

Named(name, n) == Ident(name, n, 0, "")
Plain(what) == Word(Says(what, NoId, <<>>))

Spelled(element, how) == <<[Head(element) EXCEPT !.spelled = how]>> \o Tail(element)

ProfileOf(n, title) == Element("DocumentProfile", Named("profile", n), Named("object", n), title)
Payload(n, content) == Element("Object", Named("object", n), NoId, content)
Document(n, content) == Element("Document", Named("document", n), NoId, content)
Usual(n) == Document(n, ProfileOf(n, Plain("title")) \o Payload(n, Plain("payload")))

DossierOf(encoding, documents, extra) ==
    <<Declaration(encoding)>>
    \o Element("Dossier", Named("dossier", 0), NoId,
           Element("DossierProfile", Named("dossier-profile", 0), Named("documents", 0), Plain("title"))
           \o Element("Documents", Named("documents", 0), NoId, documents)
           \o extra)

Of(documents) == DossierOf("UTF-8", documents, <<>>)
Single == Of(Usual(1))
Double == Of(Usual(1) \o Usual(2))

\* What another program wrote, inside the element of this identifier.
Elsewhere == [key |-> "rsa", certificate |-> "rsa", algorithm |-> "rsa-sha256"]
Foreign(targets) ==
    [n |-> 0, id |-> Named("foreign", 0),
     references |-> [k \in DOMAIN targets |-> [id |-> Ident("foreign", k, 0, "reference"), to |-> targets[k]]]]

Unfilled(t, inside, plan) ==
    InsertedAt(t, InsertOffset(t, ByAnyId(t, inside)), SignatureElement(plan, Elsewhere, FALSE))

Signed(t, inside, targets) ==
    LET plan == Foreign(targets)
    IN  Valued(Digested(Unfilled(t, inside, plan), <<plan>>), <<plan>>, Elsewhere)

Asks == [bare |-> FALSE, status |-> 0, stamps |-> "asked"]

StampedBy(t, inside, targets) ==
    LET plan == Foreign(targets)
    IN  Stamped(InsertedAt(t, InsertOffset(t, ByAnyId(t, inside)), TimeStampElement(plan)),
                "timestamp", <<plan>>, <<Asks>>)

\* Text that reads like the placeholders of the first run.
Lookalike(n) ==
    LET id == Ident("sign", n, 1, "")
    IN  Document(n, ProfileOf(n, Word(Hole("digest hole", Part(id, "object"))))
                    \o Payload(n, Word(Hole("value hole", id))
                                  \o Word(Hole("container hole", Ident("timestamp", 2, 1, "")))))

MCUnusable == {Named("object", 9)}

MCDossiers ==
    {Single, Double,
     Of(Lookalike(1) \o Usual(2)),
     DossierOf("ISO-8859-2", Usual(1), <<>>),
     \* Signatures of others: on their own document, on another document, on
     \* everything from beside it, on the dossier, on the whole file, on
     \* something that is not there.
     Signed(Double, Named("document", 1), <<Named("object", 1), Named("profile", 1)>>),
     Signed(Double, Named("document", 2), <<Named("object", 2), Named("document", 1)>>),
     Signed(DossierOf("UTF-8", Usual(1), Element("Extra", Named("extra", 0), NoId, <<>>)),
            Named("extra", 0), <<Named("documents", 0)>>),
     Signed(Single, Named("dossier", 0), <<Named("dossier-profile", 0), Named("documents", 0)>>),
     Unfilled(Single, Named("document", 1), Foreign(<<NoId>>)),
     Unfilled(Double, Named("document", 1), Foreign(<<Named("elsewhere", 0)>>)),
     \* Timestamps of others.
     StampedBy(Double, Named("document", 1), <<Named("object", 1), Named("profile", 1)>>),
     StampedBy(Single, Named("dossier", 0), <<Named("dossier-profile", 0), Named("documents", 0)>>),
     \* One that takes in another document, and one that takes in its payload.
     StampedBy(Double, Named("document", 1), <<Named("object", 1), Named("profile", 1), Named("document", 2)>>),
     StampedBy(Double, Named("document", 2), <<Named("object", 2), Named("profile", 2), Named("object", 1)>>),
     \* Identifiers that are taken, missing, spelled otherwise, unusable, or
     \* there twice.
     DossierOf("UTF-8", Usual(1), Element("Extra", Ident("sign", 1, 1, "xades"), NoId, <<>>)),
     Of(Document(8, <<>>) \o Usual(1)),
     Of(Document(1, Spelled(ProfileOf(1, <<>>), "ID") \o Payload(1, <<>>))),
     Of(Document(1, ProfileOf(1, <<>>) \o Spelled(Payload(1, <<>>), "ID"))),
     Of(Usual(9)), Of(<<>>),
     Of(Usual(1) \o Usual(1))}

Material(key, beside) ==
    [key |-> key, sealed |-> TRUE, passphrase |-> TRUE, beside |-> beside, inside |-> "none", requested |-> "natural"]
Good == Material("rsa", "rsa")

Materials ==
    {Material("rsa", "none"), Material("rsa", "unreadable"), Material("p256", "rsa"), Material("unreadable", "rsa"),
     [Good EXCEPT !.passphrase = FALSE],
     [Material("p256", "none") EXCEPT !.inside = "p256"],
     [Good EXCEPT !.requested = "rsa-pss-sha256"],
     [Good EXCEPT !.requested = "ecdsa-p256-sha256"]}

At(index) == [by |-> "index", index |-> index, ref |-> NoId]
By(n)     == [by |-> "ref", index |-> 0, ref |-> Named("object", n)]

Asking(command, scope, documents, tsa, material) ==
    [command |-> command, scope |-> scope, documents |-> documents, tsa |-> tsa, material |-> material]

MCRequests ==
    {Asking("sign", "document", <<>>, TRUE, Good), Asking("sign", "document", <<At(1), By(1)>>, FALSE, Good),
     Asking("sign", "document", <<At(0), By(1)>>, TRUE, Good), Asking("sign", "document", <<At(7)>>, FALSE, Good),
     Asking("sign", "dossier", <<>>, TRUE, Good),
     Asking("timestamp", "document", <<>>, TRUE, Good), Asking("timestamp", "document", <<By(2)>>, TRUE, Good),
     Asking("timestamp", "dossier", <<>>, TRUE, Good)}
    \union {Asking("sign", "document", <<>>, FALSE, material) : material \in Materials}

MCAnswers ==
    {Asks, [Asks EXCEPT !.bare = TRUE], [Asks EXCEPT !.status = 1], [Asks EXCEPT !.status = -1],
     [Asks EXCEPT !.status = 2], [Asks EXCEPT !.stamps = "nothing"], [Asks EXCEPT !.stamps = "another"]}
==============================================================================
