----------------------------- MODULE DossierText -----------------------------
(***************************************************************************)
(* A dossier as the text it is written in, for the author crate            *)
(* (openszigno-author sign/dsig.rs, `Working` and `Lookup`), which parses  *)
(* it only to learn positions: a sequence of start tags, end tags and      *)
(* words, behind an XML declaration.                                       *)
(*                                                                         *)
(* No element stands inside one of its own kind, so an element ends at the *)
(* first end tag of its kind.  Namespaces, comments and white space are    *)
(* left out: canonical octets are the tokens of the subtree.               *)
(***************************************************************************)
EXTENDS Integers, FiniteSets, SequencesExt

NoId == <<"", 0, 0, "">>

\* An identifier: what it is derived from, a document's index, the attempt
\* (`sig-doc0-2`) and which of a signature's own identifiers it is.
Ident(base, n, try, part) == <<base, n, try, part>>
Part(id, part) == <<id[1], id[2], id[3], part>>

\* What a word says: plain text, a placeholder, or a value over some octets.
Says(what, id, over) == [what |-> what, id |-> id, over |-> over]
Nothing == Says("", NoId, <<>>)

Token(t, kind, id, spelled, ref, word) ==
    [t |-> t, kind |-> kind, id |-> id, spelled |-> spelled, ref |-> ref, word |-> word]

Declaration(encoding) == Token("decl", encoding, NoId, "", NoId, Nothing)
Word(says) == <<Token("word", "", NoId, "", NoId, says)>>
Close(kind) == Token("close", kind, NoId, "", NoId, Nothing)
Element(kind, id, ref, content) ==
    <<Token("open", kind, id, "Id", ref, Nothing)>> \o content \o <<Close(kind)>>

\* The placeholder for one value of the element this identifier names.
Hole(what, id) == Says(what, id, <<>>)

\* The value that replaces a placeholder, which is of another length.
Encoded(says) == Word(says) \o Word(Says("more", NoId, <<>>))
-----------------------------------------------------------------------------
Opens(text) == {i \in DOMAIN text : text[i].t = "open"}

\* Where the element opened at i ends.
EndOf(text, i) ==
    LET Ends(j) == text[j].t = "close" /\ text[j].kind = text[i].kind
    IN  CHOOSE j \in i..Len(text) : Ends(j) /\ \A k \in i..(j - 1) : ~Ends(k)

Subtree(text, i) == SubSeq(text, i, EndOf(text, i))
Content(text, i) == SubSeq(text, i + 1, EndOf(text, i) - 1)

\* The element and the ones around it.
AncestorsOrSelf(text, i) == {j \in Opens(text) : j <= i /\ EndOf(text, j) >= EndOf(text, i)}
Parent(text, i) == Max({0} \union (AncestorsOrSelf(text, i) \ {i}))

Within(text, i, kind) ==
    {j \in i + 1..EndOf(text, i) : text[j].t = "open" /\ text[j].kind = kind}

\* Between a start tag and that of its child, everything opened is closed.
Children(text, i, kind) ==
    {j \in Within(text, i, kind) :
        Cardinality({k \in (i + 1)..(j - 1) : text[k].t = "open"})
            = Cardinality({k \in (i + 1)..(j - 1) : text[k].t = "close"})}

Root(text) == Min(Opens(text))

\* The first such element, 0 when there is none.
First(elements) == IF elements = {} THEN 0 ELSE Min(elements)

\* by_id: the first element whose `Id`, spelled so, is this one.
ById(text, id) ==
    First({i \in Opens(text) : text[i].id = id /\ id # NoId /\ text[i].spelled = "Id"})

\* id_map: every spelling of the attribute shares one space, without repeats.
Readable(text) ==
    LET named == {i \in Opens(text) : text[i].id # NoId}
    IN  Cardinality({text[i].id : i \in named}) = Cardinality(named)

ByAnyId(text, id) == First({i \in Opens(text) : text[i].id = id /\ id # NoId})

\* normalise_declaration
Normalised(text) == <<Declaration("UTF-8")>> \o Tail(text)

\* insert_offset: behind everything the element holds.
InsertOffset(text, i) == EndOf(text, i)

InsertedAt(text, at, element) == SubSeq(text, 1, at - 1) \o element \o SubSeq(text, at, Len(text))

\* fill_in, for one element: its own placeholders become their values, and
\* nothing outside it changes.
FilledIn(text, first, last, values) ==
    SubSeq(text, 1, first - 1)
    \o FlattenSeq([k \in 1..(last - first + 1) |->
           LET token  == text[first + k - 1]
               filled == {v \in values : v.hole = token.word}
           IN  IF filled = {} THEN <<token>> ELSE Encoded((CHOOSE v \in filled : TRUE).value)])
    \o SubSeq(text, last + 1, Len(text))
==============================================================================
