---------------------------- MODULE MCExtraction ----------------------------
(***************************************************************************)
(* An instance of Extraction: two runs into one output directory, over     *)
(* dossiers whose titles collide, fold together, spell the names           *)
(* deduplication gives, and embed further dossiers.                        *)
(***************************************************************************)
EXTENDS Extraction, TLC

CONSTANTS r1, r2

\* A name is a stem and an extension; upper is its spelling, which the fold and
\* the filesystem of the model both ignore.
Name(stem, ext, upper) == [stem |-> stem, ext |-> ext, upper |-> upper]
a == Name("a", "", FALSE)

MCRenamed(n, index, attempt) ==
    [n EXCEPT !.stem = @ \o "-" \o ToString(index)
                         \o IF attempt = 1 THEN "" ELSE "-" \o ToString(attempt)]
MCSubdirectory(n) == Name(n.stem \o n.ext, ".d", n.upper)
MCNameKey(n) == n.stem \o n.ext
MCFileKey(n) == n.stem \o n.ext
MCTooLong(n) == n.stem \in {"long", "long-1", "long-1-2"} /\ n.ext = ".d"

MCUnsafe == Name("..", "", FALSE)

Plain(title) == [title |-> title, ref |-> "any", size |-> 1, reads |-> "decoded", inside |-> "nothing"]
Nest(title, dossier) == [Plain(title) EXCEPT !.inside = dossier]

MCContent ==
    [ crafted  |-> << Plain(a), Plain(Name("a-3", "", FALSE)), Plain(a) >>,
      brief    |-> << Nest(a, "slip") >>,
      slip     |-> << Plain(a) >>,
      court    |-> << Nest(a, "ruling"), Plain(Name("a", ".d", TRUE)) >>,
      ruling   |-> << [Plain(a) EXCEPT !.reads = "unsupported"], Plain(Name("a", "", TRUE)) >>,
      layers   |-> << Nest(a, "court"), Nest(a, "malformed") >>,
      clashing |-> << Plain(a), Plain(Name("a-4", "", FALSE)), Plain(Name("a-4-2", "", FALSE)), Plain(a) >>,
      heavy    |-> << [Plain(a) EXCEPT !.size = 3], [Plain(a) EXCEPT !.size = 3] >>,
      broken   |-> << [Plain(a) EXCEPT !.ref = "one", !.reads = "broken"], [Plain(Name("out", "", FALSE)) EXCEPT !.ref = "two"] >>,
      untitled |-> << Plain(MCUnsafe) >>,
      endless  |-> << Nest(Name("long", "", FALSE), "court") >> ]

Ask(kind, dossier, selectors, recursive, depth) ==
    [kind |-> kind, dossier |-> dossier, selectors |-> selectors,
     recursive |-> recursive, depth |-> depth, name |-> a]

Nothing == Ask("none", "court", {}, FALSE, 0)
OneFile == Ask("new file", "court", {}, FALSE, 0)
Brief   == Ask("extract", "brief", {}, TRUE, 1)
Index(i) == [by |-> "index", index |-> i]
Ref(x)   == [by |-> "ref", ref |-> x]

Alone ==
    { Ask("extract", "court", {}, TRUE, 1), Ask("extract", "crafted", {}, TRUE, 1),
      Ask("extract", "court", {Index(1)}, TRUE, 1), Ask("extract", "layers", {}, TRUE, 1), Ask("extract", "layers", {}, TRUE, 2),
      Ask("extract", "layers", {Index(2)}, FALSE, 2),
      Ask("extract", "clashing", {}, TRUE, 1), Ask("extract", "heavy", {}, TRUE, 1),
      Ask("extract", "broken", {}, TRUE, 1), Ask("extract", "broken", {Ref("two")}, TRUE, 1),
      Ask("extract", "broken", {Ref("three")}, TRUE, 1), Ask("extract", "crafted", {Ref("any")}, TRUE, 1),
      Ask("extract", "untitled", {}, TRUE, 1), Ask("extract", "endless", {}, TRUE, 1),
      Ask("stdout", "court", {Index(1)}, TRUE, 1), Ask("stdout", "court", {Index(1)}, FALSE, 1),
      Ask("stdout", "court", {}, FALSE, 1), Ask("stdout", "broken", {Index(1)}, FALSE, 1) }

\* An extraction beside a run that writes one file under a name it wants.
Pairs == { <<Brief, OneFile>> }

MCScenarios ==
    { (r1 :> q) @@ (r2 :> Nothing) : q \in Alone }
        \cup { (r1 :> p[1]) @@ (r2 :> p[2]) : p \in Pairs }

MCPath == <<"out">>
\* Every name the documents above may come to have.
MCKeys ==
    {"out", "out-2", "out-2-2", "long", "long-1", "long-1-2",
     "a", "a-1", "a-1-2", "a-2", "a-2-2", "a-3", "a-3-2", "a-3-2-2", "a-4", "a-4-2",
     "a-4-2-2", "a-4-2-3", "a-4-2-3-2",
     "a.d", "a-1.d", "a-1-2.d", "a-1-1.d", "a-1-1-2.d", "a-1-2-1.d", "a-1-2-1-2.d",
     "a-2.d", "a-2-2.d"}
MCContested == {"out", "a", "a.d"}
MCContents == {<<0>>, <<>>} \cup [1 .. 1 -> 1 .. 4] \cup [1 .. 2 -> 1 .. 4] \cup [1 .. 3 -> 1 .. 4]
MCForeign == <<0>>
=============================================================================
