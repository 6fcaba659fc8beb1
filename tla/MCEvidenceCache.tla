-------------------------- MODULE MCEvidenceCache --------------------------
(***************************************************************************)
(* An instance of EvidenceCache: two runs that fetched overlapping         *)
(* evidence cache it below one path, or one does while another loads it.   *)
(***************************************************************************)
EXTENDS EvidenceCache, TLC

CONSTANTS r1, r2

MCPath      == <<"var", "cache">>
MCItems     == {"list", "reply", "fresher"}
MCKeys      == {"var", "cache"} \cup Subdirs \cup MCItems
MCSubdir    == [x \in MCItems |-> IF x = "list" THEN "crls" ELSE "ocsp"]
MCForeign   == "foreign"
MCContents  == MCItems \cup {MCForeign}

Cached(items) == [kind |-> "cache", items |-> items]
Loaded        == [kind |-> "load", items |-> <<>>]

Both(a, b) == (r1 :> a) @@ (r2 :> b)

MCScenarios ==
    { Both(Cached(<<"list", "reply", "fresher">>), Loaded),
      Both(Cached(<<"list">>), Cached(<<"list", "reply">>)),
      Both(Cached(<<>>), Loaded) }
=============================================================================
