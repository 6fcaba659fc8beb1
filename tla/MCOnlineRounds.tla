--------------------------- MODULE MCOnlineRounds ---------------------------
(***************************************************************************)
(* An instance of OnlineRounds: one signer's certificate under two         *)
(* signatures, the first with two timestamps from two authorities, the     *)
(* second with none, and the container with one of the second authority's. *)
(* Everyone stands under one root and asks one responder; the signer's CRL *)
(* URLs overlap the authorities'.  A stray certificate is carried by the   *)
(* dossier and sits on no path.  Two constants choose the simpler          *)
(* dossiers: nobody embeds evidence, or nobody is timestamped.             *)
(***************************************************************************)
EXTENDS OnlineRounds

CONSTANTS signer, tsa, tsb, stray, root,    \* certificates
          u, v, w,                          \* URLs
          s1, s2,                           \* signatures
          k1, k2, k3,                       \* timestamps
          dossier,                          \* the container
          Horizon,                          \* the last instant of the model
          EmbedIn,                          \* the signature that embeds a CRL
          Timestamped                       \* whether s1 carries its timestamps

MCCerts      == {signer, tsa, tsb, stray, root}
MCSelfSigned == {root}
MCHasIssuer  == MCCerts
MCOrder      == <<stray, signer, tsa, tsb, root>>
MCUrls       == {u, v, w}
MCCertId     == [c \in MCCerts |-> c]
MCOcspUrls   == [c \in MCCerts |-> IF c \in {root, tsb} THEN <<>> ELSE <<u>>]
MCCrlUrls    == [c \in MCCerts |-> CASE c = signer -> <<v, w>>
                                     [] c = root   -> <<>>
                                     [] OTHER      -> <<v>>]

\* Instants 1 and 2 are the timestamps', the rest are the clock's.
MCTimes == 1 .. Horizon

From(c, t, status) == {<<c, x, status>> : x \in t .. Horizon}
Until(c, t)        == {<<c, x, "good">> : x \in 1 .. t}

\* A responder may answer nothing of use, vouch for a certificate for a while,
\* or know an authority was revoked from the start; the CRL vouches for the
\* authorities, and for the signer until it was revoked at the third instant.
MCReplies ==
    [q \in Tiers \X MCCerts |->
        IF q[1] = "ocsp"
        THEN { {}, IF q[2] = tsa THEN From(tsa, 1, "revoked") ELSE Until(q[2], 2) }
        ELSE { Until(tsa, Horizon) \cup Until(tsb, Horizon) \cup From(signer, 3, "revoked")
                 \cup {<<signer, x, "later">> : x \in 1 .. 2} } ]

MCSigs     == {s1, s2}
MCStore    == {}
MCEmbedded == [s \in MCSigs |-> IF s = EmbedIn THEN Until(signer, 1) ELSE {}]
\* The signer's certificate is still valid: its chain stands at any instant.
MCSigPath  == [s \in MCSigs |-> [t \in MCTimes |-> {signer, root}]]
MCStamps   == IF Timestamped THEN {k1, k2, k3} ELSE {}
MCStampOf  == [k \in MCStamps |-> IF k = k3 THEN dossier ELSE s1]
MCGenTime  == [k \in MCStamps |-> IF k = k2 THEN 2 ELSE 1]
MCTsaPath  == [k \in MCStamps |-> IF k = k1 THEN {tsa, root} ELSE {tsb, root}]
=============================================================================
