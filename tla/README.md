# openSzigno in TLA+

openSzigno is a command-line program for Microsec e-Szignó dossiers (`.es3`): it
inspects, validates, verifies, extracts, creates, signs and timestamps them. This
directory is its verification project: TLA+ modules translated from the Rust source,
TLC runs that check them on small instances, and TLAPS proofs of what matters most
for instances of any size. Paths below are relative to `src/crates/`; every
definition's source lines are in `PROJECT.json` under `map`.

1. [The system](#1-the-system)
2. [Modules and what they stand for](#2-modules-and-what-they-stand-for)
3. [Runs: what is checked, on which instance](#3-runs)
4. [Fairness and the environment](#4-fairness-and-the-environment)
5. [Proofs](#5-proofs)
6. [Where code and documentation disagree](#6-where-code-and-documentation-disagree)
7. [What is left out of the models](#7-what-is-left-out)
8. [Plan](#8-plan)
9. [Running it](#9-running-it)

## 1. The system

Four crates. `openszigno-core` parses and decodes a dossier, `openszigno-verify`
judges it without touching the network or the disk, `openszigno-author` makes and
signs one, `openszigno-cli` does everything that needs the outside world: files, HTTP,
the clock, the keys.

    extract ──> core: parse, decode ──> plan ──> OutputDir ──> files
    verify  ──> core ──> verify::verify(data) ──> report
                  ^            |  validated (certificate, time) pairs
    trust store, ─┤            v
    trusted lists |      fill_gaps ──> transport ──> responders, CRLs
                  |            |
      store loader|            v write_cache
                  +──── cache directory (OutputDir)
    create ───────────> author ──> write_new_file (OutputDir)
    sign / timestamp ─> author ──────────^
                          ^── CSC client: remote signatures, tokens on disk
                          ^── timestamp authority (transport)

| Component | State it keeps | Operations | What is hard | What makes it correct | Modelled |
|---|---|---|---|---|---|
| online rounds (`cli/commands/verify.rs`, `cli/online/gaps.rs`) | pairs already handed out, certificate budget, evidence fetched, questions tried in a round | `fetch_rounds`, `fill_gaps` | each round's evidence moves the validation times the next is about; the clock moves; any fetch fails | bounded traffic; only for validated paths; no question twice; every gap asked about or explained; ends | OnlineRounds |
| online transport (`cli/online/mod.rs`, `destination.rs`, `pinned.rs`) | the approved address | fetch, follow redirects | every hop needs its own approval; a name resolves differently each time | no hop is sent under another's approval, no credential in the clear | Transport, Destination |
| revocation (`verify/revocation/`) | the answer so far for one certificate, entries of the path | `check_path_at`, `check_certificate`, `summarise`, OCSP and CRL checks | six sources, in an order a signer can influence, that contradict one another | the order decides nothing; nobody unentitled is believed; no finding masks a worse one | Revocation |
| certificate paths (`verify/certs/`) | pool, recursion of the search, paths found | `validate_path_at`, `build_paths`, `check_path`, the trusted lists' timelines | cross certificates, loops of names, bounds on the work, services withdrawn in time | complete unless bounded; only configured trust ends a path; the nearest place is preferred | CertPath |
| trusted lists and trust configuration (`verify/trustlist/`, `*/trust.rs`) | anchors, candidates, services with their timelines, checks | read a store, load a list of lists and lists, verify their signatures, say what is qualified | files exchanged between look and read; lists altered, signed in part, or by somebody else | trust comes from what the caller named, unaltered, and whole unless a directory call fails | TrustMaterial, TrustedPath |
| output directory (`cli/extract/output_dir.rs`) | descriptors | walk and create, create a file exclusively, remove | other processes act between any two system calls | nothing is made through a link, nothing is replaced | OutputDir |
| extraction (`cli/commands/extract.rs`, `cli/extract/`) | plan, what was created | select, plan, write, roll back | colliding names over a nested tree, failures halfway, another run in the same directory | all or nothing, no document lost, no one else's file touched | Extraction |
| evidence cache and store (`cli/online/mod.rs`, `cli/revocation_store.rs`) | files named by their digest | `write_cache`, `load_within` | writers beside writers and loaders; kills between creation and write | only grows; a reader is told all of it or is refused, unless a directory call fails | EvidenceCache |
| dossier verification and verdict (`verify/lib.rs`, `signature/`, `xades/`, `coverage.rs`, ...) | checks of each signature, its validation time, coverage of each document | `verify` | the file may have been rewritten since any signature was made; open content; a timestamp moves the time everything else is judged at | what is valid reads as its signer left it, and everything is signed | Verdict, but for container timestamps |
| timestamps (`verify/tsa/`, `estimestamp.rs`) | none | verify a token and its authority | a token counts although nothing covers it | a token counts only for the value it was made for, under an authority with a path then | signatures' in Verdict, what a container's covers in Signing |
| remote signing (`cli/csc/`, `author/sign/csc.rs`) | two token files, a listener | login, refresh, discover, authorise, sign | two processes share the files; kills between two writes; strangers at the port; rotated refresh tokens | the token used is the one the record describes; every signature under its own authorisation | RemoteSigning |
| signing and timestamp authoring (`author/sign/`) | the text of a dossier and offsets into it | place, sign, stamp, re-read | insertions move offsets; text that reads like a placeholder; statements of others | what is written verifies, and breaks nothing | Signing, DossierText |
| dossier creation and encryption (`author/`, `cli/commands/create.rs`) | none | inputs to octets | limits that reader and writer have to share; inputs that change | what is read back is what went in | Authoring |
| parser, decoder, decryption (`core/`) | none | octets to documents | archives and sizes that lie, wrong keys | bounded, and faithful | Decoding |
| canonicalization (`verify/c14n.rs`) | none | tree to octets | text | its standard | no |
| command line, inventory and reports (`cli/main.rs`, `args.rs`, `render/`, `core/inventory.rs`, ...) | none | arguments, text | wording | - | no |

## 2. Modules and what they stand for

    GapQuestions <──implements── OnlineRounds ── MCOnlineRounds
                                      └───────── OnlineRounds_proofs
    Revocation ── MCRevocation
        └──────── Revocation_proofs
    Pki <──EXTENDS── CertPath ────── MCCertPath
     ^                  ^
     |               TrustedPath ─── MCTrustedPath
     |                  v   └─────── TrustedPath_proofs
     └────EXTENDS── TrustMaterial
    Destination <──EXTENDS── Transport ── MCTransport
                                  └────── Transport_proofs
    OutputDir <──EXTENDS── Extraction ── MCExtraction
        ^                      └──────── Extraction_proofs
        └──────EXTENDS── EvidenceCache ── MCEvidenceCache
                               └───────── EvidenceCache_proofs
    EvidenceStore <──implements── EvidenceCache
    DossierTree <──EXTENDS── Verdict ── MCVerdict
                                └────── Verdict_proofs
    DossierText <──EXTENDS── Signing ── MCSigning
    Decoding <──EXTENDS── Authoring ── MCAuthoring
    RemoteSigning ── MCRemoteSigning
         └────────── RemoteSigning_proofs

A definition whose comment begins "a slip" is not part of the specification: it is a
mistake somebody could make in that code, kept beside the definition it would replace
to show that the properties notice it (`mutants` in `PROJECT.json`).

**OnlineRounds.** `pass`, `fill`, `ocsp`, `recheck`, `crl`, `final` and `done` are the
places of `pc`. `PassFindsFresh`, `PassFindsNothing` and `BoundReached` are the head of
the loop of `fetch_rounds`; `PassOver`, `Charge`, `SkipTried`, `FetchAnswered`,
`FetchFailed`, `UrlsExhausted`, `Recheck` and `EndRound` the loops of `fill_gaps`;
`Tick` moves the clock. `seen`, `budget`, `spent`, `tried` are the variables of that
name (`tried` both of the code's sets), `prior` and `got` what finished and running
rounds fetched; `charged` and `sent` are history. Evidence is a set of facts
<<certificate, instant, good / revoked / revoked later>>. A verification pass is what
it feeds back: `Eligible`, the pairs it validated, with the choice of validation time
by the earliest verified timestamp (`IsValidationTime`, `StampVerified`).

**GapQuestions** is what the rounds promise: one budget that only falls, no pair
charged twice, evidence that only grows.

**Revocation.** One action per item read: `Ignore`, `Refuse`, `Stale`,
`UnknownToResponder`, `Gather`; `NextTier` between the six tiers, `Weigh` or
`Unanswered` at the end of a certificate, `Summarise` at the end of the path. Who may
speak is `Delegated`, `Trusted`, `ResponderModel` and `CrlSigned`; what it says is
`Window`, `Fresh`, `Says`, `RevokedAt`. An artefact is a record of its outcome under
decoding and signature checks. A tier longer than the limit is cut off, as in the code.

**Pki** is what the next two have in common: certificates, which are compared by their
DER, so two that differ are different values, and the timeline of a service (`GrantedAt`).

**CertPath.** `OfferCandidate` and `OfferAnchor` fill the pool; `Expand` and `Return`
are the recursion of `build_paths`, whose stack is `chain` with one loop position per
level (`next`); `Judge` and `Conclude` are the loop of `validate_path_at` over what was
found. `Fault` is `check_path`, rule by rule in the code's order, and `MayAnchor` asks
the trusted lists' timelines.

**TrustMaterial** is everything before that: `StartStore`, `ChooseLayout`,
`ListDirectory`, `Inspect`, `ReadEntry` and `NextDirectory` are the reading of a
`--trust-store`, one step per system call, with `Change` for whoever else writes an entry
there and `Relink` for whoever exchanges a whole directory. What the layout is, the run finds
out by `is_dir`, which follows a link and says no when it fails (`IsDir`); `unlisted` and
`linked` are history, the entries that a failing directory call withheld and the directories
that were links. `ParseStore`, `LoadSigner`, `LoadLotl`,
`LoadList`, `Gather` the rest of what `verify` loads, and `Verify` what the lists make of
one chain (`Qualified`). A list is a file somebody once signed: a reference of its
signature records what its target held then, and `Covered` asks whether the references
that hold reach the whole of it.

**TrustedPath** puts the two together for one chain: `Configure` is every step of
TrustMaterial up to the sorting, `Validate` every step of CertPath, `Qualify` the lists'
word on the path found. `HandedOver` is what `verify` passes from one to the other: the
anchors with their origin, the services named by certificate, and the other certificates
of the trust among the candidates. The request of the search is fixed from the start, as
in CertPath; a run goes on only if it is what the trust comes to.

**Destination** is the policy as pure operators over addresses (tuples of octets or
segments) and URLs (records of what the policy reads of them): `IsRestrictedV4` and
`IsRestrictedV6` are the code's masks and comparisons, `IsListed` the list the
documentation gives, which is the reference definition. **Transport** is the
loop of `Fetcher::request`: `Vet` resolves, judges and pins, `Send` dials what the
resolver of `pinned.rs` then answers (`Dialled`), `Read` takes an answer, a redirect or a
failure. The name server answers every lookup anew.

**RemoteSigning**: runs of `csc login` and `sign --csc` over one token file and the record
beside it. `Load`, `ReadRecord` and `Refresh` are `usable_token`; `OpenToken`, `WriteToken`,
`OpenRecord`, `WriteRecord` are `store`, one step per system call; `Bind`, `ServeStranger`,
`ServeRedirect`, `GiveUp` and `Redeem` an authorization round and its listener; a record
that is there and cannot be read counts as none; `Discover`, `Authorize`, `SignHash`,
`WriteFile` the signing run. `Arrive` is any other connection, `Kill` a kill at any point,
`Tick` the clock. A token is the number of the grant that issued it, which is how the model
knows which record belongs to it.

**DossierText** is a dossier as the author crate treats it: a sequence of start tags, end
tags and words, in which positions are found by parsing and moved by inserting.
**Signing** runs `sign` or `timestamp` over it: `Begin` (the material and the file),
`Plan` (the targets, every refusal, the identifiers and the skeletons, all inserted),
`FillDigests`, `FillSignatureValues`, `FillTimestamps`, `WriteOut`. The end of the module
is the verifier's view of a text, translated from the verifier, not from the author:
`ReferenceHolds`, `SignatureHolds`, `ContainerStampHolds`.

**Decoding** is `parse` and `decode` for one document, with decryption: every step gives
octets, an error or a skip, over octets that carry what they are, their size and what their
headers claim. **Authoring** is `create` over it: `Inspect` and `Read` for each input,
`Build`, `Write` (the file, none, or a part whose removal failed too); and `Extract`, which
reads any file there is with any key.

**OutputDir** is a small file system and the walk of `OutputDir::open` in it, one action
per system call. A directory has an identity, which is what a descriptor holds, and
`entry` says what every name of every directory is. `Meddle` is any other program,
`Killed` a kill at any point.

**Extraction** adds the runs: `Plan` (selectors, the recursion of `plan_dossier` as a
stack of frames, deduplication of names), the look at the names, `Write`, and `Undo`
in reverse order. `create`, `sign` and `timestamp` share the last part: they are a run
of one creation.

**EvidenceCache** adds `Cache` (`write_cache`, call by call, and its comparison when a
name is taken) and `Load` (`load_within`, which goes by paths): `Layout` asks `is_dir` for
the subdirectories, `List` takes the names `readdir` gives, and with `Faulty` the first may
say no of a directory that is there and the second leave names out, of which nothing is
said. `Withhold` keeps account of what was lost so. **EvidenceStore** is what the two
promise together; `Overlook` is that loss in it, and needs a failing call.

**DossierTree** is the file as the verifier sees it: elements named by their place in
document order, `parent`, and what is written in each (`text`, a number that every
rewriting changes); its identifier space; what the structural parser accepts
(`Conforming`); what a reference covers (`EffectiveNodeSet`, `CoversIn`) and, apart from
that, what it digests (`Digested`). That the two agree is not built in. The properties of
a signature that XAdES nests one deeper (`UnsignedSignatureProperties`,
`SignedSignatureProperties`) are one element with their parent.

**Verdict.** Before the run anyone may `Sign`, `Stamp` and rewrite the file: `Touch` what
is written in an element, `Move`, `Drop` or `Insert` elements, `Redigest` a signature,
`Rekey` its `ds:KeyInfo`, `Graft` a token from one signature to another; these are the
environment, and history variables keep the file as each signer saw it (`was`) and the
tokens that were made (`stamped`). Then `Parse` accepts or aborts, `Examine` takes the
next signature (`Report`, which is `VerifySignature` with its place and its properties:
`StageA` for place, scope, policy and binding, `StageB` for digests and value, `Presence`
and `Bound` for the XAdES properties, `StageF` for timestamps, `ValidationTime`,
`SignerChecks`), and `Conclude` adds coverage (`Coverage`) and folds (`DossierVerdict`).
Path and revocation are functions of the certificate and the instant here; CertPath and
Revocation say what they are.

## 3. Runs

| Run | Instance and bounds | States |
|---|---|---|
| `online_rounds` | 2 signatures under one certificate, 3 timestamps of 2 authorities, a stray certificate on no path; 3 URLs, instants 1..4; 3 rounds (the code's number), budget 3, 2 URLs per certificate | 2 052 |
| `revocation` | 8 certificates, every body of up to 3 embedded responses of 8 kinds, 5 kinds of CRL, 3 stores; two instants; paths of 0, 1 and 3; 2 items per tier, 2 carried certificates | 370 080 |
| `cert_path` | 9 certificates; every order of up to 3 of 6 candidates and some of 4, 6 trusted lists, 3 anchor sets, 3 instants, 3 purposes; 4 certificates, chain of 4, 4 paths, 9 expansions | 158 395 |
| `trusted_path` | 9 certificates, two signers below a CA and a root and one below a rogue; 15 lists, every way to pass a list of lists, a signer and up to 2 lists; 24 stores in 3 layouts, 6 of them with a link or something else in the place of a directory, 9 kinds of entry, 1 change of an entry or of a whole directory while they are read; 2 files, 4 bytes, 3 anchors, 2 pointers; 10 outcomes of the trust, 3 instants, 2 purposes | 1 521 999 |
| `transport` | every address at the borders of every listed range and next to them; 10 answers of the name server, 10 redirect targets and relative ones; plain and with credentials, 1 or 2 fetches; with and without proxy and `--online-allow-private`; 3 redirects (the code's number) | 4 170 547 |
| `extraction` | 18 command lines alone and one pair, over 11 dossiers; calls may fail, one step of another program, 6 directories; 5 bytes in all, 2 deduplication attempts | 98 324 |
| `evidence_cache` | 3 artefacts; a writer beside a loader, two writers; calls may fail, kills, one step of another program | 175 232 |
| `verdict` | 2 documents; a signature on the first, a countersignature in it and a signature on the dossier, 5 ways of making them, among them by digesting the whole document, as a declared countersignature and with a legacy algorithm; 12 kinds of rewriting, 1 per run; 2 tokens; a lapsed and a renewed certificate; with and without `--at`; at most 2 signatures are examined | 129 717 |
| `remote_signing` | 2 runs: login beside signing, signing beside signing, sharing a token file and port or an inline token; 2 services that work and 8 that are refused; 3 renewals, 3 grants, clock 0..2, 1 stranger, 1 kill, failed read or failed write; 1 or 2 signatures | 337 037 |
| `signing` | 21 dossiers of one or two documents with signatures and timestamps of others, on their own document or another one, look-alike text and taken, missing, unusable or double identifiers; 16 requests; 7 answers of the authority; 2 runs after each other; 3 shared identifiers | 6 751 |
| `authoring` | the limits of `Limits::default()`; 21 command lines over inputs on both sides of the limits; 5 recipients; 11 keys and none; a dossier of 33 documents that lie or fail, and 2 others; 1 change by another program | 187 649 |

What they show:

- **`online_rounds`**: over every reply, failure and movement of the clock, at most
  the budgeted certificates are asked about, each at the first URLs (`TrafficBounded`);
  within a round no question is put twice and no later round asks
  about a certificate at an instant already handed out (`NothingIsAskedTwice`);
  every request is for a pair some pass validated a path for (`GatedByAValidatedPath`);
  what the final report lacks was asked about or the run can say why not, be it that the
  certificate is beyond the pool (`UnansweredIsAccounted`); it ends (`Terminates`); and it
  implements GapQuestions (`FillsGaps`).
- **`revocation`**: the answer for a certificate is that of all the consulted sources,
  whatever the order (`AnswerIsTheWeightiest`); nothing passes without a current
  statement by someone entitled for every certificate (`NothingPassesUnanswered`);
  reasons and disputes are those the evidence has (`ReportIsFaithful`).
- **`cert_path`**: a search that hit no bound recorded every path and nothing else
  (`SearchIsComplete`); only configured trust in force then ends an accepted path
  (`TrustBoundary`); the answer is a function of the chains the request admits, not of
  their order (`AnswerIsTheVerdict`); no certificate below the top of an accepted path
  could have ended it (`NearestIsPreferred`).
- **`trusted_path`**: unless the verdict is held back, what comes from a list stands in one
  that was signed, whole and as it is, by the caller's certificate or by one that a list of
  lists under it names (`TrustIsSigned`); the store taken is the whole store but for what a
  failing directory call withheld, within its budget, and nothing of it comes through a link
  unless the link stood in the place of a whole directory, whatever is exchanged meanwhile
  (`StoreIsWhole`; section 6 has the sentences that promise more); a chain is called
  qualified only on the word of a list in force at the time, and it is left open only where
  no list says anything at all (`QualifiedIsEarned`, see section 6). And from the command
  line to the verdict on a chain nothing comes between: an accepted chain ends at a
  certificate that stood in a file of the store, or at one that a list signed by somebody
  accountable grants at that instant, and it is called qualified by the word of such a list
  alone (`AcceptedRestsOnTrust`).
- **`transport`**: a fetch goes to its own authority at an address the policy's own lookup
  for this very hop gave, at most once per hop and never from https to http
  (`GoesWhereVetted`); the policy, as masks and comparisons, is the documented list, in
  every form of an address (`PolicyIsTheListedOne`); credentials never travel in the clear
  but within this machine (`CredentialsAreProtected`).
- **`extraction`**: nothing is made on the far side of a link (`StaysInside`), no run
  changes a file it did not make (`KeepsOthersFiles`), a failed run leaves nothing but
  what it tried and failed to remove (`NothingLeftBehind`), a run does not stumble over
  its own files and one that succeeds lost no document (`DocumentsArriveOnce`), every run
  that is not killed ends (`EveryRunEnds`).
- **`evidence_cache`**: a file is written once, by its maker (`NothingReplaced`), a
  successful run's evidence is on disk or reported as a collision (`CachedOrNoted`), and
  cache and loader implement EvidenceStore (`StoreOfEvidence`): the loader answers with
  nothing but what the store holds, and with all it held when the load began except what a
  failing directory call withheld, or it refuses.
- **`verdict`**: whatever was done to the file after a signature was made, if it is
  reported valid then everything the format makes it cover where it stands now reads as
  it did for the signer, and a valid dossier has signatures, all of them examined and
  valid, over every document (`ValidMeansSigned`); the certificate a valid signature is
  attributed to is one the signer named, and the instant comes from a token only if it was
  made for this value, by an authority with a path then (`SignerAndTimeAreProven`); content
  no reference reaches decides neither verdict nor signer nor instant
  (`OpenContentDecidesNothing`).
- **`remote_signing`**: unless a store was stopped or two stores met, the two files are of
  one exchange (`PairsAreWhole`) and the refresh token in them is one the service still
  takes (`RotationIsRecorded`); a token found fresh is taken for as long as the margin
  promises (`FreshTokensAreTaken`); what is written holds every signature asked for, each
  verified, under the authorisation for its own hash, with an algorithm the credential has
  (`WrittenIsAuthorised`); every run ends, whether or not anybody answers (`RunsEnd`).
- **`signing`**: of the signatures and timestamps that verified before a run exactly those
  fail after it that are timestamps and include an element the run wrote in, or one around
  it, and but for what the run wrote the file is as it was (`EarlierKept`, see section 6);
  whatever was written verifies, stands where it was asked for, once, and covers what the
  format mandates (`WrittenVerifies`).
- **`authoring`**: what went into a dossier comes out of it, for those it was written for
  and nobody else, unless the file is larger than the reader opens or its title holds what
  XML does not allow (`ComesBackAsGiven`, see section 6); nothing beyond the limits is taken
  in or handed out, whatever sizes are declared (`WithinBounds`).
- **`cache_concurrent`** is a counterexample to a sentence of the documentation (section 6);
  it allows neither failures nor other programs.

Why the bounds are enough. The rounds: three is what the code allows; a first pass, a round
that revokes the authority of the earliest timestamp and so moves the signer's validation
time, and a round for the new time need all three, and with a budget of three there are runs
that exhaust it and runs that do not. Revocation: two items per tier let any two kinds of
answer meet in either order, a third item is the one the limit cuts off, and a second tier
adds the orders across tiers. Paths: four certificates hold a cross certificate, a loop and
a decoy at once, and nine expansions is a number some searches exhaust and some do not.
Files: two runs, one step of another program and a failure at any call give every pair of
steps in either order; a third run would only repeat them, since a run sees of the others
nothing but directory entries. Verdict: the three signatures are one at each place the
format defines, and moving one reaches the places it does not; one rewriting comes between
any two of signing, countersigning and stamping, and a digest, a scope, a binding, a token
or a certificate that no longer fits needs one; two signatures of three leave one
unexamined. Trust: every entry the store can hold meets every other at the budget's edge,
and one change, of an entry or of a directory, is what a look and a read can have between
them. The composition needs no more of either than what the other can tell apart: an anchor
of the store, one of a list, both and neither. Transport: the borders of a range decide its
mask; a second fetch meets the pins of the first, and the redirects are the code's. Remote
signing: two runs give every overlap of two stores and a refresh token spent twice; two
signatures, one authorisation used for the other's hash; three grants are one from before
and one for each run. Signing: the second run meets everything the first can have left, at
the same place and at an enclosing one, and two documents make insertions move each other's
offsets. Authoring: the inputs lie next to the real limits, so that each is passed and
missed.

Deadlock is checked except where one execution ends and nothing follows (`verdict`,
`trusted_path`, `signing`, `authoring`, each saying so in its configuration); the other
specifications have an explicit step for being done.

## 4. Fairness and the environment

- OnlineRounds: `WF_vars(Run)`. `fetch_rounds` is one thread that waits for nothing but
  fetches, and every fetch has a timeout, which is `FetchFailed`. The clock has none.
- Extraction: `WF_vars(Step(r))` for each run. A run holds no lock and waits for no one.
  A run may be killed; then it has ended.
- RemoteSigning: `WF_vars(Step(r))` for each run and `WF_vars(Tick)`. The process goes on
  and time passes, also while the listener polls. Nobody has to answer in the browser and
  no redirect has to arrive: `RunsEnd` rests on the deadline. Strangers at the port are
  bounded by `MaxStrangers`; with connections that never cease the code does not give
  up, which the documentation says it does (section 6).
- The other specifications state safety only and assume no fairness.

Other programs may take any free name the runs contend for and put a symbolic link where
a directory was; they do not remove or rewrite the runs' files, which no program could
survive. In a trust store they may exchange any entry, and the directories `anchors/` and
`intermediates/` for one another, for a link or for nothing. Their steps are bounded by
`MaxMeddling`, `MaxChanges` in TrustMaterial (entries and directories that were exchanged)
and Authoring. A kill may come between any two system calls, a failed write may leave part of
a file, and with `Faulty` (`MaxFaults` in RemoteSigning) every call may fail. Clocks and
grants are bounded by `MaxClock` and `MaxGrants`.

## 5. Proofs

Each `_proofs` module holds the lemmas and theorems of one specification, and
TrustedPath_proofs those of CertPath, TrustMaterial and their composition, for every value of
its constants under the `ASSUME`s of that specification, which TLC evaluates in every run.
Most are typings. The others say of

- the rounds, that the pool holds no certificate twice and the container is no signature;
- the paths, that neither candidates nor anchors repeat a certificate: every caller of
  `validate_path_at` has passed them through `dedup` (`DedupAssumption`);
- remote signing, that what earlier runs left in the two files is whole and of the first
  grant, with its refresh token or none (`StoresAssumption`);
- the destinations, that addresses are well formed (`TransportAssumption`);
- the trust, that the entries of a store and the elements of a list are what they are, an
  identity a certificate, a key identifier or a name (`EntriesAssumption`,
  `NameAssumption`, `CommandsAssumption`, `SignerFilesAssumption`, `ListsAssumption`,
  `StatementsAssumption`), and that room is left for one anchor (`LimitsAssumption`);
- extraction, that the filesystem merges no two names that `name_key` keeps apart
  (`NamesAssumption`), which is what the fold of `name_key` is chosen for;
- dossiers, that an element has one name and one place in document order, and that what is
  inserted stands in order too (`NodeAssumption`, `OutsideAssumption`, `NameAssumption`,
  `VerdictAssumption`).

The typing theorems (`Typing`, `Bounded`) and the inductive invariants (`Inductive`,
`Invariance`) are of invariants no run lists; TLC agreed with them before they were proved.

**OnlineRounds** (`Typing`, `TrustGate`, `AskedOnce`, `Refinement`, `Traffic`, `Accounts`).
That a request is for a validated and charged pair is not inductive by itself: between
`Charge` and `FetchAnswered` lies the loop over the URLs, so `WorkingOnAGap` carries the
charge to the request. No duplicate question needs `Recorded`, that this round's questions
are all in `tried`, and the separation of rounds needs `EarlierRoundsAreOver`, that the
pairs of the running round are disjoint from those any earlier request was about; together
they are `SafetyInv`. The refinement needs that a charge is never repeated:
`AheadIsUncharged` says the certificates the walk has not come to are not charged for at
this round's instants, which holds because the pool has no duplicates and `fresh` is
disjoint from `seen`. `Traffic` counts requests against the budget: `Metered` says that no
more was charged than is gone from it, `Walked` that the walk is past every certificate
asked about in this round, and `Numbered` that what was sent about the one it is at is less
than the place of the URL it has come to, so that a charge pays for the URLs of two tiers
and no more. `Accounts` carries for each pair handed out the reason it went unanswered:
reasons are never taken back, and a pair without one is still ahead of the walk (`Due`). It
showed that one more reason was to be named: a certificate beyond the pool, which the walk
never comes to.

**Revocation** (`Typing`, `Invariance`, `OrderFree`, `Vouched`, `Faithful`). The heart of
`OrderFree` is `GathersWhatIsHeard`: what has been gathered at any point of the reading is,
as a set, what the items read so far have to say; at the end of the tiers that is
everything, and choosing by weight does not depend on the order. `StartsClean`,
`EndsAtTheAnchor`, `ReasonsAreNamed` and `EntriesInOrder` carry it over the certificates of
the path. `Vouched` adds that a check is decided once, from entries each of which has a
usable source behind it. `Faithful` is about what the report adds to the verdict: while
nothing usable was found, the entry's reason is the one the items read so far leave, the
last of those that replace it; the path is called disputed exactly if a link that is already
closed was contradicted, and the links still to be read have not contributed.

**CertPath** (`Bounded`, `Completeness`, `Trust`, `Preference`, `VerdictOfAll`).
Completeness is an argument about a search with no set of visited nodes: `NoneMissed` says
every path of the pool is recorded or still ahead of the stack, that is, it agrees with the
stack up to some level and goes on by an entry that level has not tried. `ClimbsOnly` says
nothing else is recorded, `NearerFirst` that a place where a path could end is recorded
before any path through it, which with `Unacceptable` (what has been judged was not good
enough) gives `Preference`; `PoolIsTold` says the marks in the pool come from configured
trust only, which gives `Trust`. `VerdictOfAll` compares the answer with a definition that
knows no search: the best of all chains of issuers of the request, judged one by one. When
no bound was met the pool holds every certificate of the request once and knows its anchors
(`WholePool`), so that the climbs through the pool are those chains (`PathIsARoute`,
`RouteIsAPath`), and `Ledger` keeps account of those already judged.

**TrustMaterial** (`TrustInvariant`, `TrustStoreIsWhole`, `TrustOnlySigned`,
`TrustQualifiedIsEarned`). For every store, however its entries are exchanged while it is
read, and every list. `TrustInv` carries the store through the reading: an entry nobody touched
and no failing call withheld has been read, is still in the list of the directory being
read, or is in a directory still to be listed (`StoreReadInv`); for the directories not yet
asked for, `FolderInv` says that below what is no directory there is nothing, so that a run
that leaves one out because it is none loses nothing, and the octets read and the budget
left add up to the limit (`BudgetInv`), which is counted over both directories. That no
entry was read through a link is that what is read is what stood in a regular file at that
step, since `regular` only grows; a file of a directory that is a link is known by the place
it was read from, and `FolderInv` knows the directories that ever were links. For the lists,
`LoadedInv` says that anchors and services are exactly what the lists given contribute, and
that while no check stands against the verdict the pool holds accountable signers only and
every list is signed by one: the pointers of a list of lists enter the pool whether or not
it was verified, but if it was not, its own check holds the verdict back from then on.
`TrustQualifiedIsEarned` is about operators: the line in force is the newest that had begun
(`NewestGrants`), whatever order the entries stand in, and what covers a chain names a
certificate of it (`CoveringNames`).

**TrustedPath** (`ComposedRuns`, `WhatIsAccepted`). Every run of the composition is a run of
each part, so the theorems of both hold in it. To join them takes that the anchors handed
over are those loaded (`SortedInv`), and that whatever was answered was asked with the trust
that is there (`HandedInv`). `TrustBoundary` then says that the chain ends where
`MayAnchor` allows, and `ReliedOn` goes through its four reasons: vouched for, which is a
file of the store; named by no service, which an anchor of a list never is
(`UnlistedIsOfTheStore`); granted for the use, and granted another where the list is silent
on it, which are the word of a list given.

**Transport** (`Typing`, `Destinations`, `Credentials`, `PolicyIsTheList`, `Listing`). For
every plan, name server, peer and number of redirects. What is dialled is decided a step
after it was vetted, by a resolver that knows only the last pin; `Pinned` says that while a
request waits to be sent the pin is that of this very hop, and `Guarded` that a request with
credentials in the clear is then pinned to this machine. `Counted`, `AtHome` and
`StillSecure` carry over the loop how many contacts were made, that a redirect kept the
authority, and that https was not given up. `PolicyIsTheList` is about no state at all: for
each of the 2^32 and 2^128 addresses the code's masks and comparisons refuse it exactly if a
range of the documented list holds it. A prefix is compared octet by octet, a mask within
one segment becomes two bounds on that, and an address that carries an IPv4 address (mapped
or compatible) is in a listed range exactly if the one it carries is. `Listing` is that for
every address judged in a run.

**RemoteSigning** (`Typing`, `Pairs`, `Rotation`, `Signing`, `Freshness`). For any number of
runs. The steps are first reduced to what they have in common (a run is away from the files,
stores, or is cut short: `Kinds`). `Pairs` needs more than the pair itself, since in the
middle of a store the files are not one: `Tidy` says that while nothing went wrong only one
run is between its two files, that between its two writes the token file holds what it is
about to record, and that otherwise the files are a pair. `Rotation` has the same shape one
step earlier: `Works` says that between an exchange and its record the run itself holds a
refresh token the service takes, or none, and that otherwise the record does; a lost answer
is the only way from one to neither. `Signing` rests on `Progress`: the authorisation a run
waits for or holds is for the hash after those it has signed, through a round in the browser
in which nothing of the hash is visible, and what it has signed is sound for the service it
found. `Freshness` rests on `AllDated`: a whole record ends when the grant it is about does,
and a run that found its record fresh looked at it no later than its margin before that; it
holds at a distance because grants are only ever added to.

**Extraction** (`RunsStayInside`, `FailedRunsCleanUp`, `RunsNeverMeetThemselves`,
`RunsKeepOthersFiles`, `DocumentsArrive`). For any number of runs and other programs over
any tree, with any dossiers, selectors and limits. `IInv` is what the disk is like
(`DiskInv`), what a plan and the stack it is made by are like (`PlanInv`, `FrameInv`: a
creation goes into a directory planned before it, no two in one directory fold together),
where a run is and what it holds (`ControlInv`, `OwnInv`: between two system calls what it
has made is still there, and its own), and that descriptors lead inside (`InsideInv`).
`DepthInv` is needed for `StaysInside`: every directory has a depth above those in it, so a
directory made by a run is never the one it was made in, or above. `RunsNeverMeetThemselves`
then is that planned names do not fold together, and `FailedRunsCleanUp` that what is undone
is what was done, in reverse. That no document is lost needs another invariant (`AllKept`):
while planning, the documents accounted for are those before the loop positions of all
frames of the stack, each under the path that leads there (`Tallied`), and afterwards
everything planned has been written (`WrittenWhole`). That a recursion ends in the right
place is an invariant of its stack here, and needs no induction over dossiers.

**EvidenceCache** (`Invariance`, `NothingIsReplaced`, `CachedIsThereOrNoted`,
`CacheImplementsStore`). What a run makes is named by what it holds, so that two makers of
one name wrote the same, which is the heart of the first two. The refinement maps the names
under which a whole artefact is found from the configured path to the abstract store, and
needs that what a loader has listed so far is still there and what was there when it began
is listed, was withheld, or is still ahead (`StoreInv`). What is withheld is what a failing
`is_dir` or a missing directory entry took, and a step that withholds is an `Overlook` of
the abstract store (`Withheld`, `OverlookIsOverlook`); with `Faulty` FALSE there is none,
and the theorem says that the loader answers with everything. It is proved where no other
program swaps a directory of the store for a link (`~Swaps`, as in the run): after that the
path of the loader and the descriptor of the writer lead to two directories, and what was
kept is not found any more. `NothingIsReplaced` and `CachedIsThereOrNoted` do not assume it.

**Verdict** (`Inductive`, `ValidIsAsSigned`, `SignerAndTimeAreTheTrueOnes`,
`InstantIsProven`, `OpenContentIsNothing`). For every dossier and any number of rewritings.
`IInv` says that the file and every file a signer saw is a tree (`AFile`), that what was
sealed was digested from the file the signer saw (`SigInv`), what was stamped was there
(`StampInv`), and that a report is the verifier's of the file as it is (`RunInv`). The
argument is then about trees. A digest shows everything within a reference (`Within`), so
that equal digests agree on text and parentage of all of it (`AgreeMeans`, `AgreeOnUp`), and
by going down both trees at once the content that the format makes a signature cover reads
the same (`ReadsTheSame`). For the signer, the properties found in the file have to be those
found when it was signed, that is, the nearest signature above them must be the same one in
both files (`OwnerStays`). Two theorems have a hypothesis on states:

- `PayloadsAreText`: a reference with the base64 transform digests the octets its target
  decodes to (`verify/src/references.rs:103`) and nothing of the elements they
  stand in, so payload objects inside one another could be rearranged unseen.
- `OwnPropertiesOnly`: no signer's references cover the signed properties of somebody else's
  signature without covering that signature. A signer who does sees those properties, and
  they can afterwards be moved to where they are read as its own.

TLC found both to hold of every file of the instance; neither is asked for
`InstantIsProven`.

`OpenContentIsNothing` compares two files, one of them without an element (`Lesser`), and
follows the verifier through all it asks of them: who stands where (`NearestStays`,
`ChildrenStay`), what a reference leads to, covers and digests (`ResolvedStays`,
`CoverageStays`, `DigestsStay`), the profiles, properties, scope and tokens. The attempt
narrowed what counts as open: content under a base64 reference is digested although the
scope rule does not call it covered, and a profile in a countersignature's element is read
as the signature's own (section 6). `Open` names both.

Model-checked only:

- `Terminates`, `EveryRunEnds` and `RunsEnd`, which are liveness and out of reach of the
  prover;
- all of Signing and Authoring. Parsing positions and sizes in DossierText,
  Signing and Authoring are computed over data by recursive definitions, where the induction
  the prover lacks would be needed;
- `cache_concurrent`, which is a counterexample.

## 6. Where code and documentation disagree

One run refutes a sentence: `cache_concurrent`. "Two runs caching the same artefact at the
same time must both succeed" (`cli/src/online/mod.rs:613`), but the run that loses the
`mkdirat` of a component of the path fails (`cli/src/extract/output_dir.rs:170`).

The others were met while modelling. The models do what the code does; a property that
needs to says where it stops.

Verification:

- `seen` guarantees "that the rounds cannot repeat a request"
  (`cli/src/commands/verify.rs:82`): it is keyed by certificate and instant, and a signature
  without a timestamp is judged at the clock, read anew by every pass. `NothingIsAskedTwice`
  speaks of certificate and instant.
- The coverage gate of the rounds asks "the verifier's own offline code path"
  (`cli/src/commands/verify.rs:225`): it asks with the material of all signatures, the
  verdict with that of one, so a gap may be taken as filled that the report calls
  unanswered.
- A responder is trusted when its path validates at `producedAt`
  (`verify/src/revocation/ocsp.rs:224`): only the first certificate over each key is searched a
  path for (`ocsp.rs:370`).
- The first refusal "stays visible whether or not a later tier answered"
  (`verify/src/revocation/tiers.rs:586`): a stale or unknown answer read later replaces the
  entry that named it (`tiers.rs:485`).
- "A revocation from any source beats `good` from any other" (`tiers.rs:356`): what lies
  behind `max_revocation_items` of a tier is dropped without a word.
- "Giving up is not a finding" (`verify/src/certs/path.rs:632`): once a failing path was
  recorded, an exhausted search is reported as that failure (`path.rs:485`).
- The declared type "is *signed*" (`verify/src/countersign.rs:37`): the first profile of the
  signature is read, covered or not (`scope.rs:466`); the scope rule is content with any that
  is covered. `OpenContentDecidesNothing` is about content without a profile.
- An inserted, unreferenced object "must not be able to add a coverage requirement"
  (`verify/src/scope.rs:189`): in a signature that has no qualifying properties of its own
  it adds one, since the requirement is there as soon as any are found (`scope.rs:181`).
  `OpenContentDecidesNothing` speaks of signatures whose properties are covered.
- A malformed entry fails the whole store, since a half-loaded one "would silently change
  what "trusted" means" (`docs/trust.md:53`), and "the run fails rather than silently trusting
  a partial store" (`docs/verify-design.md:339`): directory entries that cannot be read are
  left out without a word (`cli/src/trust.rs:128`), and so is `anchors/` or `intermediates/`
  when it cannot be inspected, since `is_dir` is false then (`trust.rs:90`); without
  `anchors/` the store is even read as a flat one. The model calls both `unlisted`, and
  `StoreIsWhole` excepts them.
- In a store "subdirectories and symlinks are skipped rather than followed"
  (`docs/architecture.md:2092`), by "the same descriptor-relative, no-symlink policy"
  as the extractor (`docs/verify-design.md:336`): that holds of the files. `is_dir` and
  `read_dir` follow a link that stands where `anchors/` or `intermediates/` should
  (`trust.rs:90`, `trust.rs:98`), and everything goes by paths. `StoreIsWhole` says of what
  came through a link that it came through one of those two.
- "A store that quietly dropped half its contents would be worse than no store at all", "the
  silence the loader refuses elsewhere" (`cli/src/revocation_store.rs:49`, `:149`): here too
  entries that cannot be read are filtered out (`revocation_store.rs:104`), and a subdirectory
  that cannot be inspected is taken as absent (`:71`). `StoreOfEvidence` has the exception as a
  step of its abstract store.
- `qualified` is "`None`, never `false`, when no trusted list covers the chain"
  (`verify/src/trustlist/qualified.rs:96`): as soon as some list contributed a service, a
  chain none of them covers is `Some(false)` (`qualified.rs:115`). `QualifiedIsEarned` says
  what the code does: open exactly where no list says anything of anybody.
- `qualified` is `null` when no list was consulted (`docs/trust.md:421`): also when a list
  was that contributes no readable service.

Remote signing:

- The listener stops "on a five-minute deadline" (`docs/architecture.md:4139`,
  `cli/src/csc/oauth.rs:25`): the deadline is looked at only when no connection is waiting.
- "The remedy is another `openszigno csc login`" (`docs/architecture.md:1029`): an empty
  token file, which `write_private` leaves when it is stopped after opening it, refuses the
  login too (`cli/src/csc/config.rs:171`).
- An expired token does not "surface as the service's own `csc_rejected`"
  (`docs/architecture.md:4154`): it does when another run stores between the two reads; the
  record believed fresh is then about another token. `FreshTokensAreTaken` speaks of runs
  whose record is about their token.
- A refresh answer without a refresh token overwrites the stored one with none.
- "A missing record is `None`; an unreadable one is a refusal, because silently treating a
  corrupt record as "no expiry known" is how an expired token becomes a confusing
  `csc_rejected`" (`cli/src/csc/tokens.rs:244`): only one that does not parse is refused. One
  that is there and cannot be read is `None` too (`tokens.rs:249`), and the token is used
  without knowing when it ends. `FreshTokensAreTaken` is about tokens found fresh by a record.

Authoring:

- "The returned bytes parse under the same limits" (`author/src/lib.rs`): nothing checks
  `max_input_bytes`, so a document of some 49 MiB gives a file that every command then
  refuses with `input_too_large`. `ComesBackAsGiven` states the exception.
- "A dossier this crate returns is one the rest of the tool can list, decode, and extract"
  (`author/src/lib.rs:25`), whose octets "parse under the same limits" (`lib.rs:239`):
  `check_dossier_title` (`lib.rs:134`) lets U+FFFE and U+FFFF through, which are no XML
  characters; `create` writes them as they are and every command refuses the file as
  `invalid_xml`. `ComesBackAsGiven` states this exception too.
- A second signature leaves the first alone, "so nothing that verified stops verifying"
  (`docs/architecture.md:3884`), `timestamp` refuses what would break something (`:4027`), and
  a run refuses "rather than to hand back a dossier whose older signatures this run quietly
  broke" (`author/src/sign/mod.rs:293`): `refuse_broken_cover` asks the references of
  `ds:Signature`s (`author/src/sign/dsig.rs:304`) and, of timestamps, only whether there is
  one on the dossier. A timestamp on one document may include elements of another, and the
  verifier takes it (`verify/src/estimestamp.rs:222`); signing or stamping that other document
  then breaks it. `EarlierKept` names these timestamps, and says that nothing else is lost.
- "Nothing this tool writes falls into any of the three" refused shapes
  (`docs/architecture.md:3909`): a dossier this tool signed or timestamped as a whole refuses
  a later document signature.
- A subdirectory that was made but cannot be opened "is removed again, so a failure never
  leaves an unrecorded entry behind" (`cli/src/extract/output_dir.rs:230`): the removal may fail
  too, and that is ignored. `NothingLeftBehind` counts it among what the run
  tried to remove and could not.
- An existing output is refused having "contacted nothing" (`docs/testing.md:11`):
  the authority has stamped by the time `write_new_file` finds it
  (`cli/src/commands/timestamp.rs:76`; for `sign`, the remote signatures are spent too).
- `allocate_id` asks for `Id` alone; an element with the same value as `ID` or `id` makes a
  file the reader refuses. The instance has no such dossier.

## 7. What is left out

- **Data.** DER and XML, canonicalization, signatures and text appear by their outcome. A
  malformed extension or an algorithm mismatch is a fault of the rule that reads it.
- **CertPath.** The traits of a certificate (uses, name constraints, path length) are
  constants of the instance. A leaf that is itself an anchor appears twice in its own
  path, as in the code. Anchors beyond `max_certificates` are ignored, and their copies
  are dropped from the candidates all the same, as in the code.
- **OnlineRounds.** Sources that know of a revocation agree on its date.
- **TrustMaterial.** Services are sets: their order decides only which of several is named
  in the report. Names and dates that are only reported are left out, with the citation of
  the snapshots; the bound on issuer candidates (512) is out of reach of the instance. The
  directory `--trust-store` names is not itself exchanged during the run, and in a flat store
  the names `anchors/` and `intermediates/` do not count against `MaxFiles`.
- **Transport.** The client's reuse of a connection between fetches. Through a proxy the
  exemption of plain http within this machine is decided by the destination, as in the code.
- **Verdict.** Container timestamps (`estimestamp.rs`), weak and unusable keys, the bounds
  on references and transforms, the accuracy of a token, and what is only reported. A
  token is well formed CMS or of a form that is not supported; the instance has none of
  the latter. A digest is taken to be of what it digests, and a value to verify only
  under its key and for its references and digests. Payload objects of the instance
  hold text and no elements, which is what the parser reads of them.
- **RemoteSigning.** TOML, URLs, JSON and the authentication of the client; PKCE is that a
  code redeems only the round it was issued in.
- **Signing.** Canonical octets are the tokens of a subtree. Media types and namespaces are
  checked with the identifiers. The parser's limits do not apply here (`Working::parse`
  uses the defaults and the result is not measured again); how the file is created is
  Extraction's run.
- **Authoring.** A title is what the title rules say of it, a dossier title whether it is
  refused, plain, or neither. Two lengths stand for
  the noise a wrong key gives. `Write` is one step; its system calls are
  Extraction's. Each behaviour reads one document. Recipients that share issuer and serial
  are excluded from the round trip, since the order of a DER set decides there. The expiry
  warnings are left out.
- **OutputDir.** The Unix build only; "." and ".." components, permissions, and the
  path-based build for other systems are left out. File identities are bounded by `Dirs`.
- **Canonicalization** (`c14n.rs`) is a function from a tree to octets whose detail is text.
- **Inventory, sniffing, display text, arguments and reports**: wording, layout and JSON.

## 8. Plan

Done in this order: OnlineRounds and GapQuestions; Revocation; CertPath; OutputDir with
Extraction; EvidenceCache and EvidenceStore; the proofs about the first three;
DossierTree and Verdict; RemoteSigning; Destination and Transport; DossierText and Signing;
TrustMaterial; Decoding and Authoring; the proofs about Transport and RemoteSigning; those
about Extraction, EvidenceCache and Verdict, and the remaining invariants of OnlineRounds,
Revocation, CertPath, Transport and RemoteSigning; the proofs about TrustMaterial; TrustedPath
and its proofs.

Next:

1. **Container timestamps** in Verdict, with the elements they include, and an abstract
   specification of the verdict ("valid only if nothing is missing").
2. **Composition**: Signing's output as Verdict's input, CertPath and Revocation as
   Verdict's functions of certificate and instant.

## 9. Running it

    tlc -workers 2 -config online_rounds.cfg MCOnlineRounds.tla
    tlapm OnlineRounds_proofs.tla

Each run's module and configuration are listed under `runs` in `PROJECT.json`, with the
properties it checks. The passing runs take from a few seconds to about two minutes, the
proof modules from one to about ten.
