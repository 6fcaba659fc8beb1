----------------------------- MODULE TrustMaterial -----------------------------
(***************************************************************************)
(* What `openszigno verify` trusts: the --trust-store directory            *)
(* (openszigno-cli, trust.rs), the ETSI trusted lists of --lotl and        *)
(* --trust-list with the signer the caller has out of band                 *)
(* (commands/verify.rs; openszigno-verify, trustlist/), and what the lists *)
(* make of one validated chain (trustlist/qualified.rs).                   *)
(*                                                                         *)
(* The store is read file by file while others may change it.  A list is a *)
(* file somebody once signed and anybody may have altered since: a         *)
(* reference of its signature records what its target held when it was     *)
(* made, so a digest agrees when the target still holds that.              *)
(*                                                                         *)
(* What a list contributes is a set: the order of its services decides     *)
(* only which of several is named in the report.  The signer pool keeps    *)
(* its order, the first certificate that verifies being the one the list's *)
(* own statement is held against.                                          *)
(***************************************************************************)
EXTENDS Pki

CONSTANTS
    Ski,            \* per certificate, its subjectKeyIdentifier
    Statements,     \* per certificate, its QCStatements, see StatementsAssumption
    PostEidas,      \* certificates issued once eIDAS applied
    OperatorLike,   \* those with the key usages and constraints of clause 5.7.1
    Garbage,        \* what does not parse
    Name,           \* the entries a trust store may have, in the order of their names
    Place,          \* per entry, its directory
    Entry,          \* what an entry may be
    Commands,       \* command lines and stores, see CommandsAssumption
    Trees,          \* what a directory put in another's place may hold
    SignerFiles,    \* what --trust-list-signer may hold: the certificates
    Lists,          \* what --lotl and --trust-list may hold
    Paths, Times,   \* validated chains, and instants they are validated at
    MaxFileBytes, MaxFiles, MaxStoreBytes,
    MaxAnchors, MaxPointers,
    MaxChanges      \* changes somebody makes to the store meanwhile

\* Whether the extension is there and reads, and what it asserts.
ASSUME StatementsAssumption ==
    Statements \in [Certs -> [form : {"absent", "malformed", "read"},
                             oids : SUBSET {"compliance", "sscd"}]]

\* An entry that is a symlink has what it points at as `certs`; a file that is
\* no certificate material has Garbage among them.
ASSUME EntriesAssumption ==
    Entry \subseteq [kind : {"file", "other", "link", "gone"}, size : Nat,
                     certs : Seq(Certs \union {Garbage})]

ASSUME NameAssumption ==
    /\ Name \subseteq Nat \ {0} /\ IsFiniteSet(Name)
    /\ Place \in [Name -> {"anchors", "intermediates", "top"}]

\* What stands where a directory of the store would: a directory, a link to one,
\* something else, or nothing.  What is no directory has no entries.
Folders == {"anchors", "intermediates", "top"}
Enterable == {"dir", "link"}

ASSUME CommandsAssumption ==
    /\ Commands \subseteq [store : BOOLEAN, folders : [Folders -> Enterable \union {"other", "none"}],
                           disk : [Name -> Entry],
                           signer : BOOLEAN, lotl : BOOLEAN, lists : Nat]
    /\ \A c \in Commands : \A n \in Name :
        c.folders[Place[n]] \notin Enterable => c.disk[n].kind = "gone"
    /\ Trees \subseteq [Name -> Entry]

ASSUME SignerFilesAssumption == SignerFiles \subseteq Seq(Certs \union {Garbage})

\* What an element says: an identity is a certificate, the identifier of a key
\* or a name.
IdentityOK(id) ==
    /\ id = [form |-> id.form, of |-> id.of]
    /\ id.form \in {"certificate", "ski", "name"}
    /\ id.form = "certificate" => id.of \in Certs \union {Garbage}

IsSequence(s) == s \in Seq(EntriesOf(s))

ASSUME ListsAssumption ==
    \A list \in Lists :
        /\ IsSequence(list.signatures)
        /\ IsSequence(list.content.pointers) /\ IsSequence(list.content.services)
        /\ \A sv \in EntriesOf(list.content.services) :
            /\ IsSequence(sv)
            /\ \A instance \in EntriesOf(sv) :
                instance.since \in Int /\ \A id \in instance.ids : IdentityOK(id)

ASSUME LimitsAssumption ==
    /\ {MaxFileBytes, MaxFiles, MaxStoreBytes, MaxPointers} \subseteq Nat
    /\ MaxAnchors \in Nat \ {0}

VARIABLES
    command,        \* what the command line says
    phase,             \* where the run is
    disk,           \* the trust store as it stands: what each path of it leads to
    folder,         \* its directories
    linked,         \* those that have been a link during the run
    changed,        \* entries somebody has changed during the run
    unlisted,       \* entries a failing directory call withheld
    regular,        \* certificates that ever stood in a regular file of the store's
                    \* own directories
    directory, todo, held,  \* the directory being read, what is left of it, and
                    \* the entry found to be a regular file
    remaining,      \* the budget
    files,          \* the files read: their directory, size and certificates
    anchors,        \* certificates taken as anchors, with their origin
    intermediates,  \* extra path candidates of the store
    services,       \* the identities of the lists' services
    checks,         \* what loading found
    signers,        \* the certificates a list may be signed with
    loaded,         \* the lists loaded, in order, with what they were given as
    roots, extras,  \* the anchors and path candidates of the verification
    outcome         \* what is reported of one chain

reading == <<disk, folder, linked, changed, unlisted, regular, directory, todo, held, remaining, files>>
material == <<anchors, intermediates, services, checks, signers, loaded>>
used == <<roots, extras, outcome>>
trustVars == <<command, phase, reading, material, used>>

None == "none"
Nobody == 0
Check(code, status) == [code |-> code, status |-> status]

\* The numbers of a set in their order, and the entries of a sequence at some of
\* its places.
InOrder(S) ==
    [n \in 1 .. Cardinality(S) |-> CHOOSE k \in S : Cardinality({j \in S : j <= k}) = n]

At(s, places) == [n \in 1 .. Cardinality(places) |-> s[InOrder(places)[n]]]

Configured == command.store \/ command.lotl \/ command.lists > 0

-----------------------------------------------------------------------------
(* The trust store: every file is read before one is parsed.               *)

\* What is there in a regular file below no link.
InFiles(d, f) ==
    (UNION {EntriesOf(d[n].certs) : n \in {m \in Name : d[m].kind = "file" /\ f[Place[m]] = "dir"}})
        \ {Garbage}

Changing == phase \in {"layout", "directory", "entries"} /\ Cardinality(changed) < MaxChanges

Change(n, entry) ==
    /\ Changing
    /\ folder[Place[n]] \in Enterable /\ disk[n] # entry
    /\ disk' = [disk EXCEPT ![n] = entry]
    /\ changed' = changed \union {n}
    /\ regular' = regular \union InFiles(disk', folder)
    /\ UNCHANGED <<command, phase, folder, linked, unlisted, directory, todo, held, remaining,
                   files, material, used>>

\* Somebody puts something in the place of a whole directory.  Which directories
\* there are decides which are read, so anchors/ touches every entry.
Relink(place, kind, tree) ==
    /\ Changing
    /\ kind \notin Enterable => \A n \in Name : Place[n] = place => tree[n].kind = "gone"
    /\ folder' = [folder EXCEPT ![place] = kind]
    /\ linked' = (IF kind = "link" THEN linked \union {place} ELSE linked)
    /\ disk' = [n \in Name |-> IF Place[n] = place THEN tree[n] ELSE disk[n]]
    /\ changed' = changed \union {n \in Name : place = "anchors" \/ Place[n] = place}
    /\ regular' = regular \union InFiles(disk', folder')
    /\ UNCHANGED <<command, phase, unlisted, directory, todo, held, remaining, files,
                   material, used>>

Refuse == phase' = "refused" /\ UNCHANGED <<command, reading, material, used>>

\* The store itself is a directory and no link.
StartStore ==
    /\ phase = "start"
    /\ IF command.store
       THEN \/ Refuse
            \/ /\ folder["top"] = "dir" /\ phase' = "layout"
               /\ UNCHANGED <<command, reading, material, used>>
       ELSE /\ phase' = IF Configured THEN "signer" ELSE "gather"
            /\ UNCHANGED <<command, reading, material, used>>

\* Path::is_dir: it follows a link, and says no as well when it cannot look.
IsDir(place) == {folder[place] \in Enterable, FALSE}

\* A store without anchors/ is read as a bag of anchors.
ChooseLayout ==
    /\ phase = "layout" /\ phase' = "directory"
    /\ \E there \in IsDir("anchors") :
        /\ directory' = IF there THEN "anchors" ELSE "top"
        /\ unlisted' = IF there \/ folder["anchors"] \notin Enterable THEN unlisted
                       ELSE unlisted \union {n \in Name : Place[n] # "top"}
    /\ UNCHANGED <<command, disk, folder, linked, changed, regular, todo, held, remaining, files,
                   material, used>>

\* An entry the directory fails to give is left out (filter_map(Result::ok));
\* one that is no directory, or cannot be read, ends the run.
ListDirectory ==
    /\ phase = "directory"
    /\ LET there == {n \in Name : Place[n] = directory /\ disk[n].kind # "gone"}
       IN  \/ Refuse
           \/ \E given \in SUBSET there :
            IF Cardinality(given) > MaxFiles \/ folder[directory] \notin Enterable THEN Refuse
            ELSE /\ phase' = "entries"
                 /\ todo' = InOrder(given)
                 /\ unlisted' = unlisted \union (there \ given)
                 /\ UNCHANGED <<command, disk, folder, linked, changed, regular, directory, held,
                                remaining, files, material, used>>

\* The first look decides only what is skipped.
Inspect ==
    /\ phase = "entries" /\ held = Nobody /\ todo # <<>>
    /\ LET entry == disk[Head(todo)] IN
       \/ Refuse
       \/ /\ entry.kind = "file" /\ held' = Head(todo)
          /\ UNCHANGED <<command, phase, disk, folder, linked, changed, unlisted, regular,
                         directory, todo, remaining, files, material, used>>
       \/ /\ entry.kind \notin {"gone", "file"} /\ todo' = Tail(todo)
          /\ UNCHANGED <<command, phase, disk, folder, linked, changed, unlisted, regular,
                         directory, held, remaining, files, material, used>>

\* A slip: a link is followed.
OpensFollowing(entry) == entry.kind # "gone"

\* The one open does not follow a link, nor does it wait (open_for_read).
Opens(entry) == entry.kind \notin {"gone", "link"}

\* What reading the entry comes to: everything is asked of the descriptor.  Below
\* what is no directory any more there is nothing regular.
Opened(n) ==
    IF disk[n].kind = "gone" THEN IF folder[Place[n]] = "other" THEN "not_regular" ELSE "inspect"
    ELSE IF ~Opens(disk[n]) \/ disk[n].kind = "other" THEN "not_regular"
    ELSE IF disk[n].size > MaxFileBytes THEN "too_large"
    ELSE "bytes"

ReadEntry ==
    /\ phase = "entries" /\ held # Nobody
    /\ LET entry == disk[held] IN
       CASE Opened(held) \in {"inspect", "too_large"} -> Refuse
         [] Opened(held) = "not_regular" ->
              /\ todo' = Tail(todo) /\ held' = Nobody
              /\ UNCHANGED <<command, phase, disk, folder, linked, changed, unlisted, regular,
                             directory, remaining, files, material, used>>
         [] OTHER ->
              \/ Refuse
              \/ IF entry.size > remaining THEN Refuse
                 ELSE /\ todo' = Tail(todo) /\ held' = Nobody
                      /\ remaining' = remaining - entry.size
                      /\ files' = Append(files, [place |-> directory, size |-> entry.size,
                                                 certs |-> entry.certs])
                      /\ UNCHANGED <<command, phase, disk, folder, linked, changed, unlisted,
                                     regular, directory, material, used>>

\* The budget is the store's, not the directory's.
NextDirectory ==
    /\ phase = "entries" /\ todo = <<>> /\ held = Nobody
    /\ IF directory = "anchors"
       THEN \E there \in IsDir("intermediates") :
            IF there
            THEN directory' = "intermediates" /\ phase' = "directory" /\ UNCHANGED unlisted
            ELSE /\ phase' = "parse" /\ UNCHANGED directory
                 /\ unlisted' = IF folder["intermediates"] \notin Enterable THEN unlisted
                                ELSE unlisted \union {n \in Name : Place[n] = "intermediates"}
       ELSE phase' = "parse" /\ UNCHANGED <<directory, unlisted>>
    /\ UNCHANGED <<command, disk, folder, linked, changed, regular, todo, held, remaining, files,
                   material, used>>

\* certificates_from_bytes: all of the file, or nothing.
Parsed(file) == IF Garbage \in EntriesOf(file.certs) THEN {} ELSE EntriesOf(file.certs)

Unusable(file) == file.certs = <<>> \/ Garbage \in EntriesOf(file.certs)

From(places) == UNION {Parsed(f) : f \in {g \in EntriesOf(files) : g.place \in places}}

ParseStore ==
    /\ phase = "parse"
    /\ IF \/ \E f \in EntriesOf(files) : Unusable(f)
          \/ From({"anchors", "top"}) = {}
       THEN Refuse
       ELSE /\ phase' = "signer"
            /\ anchors' = {[cert |-> c, origin |-> "trust_store"] :
                            c \in From({"anchors", "top"})}
            /\ intermediates' = From({"intermediates"})
            /\ UNCHANGED <<command, reading, services, checks, signers, loaded, used>>
-----------------------------------------------------------------------------
(* A trusted list's own signature.                                         *)

Whole(ref) == ref.target \in {"document", "list"}

\* What the reference resolves to, the enveloped signature taken out.
Digested(list, sig, ref) ==
    CASE Whole(ref) -> list.content
      [] ref.target = "service" -> list.content.services[1]
      [] ref.target = "properties" -> sig.designates

\* `listed` says that its transforms and digest are within the allowlist.  A
\* reference to another file, to nothing or to more than one node is refused.
ReferenceHolds(list, sig, ref) ==
    /\ ref.target \notin {"external", "nothing", "several"}
    /\ ref.listed
    /\ Whole(ref) => ref.enveloped
    /\ ref.recorded = Digested(list, sig, ref)

\* The places of the pool whose key the value verifies under.
Signatories(sig, pool) == {k \in DOMAIN pool : sig.intact /\ Key[pool[k]] = sig.by}

Signatory(sig, pool) ==
    pool[CHOOSE k \in Signatories(sig, pool) : \A j \in Signatories(sig, pool) : k <= j]

\* A slip: a signature over some of the list will do.
CoveredInPart(list, sig) ==
    LET references == EntriesOf(sig.references) IN
    /\ references # {}
    /\ \A ref \in references : ReferenceHolds(list, sig, ref)

\* Every reference agrees and one of them is to the whole list.
Covered(list, sig) ==
    LET references == EntriesOf(sig.references) IN
    /\ \A ref \in references : ReferenceHolds(list, sig, ref)
    /\ \E ref \in references : Whole(ref)

\* `listed`: the parts are there and the methods within the allowlist.
SignatureHolds(list, pool) ==
    /\ Len(list.signatures) = 1
    /\ LET sig == list.signatures[1]
       IN  sig.listed /\ Covered(list, sig) /\ Signatories(sig, pool) # {}

\* What the signed properties say of the signer, when the signature covers them.
BindingChecks(sig, signer) ==
    IF /\ \E ref \in EntriesOf(sig.references) : ref.target = "properties"
       /\ sig.designates \notin {None, signer}
    THEN {Check("trust_list_signer_mismatch", "unknown")} ELSE {}

\* The certificates a list carries itself.
Carried(list) ==
    LET ids == UNION {UNION {instance.ids : instance \in EntriesOf(sv)} :
                      sv \in EntriesOf(list.content.services)}
        identified == {id.of : id \in {i \in ids : i.form = "certificate"}}
    IN  (EntriesOf(list.content.pointers) \union identified) \intersect Certs

RestrictionChecks(list, signer) ==
    IF \/ signer \notin OperatorLike
       \/ ~SelfSigned(signer) /\ ~\E c \in Carried(list) : Issued(c, signer)
    THEN {Check("trust_list_signer_unqualified", "info")} ELSE {}

ListSignatureChecks(list, pool) ==
    IF pool = <<>> THEN {Check("trust_list_unverified", "unknown")}
    ELSE IF ~SignatureHolds(list, pool) THEN {Check("trust_list_signature_invalid", "failed")}
    ELSE LET sig == list.signatures[1]
             signer == Signatory(sig, pool)
         IN  {Check("trust_list_signature_ok", "passed")}
             \union BindingChecks(sig, signer) \union RestrictionChecks(list, signer)
-----------------------------------------------------------------------------
(* What a list says.                                                       *)

\* A list of another version, or of none, is not guessed at.
Versions == {5, 6}

\* A trusted list at all, and of a known version.
Loads(list) == list.usable /\ list.content.version \in Versions

\* The pointer certificates, each once, as many as are taken.
Pointers(list) ==
    LET given == list.content.pointers
        first == {k \in DOMAIN given :
            given[k] \in Certs /\ \A j \in 1 .. k - 1 : given[j] # given[k]}
    IN  At(given, {k \in first : Cardinality({j \in first : j <= k}) <= MaxPointers})

\* A service is its ServiceInformation and history; one without the former is
\* empty.  An instance of another type is passed over with its identities.
Timeline(sv) == At(sv, {k \in DOMAIN sv : sv[k].kind \in Kinds})

Identities(sv) ==
    {id \in UNION {instance.ids : instance \in EntriesOf(Timeline(sv))} : id.of # Garbage}

CertificateIds(sv) == {id \in Identities(sv) : id.form = "certificate"}

\* Services are read until one of the bounds is reached.
ReadServices(list) ==
    LET all == list.content.services
        certificates(m) == UNION {{j} \X CertificateIds(all[j]) : j \in 1 .. m - 1}
        identities(m) == UNION {{j} \X Identities(all[j]) : j \in 1 .. m - 1}
    IN  {all[k] : k \in {m \in DOMAIN all :
            /\ Cardinality(certificates(m)) < MaxAnchors
            /\ Cardinality(identities(m)) < MaxAnchors}}

AnchorsOf(list) ==
    UNION {{[cert |-> id.of, origin |-> "trust_list"] : id \in CertificateIds(sv)} :
           sv \in ReadServices(list)}

ServicesOf(list) ==
    UNION {{[id |-> id, timeline |-> Timeline(sv)] : id \in Identities(sv)} :
           sv \in ReadServices(list)}
-----------------------------------------------------------------------------
(* The configuration (verify_command).                                     *)

\* Exactly one certificate is the signer the caller has out of band.
LoadSigner ==
    /\ phase = "signer"
    /\ IF command.signer
       THEN \E file \in SignerFiles :
            IF Len(file) # 1 \/ file[1] = Garbage THEN Refuse
            ELSE /\ signers' = file /\ phase' = "lotl"
                 /\ UNCHANGED <<command, reading, anchors, intermediates, services, checks,
                                loaded, used>>
       ELSE phase' = "lotl" /\ UNCHANGED <<command, reading, material, used>>

\* A slip: what the list of lists points at may sign the list itself.
LoadLotlTrusting ==
    /\ phase = "lotl"
    /\ IF command.lotl
       THEN \E list \in Lists :
            IF ~Loads(list) THEN Refuse
            ELSE /\ phase' = "lists"
                 /\ signers' = signers \o Pointers(list)
                 /\ checks' = checks \union ListSignatureChecks(list, signers')
                 /\ loaded' = Append(loaded, [list |-> list, flag |-> "lotl"])
                 /\ UNCHANGED <<command, reading, anchors, intermediates, services, used>>
       ELSE phase' = "lists" /\ UNCHANGED <<command, reading, material, used>>

\* The list of lists is held against the caller's certificate alone; then what
\* it points at may sign the lists that follow, however it fared.
LoadLotl ==
    /\ phase = "lotl"
    /\ IF command.lotl
       THEN \E list \in Lists :
            IF ~Loads(list) THEN Refuse
            ELSE /\ phase' = "lists"
                 /\ checks' = checks \union ListSignatureChecks(list, signers)
                 /\ signers' = signers \o Pointers(list)
                 /\ loaded' = Append(loaded, [list |-> list, flag |-> "lotl"])
                 /\ UNCHANGED <<command, reading, anchors, intermediates, services, used>>
       ELSE phase' = "lists" /\ UNCHANGED <<command, reading, material, used>>

Given == Cardinality({k \in DOMAIN loaded : loaded[k].flag = "trust_list"})

LoadList ==
    /\ phase = "lists" /\ Given < command.lists
    /\ \E list \in Lists :
        IF ~Loads(list) THEN Refuse
        ELSE /\ checks' = checks \union ListSignatureChecks(list, signers)
             /\ anchors' = anchors \union AnchorsOf(list)
             /\ services' = services \union ServicesOf(list)
             /\ loaded' = Append(loaded, [list |-> list, flag |-> "trust_list"])
             /\ UNCHANGED <<command, phase, reading, intermediates, signers, used>>

ListsLoaded ==
    /\ phase = "lists" /\ Given = command.lists
    /\ phase' = "gather"
    /\ UNCHANGED <<command, reading, material, used>>

\* Verification sorts what it is given: only what names itself as its issuer
\* ends a path without a list saying so.
Gather ==
    /\ phase = "gather"
    /\ phase' = "verify"
    /\ LET given == {a.cert : a \in anchors}
       IN  /\ roots' = {c \in given : SelfSigned(c)}
           /\ extras' = intermediates \union {c \in given : ~SelfSigned(c)}
    /\ UNCHANGED <<command, reading, material, outcome>>
-----------------------------------------------------------------------------
(* What the lists make of a validated chain.                               *)

\* Where a path may end: CertPath's roots and listed certificates.
Listed == {s.id.of : s \in {t \in services : t.id.form = "certificate"}}

\* A slip: the first line with a date that has come decides.
GrantsEver(timeline, time) ==
    \E k \in DOMAIN timeline :
        /\ timeline[k].since <= time /\ timeline[k].kind = "ca_qc"
        /\ \/ timeline[k].status = "granted"
           \/ timeline[k].status = "accredited" /\ time < EidasDate

Grants(timeline, time) == GrantedAt(timeline, "ca_qc", time)

\* A certificate identity recognises itself and what it issued, by name and
\* signature; the two weaker forms only recognise.
IdentityCovers(id, path) ==
    \E c \in EntriesOf(path) :
        CASE id.form = "certificate" ->
                \/ c = id.of
                \/ Issuer[c] = Subject[id.of] /\ Issued(id.of, c)
          [] id.form = "ski" -> Ski[c] = id.of
          [] id.form = "name" -> Subject[c] = id.of

\* What the signer's certificate itself says against it.
Denies(leaf) ==
    /\ leaf \in PostEidas
    /\ \/ Statements[leaf].form = "malformed"
       \/ Statements[leaf].form = "read" /\ "compliance" \notin Statements[leaf].oids

Device(leaf) ==
    IF Statements[leaf].form # "read" THEN "unknown"
    ELSE IF "sscd" \in Statements[leaf].oids THEN "yes" ELSE "no"

Covering(path, time) ==
    {s \in services : Grants(s.timeline, time) /\ IdentityCovers(s.id, path)}

Qualified(path, time) ==
    IF Covering(path, time) # {} THEN IF Denies(path[1]) THEN "no" ELSE "yes"
    ELSE IF services = {} THEN "unknown" ELSE "no"

\* The list is the stronger origin of an anchor that is in the store as well.
Verify ==
    /\ phase = "verify"
    /\ \E path \in Paths, time \in Times :
        /\ path[Len(path)] \in roots \union Listed
        /\ outcome' = [path |-> path, time |-> time, qualified |-> Qualified(path, time),
                       device |-> IF Covering(path, time) = {} THEN "unknown"
                                  ELSE Device(path[1]),
                       origin |-> IF path[Len(path)] \in Listed THEN "trust_list"
                                  ELSE "trust_store"]
    /\ phase' = "done"
    /\ UNCHANGED <<command, reading, material, roots, extras>>
-----------------------------------------------------------------------------
Nothing == [path |-> <<>>, time |-> 0, qualified |-> "unknown", device |-> "unknown",
            origin |-> "none"]

TrustInit ==
    /\ command \in Commands
    /\ phase = "start"
    /\ disk = command.disk /\ folder = command.folders
    /\ linked = {f \in Folders : command.folders[f] = "link"}
    /\ regular = InFiles(command.disk, command.folders)
    /\ changed = {} /\ unlisted = {}
    /\ directory = "top"
    /\ todo = <<>> /\ held = Nobody
    /\ remaining = MaxStoreBytes /\ files = <<>>
    /\ anchors = {} /\ intermediates = {} /\ services = {} /\ checks = {}
    /\ signers = <<>> /\ loaded = <<>>
    /\ roots = {} /\ extras = {} /\ outcome = Nothing

TrustNext ==
    \/ StartStore
    \/ \E n \in Name, entry \in Entry : Change(n, entry)
    \/ \E place \in Folders \ {"top"}, kind \in Enterable \union {"other", "none"}, tree \in Trees :
        Relink(place, kind, tree)
    \/ ChooseLayout
    \/ ListDirectory
    \/ Inspect
    \/ ReadEntry
    \/ NextDirectory
    \/ ParseStore
    \/ LoadSigner
    \/ LoadLotl
    \/ LoadList
    \/ ListsLoaded
    \/ Gather
    \/ Verify

TrustSpec == TrustInit /\ [][TrustNext]_trustVars
-----------------------------------------------------------------------------
(* Properties.                                                             *)

\* Nothing loading found stands against a valid verdict (lib.rs folds these
\* checks into the dossier's).
Supported == \A c \in checks : c.status \in {"passed", "info"}

\* Somebody with the key of one of these certificates signed all the list says.
SignedBy(list, certs) ==
    \E sig \in EntriesOf(list.signatures) :
        /\ sig.intact
        /\ \E c \in certs : Key[c] = sig.by
        /\ \E ref \in EntriesOf(sig.references) : Whole(ref) /\ ref.recorded = list.content

GivenAs(flag) == {l.list : l \in {k \in EntriesOf(loaded) : k.flag = flag}}

\* The caller's certificate, and what a list of lists under that very
\* certificate points at.
Own == IF command.signer /\ signers # <<>> THEN {signers[1]} ELSE {}

Accountable ==
    Own \union UNION {EntriesOf(l.content.pointers) \intersect Certs :
                      l \in {k \in GivenAs("lotl") : SignedBy(k, Own)}}

\* Unless the verdict is held back, every anchor and every service taken from a
\* trusted list stands in one whose whole content was signed, as it is, by the
\* caller's certificate or by one that a list of lists under that certificate
\* names: neither an altered list, nor a signature over part of it, nor pointers
\* out of an unverified list of lists supports `valid` (trustlist/mod.rs,
\* commands/verify.rs).
TrustIsSigned ==
    phase \in {"verify", "done"} /\ Supported =>
        LET signed == {l \in GivenAs("trust_list") : SignedBy(l, Accountable)}
            stated == UNION {EntriesOf(l.content.services) : l \in signed}
        IN  /\ \A a \in anchors : a.origin = "trust_list" =>
                \E sv \in stated : \E instance \in EntriesOf(sv) :
                    [form |-> "certificate", of |-> a.cert] \in instance.ids
            /\ \A s \in services :
                \E sv \in stated : s.id \in Identities(sv) /\ s.timeline = Timeline(sv)

\* The entries a store consists of, the certificates taken of it, those that came
\* of a directory that was a link, and every octet read.
Sought ==
    {n \in Name : IF command.folders["anchors"] \in Enterable THEN Place[n] # "top"
                  ELSE Place[n] = "top"}

Taken == {a.cert : a \in {b \in anchors : b.origin = "trust_store"}} \union intermediates

Followed == UNION {EntriesOf(f.certs) : f \in {g \in EntriesOf(files) : g.place \in linked}}

Octets == UNION {{k} \X (1 .. files[k].size) : k \in DOMAIN files}

\* The store taken is the whole store: every file nobody touched is in it to the
\* last certificate, but for what a failing directory call withheld, an entry that
\* was not given or a directory whose inspection failed; whatever is in it stood in
\* a regular file, which no entry that is a link leads to, though anchors/ and
\* intermediates/ are entered when they are links themselves; and all of it is
\* within the budget of the one store; whatever is exchanged between the look and
\* the read (trust.rs, input.rs).
StoreIsWhole ==
    command.store /\ phase \in {"verify", "done"} =>
        /\ \A n \in Sought \ (changed \union unlisted) :
            disk[n].kind = "file" => EntriesOf(disk[n].certs) \subseteq Taken
        /\ Taken \subseteq regular \union Followed
        /\ Cardinality(Octets) <= MaxStoreBytes

\* What a service's dated lines say of a time, and whether it is or issued a
\* certificate.
Dated(sv, time) == {k \in DOMAIN sv : sv[k].kind \in Kinds /\ sv[k].since <= time}

IssuesQualified(sv, time) ==
    \E k \in Dated(sv, time) :
        /\ \A j \in Dated(sv, time) : sv[j].since <= sv[k].since
        /\ sv[k].kind = "ca_qc"
        /\ \/ sv[k].status = "granted"
           \/ sv[k].status = "accredited" /\ time < EidasDate

Names(sv, c) ==
    \E k \in DOMAIN sv : \E id \in sv[k].ids :
        \/ id.form = "certificate" /\ id.of \in Certs
           /\ (c = id.of \/ SignedWith[c] = Key[id.of])
        \/ id.form = "ski" /\ id.of = Ski[c]
        \/ id.form = "name" /\ id.of = Subject[c]

\* A chain is called qualified only where some list given, at the newest of its
\* dated statements about a service by then, says that the service issues
\* qualified certificates (before eIDAS an accreditation says it too), the
\* service is or issued part of the chain, and the signer's certificate does not
\* deny it (trustlist/qualified.rs, trustlist/services.rs).  It is left open only
\* where no list says anything: where lists were given and none covers the chain
\* the code answers no, against its own comment, which promises that it is left
\* open there (qualified.rs:96).
QualifiedIsEarned ==
    phase = "done" =>
        /\ outcome.qualified = "yes" =>
            /\ ~Denies(outcome.path[1])
            /\ \E l \in GivenAs("trust_list") : \E sv \in EntriesOf(l.content.services) :
                /\ IssuesQualified(sv, outcome.time)
                /\ \E c \in EntriesOf(outcome.path) : Names(sv, c)
        /\ outcome.qualified = "unknown" =>
            \A l \in GivenAs("trust_list") : \A sv \in EntriesOf(l.content.services) :
                \A k \in DOMAIN sv : sv[k].kind \in Kinds =>
                    \A id \in sv[k].ids : id.of = Garbage
=============================================================================
