---------------------------- MODULE RemoteSigning ----------------------------
(***************************************************************************)
(* csc login and sign --csc (openszigno-cli csc/ and commands/csc.rs,      *)
(* openszigno-author sign/csc.rs): runs of one configuration that share a  *)
(* token file and the record beside it.                                    *)
(*                                                                         *)
(* A login runs an authorization round in somebody's browser and stores    *)
(* what it was issued.  A signing run reads the token, renews it when the  *)
(* record says so, asks the service what it can do, and obtains per        *)
(* signature an authorisation and the signature.  Service, browser and     *)
(* clock are the environment: an answer may be a refusal or be lost, other *)
(* connections reach the listener, a run may be killed at any point.       *)
(*                                                                         *)
(* An access token is the number of the grant that issued it, a refresh    *)
(* token that of the grant it was first issued with.                       *)
(***************************************************************************)
EXTENDS Integers, Sequences, FiniteSets

CONSTANTS
    Run,
    Setups,            \* configuration, service, what each run is and signs
    Stores,            \* what earlier runs may have left in the two files
    FirstGrant,        \* when the token they left ends
    Lifetimes, Margin, \* of access tokens; EXPIRY_MARGIN, 60 s
    Timeout,           \* REDIRECT_TIMEOUT, 300 s
    Renewals,          \* what a refresh may do to the refresh token
    MaxClock, MaxGrants, MaxStrangers, MaxFaults

None   == 0
Empty  == -1   \* a token file that was truncated
Torn   == -2   \* one that was written in part
Never  == -1   \* no expires_at

\* The record beside the token file; `of` is the grant it was written for.
NoRecord   == [state |-> "absent", expires |-> Never, refresh |-> None, of |-> None]
TornRecord == [NoRecord EXCEPT !.state = "torn"]

\* Token and record are of one exchange.
OnePair(token, record) ==
    /\ token \in Nat
    /\ record.state = "absent" \/ (record.state = "whole" /\ record.of = token)

ASSUME TimesAssumption == {Margin, Timeout, MaxClock, FirstGrant} \subseteq Nat /\ Lifetimes \subseteq Nat
ASSUME RenewalsAssumption == Renewals \subseteq {"rotated", "repeated", "unmentioned"}
\* What earlier runs left is whole and of the first grant.
ASSUME StoresAssumption ==
    \A store \in Stores :
        \/ store.token \in {None, 1} /\ store.record = NoRecord
        \/ /\ store.token = 1
           /\ store.record \in [state : {"whole"}, expires : Nat \union {Never}, refresh : {None, 1},
                                of : {store.token}]

VARIABLES
    setup,
    clock,
    grants,     \* when the tokens the service granted end, in order
    live,       \* refresh tokens that work
    rounds,     \* authorization rounds so far: every one left a browser tab
    tokenFile, recordFile,
    pc, held,   \* per run, where it is and what it holds
    outcome,    \* per run, how it ended
    output,     \* per run, the signatures in what it wrote
    strangers,  \* connections so far that were no redirect
    faults,     \* kills, failed reads and failed writes so far
    mishaps     \* history: what happened that the two files do not survive

vars == <<setup, clock, grants, live, rounds, tokenFile, recordFile, pc, held, outcome,
          output, strangers, faults, mishaps>>
environment == <<setup, clock, strangers, faults>>
files  == <<tokenFile, recordFile>>
issued == <<grants, live, rounds>>
-----------------------------------------------------------------------------
(* How a run goes on and how it ends.                                      *)

Is(r, kind) == setup.kind[r] = kind
Config  == setup.config
Service == setup.service
Signatures == setup.signatures   \* how many a signing run makes

Goto(r, place, h) ==
    /\ pc' = [pc EXCEPT ![r] = place]
    /\ held' = [held EXCEPT ![r] = h]
    /\ UNCHANGED <<outcome, output>>

\* What a run holds, nothing at first.  `by` is the record its token was found
\* fresh by, `now` when that was.
Idle == [token |-> None, by |-> NoRecord, now |-> 0, refresh |-> None, lasts |-> Never,
         expires |-> Never, round |-> 0, code |-> None, left |-> 0, knock |-> FALSE,
         asked |-> None, sad |-> None, signed |-> <<>>, ended |-> 0]

\* The client is gone, with what it held.
End(r, how) ==
    /\ pc' = [pc EXCEPT ![r] = "ended"]
    /\ outcome' = [outcome EXCEPT ![r] = how]
    /\ held' = [held EXCEPT ![r] = Idle]
    /\ UNCHANGED output

Ongoing(r) == pc[r] # "ended"
Storing(r) == pc[r] \in {"open_token", "write_token", "open_record", "write_record"}
-----------------------------------------------------------------------------
(* The token a run starts from.                                            *)

\* The token the configuration names.  A file that is not there is no token.
NamedToken == IF Config.tokenFile THEN tokenFile ELSE Config.inline

\* An empty token is refused, even before a login, which is what writes one.  A
\* login needs a file to write to.
Load(r) ==
    /\ pc[r] = "load"
    /\ IF ~Config.wellFormed THEN End(r, "config_invalid")
       ELSE IF NamedToken = Empty THEN End(r, "token_empty")
       ELSE IF Is(r, "login") /\ ~Config.tokenFile THEN End(r, "config_invalid")
       ELSE Goto(r, IF Is(r, "login") THEN "discover" ELSE "record", [held[r] EXCEPT !.token = NamedToken])
    /\ UNCHANGED <<environment, files, issued, mishaps>>

\* A slip: the token is good to the last second.
IsExpiredNow(record, now) == record.expires # Never /\ record.expires <= now

\* Does the record say that the token ends before a run starting now would?
IsExpired(record, now) == record.expires # Never /\ record.expires <= now + Margin

UseStored(r, record) ==
    IF held[r].token = None THEN End(r, "config_invalid")
    ELSE Goto(r, "discover", [held[r] EXCEPT !.now = clock, !.by = record])

\* The record is read after the token, and its refresh token stands for both.  A
\* record that is there and cannot be read is as good as none.
ReadRecord(r) ==
    /\ pc[r] = "record"
    /\ \/ /\ IF ~Config.tokenFile \/ recordFile.state = "absent" THEN UseStored(r, NoRecord)
             ELSE IF recordFile.state = "torn" THEN End(r, "token_unusable")
             ELSE IF ~IsExpired(recordFile, clock) THEN UseStored(r, recordFile)
             ELSE IF recordFile.refresh = None THEN End(r, "token_unusable")
             ELSE Goto(r, "refresh", [held[r] EXCEPT !.refresh = recordFile.refresh, !.now = clock])
          /\ UNCHANGED faults
       \/ /\ Config.tokenFile /\ faults < MaxFaults /\ faults' = faults + 1
          /\ UseStored(r, NoRecord)
    /\ UNCHANGED <<setup, clock, strangers, files, issued, mishaps>>
-----------------------------------------------------------------------------
(* Exchanges at the token endpoint.  One that failed leaves the client     *)
(* without an answer, whether or not the service acted on it.              *)

Refused(r) ==
    /\ End(r, "login_failed")
    /\ UNCHANGED <<grants, live, mishaps>>

\* The service makes a grant.  The run hears of it and goes on, or it does not.
Issue(r, place, refresh) ==
    /\ Len(grants) < MaxGrants
    /\ \E lifetime \in Lifetimes :
        /\ grants' = Append(grants, clock + lifetime)
        /\ \/ /\ Goto(r, place, [held[r] EXCEPT !.token = Len(grants) + 1, !.refresh = refresh,
                                                !.round = 0, !.code = None, !.lasts = IF Service.expires THEN lifetime ELSE Never])
              /\ UNCHANGED mishaps
           \/ /\ End(r, "login_failed")
              /\ mishaps' = mishaps \union {"answer_lost"}

\* The refresh-token grant.  The service may issue a new refresh token and take
\* the old one back, repeat it, or not mention it.
Refresh(r) ==
    /\ pc[r] = "refresh"
    /\ \/ Refused(r)
       \/ /\ held[r].refresh \in live
          /\ \E renewal \in Renewals :
              LET new == CASE renewal = "rotated" -> Len(grants) + 1
                           [] renewal = "repeated" -> held[r].refresh
                           [] renewal = "unmentioned" -> None
              IN  /\ Issue(r, "open_token", new)
                  /\ live' = IF renewal = "rotated" THEN (live \ {held[r].refresh}) \union {new}
                             ELSE live
    /\ UNCHANGED <<environment, files, rounds>>

\* The code of an authorization round, which the service honours for the
\* verifier whose challenge the round was asked with.  A login asked for the
\* token it stores, a signing run for an authorisation of one hash.
Redeem(r) ==
    /\ pc[r] = "redeem"
    /\ \/ Refused(r)
       \/ /\ held[r].code = held[r].round /\ Is(r, "login")
          /\ \E refresh \in {None, Len(grants) + 1} :
              /\ Issue(r, "open_token", refresh)
              /\ live' = live \union ({refresh} \ {None})
       \/ /\ held[r].code = held[r].round /\ Is(r, "sign")
          /\ Goto(r, "sign_hash", [held[r] EXCEPT !.sad = held[r].asked])
          /\ UNCHANGED <<grants, live, mishaps>>
    /\ UNCHANGED <<environment, files, rounds>>
-----------------------------------------------------------------------------
(* The two files, each truncated when it is opened and written in full or  *)
(* in part.                                                                *)

Beside(r) == IF \E q \in Run \ {r} : Storing(q) THEN {"stored_beside"} ELSE {}

Goes(r, place, h) ==
    /\ Goto(r, place, h)
    /\ mishaps' = mishaps \union Beside(r)
    /\ UNCHANGED faults

Fails(r) ==
    /\ faults < MaxFaults /\ faults' = faults + 1
    /\ End(r, "token_unusable")
    /\ mishaps' = mishaps \union {"stopped_storing"}

\* A login counts from when its tokens have arrived, a refresh from when the
\* record was read.
Ends(r) ==
    IF held[r].lasts = Never THEN Never
    ELSE held[r].lasts + (IF Is(r, "login") THEN clock ELSE held[r].now)

OpenToken(r) ==
    /\ pc[r] = "open_token"
    /\ \/ Goes(r, "write_token", [held[r] EXCEPT !.expires = Ends(r)]) /\ tokenFile' = Empty
       \/ Fails(r) /\ UNCHANGED tokenFile
    /\ UNCHANGED <<setup, clock, strangers, issued, recordFile>>

\* A slip: what a refresh brought is only noted as the token.
WriteTokenOnly(r) ==
    /\ pc[r] = "write_token"
    /\ \/ /\ Goes(r, IF Is(r, "sign") THEN "discover" ELSE "open_record", held[r])
          /\ tokenFile' = held[r].token
       \/ Fails(r) /\ tokenFile' \in {Empty, Torn}
    /\ UNCHANGED <<setup, clock, strangers, issued, recordFile>>

WriteToken(r) ==
    /\ pc[r] = "write_token"
    /\ \/ Goes(r, "open_record", held[r]) /\ tokenFile' = held[r].token
       \/ Fails(r) /\ tokenFile' \in {Empty, Torn}
    /\ UNCHANGED <<setup, clock, strangers, issued, recordFile>>

OpenRecord(r) ==
    /\ pc[r] = "open_record"
    /\ \/ Goes(r, "write_record", held[r]) /\ recordFile' = TornRecord
       \/ Fails(r) /\ UNCHANGED recordFile
    /\ UNCHANGED <<setup, clock, strangers, issued, tokenFile>>

\* A slip: a signing run keeps the refresh token it was issued before.
RecordAsBefore(r) == [state |-> "whole", expires |-> held[r].expires, of |-> held[r].token,
                      refresh |-> IF Is(r, "sign") THEN 1 ELSE held[r].refresh]

RecordOf(r) == [state |-> "whole", expires |-> held[r].expires, of |-> held[r].token,
                refresh |-> held[r].refresh]

\* After the record, a login asks about the credential it was for, and a
\* signing run begins.
WriteRecord(r) ==
    /\ pc[r] = "write_record"
    /\ \/ /\ recordFile' = RecordOf(r)
          /\ Goes(r, IF Is(r, "sign") THEN "discover" ELSE "describe",
                  [Idle EXCEPT !.token = held[r].token])
       \/ Fails(r) /\ UNCHANGED recordFile
    /\ UNCHANGED <<setup, clock, strangers, issued, tokenFile>>
-----------------------------------------------------------------------------
(* What the service is and can do.                                         *)

\* The endpoints of the rounds, from the configuration or the service's info.
Resolved == Config.endpoints \/ Service.endpoints

\* What this build writes, most preferred first.  PSS needs the parameters.
Preference == <<"rsa_sha256", "rsa", "ecdsa_sha256", "ec", "pss">>
Usable(a) == a \in Service.algorithms /\ (a = "pss" => Service.params)
Offered == {i \in DOMAIN Preference : Usable(Preference[i])}
Chosen  == Preference[CHOOSE i \in Offered : \A j \in Offered : i <= j]

\* credentials/info: the key enabled, the certificate valid and published.
CredentialReadable == Service.credential = "usable" /\ Service.algorithms # {}

\* Version 2 or later, and it signs digests.
Speaks == Service.version >= 2 /\ Service.digests

\* With no credential named, credentials/list has to hold exactly one.
Sole == IF Service.credentials = 1 THEN "none"
        ELSE IF Service.credentials = 0 THEN "credential_unusable" ELSE "credential_ambiguous"

Refusal(r) ==
    IF ~Speaks THEN "config_invalid"
    ELSE IF Is(r, "login") THEN IF Resolved THEN "none" ELSE "config_invalid"
    ELSE IF ~Config.credential /\ Sole # "none" THEN Sole
    ELSE IF ~CredentialReadable THEN "credential_unusable"
    ELSE IF Service.oauth2 /\ ~Config.interactive THEN "authorization_required"
    ELSE IF Service.oauth2 /\ ~Resolved THEN "config_invalid"
    ELSE IF Offered = {} THEN "credential_unusable"
    ELSE "none"

\* Does the service take the token the run presents?
Presented(r) == held[r].token \in DOMAIN grants /\ clock < grants[held[r].token]

\* A refusal of the service, or no answer.
Rejected(r) == End(r, "rejected")

\* The service refuses the token the run presents.
TokenRejected(r) ==
    /\ ~Presented(r)
    /\ pc' = [pc EXCEPT ![r] = "ended"]
    /\ outcome' = [outcome EXCEPT ![r] = "token_rejected"]
    /\ held' = [held EXCEPT ![r] = [Idle EXCEPT !.token = held[r].token, !.by = held[r].by,
                                              !.now = held[r].now, !.ended = clock]]
    /\ UNCHANGED output

\* An operation of the service that was answered.
Post(r, place, h) == TokenRejected(r) \/ (Presented(r) /\ Goto(r, place, h))

\* info, credentials/list and credentials/info.  A login has no token yet and
\* asks for info alone.
Discover(r) ==
    /\ pc[r] = "discover"
    /\ \/ Rejected(r)
       \/ Is(r, "sign") /\ TokenRejected(r)
       \/ /\ Is(r, "sign") => Presented(r)
          /\ IF Refusal(r) # "none" THEN End(r, Refusal(r))
             ELSE Goto(r, IF Is(r, "login") THEN "bind" ELSE "authorize", held[r])
    /\ UNCHANGED <<environment, files, issued, mishaps>>

\* A login for a credential asks about it once the tokens are stored, and
\* fails when it is unusable.
Describe(r) ==
    /\ pc[r] = "describe"
    /\ \/ ~Config.credential /\ End(r, "ok")
       \/ Config.credential /\ Rejected(r)
       \/ /\ Config.credential /\ Presented(r)
          /\ End(r, IF CredentialReadable THEN "ok" ELSE "credential_unusable")
    /\ UNCHANGED <<environment, files, issued, mishaps>>
-----------------------------------------------------------------------------
(* An authorization round: its URL goes to the browser, and whatever      *)
(* reaches the port of its listener is served in turn.                     *)

\* A listener is there until the code has been redeemed.
PortTaken(r) == Config.fixedPort /\ \E q \in Run \ {r} : pc[q] \in {"wait", "redeem"}

Bind(r) ==
    /\ pc[r] = "bind"
    /\ IF PortTaken(r) THEN End(r, "login_failed") /\ UNCHANGED rounds
       ELSE /\ rounds' = rounds + 1
            /\ Goto(r, "wait", [held[r] EXCEPT !.round = rounds + 1, !.left = Timeout])
    /\ UNCHANGED <<environment, files, grants, live, mishaps>>

\* Something else connects, or a request for another path comes in.
Arrive(r) ==
    /\ pc[r] = "wait" /\ ~held[r].knock /\ strangers < MaxStrangers
    /\ strangers' = strangers + 1
    /\ Goto(r, "wait", [held[r] EXCEPT !.knock = TRUE])
    /\ UNCHANGED <<setup, clock, faults, files, issued, mishaps>>

ServeStranger(r) ==
    /\ pc[r] = "wait" /\ held[r].knock
    /\ Goto(r, "wait", [held[r] EXCEPT !.knock = FALSE])
    /\ UNCHANGED <<environment, files, issued, mishaps>>

\* Whose redirects reach this run: on a fixed port, those of every tab.
Tabs(r) == IF Config.fixedPort THEN 1..rounds ELSE {held[r].round}

StateMatches(r, tab) == tab = held[r].round

\* A redirect: a refusal counts whatever its state, the state comes before the
\* code.
ServeRedirect(r) ==
    /\ pc[r] = "wait" /\ ~held[r].knock
    /\ \E tab \in Tabs(r), says \in {"error", "code", "nothing"} :
        IF says = "error" THEN End(r, "login_failed")
        ELSE IF ~StateMatches(r, tab) THEN End(r, "state_mismatch")
        ELSE IF says = "nothing" THEN End(r, "login_failed")
        ELSE Goto(r, "redeem", [held[r] EXCEPT !.code = tab])
    /\ UNCHANGED <<environment, files, issued, mishaps>>

\* A slip: the deadline is looked at after a connection.
GiveUpAfterOne(r) ==
    /\ pc[r] = "wait" /\ held[r].knock /\ held[r].left = 0
    /\ End(r, "login_failed")
    /\ UNCHANGED <<environment, files, issued, mishaps>>

\* The deadline is looked at when no connection is waiting.
GiveUp(r) ==
    /\ pc[r] = "wait" /\ ~held[r].knock /\ held[r].left = 0
    /\ End(r, "login_failed")
    /\ UNCHANGED <<environment, files, issued, mishaps>>
-----------------------------------------------------------------------------
(* One signature after another.  A hash is the number of its signature; an *)
(* authorisation is the hash it was given for.                             *)

HashOf(r) == Len(held[r].signed) + 1

\* A slip: one authorisation is asked for on behalf of all.
FirstHash(r) == 1

\* Each authorisation is asked for the one hash it is for.
Authorised(r) == HashOf(r)

\* The authorisation: by PIN and password in one exchange, or in a round.
Authorize(r) ==
    /\ pc[r] = "authorize"
    /\ LET h == [held[r] EXCEPT !.asked = Authorised(r)]
       IN  IF Service.oauth2 THEN Goto(r, "bind", h)
           ELSE \/ Post(r, "sign_hash", [h EXCEPT !.sad = h.asked])
                \/ Rejected(r)
    /\ UNCHANGED <<environment, files, issued, mishaps>>

\* A slip: what came back is taken for the signature.
Unverified(answer) == answer \in {"good", "bad"}
Verifies(answer) == answer = "good"

\* signHash answers with exactly one signature, which has to verify for the
\* hash under the certificate published.
SignHash(r) ==
    /\ pc[r] = "sign_hash"
    /\ \/ Rejected(r)
       \/ \E answer \in {"good", "bad", "several"} :
            IF answer = "several" THEN Presented(r) /\ End(r, "rejected")
            ELSE IF ~Verifies(answer) THEN Presented(r) /\ End(r, "signature_invalid")
            ELSE LET made == Append(held[r].signed,
                                    [hash |-> HashOf(r), sad |-> held[r].sad, good |-> answer = "good",
                                     algorithm |-> Chosen])
                 IN  Post(r, IF Len(made) = Signatures THEN "write" ELSE "authorize",
                          [held[r] EXCEPT !.signed = made, !.sad = None, !.code = None, !.asked = None])
    /\ UNCHANGED <<environment, files, issued, mishaps>>

\* The dossier is written once it holds every signature; only then is it seen
\* whether the file is there already.
WriteFile(r) ==
    /\ pc[r] = "write"
    /\ \/ /\ pc' = [pc EXCEPT ![r] = "ended"]
          /\ outcome' = [outcome EXCEPT ![r] = "ok"]
          /\ output' = [output EXCEPT ![r] = held[r].signed]
          /\ held' = [held EXCEPT ![r] = Idle]
       \/ End(r, "not_written")
    /\ UNCHANGED <<environment, files, issued, mishaps>>
-----------------------------------------------------------------------------
\* Time passes, for the listeners too.
Tick ==
    /\ \/ clock < MaxClock
       \/ \E r \in Run : pc[r] = "wait" /\ held[r].left > 0
    /\ clock' = IF clock < MaxClock THEN clock + 1 ELSE clock
    /\ held' = [r \in Run |-> IF pc[r] = "wait" /\ held[r].left > 0
                             THEN [held[r] EXCEPT !.left = @ - 1] ELSE held[r]]
    /\ UNCHANGED <<setup, issued, files, pc, outcome, output, strangers, faults, mishaps>>

Kill(r) ==
    /\ Ongoing(r) /\ faults < MaxFaults
    /\ faults' = faults + 1
    /\ End(r, "killed")
    /\ mishaps' = mishaps \union (IF Storing(r) THEN {"stopped_storing"} ELSE {})
    /\ UNCHANGED <<setup, clock, strangers, files, issued>>

Init ==
    /\ setup \in Setups
    /\ clock = 0
    /\ grants = <<FirstGrant>> /\ live = {1} /\ rounds = 0
    /\ \E store \in Stores : tokenFile = store.token /\ recordFile = store.record
    /\ pc = [r \in Run |-> "load"] /\ held = [r \in Run |-> Idle]
    /\ outcome = [r \in Run |-> "none"] /\ output = [r \in Run |-> <<>>]
    /\ strangers = 0 /\ faults = 0 /\ mishaps = {}

Step(r) ==
    \/ Load(r) \/ ReadRecord(r) \/ Refresh(r) \/ Redeem(r)
    \/ OpenToken(r) \/ WriteToken(r) \/ OpenRecord(r) \/ WriteRecord(r)
    \/ Discover(r) \/ Describe(r) \/ Bind(r) \/ ServeStranger(r) \/ GiveUp(r)
    \/ Authorize(r) \/ SignHash(r) \/ WriteFile(r)

Done == (\A r \in Run : ~Ongoing(r)) /\ UNCHANGED vars

Next ==
    \/ \E r \in Run : Step(r) \/ Arrive(r) \/ ServeRedirect(r) \/ Kill(r)
    \/ Tick \/ Done

\* The process goes on, and so does time.  Nobody has to answer in the browser.
Spec == Init /\ [][Next]_vars /\ WF_vars(Tick) /\ \A r \in Run : WF_vars(Step(r))
-----------------------------------------------------------------------------
Fields == {"token", "by", "now", "refresh", "lasts", "expires", "round", "code", "left",
           "knock", "asked", "sad", "signed", "ended"}

TypeOK ==
    /\ setup \in Setups /\ clock \in Nat /\ grants \in Seq(Nat)
    /\ DOMAIN pc = Run /\ DOMAIN held = Run /\ DOMAIN outcome = Run /\ DOMAIN output = Run
    /\ \A r \in Run : DOMAIN held[r] = Fields

\* Nobody is storing and no store was stopped or overlapped with another.
Quiet == (\A r \in Run : ~Storing(r)) /\ mishaps \intersect {"stopped_storing", "stored_beside"} = {}

\* Token and record are whole and of one exchange, unless a store was stopped
\* or two stores met (store in tokens.rs: two files, one after the other).
PairsAreWhole == Quiet => OnePair(tokenFile, recordFile)

\* The refresh token the next run would use is one the service still takes: a
\* service that rotates them never leaves a dead one behind, whatever logins
\* and refreshes do in between (usable_token, store).
RotationIsRecorded ==
    (Quiet /\ mishaps = {} /\ recordFile.refresh # None) => recordFile.refresh \in live

\* A stored token that was found fresh is taken for as long as the margin
\* promises, if it is the token the record is about and the record counted
\* from no later than the service did (load_record, is_expired).
FreshTokensAreTaken ==
    \A r \in Run :
        (/\ outcome[r] = "token_rejected"
         /\ held[r].by.of = held[r].token
         /\ held[r].by.expires # Never /\ held[r].by.expires <= grants[held[r].token])
        => held[r].ended > held[r].now + Margin

\* What is written holds every signature asked for; each verified, was made
\* under an authorisation for its own hash, one for each, and with an algorithm
\* the credential has (sign_digest, verify_prehash, choose_algorithm).  A run
\* that did not succeed wrote nothing.
WrittenIsAuthorised ==
    \A r \in Run : output[r] # <<>> =>
        /\ outcome[r] = "ok" /\ Len(output[r]) = Signatures
        /\ \A i \in DOMAIN output[r] :
              LET signature == output[r][i]
              IN  signature.good /\ signature.hash = i /\ signature.sad = i /\ Usable(signature.algorithm)

\* Every run ends, whether or not anybody answers in the browser, as long as
\* strangers do not keep its listener busy (wait: the deadline).
RunsEnd == \A r \in Run : <>(pc[r] = "ended")
=============================================================================
