------------------------- MODULE RemoteSigning_proofs -------------------------
(***************************************************************************)
(* For any number of runs that share one configuration, every service and  *)
(* every browser: what the two files hold between stores is of one         *)
(* exchange, the refresh token on record is one the service still takes,   *)
(* and what is written holds the signatures asked for, each under an       *)
(* authorisation of its own.                                               *)
(***************************************************************************)
EXTENDS RemoteSigning, SequenceTheorems, TLAPS

(* What a step of one run leaves alone.                                    *)

Apart(r) ==
    /\ DOMAIN pc' = Run /\ DOMAIN held' = Run /\ DOMAIN outcome' = Run /\ DOMAIN output' = Run
    /\ \A q \in Run \ {r} : /\ pc'[q] = pc[q] /\ held'[q] = held[q]
                            /\ outcome'[q] = outcome[q] /\ output'[q] = output[q]

LEMMA Shapes ==
    ASSUME TypeOK
    PROVE  /\ DOMAIN pc = Run /\ DOMAIN held = Run /\ DOMAIN outcome = Run /\ DOMAIN output = Run
           /\ \A r \in Run : DOMAIN held[r] = Fields
BY DEF TypeOK

LEMMA GotoMoves ==
    ASSUME TypeOK, NEW r \in Run, NEW place, NEW h, Goto(r, place, h)
    PROVE  /\ Apart(r) /\ pc'[r] = place /\ held'[r] = h
           /\ outcome'[r] = outcome[r] /\ output'[r] = output[r]
BY Shapes DEF Goto, Apart

LEMMA EndMoves ==
    ASSUME TypeOK, NEW r \in Run, NEW how, End(r, how)
    PROVE  /\ Apart(r) /\ pc'[r] = "ended" /\ held'[r] = Idle
           /\ outcome'[r] = how /\ output'[r] = output[r]
BY Shapes DEF End, Apart

LEMMA IdleHeld == DOMAIN Idle = Fields /\ Idle.signed = <<>>
BY DEF Idle, Fields

-----------------------------------------------------------------------------
(* The kinds of steps.  For the files: a run is off them, or storing.      *)

Mid == {"write_token", "open_record", "write_record"}

Off(r) ==
    /\ Apart(r) /\ DOMAIN held'[r] = Fields
    /\ pc[r] \notin Mid \cup {"ended"} /\ pc'[r] \notin Mid
    /\ pc'[r] = "open_token" => held'[r].token \in Nat
    /\ mishaps \subseteq mishaps'
    /\ UNCHANGED <<files, setup, clock>> /\ grants' \in Seq(Nat)

\* For the signatures: a run stops, does something else, or is in a round.
Critical == {"authorize", "bind", "wait", "redeem", "sign_hash", "write"}

Stops(r) == /\ pc'[r] = "ended" /\ output'[r] = output[r] /\ held'[r].signed = <<>>

Passes(r) ==
    /\ pc'[r] \notin Critical \cup {"ended"}
    /\ outcome'[r] = outcome[r] /\ output'[r] = output[r]
    /\ held'[r].signed \in {held[r].signed, <<>>}

InRound(r) ==
    /\ pc[r] \in {"bind", "wait"} /\ pc'[r] \in {"wait", "redeem"}
    /\ outcome'[r] = outcome[r] /\ output'[r] = output[r]
    /\ held'[r].signed = held[r].signed /\ held'[r].asked = held[r].asked

LEMMA Ending ==
    ASSUME TypeOK, NEW r \in Run, NEW how, End(r, how)
    PROVE  Apart(r) /\ DOMAIN held'[r] = Fields /\ Stops(r)
BY EndMoves, IdleHeld DEF Stops

LEMMA LoadMoves ==
    ASSUME TypeOK, NEW r \in Run, Load(r)
    PROVE  Off(r) /\ pc'[r] # "open_token" /\ (Stops(r) \/ Passes(r))
<1>. DEFINE h == [held[r] EXCEPT !.token = NamedToken]
<1>1. pc[r] = "load" /\ UNCHANGED <<files, setup, clock, grants, mishaps>> /\ grants \in Seq(Nat)
    BY DEF Load, environment, issued, TypeOK
<1>2. CASE \E how : End(r, how)
    BY <1>1, <1>2, Ending, EndMoves DEF Off, Mid, Stops
<1>3. CASE Goto(r, IF Is(r, "login") THEN "discover" ELSE "record", h)
    <2>1. DOMAIN h = Fields /\ h.signed = held[r].signed
        BY Shapes DEF Fields
    <2>2. \E place \in {"discover", "record"} :
            Apart(r) /\ pc'[r] = place /\ held'[r] = h /\ outcome'[r] = outcome[r] /\ output'[r] = output[r]
        BY <1>3, GotoMoves
    <2>. HIDE DEF h
    <2> QED
        BY <1>1, <2>1, <2>2 DEF Off, Mid, Passes, Critical
<1> QED
    BY <1>2, <1>3 DEF Load

LEMMA ReadRecordMoves ==
    ASSUME TypeOK, NEW r \in Run, ReadRecord(r)
    PROVE  Off(r) /\ pc'[r] # "open_token" /\ (Stops(r) \/ Passes(r))
<1>1. pc[r] = "record" /\ UNCHANGED <<files, setup, clock, grants, mishaps>> /\ grants \in Seq(Nat)
    BY DEF ReadRecord, environment, issued, TypeOK
<1>2. CASE \E how : End(r, how)
    BY <1>1, <1>2, Ending, EndMoves DEF Off, Mid, Stops
<1>3. CASE \E x, y : Goto(r, "discover", [held[r] EXCEPT !.now = x, !.by = y])
    <2>1. PICK x, y : Goto(r, "discover", [held[r] EXCEPT !.now = x, !.by = y])
        BY <1>3
    <2>. DEFINE h == [held[r] EXCEPT !.now = x, !.by = y]
    <2>2. DOMAIN h = Fields /\ h.signed = held[r].signed
        BY Shapes DEF Fields
    <2>3. Apart(r) /\ pc'[r] = "discover" /\ held'[r] = h /\ outcome'[r] = outcome[r] /\ output'[r] = output[r]
        BY <2>1, GotoMoves
    <2>. HIDE DEF h
    <2> QED
        BY <1>1, <2>2, <2>3 DEF Off, Mid, Passes, Critical
<1>4. CASE Goto(r, "refresh", [held[r] EXCEPT !.refresh = recordFile.refresh, !.now = clock])
    <2>. DEFINE h == [held[r] EXCEPT !.refresh = recordFile.refresh, !.now = clock]
    <2>1. DOMAIN h = Fields /\ h.signed = held[r].signed
        BY Shapes DEF Fields
    <2>2. Apart(r) /\ pc'[r] = "refresh" /\ held'[r] = h /\ outcome'[r] = outcome[r] /\ output'[r] = output[r]
        BY <1>4, GotoMoves
    <2>. HIDE DEF h
    <2> QED
        BY <1>1, <2>1, <2>2 DEF Off, Mid, Passes, Critical
<1>5. \/ \E how : End(r, how)
      \/ \E x, y : Goto(r, "discover", [held[r] EXCEPT !.now = x, !.by = y])
      \/ Goto(r, "refresh", [held[r] EXCEPT !.refresh = recordFile.refresh, !.now = clock])
    BY Zenon DEF ReadRecord, UseStored
<1> QED
    BY <1>2, <1>3, <1>4, <1>5

LEMMA IssueMoves ==
    ASSUME TypeOK, NEW r \in Run, NEW refresh, Issue(r, "open_token", refresh), pc[r] \in {"refresh", "redeem"},
           UNCHANGED <<files, setup, clock>>
    PROVE  Off(r) /\ (Stops(r) \/ Passes(r))
<1>1. PICK lifetime \in Lifetimes, l \in Lifetimes \cup {Never} :
        /\ grants' = Append(grants, clock + lifetime)
        /\ \/ /\ Goto(r, "open_token", [held[r] EXCEPT !.token = Len(grants) + 1, !.refresh = refresh,
                                                       !.round = 0, !.code = None, !.lasts = l])
              /\ UNCHANGED mishaps
           \/ End(r, "login_failed") /\ mishaps' = mishaps \union {"answer_lost"}
    BY Zenon DEF Issue
<1>2. clock + lifetime \in Nat /\ Len(grants) + 1 \in Nat
    BY TimesAssumption DEF TypeOK
<1>3. grants' \in Seq(Nat)
    BY <1>1, <1>2, AppendProperties DEF TypeOK
<1>. DEFINE h == [held[r] EXCEPT !.token = Len(grants) + 1, !.refresh = refresh,
                                 !.round = 0, !.code = None, !.lasts = l]
<1>4. DOMAIN h = Fields /\ h.signed = held[r].signed /\ h.token = Len(grants) + 1
    BY Shapes DEF Fields
<1>5. CASE Goto(r, "open_token", h) /\ UNCHANGED mishaps
    <2>1. Apart(r) /\ pc'[r] = "open_token" /\ held'[r] = h /\ outcome'[r] = outcome[r] /\ output'[r] = output[r]
        BY <1>5, GotoMoves
    <2>. HIDE DEF h
    <2> QED
        BY <1>2, <1>3, <1>4, <1>5, <2>1 DEF Off, Mid, Passes, Critical
<1>6. CASE End(r, "login_failed") /\ mishaps' = mishaps \union {"answer_lost"}
    BY <1>3, <1>6, Ending, EndMoves DEF Off, Mid, Stops
<1> QED
    BY <1>1, <1>5, <1>6, Zenon

LEMMA RefreshMoves ==
    ASSUME TypeOK, NEW r \in Run, Refresh(r)
    PROVE  Off(r) /\ (Stops(r) \/ Passes(r))
<1>1. pc[r] = "refresh" /\ UNCHANGED <<files, setup, clock>>
    BY DEF Refresh, environment
<1>2. CASE Refused(r)
    BY <1>1, <1>2, Ending, EndMoves DEF Refused, Off, Mid, Stops, TypeOK
<1>3. CASE \E new : Issue(r, "open_token", new)
    BY <1>1, <1>3, IssueMoves
<1> QED
    BY <1>2, <1>3, Zenon DEF Refresh

\* A signing run redeems the code for the authorisation it asked for.
Redeems(r) ==
    /\ pc[r] = "redeem" /\ pc'[r] = "sign_hash" /\ Is(r, "sign")
    /\ outcome'[r] = outcome[r] /\ output'[r] = output[r]
    /\ held'[r].signed = held[r].signed /\ held'[r].sad = held[r].asked

LEMMA RedeemMoves ==
    ASSUME TypeOK, NEW r \in Run, Redeem(r)
    PROVE  Off(r) /\ (Stops(r) \/ Passes(r) \/ Redeems(r))
<1>1. pc[r] = "redeem" /\ UNCHANGED <<files, setup, clock>>
    BY DEF Redeem, environment
<1>2. CASE Refused(r)
    BY <1>1, <1>2, Ending, EndMoves DEF Refused, Off, Mid, Stops, TypeOK
<1>3. CASE \E new : Issue(r, "open_token", new)
    BY <1>1, <1>3, IssueMoves
<1>. DEFINE h == [held[r] EXCEPT !.sad = held[r].asked]
<1>4. CASE Is(r, "sign") /\ Goto(r, "sign_hash", h) /\ UNCHANGED <<grants, live, mishaps>>
    <2>1. DOMAIN h = Fields /\ h.signed = held[r].signed /\ h.sad = held[r].asked
        BY Shapes DEF Fields
    <2>2. Apart(r) /\ pc'[r] = "sign_hash" /\ held'[r] = h /\ outcome'[r] = outcome[r] /\ output'[r] = output[r]
        BY <1>4, GotoMoves
    <2>3. grants' \in Seq(Nat)
        BY <1>4 DEF TypeOK
    <2>. HIDE DEF h
    <2> QED
        BY <1>1, <1>4, <2>1, <2>2, <2>3 DEF Off, Mid, Redeems
<1>5. Refused(r) \/ (\E new : Issue(r, "open_token", new))
        \/ (Is(r, "sign") /\ Goto(r, "sign_hash", h) /\ UNCHANGED <<grants, live, mishaps>>)
    BY Zenon DEF Redeem
<1> QED
    BY <1>2, <1>3, <1>4, <1>5

-----------------------------------------------------------------------------
(* The steps that store.                                                   *)

\* What a failed write or a kill leaves: the run is over, and it is known.
Broken(r) ==
    /\ Apart(r) /\ DOMAIN held'[r] = Fields /\ Stops(r) /\ pc[r] # "ended"
    /\ mishaps \subseteq mishaps'
    /\ Storing(r) => "stopped_storing" \in mishaps'
    /\ UNCHANGED <<setup, clock, grants>>

\* What a store that succeeded does: it goes on to the next place, and it is
\* known if another run is storing too.
Stored(r, from, to) ==
    /\ Apart(r) /\ DOMAIN held'[r] = Fields
    /\ pc[r] = from /\ pc'[r] \in to /\ Passes(r)
    /\ mishaps \subseteq mishaps'
    /\ "stored_beside" \notin mishaps' => \A q \in Run \ {r} : ~Storing(q)
    /\ UNCHANGED <<setup, clock, grants>>

LEMMA FailsMoves ==
    ASSUME TypeOK, NEW r \in Run, Fails(r), Storing(r), UNCHANGED <<setup, clock, grants>>
    PROVE  Broken(r)
BY Ending DEF Fails, Broken, Storing

LEMMA GoesMoves ==
    ASSUME TypeOK, NEW r \in Run, NEW place, NEW h, Goes(r, place, h), DOMAIN h = Fields,
           h.signed \in {held[r].signed, <<>>},
           place \notin Critical \cup {"ended"}, UNCHANGED <<setup, clock, grants>>
    PROVE  Stored(r, pc[r], {place}) /\ held'[r] = h
BY GotoMoves DEF Goes, Beside, Stored, Passes

LEMMA StoreMoves ==
    ASSUME TypeOK, NEW r \in Run
    PROVE  /\ OpenToken(r) =>
                \/ Broken(r)
                \/ /\ Stored(r, "open_token", {"write_token"}) /\ recordFile' = recordFile
                   /\ held'[r].token = held[r].token
           /\ WriteToken(r) =>
                \/ Broken(r)
                \/ /\ Stored(r, "write_token", {"open_record"}) /\ recordFile' = recordFile
                   /\ tokenFile' = held[r].token /\ held'[r].token = held[r].token
           /\ OpenRecord(r) =>
                \/ Broken(r)
                \/ /\ Stored(r, "open_record", {"write_record"}) /\ tokenFile' = tokenFile
                   /\ held'[r].token = held[r].token
           /\ WriteRecord(r) =>
                \/ Broken(r)
                \/ /\ Stored(r, "write_record", {"discover", "describe"}) /\ tokenFile' = tokenFile
                   /\ recordFile'.state = "whole" /\ recordFile'.of = held[r].token
<1>1. ASSUME OpenToken(r)
      PROVE  \/ Broken(r)
             \/ /\ Stored(r, "open_token", {"write_token"}) /\ recordFile' = recordFile
                /\ held'[r].token = held[r].token
    <2>. DEFINE h == [held[r] EXCEPT !.expires = Ends(r)]
    <2>1. pc[r] = "open_token" /\ UNCHANGED <<setup, clock, grants, recordFile>>
        BY <1>1 DEF OpenToken, issued
    <2>2. DOMAIN h = Fields /\ h.signed = held[r].signed /\ h.token = held[r].token
        BY Shapes DEF Fields
    <2>3. Goes(r, "write_token", h) \/ Fails(r)
        BY <1>1 DEF OpenToken
    <2>. HIDE DEF h
    <2> QED
        BY <2>1, <2>2, <2>3, GoesMoves, FailsMoves DEF Storing, Critical
<1>2. ASSUME WriteToken(r)
      PROVE  \/ Broken(r)
             \/ /\ Stored(r, "write_token", {"open_record"}) /\ recordFile' = recordFile
                /\ tokenFile' = held[r].token /\ held'[r].token = held[r].token
    <2>1. pc[r] = "write_token" /\ UNCHANGED <<setup, clock, grants, recordFile>>
        BY <1>2 DEF WriteToken, issued
    <2>2. (Goes(r, "open_record", held[r]) /\ tokenFile' = held[r].token) \/ Fails(r)
        BY <1>2 DEF WriteToken
    <2> QED
        BY <2>1, <2>2, Shapes, GoesMoves, FailsMoves DEF Storing, Critical
<1>3. ASSUME OpenRecord(r)
      PROVE  \/ Broken(r)
             \/ /\ Stored(r, "open_record", {"write_record"}) /\ tokenFile' = tokenFile
                /\ held'[r].token = held[r].token
    <2>1. pc[r] = "open_record" /\ UNCHANGED <<setup, clock, grants, tokenFile>>
        BY <1>3 DEF OpenRecord, issued
    <2>2. Goes(r, "write_record", held[r]) \/ Fails(r)
        BY <1>3 DEF OpenRecord
    <2> QED
        BY <2>1, <2>2, Shapes, GoesMoves, FailsMoves DEF Storing, Critical
<1>4. ASSUME WriteRecord(r)
      PROVE  \/ Broken(r)
             \/ /\ Stored(r, "write_record", {"discover", "describe"}) /\ tokenFile' = tokenFile
                /\ recordFile'.state = "whole" /\ recordFile'.of = held[r].token
    <2>. DEFINE h == [Idle EXCEPT !.token = held[r].token]
    <2>1. pc[r] = "write_record" /\ UNCHANGED <<setup, clock, grants, tokenFile>>
        BY <1>4 DEF WriteRecord, issued
    <2>2. DOMAIN h = Fields /\ h.signed = <<>>
        BY IdleHeld DEF Fields
    <2>3. (\E place \in {"discover", "describe"} : Goes(r, place, h) /\ recordFile' = RecordOf(r)) \/ Fails(r)
        BY <1>4 DEF WriteRecord
    <2>4. RecordOf(r).state = "whole" /\ RecordOf(r).of = held[r].token
        BY DEF RecordOf
    <2>. HIDE DEF h
    <2>5. CASE Fails(r)
        BY <2>1, <2>5, FailsMoves DEF Storing
    <2>6. CASE \E place \in {"discover", "describe"} : Goes(r, place, h) /\ recordFile' = RecordOf(r)
        BY <2>1, <2>2, <2>4, <2>6, GoesMoves DEF Critical, Stored
    <2> QED
        BY <2>3, <2>5, <2>6
<1> QED
    BY <1>1, <1>2, <1>3, <1>4

-----------------------------------------------------------------------------
(* The steps of discovery, rounds and signatures.                          *)

\* A run that begins to sign, or a login that begins its round.
Begins(r) ==
    /\ pc[r] = "discover"
    /\ \/ Is(r, "login") /\ pc'[r] = "bind"
       \/ ~Is(r, "login") /\ pc'[r] = "authorize" /\ Offered # {}
    /\ outcome'[r] = outcome[r] /\ output'[r] = output[r]
    /\ held'[r].signed = held[r].signed

\* An authorisation for the next hash, there at once or by a round.
Asks(r) ==
    /\ pc[r] = "authorize"
    /\ outcome'[r] = outcome[r] /\ output'[r] = output[r]
    /\ held'[r].signed = held[r].signed
    /\ \/ pc'[r] = "bind" /\ held'[r].asked = Len(held[r].signed) + 1
       \/ pc'[r] = "sign_hash" /\ held'[r].sad = Len(held[r].signed) + 1

\* A signature more, which verified, under the authorisation at hand.
Signs(r) ==
    LET made == Append(held[r].signed, [hash |-> Len(held[r].signed) + 1, sad |-> held[r].sad,
                                        good |-> TRUE, algorithm |-> Chosen])
    IN  /\ pc[r] = "sign_hash" /\ held'[r].signed = made
        /\ pc'[r] = IF Len(made) = Signatures THEN "write" ELSE "authorize"
        /\ outcome'[r] = outcome[r] /\ output'[r] = output[r]

\* The file is written, with all of them.
Writes(r) ==
    /\ pc[r] = "write" /\ pc'[r] = "ended" /\ outcome'[r] = "ok"
    /\ output'[r] = held[r].signed /\ held'[r].signed = <<>>

\* What a run away from the files has in common.
LEMMA Elsewhere ==
    ASSUME TypeOK, NEW r \in Run, Apart(r), DOMAIN held'[r] = Fields,
           pc[r] \notin Mid \cup {"ended"}, pc'[r] \notin Mid \cup {"open_token"},
           UNCHANGED <<files, setup, clock, grants, mishaps>>
    PROVE  Off(r)
BY DEF Off, TypeOK

LEMMA RejectedMoves ==
    ASSUME TypeOK, NEW r \in Run, TokenRejected(r)
    PROVE  Apart(r) /\ DOMAIN held'[r] = Fields /\ Stops(r)
<1>. DEFINE h == [Idle EXCEPT !.token = held[r].token, !.by = held[r].by, !.now = held[r].now, !.ended = clock]
<1>1. DOMAIN h = Fields /\ h.signed = <<>>
    BY IdleHeld DEF Fields
<1>2. held' = [held EXCEPT ![r] = h]
    BY Zenon DEF TokenRejected
<1>. HIDE DEF h
<1> QED
    BY <1>1, <1>2, Shapes DEF TokenRejected, Apart, Stops

LEMMA DiscoverMoves ==
    ASSUME TypeOK, NEW r \in Run, Discover(r)
    PROVE  Off(r) /\ (Stops(r) \/ Begins(r))
<1>1. pc[r] = "discover" /\ UNCHANGED <<files, setup, clock, grants, mishaps>>
    BY DEF Discover, environment, issued
<1>2. CASE (\E how : End(r, how)) \/ TokenRejected(r)
    <2>1. Apart(r) /\ DOMAIN held'[r] = Fields /\ Stops(r)
        BY <1>2, Ending, RejectedMoves
    <2> QED
        BY <1>1, <2>1, Elsewhere DEF Stops, Mid
<1>3. CASE Refusal(r) = "none" /\ Goto(r, IF Is(r, "login") THEN "bind" ELSE "authorize", held[r])
    <2>1. Is(r, "login") \/ Offered # {}
        BY <1>3 DEF Refusal, Sole
    <2>2. /\ Apart(r) /\ held'[r] = held[r] /\ outcome'[r] = outcome[r] /\ output'[r] = output[r]
          /\ pc'[r] = IF Is(r, "login") THEN "bind" ELSE "authorize"
        BY <1>3, GotoMoves
    <2>3. Begins(r)
        BY <1>1, <2>1, <2>2 DEF Begins
    <2> QED
        BY <1>1, <2>2, <2>3, Shapes, Elsewhere DEF Mid
<1> QED
    BY <1>2, <1>3 DEF Discover, Rejected

LEMMA DescribeMoves ==
    ASSUME TypeOK, NEW r \in Run, Describe(r)
    PROVE  Off(r) /\ Stops(r)
<1>1. pc[r] = "describe" /\ UNCHANGED <<files, setup, clock, grants, mishaps>>
    BY DEF Describe, environment, issued
<1>2. \E how : End(r, how)
    BY Zenon DEF Describe, Rejected
<1>3. Apart(r) /\ DOMAIN held'[r] = Fields /\ Stops(r)
    BY <1>2, Ending
<1> QED
    BY <1>1, <1>3, Elsewhere DEF Stops, Mid

LEMMA RoundMoves ==
    ASSUME TypeOK, NEW r \in Run,
           Bind(r) \/ Arrive(r) \/ ServeStranger(r) \/ ServeRedirect(r) \/ GiveUp(r)
    PROVE  Off(r) /\ (Stops(r) \/ InRound(r))
<1>1. pc[r] \in {"bind", "wait"} /\ UNCHANGED <<files, setup, clock, grants, mishaps>>
    BY DEF Bind, Arrive, ServeStranger, ServeRedirect, GiveUp, environment, issued
<1>2. CASE \E how : End(r, how)
    <2>1. Apart(r) /\ DOMAIN held'[r] = Fields /\ Stops(r)
        BY <1>2, Ending
    <2> QED
        BY <1>1, <2>1, Elsewhere DEF Stops, Mid
<1>3. CASE \E h : \E place \in {"wait", "redeem"} : /\ Goto(r, place, h) /\ DOMAIN h = Fields
                                                   /\ h.signed = held[r].signed /\ h.asked = held[r].asked
    <2>. PICK h : \E place \in {"wait", "redeem"} :
            Goto(r, place, h) /\ DOMAIN h = Fields /\ h.signed = held[r].signed /\ h.asked = held[r].asked
        BY <1>3
    <2>1. PICK place \in {"wait", "redeem"} :
            Goto(r, place, h) /\ DOMAIN h = Fields /\ h.signed = held[r].signed /\ h.asked = held[r].asked
        OBVIOUS
    <2>2. Apart(r) /\ pc'[r] = place /\ held'[r] = h /\ outcome'[r] = outcome[r] /\ output'[r] = output[r]
        BY <2>1, GotoMoves
    <2> QED
        BY <1>1, <2>1, <2>2, Elsewhere DEF InRound, Mid
<1>4. \A x, y : LET h == [held[r] EXCEPT !.round = x, !.left = y]
                IN  DOMAIN h = Fields /\ h.signed = held[r].signed /\ h.asked = held[r].asked
    BY Shapes DEF Fields
<1>5. \A x : LET h == [held[r] EXCEPT !.knock = x]
             IN  DOMAIN h = Fields /\ h.signed = held[r].signed /\ h.asked = held[r].asked
    BY Shapes DEF Fields
<1>6. \A x : LET h == [held[r] EXCEPT !.code = x]
             IN  DOMAIN h = Fields /\ h.signed = held[r].signed /\ h.asked = held[r].asked
    BY Shapes DEF Fields
<1>7. CASE Bind(r)
    <2>. DEFINE h == [held[r] EXCEPT !.round = rounds + 1, !.left = Timeout]
    <2>1. End(r, "login_failed") \/ Goto(r, "wait", h)
        BY <1>7, Zenon DEF Bind
    <2>2. DOMAIN h = Fields /\ h.signed = held[r].signed /\ h.asked = held[r].asked
        BY Shapes DEF Fields
    <2>. HIDE DEF h
    <2> QED
        BY <1>2, <1>3, <2>1, <2>2
<1>8. CASE Arrive(r) \/ ServeStranger(r)
    <2>1. \E x : Goto(r, "wait", [held[r] EXCEPT !.knock = x])
        BY <1>8, Zenon DEF Arrive, ServeStranger
    <2> QED
        BY <1>3, <1>5, <2>1, Zenon
<1>9. CASE ServeRedirect(r)
    <2>1. (\E how : End(r, how)) \/ \E x : Goto(r, "redeem", [held[r] EXCEPT !.code = x])
        BY <1>9, Zenon DEF ServeRedirect
    <2> QED
        BY <1>2, <1>3, <1>6, <2>1, Zenon
<1>10. CASE GiveUp(r)
    BY <1>2, <1>10, Zenon DEF GiveUp
<1> QED
    BY <1>7, <1>8, <1>9, <1>10

LEMMA AuthorizeMoves ==
    ASSUME TypeOK, NEW r \in Run, Authorize(r)
    PROVE  Off(r) /\ (Stops(r) \/ Asks(r))
<1>. DEFINE n == Len(held[r].signed) + 1
            h == [held[r] EXCEPT !.asked = n]
            k == [h EXCEPT !.sad = h.asked]
<1>1. pc[r] = "authorize" /\ UNCHANGED <<files, setup, clock, grants, mishaps>>
    BY DEF Authorize, environment, issued
<1>2. DOMAIN h = Fields /\ h.signed = held[r].signed /\ h.asked = n
    BY Shapes DEF Fields
<1>3. DOMAIN k = Fields /\ k.signed = held[r].signed /\ k.sad = n
    <2>. HIDE DEF h
    <2> QED
        BY <1>2 DEF Fields
<1>4. \/ (\E how : End(r, how)) \/ TokenRejected(r)
      \/ Goto(r, "bind", h) \/ Goto(r, "sign_hash", k)
    BY Zenon DEF Authorize, Authorised, HashOf, Post, Rejected
<1>. HIDE DEF h, k
<1>5. CASE (\E how : End(r, how)) \/ TokenRejected(r)
    <2>1. Apart(r) /\ DOMAIN held'[r] = Fields /\ Stops(r)
        BY <1>5, Ending, RejectedMoves
    <2> QED
        BY <1>1, <2>1, Elsewhere DEF Stops, Mid
<1>6. CASE Goto(r, "bind", h)
    <2>1. Apart(r) /\ pc'[r] = "bind" /\ held'[r] = h /\ outcome'[r] = outcome[r] /\ output'[r] = output[r]
        BY <1>6, GotoMoves
    <2> QED
        BY <1>1, <1>2, <2>1, Elsewhere DEF Asks, Mid
<1>7. CASE Goto(r, "sign_hash", k)
    <2>1. Apart(r) /\ pc'[r] = "sign_hash" /\ held'[r] = k /\ outcome'[r] = outcome[r] /\ output'[r] = output[r]
        BY <1>7, GotoMoves
    <2> QED
        BY <1>1, <1>3, <2>1, Elsewhere DEF Asks, Mid
<1> QED
    BY <1>4, <1>5, <1>6, <1>7

LEMMA SignHashMoves ==
    ASSUME TypeOK, NEW r \in Run, SignHash(r)
    PROVE  Off(r) /\ (Stops(r) \/ Signs(r))
<1>. DEFINE new  == [hash |-> Len(held[r].signed) + 1, sad |-> held[r].sad, good |-> TRUE, algorithm |-> Chosen]
            made == Append(held[r].signed, new)
            h    == [held[r] EXCEPT !.signed = made, !.sad = None, !.code = None, !.asked = None]
            place == IF Len(made) = Signatures THEN "write" ELSE "authorize"
<1>1. pc[r] = "sign_hash" /\ UNCHANGED <<files, setup, clock, grants, mishaps>>
    BY DEF SignHash, environment, issued
<1>2. DOMAIN h = Fields /\ h.signed = made
    <2>. HIDE DEF made
    <2> QED
        BY Shapes DEF Fields
<1>3. CASE (\E how : End(r, how)) \/ TokenRejected(r)
    <2>1. Apart(r) /\ DOMAIN held'[r] = Fields /\ Stops(r)
        BY <1>3, Ending, RejectedMoves
    <2> QED
        BY <1>1, <2>1, Elsewhere DEF Stops, Mid
<1>4. CASE Goto(r, place, h)
    <2>1. Apart(r) /\ pc'[r] = place /\ held'[r] = h /\ outcome'[r] = outcome[r] /\ output'[r] = output[r]
        BY <1>4, GotoMoves
    <2>. HIDE DEF h
    <2>2. Signs(r)
        BY <1>1, <1>2, <2>1, Zenon DEF Signs
    <2> QED
        BY <1>1, <1>2, <2>1, <2>2, Elsewhere DEF Mid
<1>5. (\E how : End(r, how)) \/ TokenRejected(r) \/ Goto(r, place, h)
    <2>1. SUFFICES ASSUME NEW answer \in {"good", "bad", "several"}, answer # "several", Verifies(answer),
              LET m == Append(held[r].signed, [hash |-> HashOf(r), sad |-> held[r].sad, good |-> answer = "good",
                                               algorithm |-> Chosen])
              IN  Post(r, IF Len(m) = Signatures THEN "write" ELSE "authorize",
                          [held[r] EXCEPT !.signed = m, !.sad = None, !.code = None, !.asked = None])
          PROVE  TokenRejected(r) \/ Goto(r, place, h)
        BY Zenon DEF SignHash, Rejected
    <2>2. (answer = "good") = TRUE
        BY <2>1 DEF Verifies
    <2> QED
        BY <2>1, <2>2, Zenon DEF Post, HashOf
<1> QED
    BY <1>3, <1>4, <1>5

LEMMA WriteFileMoves ==
    ASSUME TypeOK, NEW r \in Run, WriteFile(r)
    PROVE  Off(r) /\ (Stops(r) \/ Writes(r))
<1>1. pc[r] = "write" /\ UNCHANGED <<files, setup, clock, grants, mishaps>>
    BY DEF WriteFile, environment, issued
<1>2. CASE End(r, "not_written")
    <2>1. Apart(r) /\ DOMAIN held'[r] = Fields /\ Stops(r)
        BY <1>2, Ending
    <2> QED
        BY <1>1, <2>1, Elsewhere DEF Stops, Mid
<1>3. CASE /\ pc' = [pc EXCEPT ![r] = "ended"] /\ outcome' = [outcome EXCEPT ![r] = "ok"]
           /\ output' = [output EXCEPT ![r] = held[r].signed] /\ held' = [held EXCEPT ![r] = Idle]
    <2>1. Apart(r) /\ DOMAIN held'[r] = Fields /\ Writes(r)
        BY <1>1, <1>3, Shapes, IdleHeld DEF Apart, Writes
    <2> QED
        BY <1>1, <2>1, Elsewhere DEF Writes, Mid
<1> QED
    BY <1>2, <1>3 DEF WriteFile

LEMMA KillMoves ==
    ASSUME TypeOK, NEW r \in Run, Kill(r)
    PROVE  Broken(r) /\ UNCHANGED files
BY Ending DEF Kill, Broken, Ongoing, Storing, issued

\* Time passes: only how long the listeners still wait changes.
LEMMA TickMoves ==
    ASSUME TypeOK, Tick
    PROVE  /\ DOMAIN held' = Run
           /\ \A r \in Run : /\ DOMAIN held'[r] = Fields /\ held'[r].signed = held[r].signed
                             /\ held'[r].asked = held[r].asked /\ held'[r].sad = held[r].sad
                             /\ held'[r].token = held[r].token
           /\ UNCHANGED <<setup, grants, files, pc, outcome, output, mishaps>>
           /\ clock' \in Nat
<1>1. clock' \in Nat
    BY DEF Tick, TypeOK
<1>2. UNCHANGED <<setup, grants, files, pc, outcome, output, mishaps>>
    BY DEF Tick, issued
<1>3. held' = [r \in Run |-> IF pc[r] = "wait" /\ held[r].left > 0
                             THEN [held[r] EXCEPT !.left = @ - 1] ELSE held[r]]
    BY DEF Tick
<1>4. DOMAIN held' = Run
    BY <1>3
<1>5. ASSUME NEW r \in Run
      PROVE  /\ DOMAIN held'[r] = Fields /\ held'[r].signed = held[r].signed
             /\ held'[r].asked = held[r].asked /\ held'[r].sad = held[r].sad
             /\ held'[r].token = held[r].token
    <2>. DEFINE h == [held[r] EXCEPT !.left = held[r].left - 1]
    <2>1. held'[r] = held[r] \/ held'[r] = h
        BY <1>3
    <2>2. /\ DOMAIN h = Fields /\ h.signed = held[r].signed /\ h.asked = held[r].asked
          /\ h.sad = held[r].sad /\ h.token = held[r].token
        BY Shapes DEF Fields
    <2>. HIDE DEF h
    <2> QED
        BY <2>1, <2>2, Shapes
<1> QED
    BY <1>1, <1>2, <1>4, <1>5

-----------------------------------------------------------------------------
(* The steps together.                                                     *)

\* A step is of one run, away from the files or storing or cut short, or it
\* is a tick, or nothing.
Away(r) ==
    /\ Off(r)
    /\ Stops(r) \/ Passes(r) \/ InRound(r) \/ Redeems(r) \/ Begins(r)
         \/ Asks(r) \/ Signs(r) \/ Writes(r)

Storage(r) == OpenToken(r) \/ WriteToken(r) \/ OpenRecord(r) \/ WriteRecord(r)

CutShort(r) == Broken(r) /\ UNCHANGED files

LEMMA Kinds ==
    ASSUME TypeOK, [Next]_vars
    PROVE  (\E r \in Run : Away(r) \/ Storage(r) \/ CutShort(r)) \/ Tick \/ UNCHANGED vars
<1>1. ASSUME NEW r \in Run, Step(r) \/ Arrive(r) \/ ServeRedirect(r) \/ Kill(r)
      PROVE  Away(r) \/ Storage(r) \/ CutShort(r)
    BY <1>1, LoadMoves, ReadRecordMoves, RefreshMoves, RedeemMoves, DiscoverMoves, DescribeMoves,
       RoundMoves, AuthorizeMoves, SignHashMoves, WriteFileMoves, KillMoves
       DEF Step, Away, Storage, CutShort
<1> QED
    BY <1>1, Zenon DEF Next, Done

\* The state keeps its shape.
THEOREM Typing == Spec => []TypeOK
<1>1. Init => TypeOK
    <2>1. <<FirstGrant>> \in Seq(Nat)
        BY TimesAssumption
    <2> QED
        BY <2>1, IdleHeld DEF Init, TypeOK
<1>2. TypeOK /\ [Next]_vars => TypeOK'
    <2>. SUFFICES ASSUME TypeOK, [Next]_vars PROVE TypeOK'
        OBVIOUS
    <2>1. CASE \E r \in Run : Off(r)
        BY <2>1, Shapes DEF Off, Apart, TypeOK
    <2>2. CASE \E r \in Run : \/ Broken(r) \/ \E from, to : Stored(r, from, to)
        BY <2>2, Shapes DEF Broken, Stored, Apart, TypeOK
    <2>3. CASE Tick
        BY <2>3, TickMoves DEF TypeOK
    <2>4. CASE UNCHANGED vars
        BY <2>4 DEF TypeOK, vars
    <2> QED
        <3>1. ASSUME NEW r \in Run, Storage(r)
              PROVE  Broken(r) \/ \E from, to : Stored(r, from, to)
            BY <3>1, StoreMoves, Zenon DEF Storage
        <3> QED
            BY <2>1, <2>2, <2>3, <2>4, <3>1, Kinds, Zenon DEF Away, CutShort
<1> QED
    BY <1>1, <1>2, PTL DEF Spec

-----------------------------------------------------------------------------
(* The two files.                                                          *)

Clean == mishaps \cap {"stopped_storing", "stored_beside"} = {}

\* What a storing run stores is a token, and once it is in the token file it
\* stays there.
HasToken(r) ==
    /\ pc[r] \in Mid \cup {"open_token"} => held[r].token \in Nat
    /\ pc[r] \in {"open_record", "write_record"} => tokenFile = held[r].token

\* While nothing went wrong: between stores the files are one pair, and only
\* one run is in the middle of a store.
Tidy ==
    Clean =>
        /\ (\A r \in Run : pc[r] \notin Mid) => OnePair(tokenFile, recordFile)
        /\ \A r, q \in Run : pc[r] \in Mid /\ pc[q] \in Mid => r = q
        /\ \A r \in Run : HasToken(r)

LEMMA CleanBefore == ASSUME mishaps \subseteq mishaps', Clean' PROVE Clean
BY DEF Clean

LEMMA TidyStored ==
    ASSUME TypeOK, Tidy, Clean', NEW r \in Run, NEW from \in Mid \cup {"open_token"}, NEW to, Stored(r, from, to)
    PROVE  /\ Clean /\ \A q \in Run \ {r} : pc'[q] \notin Mid \cup {"open_token"}
           /\ pc[r] = from /\ pc'[r] \in to /\ held[r].token \in Nat
           /\ \A q \in Run \ {r} : pc[q] \notin Mid
<1>1. Clean /\ pc[r] = from /\ pc'[r] \in to
    BY CleanBefore DEF Stored
<1>2. \A q \in Run \ {r} : ~Storing(q) /\ pc'[q] = pc[q]
    BY DEF Stored, Clean, Apart
<1>3. held[r].token \in Nat
    <2>1. \A q \in Run : pc[q] \in Mid \cup {"open_token"} => held[q].token \in Nat
        BY <1>1 DEF Tidy, HasToken
    <2> QED
        BY <1>1, <2>1
<1>4. \A q \in Run \ {r} : pc[q] \notin Mid \cup {"open_token"}
    BY <1>2 DEF Storing, Mid
<1> QED
    BY <1>1, <1>2, <1>3, <1>4

LEMMA TidyStep ==
    ASSUME TypeOK, Tidy, [Next]_vars
    PROVE  Tidy'
<1>. SUFFICES ASSUME Clean'
              PROVE  /\ (\A r \in Run : pc'[r] \notin Mid) => OnePair(tokenFile', recordFile')
                     /\ \A r, q \in Run : pc'[r] \in Mid /\ pc'[q] \in Mid => r = q
                     /\ \A r \in Run : HasToken(r)'
    BY DEF Tidy
<1>1. ASSUME NEW r \in Run, Off(r) PROVE Tidy'
    <2>1. Clean /\ tokenFile' = tokenFile /\ recordFile' = recordFile
        BY <1>1, CleanBefore DEF Off, files
    <2> QED
        BY <1>1, <2>1 DEF Off, Apart, Tidy, HasToken, Mid
<1>2. ASSUME NEW r \in Run, Broken(r), UNCHANGED files PROVE Tidy'
    <2>1. Clean /\ tokenFile' = tokenFile /\ recordFile' = recordFile
        BY <1>2, CleanBefore DEF Broken, files
    <2>2. ~Storing(r)
        BY <1>2 DEF Broken, Clean
    <2> QED
        BY <1>2, <2>1, <2>2 DEF Broken, Stops, Apart, Tidy, HasToken, Mid, Storing
<1>3. ASSUME NEW r \in Run, Broken(r), Storing(r) PROVE FALSE
    BY <1>3 DEF Broken, Clean
<1>4. ASSUME NEW r \in Run, OpenToken(r) PROVE Tidy'
    <2>1. Stored(r, "open_token", {"write_token"}) /\ held'[r].token = held[r].token
        BY <1>3, <1>4, StoreMoves DEF OpenToken, Storing
    <2>2. /\ \A q \in Run \ {r} : pc'[q] \notin Mid \cup {"open_token"}
          /\ pc'[r] = "write_token" /\ held[r].token \in Nat
        BY <2>1, TidyStored
    <2> QED
        BY <2>1, <2>2 DEF Tidy, HasToken, Mid
<1>5. ASSUME NEW r \in Run, WriteToken(r) PROVE Tidy'
    <2>1. Stored(r, "write_token", {"open_record"}) /\ tokenFile' = held[r].token /\ held'[r].token = held[r].token
        BY <1>3, <1>5, StoreMoves DEF WriteToken, Storing
    <2>2. /\ \A q \in Run \ {r} : pc'[q] \notin Mid \cup {"open_token"}
          /\ pc'[r] = "open_record" /\ held[r].token \in Nat
        BY <2>1, TidyStored DEF Mid
    <2> QED
        BY <2>1, <2>2 DEF Tidy, HasToken, Mid
<1>6. ASSUME NEW r \in Run, OpenRecord(r) PROVE Tidy'
    <2>1. Stored(r, "open_record", {"write_record"}) /\ tokenFile' = tokenFile /\ held'[r].token = held[r].token
        BY <1>3, <1>6, StoreMoves DEF OpenRecord, Storing
    <2>2. /\ Clean /\ \A q \in Run \ {r} : pc'[q] \notin Mid \cup {"open_token"}
          /\ pc[r] = "open_record" /\ pc'[r] = "write_record" /\ held[r].token \in Nat
        BY <2>1, TidyStored DEF Mid
    <2> QED
        BY <2>1, <2>2 DEF Tidy, HasToken, Mid
<1>7. ASSUME NEW r \in Run, WriteRecord(r) PROVE Tidy'
    <2>1. /\ Stored(r, "write_record", {"discover", "describe"}) /\ tokenFile' = tokenFile
          /\ recordFile'.state = "whole" /\ recordFile'.of = held[r].token
        BY <1>3, <1>7, StoreMoves DEF WriteRecord, Storing
    <2>2. /\ Clean /\ \A q \in Run \ {r} : pc'[q] \notin Mid \cup {"open_token"}
          /\ pc[r] = "write_record" /\ pc'[r] \in {"discover", "describe"} /\ held[r].token \in Nat
        BY <2>1, TidyStored DEF Mid
    <2>3. OnePair(tokenFile', recordFile')
        BY <2>1, <2>2 DEF Tidy, HasToken, OnePair
    <2> QED
        BY <2>2, <2>3 DEF Tidy, HasToken, Mid
<1>8. ASSUME Tick PROVE Tidy'
    <2>1. Clean
        BY <1>8, TickMoves DEF Clean
    <2>2. tokenFile' = tokenFile /\ recordFile' = recordFile /\ pc' = pc
        BY <1>8, TickMoves DEF files
    <2> QED
        BY <1>8, <2>1, <2>2, TickMoves DEF Tidy, HasToken
<1>9. ASSUME UNCHANGED vars PROVE Tidy'
    BY <1>9 DEF vars, Tidy, HasToken, Clean
<1> QED
    <2>1. ASSUME NEW r \in Run, Away(r) \/ Storage(r) \/ CutShort(r) PROVE Tidy'
        BY <2>1, <1>1, <1>2, <1>4, <1>5, <1>6, <1>7 DEF Away, Storage, CutShort
    <2>2. Tidy'
        BY <1>8, <1>9, <2>1, Kinds
    <2> QED
        BY <2>2 DEF Tidy

\* Whatever runs there are, unless a store was stopped or two stores met, the
\* token and the record beside it are of one exchange (store in tokens.rs).
THEOREM Pairs == Spec => []PairsAreWhole
<1>1. Init => Tidy
    <2>1. \A store \in Stores : OnePair(store.token, store.record)
        BY StoresAssumption DEF OnePair, NoRecord, None
    <2> QED
        BY <2>1 DEF Init, Tidy, HasToken, Mid
<1>2. Tidy /\ TypeOK /\ [Next]_vars => Tidy'
    BY TidyStep
<1>3. Tidy => PairsAreWhole
    BY DEF Tidy, PairsAreWhole, Quiet, Clean, Storing, Mid
<1> QED
    BY <1>1, <1>2, <1>3, Typing, PTL DEF Spec

-----------------------------------------------------------------------------
(* The signatures.                                                         *)

Signed(able) == [hash : Nat, sad : Nat, good : BOOLEAN, algorithm : able]

\* The algorithms the credential has.
Able == {a \in Service.algorithms : Usable(a)}

\* Each signature for its own hash, under the authorisation for that hash.
SoundUnder(able, signed) ==
    /\ signed \in Seq(Signed(able))
    /\ \A i \in DOMAIN signed : signed[i].good /\ signed[i].hash = i /\ signed[i].sad = i

\* What a run has, and what it waits for: the authorisation it asked for, or
\* holds, is for the hash that follows those it has signed.
Progress(r) ==
    /\ SoundUnder(Able, held[r].signed)
    /\ pc[r] \in {"authorize", "sign_hash", "write"} => (~Is(r, "login") /\ Offered # {})
    /\ (pc[r] \in {"bind", "wait", "redeem"} /\ ~Is(r, "login")) =>
          (held[r].asked = Len(held[r].signed) + 1 /\ Offered # {})
    /\ pc[r] = "sign_hash" => held[r].sad = Len(held[r].signed) + 1
    /\ pc[r] = "write" => Len(held[r].signed) = Signatures
    /\ output[r] # <<>> =>
          (/\ pc[r] = "ended" /\ outcome[r] = "ok"
           /\ SoundUnder(Able, output[r]) /\ Len(output[r]) = Signatures)

\* The preference finds an algorithm the credential has, if there is one.
LEMMA ChosenIsUsable ==
    ASSUME Offered # {}
    PROVE  Chosen \in Able
<1>. DEFINE first == CHOOSE i \in Offered : \A j \in Offered : i <= j
<1>1. DOMAIN Preference = 1..5
    BY DEF Preference
<1>2. Offered \subseteq 1..5
    BY <1>1 DEF Offered
<1>3. \E i \in Offered : \A j \in Offered : i <= j
    <2>1. ASSUME NEW n \in Offered PROVE \E i \in Offered : \A j \in Offered : i <= j
        <3>1. CASE 1 \in Offered
            BY <1>2, <3>1
        <3>2. CASE 1 \notin Offered /\ 2 \in Offered
            BY <1>2, <3>2
        <3>3. CASE 1 \notin Offered /\ 2 \notin Offered /\ 3 \in Offered
            BY <1>2, <3>3
        <3>4. CASE 1 \notin Offered /\ 2 \notin Offered /\ 3 \notin Offered /\ 4 \in Offered
            BY <1>2, <3>4
        <3>5. CASE Offered = {5}
            BY <3>5
        <3> QED
            BY <1>2, <2>1, <3>1, <3>2, <3>3, <3>4, <3>5
    <2> QED
        BY <2>1
<1>4. first \in Offered
    BY <1>3
<1>5. Chosen = Preference[first]
    BY DEF Chosen
<1>. HIDE DEF first
<1>6. Usable(Preference[first])
    BY <1>4 DEF Offered
<1> QED
    BY <1>5, <1>6 DEF Able, Usable

\* What the service can do stays the same.
LEMMA SameService ==
    ASSUME setup' = setup
    PROVE  /\ Able' = Able /\ Offered' = Offered /\ Signatures' = Signatures
           /\ \A r : Is(r, "login")' <=> Is(r, "login")
BY DEF Able, Offered, Usable, Service, Signatures, Is

LEMMA Empties == ASSUME NEW able PROVE SoundUnder(able, <<>>)
BY DEF SoundUnder

\* Nothing about a run changes but through its own steps.
LEMMA OthersProgress ==
    ASSUME NEW r \in Run, Apart(r), setup' = setup,
           \A q \in Run : Progress(q), Progress(r)'
    PROVE  \A q \in Run : Progress(q)'
<1>1. ASSUME NEW q \in Run \ {r} PROVE Progress(q)'
    <2>1. /\ pc'[q] = pc[q] /\ held'[q] = held[q] /\ outcome'[q] = outcome[q] /\ output'[q] = output[q]
        BY <1>1 DEF Apart
    <2>2. Progress(q)
        BY <1>1
    <2>3. Is(q, "login")' <=> Is(q, "login")
        BY DEF Is
    <2> QED
        BY <2>1, <2>2, <2>3, SameService DEF Progress
<1> QED
    BY <1>1

LEMMA SignsProgress ==
    ASSUME NEW r \in Run, Progress(r), Signs(r), setup' = setup
    PROVE  Progress(r)'
<1>. DEFINE new  == [hash |-> Len(held[r].signed) + 1, sad |-> held[r].sad, good |-> TRUE, algorithm |-> Chosen]
            made == Append(held[r].signed, new)
<1>1. /\ pc[r] = "sign_hash" /\ held'[r].signed = made
      /\ pc'[r] = IF Len(made) = Signatures THEN "write" ELSE "authorize"
      /\ outcome'[r] = outcome[r] /\ output'[r] = output[r]
    BY DEF Signs
<1>2. /\ SoundUnder(Able, held[r].signed) /\ held[r].sad = Len(held[r].signed) + 1
      /\ ~Is(r, "login") /\ Offered # {} /\ output[r] = <<>>
    BY <1>1 DEF Progress
<1>3. new \in Signed(Able) /\ Chosen \in Able /\ held[r].signed \in Seq(Signed(Able)) /\ Len(held[r].signed) \in Nat
    <2>1. Chosen \in Able
        BY <1>2, ChosenIsUsable
    <2>2. held[r].signed \in Seq(Signed(Able)) /\ Len(held[r].signed) \in Nat
        BY <1>2 DEF SoundUnder
    <2> QED
        BY <1>2, <2>1, <2>2 DEF Signed
<1>4. SoundUnder(Able, made)
    <2>1. /\ made \in Seq(Signed(Able)) /\ DOMAIN made = 1..Len(held[r].signed) + 1
          /\ \A i \in 1..Len(held[r].signed) : made[i] = held[r].signed[i]
          /\ made[Len(held[r].signed) + 1] = new
        <3>. HIDE DEF new
        <3> QED
            BY <1>3, AppendProperties
    <2>2. ASSUME NEW i \in DOMAIN made
          PROVE  made[i].good /\ made[i].hash = i /\ made[i].sad = i
        <3>1. CASE i = Len(held[r].signed) + 1
            BY <1>2, <1>3, <2>1, <3>1
        <3>2. CASE i \in 1..Len(held[r].signed)
            BY <1>2, <2>1, <3>2 DEF SoundUnder
        <3> QED
            BY <1>3, <2>1, <3>1, <3>2
    <2> QED
        BY <2>1, <2>2 DEF SoundUnder
<1>. HIDE DEF made
<1>5. SoundUnder(Able', held'[r].signed)
    BY <1>1, <1>4, SameService
<1>6. ~Is(r, "login")' /\ Offered' # {} /\ Signatures' = Signatures
    BY <1>2, SameService DEF Is
<1> QED
    BY <1>1, <1>2, <1>5, <1>6 DEF Progress

LEMMA ProgressStep ==
    ASSUME TypeOK, \A r \in Run : Progress(r), [Next]_vars
    PROVE  \A r \in Run : Progress(r)'
<1>1. ASSUME NEW r \in Run, setup' = setup, Apart(r), Progress(r),
             Stops(r) \/ Passes(r) \/ InRound(r) \/ Redeems(r) \/ Begins(r)
             \/ Asks(r) \/ Signs(r) \/ Writes(r), pc[r] # "ended"
      PROVE  Progress(r)'
    <2>1. /\ Is(r, "login")' <=> Is(r, "login")
          /\ Is(r, "sign") => ~Is(r, "login")
          /\ Able' = Able /\ Offered' = Offered /\ Signatures' = Signatures
        BY <1>1, SameService DEF Is
    <2>2. SoundUnder(Able, held[r].signed) /\ output[r] = <<>> /\ SoundUnder(Able, <<>>)
        BY <1>1, Empties DEF Progress
    <2>3. CASE Stops(r)
        BY <2>1, <2>2, <2>3 DEF Stops, Progress
    <2>4. CASE Passes(r)
        BY <2>1, <2>2, <2>4 DEF Passes, Progress, Critical
    <2>5. CASE InRound(r)
        BY <1>1, <2>1, <2>2, <2>5 DEF InRound, Progress
    <2>6. CASE Redeems(r)
        BY <1>1, <2>1, <2>2, <2>6 DEF Redeems, Progress
    <2>7. CASE Begins(r)
        BY <1>1, <2>1, <2>2, <2>7 DEF Begins, Progress
    <2>8. CASE Asks(r)
        BY <1>1, <2>1, <2>2, <2>8 DEF Asks, Progress
    <2>9. CASE Signs(r)
        BY <1>1, <2>9, SignsProgress
    <2>10. CASE Writes(r)
        BY <1>1, <2>1, <2>2, <2>10 DEF Writes, Progress
    <2> QED
        BY <1>1, <2>3, <2>4, <2>5, <2>6, <2>7, <2>8, <2>9, <2>10
<1>2. ASSUME NEW r \in Run, Away(r) \/ Storage(r) \/ CutShort(r)
      PROVE  \A q \in Run : Progress(q)'
    <2>1. CASE Away(r)
        BY <1>1, <2>1, OthersProgress DEF Away, Off
    <2>2. CASE Broken(r)
        BY <1>1, <2>2, OthersProgress DEF Broken
    <2>3. CASE \E to : \E from \in Mid \cup {"open_token"} : Stored(r, from, to)
        BY <1>1, <2>3, OthersProgress DEF Stored, Mid
    <2> QED
        BY <1>2, <2>1, <2>2, <2>3, StoreMoves DEF Storage, CutShort, Mid
<1>3. ASSUME Tick
      PROVE  \A r \in Run : Progress(r)'
    <2>1. ASSUME NEW r \in Run PROVE Progress(r)'
        <3>1. /\ held'[r].signed = held[r].signed /\ held'[r].asked = held[r].asked /\ held'[r].sad = held[r].sad
              /\ pc' = pc /\ outcome' = outcome /\ output' = output /\ setup' = setup
            BY <1>3, TickMoves
        <3>2. Is(r, "login")' <=> Is(r, "login")
            BY <3>1 DEF Is
        <3> QED
            BY <3>1, <3>2, SameService DEF Progress
    <2> QED
        BY <2>1
<1>4. ASSUME UNCHANGED vars
      PROVE  \A r \in Run : Progress(r)'
    <2>1. ASSUME NEW r \in Run PROVE Progress(r)'
        <3>1. Is(r, "login")' <=> Is(r, "login")
            BY <1>4 DEF vars, Is
        <3> QED
            BY <1>4, <3>1, SameService DEF vars, Progress
    <2> QED
        BY <2>1
<1> QED
    BY <1>2, <1>3, <1>4, Kinds

\* Whatever is written holds every signature that was asked for, each made
\* under the authorisation for its own hash and with an algorithm the
\* credential has; and only a run that succeeded wrote (SignHash, Authorize).
THEOREM Signing == Spec => []WrittenIsAuthorised
<1>1. Init => \A r \in Run : Progress(r)
    <2>. SUFFICES ASSUME Init, NEW r \in Run PROVE Progress(r)
        OBVIOUS
    <2>1. pc[r] = "load" /\ held[r] = Idle /\ output[r] = <<>>
        BY DEF Init
    <2> QED
        BY <2>1, IdleHeld, Empties DEF Progress
<1>2. (\A r \in Run : Progress(r)) /\ TypeOK /\ [Next]_vars => (\A r \in Run : Progress(r))'
    BY ProgressStep
<1>3. (\A r \in Run : Progress(r)) => WrittenIsAuthorised
    <2>1. ASSUME NEW r \in Run, Progress(r), output[r] # <<>>
          PROVE  outcome[r] = "ok" /\ Len(output[r]) = Signatures /\ SoundUnder(Able, output[r])
        BY <2>1 DEF Progress
    <2>2. ASSUME NEW r \in Run, Progress(r), output[r] # <<>>, NEW i \in DOMAIN output[r]
          PROVE  /\ output[r][i].good /\ output[r][i].hash = i /\ output[r][i].sad = i
                 /\ Usable(output[r][i].algorithm)
        <3>1. output[r][i] \in Signed(Able)
            BY <2>1, <2>2 DEF SoundUnder
        <3>2. Usable(output[r][i].algorithm)
            BY <3>1 DEF Signed, Able
        <3> QED
            BY <2>1, <2>2, <3>2 DEF SoundUnder
    <2>3. ASSUME \A r \in Run : Progress(r) PROVE WrittenIsAuthorised
        BY <2>1, <2>2, <2>3 DEF WrittenIsAuthorised
    <2> QED
        BY <2>3
<1> QED
    BY <1>1, <1>2, <1>3, Typing, PTL DEF Spec

-----------------------------------------------------------------------------
(* The refresh token.                                                      *)

\* A step that is off the files and leaves the service's refresh tokens alone.
Quietly(r) ==
    /\ Apart(r) /\ ~Storing(r) /\ pc'[r] \notin Mid \cup {"open_token"}
    /\ UNCHANGED <<files, live>> /\ mishaps \subseteq mishaps'

\* A run obtains tokens: it goes on to store a refresh token that works, or it
\* is known that the answer was lost.
Obtains(r) ==
    /\ Apart(r) /\ ~Storing(r) /\ UNCHANGED files /\ mishaps \subseteq mishaps'
    /\ mishaps' = {} => (pc'[r] = "open_token" /\ held'[r].refresh \in live' \cup {None})

\* A step of a run that stores: it still holds its refresh token, or has
\* recorded it.
Keeps(r) ==
    /\ Apart(r) /\ Storing(r) /\ UNCHANGED live /\ mishaps \subseteq mishaps'
    /\ mishaps' = {} =>
         /\ \A q \in Run \ {r} : ~Storing(q)
         /\ \/ pc'[r] \in Mid /\ held'[r].refresh = held[r].refresh
            \/ pc'[r] \notin Mid \cup {"open_token"} /\ recordFile'.refresh = held[r].refresh

LEMMA IssueObtains ==
    ASSUME TypeOK, NEW r \in Run, NEW refresh \in live' \cup {None}, Issue(r, "open_token", refresh),
           ~Storing(r), UNCHANGED files
    PROVE  Obtains(r)
<1>1. PICK l :
        \/ /\ Goto(r, "open_token", [held[r] EXCEPT !.token = Len(grants) + 1, !.refresh = refresh,
                                                    !.round = 0, !.code = None, !.lasts = l])
           /\ UNCHANGED mishaps
        \/ End(r, "login_failed") /\ mishaps' = mishaps \union {"answer_lost"}
    BY Zenon DEF Issue
<1>. DEFINE h == [held[r] EXCEPT !.token = Len(grants) + 1, !.refresh = refresh,
                                 !.round = 0, !.code = None, !.lasts = l]
<1>2. h.refresh = refresh
    BY Shapes DEF Fields
<1>3. CASE Goto(r, "open_token", h) /\ UNCHANGED mishaps
    <2>1. Apart(r) /\ pc'[r] = "open_token" /\ held'[r] = h
        BY <1>3, GotoMoves
    <2>. HIDE DEF h
    <2> QED
        BY <1>2, <1>3, <2>1 DEF Obtains
<1>4. CASE End(r, "login_failed") /\ mishaps' = mishaps \union {"answer_lost"}
    BY <1>4, EndMoves DEF Obtains
<1> QED
    BY <1>1, <1>3, <1>4, Zenon

LEMMA RefreshObtains ==
    ASSUME TypeOK, NEW r \in Run, Refresh(r)
    PROVE  Quietly(r) \/ Obtains(r)
<1>1. pc[r] = "refresh" /\ ~Storing(r) /\ UNCHANGED files
    BY DEF Refresh, Storing
<1>2. CASE Refused(r)
    BY <1>1, <1>2, EndMoves DEF Refused, Quietly, Mid
<1>3. CASE /\ held[r].refresh \in live
           /\ \E renewal \in Renewals :
                LET new == CASE renewal = "rotated" -> Len(grants) + 1
                             [] renewal = "repeated" -> held[r].refresh
                             [] renewal = "unmentioned" -> None
                IN  /\ Issue(r, "open_token", new)
                    /\ live' = IF renewal = "rotated" THEN (live \ {held[r].refresh}) \union {new}
                               ELSE live
    <2>1. PICK renewal \in Renewals :
            LET new == CASE renewal = "rotated" -> Len(grants) + 1
                         [] renewal = "repeated" -> held[r].refresh
                         [] renewal = "unmentioned" -> None
            IN  /\ Issue(r, "open_token", new)
                /\ live' = IF renewal = "rotated" THEN (live \ {held[r].refresh}) \union {new}
                           ELSE live
        BY <1>3
    <2>2. CASE renewal = "rotated"
        <3>1. Issue(r, "open_token", Len(grants) + 1) /\ Len(grants) + 1 \in live'
            BY <2>1, <2>2
        <3> QED
            BY <1>1, <3>1, IssueObtains
    <2>3. CASE renewal = "repeated"
        <3>1. Issue(r, "open_token", held[r].refresh) /\ held[r].refresh \in live'
            BY <1>3, <2>1, <2>3
        <3> QED
            BY <1>1, <3>1, IssueObtains
    <2>4. CASE renewal = "unmentioned"
        <3>1. Issue(r, "open_token", None)
            BY <2>1, <2>4
        <3> QED
            BY <1>1, <3>1, IssueObtains
    <2> QED
        BY <2>2, <2>3, <2>4, RenewalsAssumption
<1> QED
    BY <1>2, <1>3, Zenon DEF Refresh

LEMMA RedeemObtains ==
    ASSUME TypeOK, NEW r \in Run, Redeem(r)
    PROVE  Quietly(r) \/ Obtains(r)
<1>1. pc[r] = "redeem" /\ ~Storing(r) /\ UNCHANGED files
    BY DEF Redeem, Storing
<1>2. CASE Refused(r)
    BY <1>1, <1>2, EndMoves DEF Refused, Quietly, Mid
<1>3. CASE \E refresh \in {None, Len(grants) + 1} :
             Issue(r, "open_token", refresh) /\ live' = live \union ({refresh} \ {None})
    <2>1. PICK refresh \in {None, Len(grants) + 1} :
            Issue(r, "open_token", refresh) /\ live' = live \union ({refresh} \ {None})
        BY <1>3
    <2>2. refresh \in live' \cup {None}
        BY <2>1
    <2> QED
        BY <1>1, <2>1, <2>2, IssueObtains
<1>. DEFINE h == [held[r] EXCEPT !.sad = held[r].asked]
<1>4. CASE Goto(r, "sign_hash", h) /\ UNCHANGED <<grants, live, mishaps>>
    <2>1. Apart(r) /\ pc'[r] = "sign_hash"
        BY <1>4, GotoMoves
    <2> QED
        BY <1>1, <1>4, <2>1 DEF Quietly, Mid
<1> QED
    BY <1>2, <1>3, <1>4, Zenon DEF Redeem

LEMMA OthersQuietly ==
    ASSUME TypeOK, NEW r \in Run,
           \/ Load(r) \/ ReadRecord(r) \/ Discover(r) \/ Describe(r) \/ Authorize(r) \/ SignHash(r) \/ WriteFile(r)
           \/ Bind(r) \/ Arrive(r) \/ ServeStranger(r) \/ ServeRedirect(r) \/ GiveUp(r)
    PROVE  Quietly(r)
<1>1. UNCHANGED live /\ ~Storing(r)
    <2>1. CASE Load(r) \/ ReadRecord(r)
        BY <2>1 DEF Load, ReadRecord, issued, Storing
    <2>2. CASE Discover(r) \/ Describe(r)
        BY <2>2 DEF Discover, Describe, issued, Storing
    <2>3. CASE Authorize(r) \/ SignHash(r) \/ WriteFile(r)
        BY <2>3 DEF Authorize, SignHash, WriteFile, issued, Storing
    <2>4. CASE Bind(r) \/ Arrive(r) \/ ServeStranger(r) \/ ServeRedirect(r) \/ GiveUp(r)
        BY <2>4 DEF Bind, Arrive, ServeStranger, ServeRedirect, GiveUp, issued, Storing
    <2> QED
        BY <2>1, <2>2, <2>3, <2>4
<1>2. Off(r) /\ pc'[r] # "open_token"
    <2>1. CASE Load(r) \/ ReadRecord(r)
        BY <2>1, LoadMoves, ReadRecordMoves
    <2>2. CASE Discover(r) \/ Describe(r)
        BY <2>2, DiscoverMoves, DescribeMoves DEF Stops, Begins
    <2>3. CASE Authorize(r) \/ SignHash(r) \/ WriteFile(r)
        BY <2>3, AuthorizeMoves, SignHashMoves, WriteFileMoves DEF Stops, Asks, Signs, Writes
    <2>4. CASE Bind(r) \/ Arrive(r) \/ ServeStranger(r) \/ ServeRedirect(r) \/ GiveUp(r)
        BY <2>4, RoundMoves DEF Stops, InRound
    <2> QED
        BY <2>1, <2>2, <2>3, <2>4
<1> QED
    BY <1>1, <1>2 DEF Off, Quietly

LEMMA StoreKeeps ==
    ASSUME TypeOK, NEW r \in Run, Storage(r)
    PROVE  Keeps(r)
<1>1. UNCHANGED live /\ Storing(r)
    BY DEF Storage, OpenToken, WriteToken, OpenRecord, WriteRecord, issued, Storing
<1>2. CASE Broken(r)
    BY <1>1, <1>2 DEF Broken, Keeps
<1>3. CASE ~Broken(r)
    <2>1. ~Fails(r)
        BY <1>1, <1>3, FailsMoves, Zenon DEF Storage, OpenToken, WriteToken, OpenRecord, WriteRecord, issued
    <2>2. ASSUME OpenToken(r) PROVE Keeps(r)
        <3>1. Stored(r, "open_token", {"write_token"})
            BY <1>3, <2>2, StoreMoves
        <3>2. held'[r].refresh = held[r].refresh
            BY <2>1, <2>2, Shapes DEF OpenToken, Goes, Goto, Fields
        <3> QED
            BY <1>1, <3>1, <3>2 DEF Stored, Keeps, Mid
    <2>3. ASSUME WriteToken(r) PROVE Keeps(r)
        <3>1. Stored(r, "write_token", {"open_record"})
            BY <1>3, <2>3, StoreMoves
        <3>2. held'[r].refresh = held[r].refresh
            BY <2>1, <2>3, Shapes DEF WriteToken, Goes, Goto
        <3> QED
            BY <1>1, <3>1, <3>2 DEF Stored, Keeps, Mid
    <2>4. ASSUME OpenRecord(r) PROVE Keeps(r)
        <3>1. Stored(r, "open_record", {"write_record"})
            BY <1>3, <2>4, StoreMoves
        <3>2. held'[r].refresh = held[r].refresh
            BY <2>1, <2>4, Shapes DEF OpenRecord, Goes, Goto
        <3> QED
            BY <1>1, <3>1, <3>2 DEF Stored, Keeps, Mid
    <2>5. ASSUME WriteRecord(r) PROVE Keeps(r)
        <3>1. Stored(r, "write_record", {"discover", "describe"})
            BY <1>3, <2>5, StoreMoves
        <3>2. recordFile' = RecordOf(r)
            BY <2>1, <2>5 DEF WriteRecord
        <3>3. recordFile'.refresh = held[r].refresh
            BY <3>2 DEF RecordOf
        <3> QED
            BY <1>1, <3>1, <3>3 DEF Stored, Keeps, Mid
    <2> QED
        BY <2>2, <2>3, <2>4, <2>5 DEF Storage
<1> QED
    BY <1>2, <1>3

LEMMA KillKeeps ==
    ASSUME TypeOK, NEW r \in Run, Kill(r)
    PROVE  Quietly(r) \/ Keeps(r)
<1>1. Broken(r) /\ UNCHANGED files
    BY KillMoves
<1>2. UNCHANGED live
    BY DEF Kill, issued
<1> QED
    BY <1>1, <1>2 DEF Broken, Stops, Quietly, Keeps, Mid

\* While nothing went wrong: between stores the recorded refresh token works,
\* and so does the one a run has that is alone in storing.
Works ==
    mishaps = {} =>
        /\ (\A r \in Run : ~Storing(r)) => recordFile.refresh \in live \cup {None}
        /\ \A r \in Run : Storing(r) /\ (\A q \in Run \ {r} : ~Storing(q)) =>
              held[r].refresh \in live \cup {None}

LEMMA WorksStep ==
    ASSUME TypeOK, Works, [Next]_vars
    PROVE  Works'
<1>. SUFFICES ASSUME mishaps' = {}
              PROVE  /\ (\A r \in Run : ~Storing(r)') => recordFile'.refresh \in live' \cup {None}
                     /\ \A r \in Run : Storing(r)' /\ (\A q \in Run \ {r} : ~Storing(q)') =>
                           held'[r].refresh \in live' \cup {None}
    BY DEF Works
<1>1. ASSUME NEW r \in Run, Apart(r), NEW q \in Run \ {r}
      PROVE  (Storing(q)' <=> Storing(q)) /\ held'[q] = held[q]
    BY <1>1 DEF Apart, Storing
<1>2. ASSUME NEW r \in Run, Quietly(r) PROVE Works'
    <2>1. mishaps = {} /\ ~Storing(r) /\ ~Storing(r)' /\ recordFile' = recordFile /\ live' = live
        BY <1>2 DEF Quietly, files, Storing, Mid
    <2>2. \A q \in Run : (Storing(q)' <=> Storing(q)) /\ (Storing(q) => held'[q] = held[q])
        BY <1>1, <1>2, <2>1 DEF Quietly
    <2> QED
        BY <2>1, <2>2 DEF Works
<1>3. ASSUME NEW r \in Run, Obtains(r) PROVE Works'
    <2>1. Storing(r)' /\ held'[r].refresh \in live' \cup {None}
        BY <1>3 DEF Obtains, Storing
    <2>2. \A q \in Run : Storing(q)' /\ (\A p \in Run \ {q} : ~Storing(p)') => q = r
        BY <2>1
    <2> QED
        BY <2>1, <2>2 DEF Works
<1>4. ASSUME NEW r \in Run, Keeps(r) PROVE Works'
    <2>1. /\ mishaps = {} /\ Storing(r) /\ live' = live
          /\ \A q \in Run \ {r} : ~Storing(q) /\ ~Storing(q)'
        BY <1>1, <1>4 DEF Keeps
    <2>2. held[r].refresh \in live \cup {None}
        BY <2>1 DEF Works
    <2>3. CASE pc'[r] \in Mid /\ held'[r].refresh = held[r].refresh
        <3>1. Storing(r)'
            BY <2>3 DEF Storing, Mid
        <3> QED
            BY <2>1, <2>2, <2>3, <3>1 DEF Works
    <2>4. CASE pc'[r] \notin Mid \cup {"open_token"} /\ recordFile'.refresh = held[r].refresh
        <3>1. ~Storing(r)'
            BY <2>4 DEF Storing, Mid
        <3> QED
            BY <2>1, <2>2, <2>4, <3>1 DEF Works
    <2> QED
        BY <1>4, <2>3, <2>4 DEF Keeps
<1>5. ASSUME Tick PROVE Works'
    <2>1. UNCHANGED <<pc, recordFile, live, mishaps>>
        BY <1>5, TickMoves DEF Tick, files, issued
    <2>2. \A r \in Run : Storing(r) => held'[r] = held[r]
        BY <1>5 DEF Tick, Storing
    <2> QED
        BY <2>1, <2>2 DEF Works, Storing
<1>6. ASSUME UNCHANGED vars PROVE Works'
    BY <1>6 DEF vars, Works, Storing
<1>7. ASSUME NEW r \in Run, Step(r) \/ Arrive(r) \/ ServeRedirect(r) \/ Kill(r)
      PROVE  Quietly(r) \/ Obtains(r) \/ Keeps(r)
    BY <1>7, RefreshObtains, RedeemObtains, OthersQuietly, StoreKeeps, KillKeeps DEF Step, Storage
<1>8. Works'
    BY <1>2, <1>3, <1>4, <1>5, <1>6, <1>7, Zenon DEF Next, Done
<1> QED
    BY <1>8 DEF Works

\* A service that rotates refresh tokens never leaves a dead one behind: unless
\* an answer was lost, a store was stopped or two stores met, the refresh token
\* on record is one the service takes (usable_token, store).
THEOREM Rotation == Spec => []RotationIsRecorded
<1>1. Init => Works
    <2>. SUFFICES ASSUME Init PROVE Works
        OBVIOUS
    <2>1. live = {1} /\ recordFile.refresh \in {None, 1} /\ \A r \in Run : ~Storing(r)
        BY StoresAssumption DEF Init, Storing, NoRecord
    <2> QED
        BY <2>1 DEF Works
<1>2. Works /\ TypeOK /\ [Next]_vars => Works'
    BY WorksStep
<1>3. Works => RotationIsRecorded
    BY DEF Works, RotationIsRecorded, Quiet
<1> QED
    BY <1>1, <1>2, <1>3, Typing, PTL DEF Spec

-----------------------------------------------------------------------------
(* When tokens end.                                                        *)

\* The promise a record made to a run that was refused all the same.
LastedTheMargin(h) ==
    h.by.of = h.token /\ h.by.expires # Never /\ h.by.expires <= grants[h.token]
    => h.ended > h.now + Margin

\* A record speaks of a token that was granted, and a run that uses one on a
\* record's word found it good for longer than the margin.
Dated(r) ==
    /\ held[r].by.expires \in Int /\ held[r].now \in Nat
    /\ held[r].lasts \in Int /\ held[r].expires \in Int
    /\ pc[r] \in {"load", "record"} => held[r].by.expires = Never
    /\ held[r].by.expires # Never =>
         held[r].by.of \in DOMAIN grants /\ held[r].by.expires > held[r].now + Margin
    /\ Storing(r) => held[r].token \in DOMAIN grants
    /\ outcome[r] = "token_rejected" => pc[r] = "ended" /\ LastedTheMargin(held[r])

RecordDated ==
    /\ recordFile.expires \in Int
    /\ recordFile.state = "absent" => recordFile.expires = Never
    /\ recordFile.expires # Never => recordFile.of \in DOMAIN grants

\* Grants are only added to.
Later == \A g \in DOMAIN grants : g \in DOMAIN grants' /\ grants'[g] = grants[g]

StoringPlaces == {"open_token", "write_token", "open_record", "write_record"}

LEMMA IdleDates == /\ Idle.by.expires = Never /\ Idle.now = 0 /\ Idle.lasts = Never
                   /\ Idle.expires = Never /\ Never \in Int
BY DEF Idle, NoRecord, Never

LEMMA GotoDated ==
    ASSUME TypeOK, NEW r \in Run, outcome[r] # "token_rejected", NEW place, NEW h,
           Goto(r, place, h),
           h.by.expires \in Int, h.now \in Nat, h.lasts \in Int, h.expires \in Int,
           place \in {"load", "record"} => h.by.expires = Never,
           h.by.expires # Never =>
             h.by.of \in DOMAIN grants' /\ h.by.expires > h.now + Margin,
           place \in StoringPlaces => h.token \in DOMAIN grants'
    PROVE  Apart(r) /\ Dated(r)'
<1>1. Apart(r) /\ pc'[r] = place /\ held'[r] = h /\ outcome'[r] = outcome[r]
    BY GotoMoves
<1> QED
    BY <1>1 DEF Dated, Storing, StoringPlaces

\* A run that goes on with the dates it has.
LEMMA CarriedDated ==
    ASSUME TypeOK, NEW r \in Run, Dated(r), Later, pc[r] # "ended", NEW place, NEW h,
           Goto(r, place, h),
           h.by = held[r].by, h.now = held[r].now, h.lasts = held[r].lasts,
           h.expires = held[r].expires, place \notin {"load", "record"},
           place \in StoringPlaces => h.token \in DOMAIN grants'
    PROVE  Apart(r) /\ Dated(r)'
BY GotoDated DEF Dated, Later

LEMMA EndDated ==
    ASSUME TypeOK, NEW r \in Run, NEW how, how # "token_rejected", End(r, how)
    PROVE  Apart(r) /\ Dated(r)'
BY EndMoves, IdleDates DEF Dated, Storing

\* The service refuses a token: it was over by then.
LEMMA RejectDated ==
    ASSUME TypeOK, NEW r \in Run, Dated(r), TokenRejected(r), UNCHANGED grants
    PROVE  Apart(r) /\ Dated(r)'
<1>1. PICK h : h = [Idle EXCEPT !.token = held[r].token, !.by = held[r].by,
                                !.now = held[r].now, !.ended = clock]
    OBVIOUS
<1>2. /\ h.token = held[r].token /\ h.by = held[r].by /\ h.now = held[r].now /\ h.ended = clock
      /\ h.lasts = Never /\ h.expires = Never
    BY <1>1, IdleHeld, IdleDates DEF Fields
<1>3. held' = [held EXCEPT ![r] = h]
    BY <1>1, Zenon DEF TokenRejected
<1>4. Apart(r) /\ held'[r] = h /\ pc'[r] = "ended" /\ ~Presented(r)
    BY <1>3, RejectedMoves, Shapes DEF TokenRejected
<1>5. /\ h.by.expires \in Int /\ h.now \in Nat /\ Margin \in Nat /\ clock \in Nat
      /\ grants \in Seq(Nat)
      /\ h.by.expires # Never => h.by.of \in DOMAIN grants /\ h.by.expires > h.now + Margin
    BY <1>2, TimesAssumption DEF Dated, TypeOK
<1>6. LastedTheMargin(h)
    <2>1. SUFFICES ASSUME h.by.of = h.token, h.by.expires # Never,
                          h.by.expires <= grants[h.token]
                   PROVE  clock > h.now + Margin
        BY <1>2 DEF LastedTheMargin
    <2>2. h.token \in DOMAIN grants /\ h.by.expires > h.now + Margin
        BY <1>5, <2>1
    <2>3. grants[h.token] \in Nat /\ ~(clock < grants[h.token])
        BY <1>2, <1>4, <1>5, <2>2 DEF Presented
    <2> QED
        BY <1>5, <2>1, <2>2, <2>3
<1>7. LastedTheMargin(h)'
    BY <1>6 DEF LastedTheMargin
<1> QED
    BY <1>2, <1>4, <1>5, <1>7, IdleDates DEF Dated, Storing, LastedTheMargin
-----------------------------------------------------------------------------
LEMMA LoadDated ==
    ASSUME TypeOK, NEW r \in Run, Dated(r), Load(r)
    PROVE  Apart(r) /\ Dated(r)'
<1> DEFINE h == [held[r] EXCEPT !.token = NamedToken]
<1>1. pc[r] = "load" /\ UNCHANGED grants
    BY DEF Load, issued
<1>2. h.by = held[r].by /\ h.now = held[r].now /\ h.lasts = held[r].lasts
      /\ h.expires = held[r].expires
    BY Shapes DEF Fields
<1> DEFINE place == IF Is(r, "login") THEN "discover" ELSE "record"
<1>3. End(r, "config_invalid") \/ End(r, "token_empty") \/ Goto(r, place, h)
    BY Zenon DEF Load
<1>4. place \in {"discover", "record"}
    OBVIOUS
<1> HIDE DEF h, place
<1>5. CASE End(r, "config_invalid") \/ End(r, "token_empty")
    BY <1>5, EndDated
<1>6. CASE Goto(r, place, h)
    BY <1>1, <1>2, <1>4, <1>6, GotoDated DEF Dated, StoringPlaces
<1> QED
    BY <1>3, <1>5, <1>6

LEMMA ReadRecordDated ==
    ASSUME TypeOK, NEW r \in Run, Dated(r), RecordDated, ReadRecord(r)
    PROVE  Apart(r) /\ Dated(r)'
<1>1. /\ pc[r] = "record" /\ UNCHANGED grants /\ outcome[r] # "token_rejected"
      /\ held[r].by.expires = Never /\ clock \in Nat /\ Margin \in Nat
    BY TimesAssumption DEF ReadRecord, issued, Dated, TypeOK
<1>2. CASE \E how \in {"config_invalid", "token_unusable"} : End(r, how)
    BY <1>2, EndDated
<1>3. CASE \E y : /\ Goto(r, "discover", [held[r] EXCEPT !.now = clock, !.by = y])
                  /\ y \in {NoRecord, recordFile}
                  /\ y = recordFile /\ y.state # "absent" => ~IsExpired(recordFile, clock)
    <2>1. PICK y : /\ Goto(r, "discover", [held[r] EXCEPT !.now = clock, !.by = y])
                   /\ y \in {NoRecord, recordFile}
                   /\ y = recordFile /\ y.state # "absent" => ~IsExpired(recordFile, clock)
        BY <1>3
    <2> DEFINE h == [held[r] EXCEPT !.now = clock, !.by = y]
    <2>2. h.by = y /\ h.now = clock /\ h.lasts = held[r].lasts /\ h.expires = held[r].expires
        BY Shapes DEF Fields
    <2>3. y.expires \in Int /\ (y.expires # Never =>
                                  y.of \in DOMAIN grants /\ y.expires > clock + Margin)
        <3>1. CASE y = NoRecord
            BY <3>1 DEF NoRecord, Never
        <3>2. CASE y = recordFile
            BY <1>1, <2>1, <3>2 DEF RecordDated, IsExpired
        <3> QED
            BY <2>1, <3>1, <3>2
    <2>4. Goto(r, "discover", h)
        BY <2>1
    <2> HIDE DEF h
    <2> QED
        BY <1>1, <2>2, <2>3, <2>4, GotoDated DEF Dated, StoringPlaces
<1>4. CASE Goto(r, "refresh", [held[r] EXCEPT !.refresh = recordFile.refresh, !.now = clock])
    <2> DEFINE h == [held[r] EXCEPT !.refresh = recordFile.refresh, !.now = clock]
    <2>1. /\ h.by = held[r].by /\ h.now = clock /\ h.lasts = held[r].lasts
          /\ h.expires = held[r].expires
        BY Shapes DEF Fields
    <2>2. Goto(r, "refresh", h)
        BY <1>4
    <2> HIDE DEF h
    <2> QED
        BY <1>1, <2>1, <2>2, GotoDated DEF Dated, StoringPlaces
<1>5. \/ \E how \in {"config_invalid", "token_unusable"} : End(r, how)
      \/ \E y : /\ Goto(r, "discover", [held[r] EXCEPT !.now = clock, !.by = y])
                /\ y \in {NoRecord, recordFile}
                /\ y = recordFile /\ y.state # "absent" => ~IsExpired(recordFile, clock)
      \/ Goto(r, "refresh", [held[r] EXCEPT !.refresh = recordFile.refresh, !.now = clock])
    <2>1. ASSUME NEW record, UseStored(r, record)
          PROVE  \/ End(r, "config_invalid")
                 \/ Goto(r, "discover", [held[r] EXCEPT !.now = clock, !.by = record])
        BY <2>1, Zenon DEF UseStored
    <2>2. NoRecord = recordFile => recordFile.state = "absent"
        BY DEF NoRecord
    <2>3. CASE UseStored(r, NoRecord)
        BY <2>1, <2>2, <2>3
    <2>4. CASE UseStored(r, recordFile) /\ ~IsExpired(recordFile, clock)
        BY <2>1, <2>4
    <2> QED
        BY <2>3, <2>4 DEF ReadRecord
<1> QED
    BY <1>2, <1>3, <1>4, <1>5

LEMMA IssueDated ==
    ASSUME TypeOK, NEW r \in Run, Dated(r), NEW refresh, Issue(r, "open_token", refresh),
           pc[r] # "ended"
    PROVE  Later /\ Apart(r) /\ Dated(r)'
<1>1. PICK lifetime \in Lifetimes, l \in Lifetimes \cup {Never} :
        /\ grants' = Append(grants, clock + lifetime)
        /\ \/ Goto(r, "open_token", [held[r] EXCEPT !.token = Len(grants) + 1, !.refresh = refresh,
                                                    !.round = 0, !.code = None, !.lasts = l])
           \/ End(r, "login_failed")
    BY Zenon DEF Issue
<1> DEFINE h == [held[r] EXCEPT !.token = Len(grants) + 1, !.refresh = refresh,
                                !.round = 0, !.code = None, !.lasts = l]
<1>2. /\ h.by = held[r].by /\ h.now = held[r].now /\ h.lasts = l
      /\ h.expires = held[r].expires /\ h.token = Len(grants) + 1
    BY Shapes DEF Fields
<1>3. /\ clock + lifetime \in Nat /\ grants \in Seq(Nat) /\ l \in Int
    BY TimesAssumption DEF TypeOK, Never
<1>4. Later /\ Len(grants) + 1 \in DOMAIN grants'
    BY <1>1, <1>3 DEF Later
<1>5. CASE Goto(r, "open_token", h)
    <2> HIDE DEF h
    <2>1. h.by.expires # Never => h.by.of \in DOMAIN grants' /\ h.by.expires > h.now + Margin
        BY <1>2, <1>4 DEF Dated, Later
    <2> QED
        BY <1>2, <1>3, <1>4, <1>5, <2>1, GotoDated DEF Dated
<1>6. CASE End(r, "login_failed")
    BY <1>4, <1>6, EndDated
<1> QED
    BY <1>1, <1>5, <1>6

LEMMA RefreshDated ==
    ASSUME TypeOK, NEW r \in Run, Dated(r), Refresh(r)
    PROVE  Later /\ Apart(r) /\ Dated(r)'
<1>1. pc[r] = "refresh"
    BY DEF Refresh
<1>2. CASE Refused(r)
    BY <1>2, EndDated DEF Refused, Later
<1>3. CASE \E new : Issue(r, "open_token", new)
    BY <1>1, <1>3, IssueDated
<1> QED
    BY <1>2, <1>3, Zenon DEF Refresh

LEMMA RedeemDated ==
    ASSUME TypeOK, NEW r \in Run, Dated(r), Redeem(r)
    PROVE  Later /\ Apart(r) /\ Dated(r)'
<1>1. pc[r] = "redeem"
    BY DEF Redeem
<1>2. CASE Refused(r)
    BY <1>2, EndDated DEF Refused, Later
<1>3. CASE \E new : Issue(r, "open_token", new)
    BY <1>1, <1>3, IssueDated
<1> DEFINE h == [held[r] EXCEPT !.sad = held[r].asked]
<1>4. CASE Goto(r, "sign_hash", h) /\ UNCHANGED grants
    <2>1. /\ h.by = held[r].by /\ h.now = held[r].now /\ h.lasts = held[r].lasts
          /\ h.expires = held[r].expires
        BY Shapes DEF Fields
    <2> HIDE DEF h
    <2>2. Later
        BY <1>4 DEF Later
    <2> QED
        BY <1>1, <1>4, <2>1, <2>2, CarriedDated DEF StoringPlaces
<1>5. Refused(r) \/ (\E new : Issue(r, "open_token", new))
        \/ (Goto(r, "sign_hash", h) /\ UNCHANGED grants)
    BY Zenon DEF Redeem
<1> QED
    BY <1>2, <1>3, <1>4, <1>5

\* The steps that store: the record written is of the token held.
LEMMA StorageDated ==
    ASSUME TypeOK, NEW r \in Run, Dated(r), RecordDated, Storage(r)
    PROVE  Later /\ Apart(r) /\ Dated(r)' /\ RecordDated'
<1>1. /\ UNCHANGED grants /\ Storing(r) /\ pc[r] # "ended" /\ held[r].token \in DOMAIN grants
      /\ clock \in Nat
    BY DEF Storage, OpenToken, WriteToken, OpenRecord, WriteRecord, issued, Storing, Dated, TypeOK
<1>2. Later
    BY <1>1 DEF Later
<1>3. ASSUME recordFile' = recordFile \/ recordFile' = TornRecord \/ recordFile' = RecordOf(r)
      PROVE  RecordDated'
    <2>1. TornRecord.expires = Never /\ TornRecord.state = "torn" /\ Never \in Int
        BY DEF TornRecord, NoRecord, Never
    <2>2. /\ RecordOf(r).expires \in Int /\ RecordOf(r).state = "whole"
          /\ RecordOf(r).of \in DOMAIN grants
        BY <1>1 DEF RecordOf, Dated
    <2>3. PICK record : record = recordFile'
        OBVIOUS
    <2>4. /\ record.expires \in Int
          /\ record.state = "absent" => record.expires = Never
          /\ record.expires # Never => record.of \in DOMAIN grants
        BY <1>3, <2>1, <2>2, <2>3 DEF RecordDated
    <2> QED
        BY <1>1, <2>3, <2>4 DEF RecordDated
<1>4. ASSUME Fails(r) PROVE Apart(r) /\ Dated(r)'
    BY <1>4, EndDated DEF Fails
<1>5. CASE OpenToken(r)
    <2> DEFINE h == [held[r] EXCEPT !.expires = Ends(r)]
    <2>1. /\ h.by = held[r].by /\ h.now = held[r].now /\ h.lasts = held[r].lasts
          /\ h.expires = Ends(r) /\ h.token = held[r].token
        BY Shapes DEF Fields
    <2>2. Ends(r) \in Int
        BY <1>1 DEF Ends, Dated, Never
    <2>3. Fails(r) \/ Goto(r, "write_token", h)
        BY <1>5 DEF OpenToken, Goes
    <2> HIDE DEF h
    <2>4. ASSUME Goto(r, "write_token", h) PROVE Apart(r) /\ Dated(r)'
        BY <1>1, <2>1, <2>2, <2>4, GotoDated DEF Dated
    <2>5. recordFile' = recordFile
        BY <1>5 DEF OpenToken
    <2> QED
        BY <1>2, <1>3, <1>4, <2>3, <2>4, <2>5
<1>6. CASE WriteToken(r)
    <2>1. (Fails(r) \/ Goto(r, "open_record", held[r])) /\ recordFile' = recordFile
        BY <1>6 DEF WriteToken, Goes
    <2>2. ASSUME Goto(r, "open_record", held[r]) PROVE Apart(r) /\ Dated(r)'
        BY <1>1, <1>2, <2>2, CarriedDated
    <2> QED
        BY <1>2, <1>3, <1>4, <2>1, <2>2
<1>7. CASE OpenRecord(r)
    <2>1. /\ Fails(r) \/ Goto(r, "write_record", held[r])
          /\ recordFile' = recordFile \/ recordFile' = TornRecord
        BY <1>7 DEF OpenRecord, Goes
    <2>2. ASSUME Goto(r, "write_record", held[r]) PROVE Apart(r) /\ Dated(r)'
        BY <1>1, <1>2, <2>2, CarriedDated
    <2> QED
        BY <1>2, <1>3, <1>4, <2>1, <2>2
<1>8. CASE WriteRecord(r)
    <2> DEFINE h == [Idle EXCEPT !.token = held[r].token]
    <2>1. h.by = Idle.by /\ h.now = Idle.now /\ h.lasts = Idle.lasts /\ h.expires = Idle.expires
        BY IdleHeld DEF Fields
    <2>2. /\ Fails(r) \/ Goto(r, "discover", h) \/ Goto(r, "describe", h)
          /\ recordFile' = recordFile \/ recordFile' = RecordOf(r)
        BY <1>8 DEF WriteRecord, Goes
    <2> HIDE DEF h
    <2>3. ASSUME Goto(r, "discover", h) \/ Goto(r, "describe", h) PROVE Apart(r) /\ Dated(r)'
        BY <1>1, <2>1, <2>3, GotoDated, IdleDates DEF Dated, StoringPlaces
    <2> QED
        BY <1>2, <1>3, <1>4, <2>2, <2>3
<1> QED
    BY <1>5, <1>6, <1>7, <1>8 DEF Storage

LEMMA DiscoverDated ==
    ASSUME TypeOK, NEW r \in Run, Dated(r), Discover(r) \/ Describe(r)
    PROVE  Apart(r) /\ Dated(r)'
<1>1. UNCHANGED grants /\ pc[r] # "ended" /\ Later
    BY DEF Discover, Describe, issued, Later
<1>2. Refusal(r) # "token_rejected"
    BY DEF Refusal, Sole
<1>3. CASE Discover(r)
    <2>1. \/ End(r, "rejected") \/ TokenRejected(r) \/ End(r, Refusal(r))
          \/ Goto(r, IF Is(r, "login") THEN "bind" ELSE "authorize", held[r])
        BY <1>3, Zenon DEF Discover, Rejected
    <2>2. CASE Goto(r, IF Is(r, "login") THEN "bind" ELSE "authorize", held[r])
        BY <1>1, <2>2, CarriedDated DEF StoringPlaces
    <2> QED
        BY <1>1, <1>2, <2>1, <2>2, EndDated, RejectDated
<1>4. CASE Describe(r)
    <2>1. \E how : how # "token_rejected" /\ End(r, how)
        <3>1. \/ End(r, "ok") \/ End(r, "rejected")
              \/ End(r, IF CredentialReadable THEN "ok" ELSE "credential_unusable")
            BY <1>4, Zenon DEF Describe, Rejected
        <3> QED
            BY <3>1
    <2> QED
        BY <2>1, EndDated
<1> QED
    BY <1>3, <1>4

LEMMA RoundDated ==
    ASSUME TypeOK, NEW r \in Run, Dated(r),
           Bind(r) \/ Arrive(r) \/ ServeStranger(r) \/ ServeRedirect(r) \/ GiveUp(r)
    PROVE  Apart(r) /\ Dated(r)'
<1>1. UNCHANGED grants /\ pc[r] \in {"bind", "wait"} /\ Later
    BY DEF Bind, Arrive, ServeStranger, ServeRedirect, GiveUp, issued, Later
<1>2. ASSUME NEW place \in {"wait", "redeem"}, NEW h, Goto(r, place, h),
             h.by = held[r].by, h.now = held[r].now, h.lasts = held[r].lasts,
             h.expires = held[r].expires
      PROVE  Apart(r) /\ Dated(r)'
    BY <1>1, <1>2, CarriedDated DEF StoringPlaces
<1>3. CASE Bind(r)
    <2> DEFINE h == [held[r] EXCEPT !.round = rounds + 1, !.left = Timeout]
    <2>1. End(r, "login_failed") \/ Goto(r, "wait", h)
        BY <1>3, Zenon DEF Bind
    <2>2. /\ h.by = held[r].by /\ h.now = held[r].now /\ h.lasts = held[r].lasts
          /\ h.expires = held[r].expires
        BY Shapes DEF Fields
    <2> HIDE DEF h
    <2> QED
        BY <1>2, <2>1, <2>2, EndDated
<1>4. CASE Arrive(r) \/ ServeStranger(r)
    <2>1. PICK x : Goto(r, "wait", [held[r] EXCEPT !.knock = x])
        BY <1>4, Zenon DEF Arrive, ServeStranger
    <2> DEFINE h == [held[r] EXCEPT !.knock = x]
    <2>2. /\ h.by = held[r].by /\ h.now = held[r].now /\ h.lasts = held[r].lasts
          /\ h.expires = held[r].expires
        BY Shapes DEF Fields
    <2>3. Goto(r, "wait", h)
        BY <2>1
    <2> HIDE DEF h
    <2> QED
        BY <1>2, <2>2, <2>3
<1>5. CASE ServeRedirect(r)
    <2>1. \/ End(r, "login_failed") \/ End(r, "state_mismatch")
          \/ \E x : Goto(r, "redeem", [held[r] EXCEPT !.code = x])
        BY <1>5, Zenon DEF ServeRedirect
    <2>2. CASE \E x : Goto(r, "redeem", [held[r] EXCEPT !.code = x])
        <3>1. PICK x : Goto(r, "redeem", [held[r] EXCEPT !.code = x])
            BY <2>2
        <3> DEFINE h == [held[r] EXCEPT !.code = x]
        <3>2. /\ h.by = held[r].by /\ h.now = held[r].now /\ h.lasts = held[r].lasts
              /\ h.expires = held[r].expires
            BY Shapes DEF Fields
        <3>3. Goto(r, "redeem", h)
            BY <3>1
        <3> HIDE DEF h
        <3> QED
            BY <1>2, <3>2, <3>3
    <2> QED
        BY <2>1, <2>2, EndDated
<1>6. CASE GiveUp(r)
    BY <1>6, EndDated DEF GiveUp
<1> QED
    BY <1>3, <1>4, <1>5, <1>6

LEMMA SigningDated ==
    ASSUME TypeOK, NEW r \in Run, Dated(r), Authorize(r) \/ SignHash(r)
    PROVE  Apart(r) /\ Dated(r)'
<1>1. UNCHANGED grants /\ pc[r] # "ended" /\ Later
    BY DEF Authorize, SignHash, issued, Later
<1>2. ASSUME NEW place \in {"bind", "sign_hash", "write", "authorize"}, NEW h, Goto(r, place, h),
             h.by = held[r].by, h.now = held[r].now, h.lasts = held[r].lasts,
             h.expires = held[r].expires
      PROVE  Apart(r) /\ Dated(r)'
    BY <1>1, <1>2, CarriedDated DEF StoringPlaces
<1>3. CASE Authorize(r)
    <2> DEFINE h == [held[r] EXCEPT !.asked = Authorised(r)]
               k == [h EXCEPT !.sad = h.asked]
    <2>1. /\ DOMAIN h = Fields
          /\ h.by = held[r].by /\ h.now = held[r].now /\ h.lasts = held[r].lasts
          /\ h.expires = held[r].expires
        BY Shapes DEF Fields
    <2>2. k.by = h.by /\ k.now = h.now /\ k.lasts = h.lasts /\ k.expires = h.expires
        <3> HIDE DEF h
        <3> QED
            BY <2>1 DEF Fields
    <2>3. End(r, "rejected") \/ TokenRejected(r) \/ Goto(r, "bind", h) \/ Goto(r, "sign_hash", k)
        BY <1>3, Zenon DEF Authorize, Post, Rejected
    <2> HIDE DEF h, k
    <2> QED
        BY <1>1, <1>2, <2>1, <2>2, <2>3, EndDated, RejectDated
<1>4. CASE SignHash(r)
    <2>1. \/ End(r, "rejected") \/ End(r, "signature_invalid") \/ TokenRejected(r)
          \/ \E made : Goto(r, IF Len(made) = Signatures THEN "write" ELSE "authorize",
                            [held[r] EXCEPT !.signed = made, !.sad = None, !.code = None,
                                            !.asked = None])
        BY <1>4, Zenon DEF SignHash, Rejected, Post
    <2>2. CASE \E made : Goto(r, IF Len(made) = Signatures THEN "write" ELSE "authorize",
                            [held[r] EXCEPT !.signed = made, !.sad = None, !.code = None,
                                            !.asked = None])
        <3>1. PICK made : Goto(r, IF Len(made) = Signatures THEN "write" ELSE "authorize",
                            [held[r] EXCEPT !.signed = made, !.sad = None, !.code = None,
                                            !.asked = None])
            BY <2>2
        <3> DEFINE h == [held[r] EXCEPT !.signed = made, !.sad = None, !.code = None,
                                        !.asked = None]
                   place == IF Len(made) = Signatures THEN "write" ELSE "authorize"
        <3>2. /\ h.by = held[r].by /\ h.now = held[r].now /\ h.lasts = held[r].lasts
              /\ h.expires = held[r].expires
            BY Shapes DEF Fields
        <3>3. Goto(r, place, h) /\ place \in {"write", "authorize"}
            BY <3>1
        <3> HIDE DEF h, place
        <3> QED
            BY <1>2, <3>2, <3>3
    <2> QED
        BY <1>1, <2>1, <2>2, EndDated, RejectDated
<1> QED
    BY <1>3, <1>4

LEMMA LastDated ==
    ASSUME TypeOK, NEW r \in Run, Dated(r), WriteFile(r) \/ Kill(r)
    PROVE  Apart(r) /\ Dated(r)'
<1>1. CASE \E how \in {"not_written", "killed"} : End(r, how)
    BY <1>1, EndDated
<1>2. CASE /\ pc' = [pc EXCEPT ![r] = "ended"] /\ outcome' = [outcome EXCEPT ![r] = "ok"]
           /\ output' = [output EXCEPT ![r] = held[r].signed] /\ held' = [held EXCEPT ![r] = Idle]
    BY <1>2, Shapes, IdleDates DEF Apart, Dated, Storing
<1> QED
    BY <1>1, <1>2 DEF WriteFile, Kill

\* Nothing about a run changes but by its own steps and the clock.
LEMMA OthersDated ==
    ASSUME NEW q \in Run, Dated(q), Later, pc'[q] = pc[q], outcome'[q] = outcome[q],
           /\ held'[q].by = held[q].by /\ held'[q].now = held[q].now
           /\ held'[q].lasts = held[q].lasts /\ held'[q].expires = held[q].expires
           /\ held'[q].token = held[q].token /\ held'[q].ended = held[q].ended
    PROVE  Dated(q)'
<1>1. Storing(q)' <=> Storing(q)
    BY DEF Storing
<1>2. LastedTheMargin(held[q]) /\ held[q].by.expires # Never => LastedTheMargin(held[q])'
    <2>1. SUFFICES ASSUME LastedTheMargin(held[q]), held[q].by.of = held[q].token,
                          held[q].by.expires # Never, held[q].by.expires <= grants'[held[q].token]
                   PROVE  held[q].ended > held[q].now + Margin
        BY DEF LastedTheMargin
    <2>2. grants'[held[q].token] = grants[held[q].token]
        BY <2>1 DEF Dated, Later
    <2> QED
        BY <2>1, <2>2 DEF LastedTheMargin
<1>3. held[q].by.expires = Never => LastedTheMargin(held[q])'
    BY DEF LastedTheMargin
<1> QED
    BY <1>1, <1>2, <1>3 DEF Dated, Later

AllDated == RecordDated /\ \A r \in Run : Dated(r)

LEMMA DatedStep ==
    ASSUME TypeOK, AllDated, [Next]_vars
    PROVE  AllDated'
<1>1. ASSUME NEW r \in Run, Step(r) \/ Arrive(r) \/ ServeRedirect(r) \/ Kill(r)
      PROVE  Later /\ Apart(r) /\ Dated(r)' /\ RecordDated'
    <2>1. CASE Storage(r)
        BY <2>1, StorageDated DEF AllDated
    <2>2. CASE ~Storage(r)
        <3>1. UNCHANGED recordFile
            BY <1>1, <2>2 DEF Step, Storage, Load, ReadRecord, Refresh, Redeem, Discover, Describe,
               Bind, ServeStranger, GiveUp, Authorize, SignHash, WriteFile, Arrive, ServeRedirect,
               Kill, files
        <3>2. Refresh(r) \/ Redeem(r) \/ UNCHANGED grants
            BY <1>1, <2>2 DEF Step, Storage, Load, ReadRecord, Discover, Describe,
               Bind, ServeStranger, GiveUp, Authorize, SignHash, WriteFile, Arrive, ServeRedirect,
               Kill, issued
        <3>3. Later
            BY <3>2, RefreshDated, RedeemDated DEF AllDated, Later
        <3>4. RecordDated'
            BY <3>1, <3>3 DEF AllDated, RecordDated, Later
        <3>5. Apart(r) /\ Dated(r)'
            BY <1>1, <2>2, LoadDated, ReadRecordDated, RefreshDated, RedeemDated, DiscoverDated,
               RoundDated, SigningDated, LastDated DEF AllDated, Step, Storage
        <3> QED
            BY <3>3, <3>4, <3>5
    <2> QED
        BY <2>1, <2>2
<1>2. ASSUME NEW r \in Run, Step(r) \/ Arrive(r) \/ ServeRedirect(r) \/ Kill(r)
      PROVE  AllDated'
    <2>1. ASSUME NEW q \in Run \ {r} PROVE Dated(q)'
        BY <1>1, <1>2, OthersDated DEF Apart, AllDated
    <2> QED
        BY <1>1, <1>2, <2>1 DEF AllDated
<1>3. CASE Tick
    <2>1. UNCHANGED <<grants, pc, outcome, recordFile>> /\ Later
        BY <1>3 DEF Tick, issued, files, Later
    <2>2. ASSUME NEW r \in Run PROVE Dated(r)'
        <3> DEFINE h == [held[r] EXCEPT !.left = held[r].left - 1]
        <3>1. held'[r] = held[r] \/ held'[r] = h
            BY <1>3 DEF Tick
        <3>2. /\ h.by = held[r].by /\ h.now = held[r].now /\ h.lasts = held[r].lasts
              /\ h.expires = held[r].expires /\ h.token = held[r].token /\ h.ended = held[r].ended
            BY Shapes DEF Fields
        <3> HIDE DEF h
        <3> QED
            BY <2>1, <3>1, <3>2, OthersDated DEF AllDated
    <2> QED
        BY <2>1, <2>2 DEF AllDated, RecordDated
<1>4. CASE UNCHANGED vars
    <2>1. Later /\ UNCHANGED <<pc, outcome, held, recordFile, grants>>
        BY <1>4 DEF vars, Later
    <2>2. \A r \in Run : Dated(r)'
        BY <2>1, OthersDated DEF AllDated
    <2> QED
        BY <2>1, <2>2 DEF AllDated, RecordDated
<1> QED
    BY <1>2, <1>3, <1>4, Zenon DEF Next, Done

\* A token a run used because the record beside it said it was fresh is taken
\* for longer than the margin; if the service refuses it sooner, the record was
\* of another token or promised more than the service had granted (load_record,
\* is_expired, store).
THEOREM Freshness == Spec => []FreshTokensAreTaken
<1>1. Init => AllDated
    <2> SUFFICES ASSUME Init PROVE AllDated
        OBVIOUS
    <2>1. RecordDated
        <3>1. /\ NoRecord.expires = Never /\ Never \in Int /\ Nat \subseteq Int
              /\ 1 \in DOMAIN <<FirstGrant>>
            BY DEF NoRecord, Never
        <3>2. PICK store \in Stores : recordFile = store.record
            BY DEF Init
        <3>3. grants = <<FirstGrant>>
            BY DEF Init
        <3> QED
            BY <3>1, <3>2, <3>3, StoresAssumption DEF RecordDated
    <2>2. ASSUME NEW r \in Run PROVE Dated(r)
        <3>1. held[r] = Idle /\ outcome[r] = "none" /\ pc[r] = "load"
            BY DEF Init
        <3> QED
            BY <3>1, IdleDates DEF Dated, Storing
    <2> QED
        BY <2>1, <2>2 DEF AllDated
<1>2. TypeOK /\ AllDated /\ [Next]_vars => AllDated'
    BY DatedStep
<1>3. AllDated => FreshTokensAreTaken
    <2> SUFFICES ASSUME AllDated, NEW r \in Run, outcome[r] = "token_rejected"
                 PROVE  LastedTheMargin(held[r])
        BY DEF FreshTokensAreTaken, LastedTheMargin
    <2> QED
        BY DEF AllDated, Dated
<1> QED
    BY <1>1, <1>2, <1>3, Typing, PTL DEF Spec

=============================================================================
