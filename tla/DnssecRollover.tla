--------------------------- MODULE DnssecRollover ---------------------------
(* DNSSEC maintenance of one primary zone: signatures are renewed at half      *)
(* their validity and the signing key is rolled over (new key, overlap with    *)
(* both signing, old key retired, old key deleted), by passes of               *)
(* DnssecMaintenance that store their changes first and reload the catalog     *)
(* after the last zone.  Validators hold on to what they have seen.            *)
EXTENDS Naturals, FiniteSets

CONSTANTS
    DkRolloverAfter, DkOverlap, DkRetire,  \* dnssec_rollover_*_days
    DkValidity,                            \* dnssec_sig_validity_days
    DkCached,       \* the longest a validator keeps an answer or a DNSKEY set
    DkMaxTime, DkMaxKeys, DkMaxFaults

ASSUME DkAssumption ==
    {DkValidity, DkOverlap, DkRetire} \subseteq Nat \ {0} /\ {DkRolloverAfter, DkCached, DkMaxFaults} \subseteq Nat

VARIABLES
    dkNow,
    dkKeys,     \* stored keys: id -> [state, created, retired]
    dkServed,   \* what the catalog serves: [signers, dnskeys, at]
    dkSeen,     \* what validators may still hold: [signers, dnskeys, time]
    dkPass,     \* the maintenance pass: idle, renew, roll or reload
    dkLastSign, \* last_resign, in the process only
    dkSkipped,  \* a pass stored key changes and ended before its reload
    dkMade, dkFaults

dkVars == <<dkNow, dkKeys, dkServed, dkSeen, dkPass, dkLastSign, dkSkipped, dkMade, dkFaults>>

NewKey == [state |-> "active", created |-> dkNow, retired |-> 0]
Active(keys) == {k \in DOMAIN keys : keys[k].state = "active"}
Retired(keys) == {k \in DOMAIN keys : keys[k].state = "retired"}
Newest(keys) == CHOOSE t \in {keys[k].created : k \in Active(keys)} :
                  \A k \in Active(keys) : keys[k].created <= t

\* A reload signs with every active key, now, and publishes the retired ones too.
SignedZone(keys) == [signers |-> Active(keys), dnskeys |-> DOMAIN keys, at |-> dkNow]
Serve(keys) ==
    /\ dkServed' = SignedZone(keys)
    /\ dkSeen' = IF keys = <<>> THEN dkSeen
                 ELSE dkSeen \cup {[signers |-> Active(keys), dnskeys |-> DOMAIN keys, time |-> dkNow]}

AddKey(keys) == [k \in DOMAIN keys \cup {dkMade + 1} |-> IF k = dkMade + 1 THEN NewKey ELSE keys[k]]

\* sign_zone makes a key if the zone has none; unsign_zone deletes them all, and
\* the operator takes the DS away.
DkSign ==
    /\ dkKeys = <<>> /\ dkMade < DkMaxKeys
    /\ dkKeys' = AddKey(<<>>) /\ dkMade' = dkMade + 1
    /\ Serve(AddKey(<<>>))
    /\ UNCHANGED <<dkNow, dkPass, dkLastSign, dkSkipped, dkFaults>>

DkUnsign ==
    /\ dkKeys # <<>>
    /\ dkKeys' = <<>> /\ dkServed' = SignedZone(<<>>) /\ dkSeen' = {}
    /\ dkSkipped' = FALSE
    /\ UNCHANGED <<dkNow, dkPass, dkLastSign, dkMade, dkFaults>>

\* Mutant of RenewDue: at the end of the validity, not half-way.
RenewDueLate == dkNow - dkLastSign >= DkValidity

RenewDue == dkNow - dkLastSign >= DkValidity \div 2

\* The first half of a pass; a renewal that fails is tried again by the next one.
DkRenew(fails) ==
    /\ dkPass = "renew"
    /\ dkPass' = "roll"
    /\ IF ~RenewDue THEN ~fails /\ UNCHANGED <<dkServed, dkSeen, dkLastSign, dkFaults>>
       ELSE IF fails
       THEN dkFaults < DkMaxFaults /\ dkFaults' = dkFaults + 1 /\ UNCHANGED <<dkServed, dkSeen, dkLastSign>>
       ELSE Serve(dkKeys) /\ dkLastSign' = dkNow /\ UNCHANGED dkFaults
    /\ UNCHANGED <<dkNow, dkKeys, dkSkipped, dkMade>>

StartsRollover ==
    /\ DkRolloverAfter > 0 /\ dkMade < DkMaxKeys
    /\ Cardinality(Active(dkKeys)) = 1 /\ Retired(dkKeys) = {}
    /\ \A k \in Active(dkKeys) : dkNow - dkKeys[k].created >= DkRolloverAfter

\* Active keys whose successor has signed for the overlap period.
Superseded ==
    {k \in Active(dkKeys) : dkKeys[k].created < Newest(dkKeys) /\ dkNow - Newest(dkKeys) >= DkOverlap}

AgedOut == {k \in Retired(dkKeys) : dkNow - dkKeys[k].retired >= DkRetire}

\* process_rollover on the keys it has read: start, retire, delete.
DkRoll ==
    LET quiet == Active(dkKeys) = {} \/ (~StartsRollover /\ Superseded = {} /\ AgedOut = {})
        kept == [k \in DOMAIN dkKeys \ AgedOut |->
                   IF k \in Superseded THEN [dkKeys[k] EXCEPT !.state = "retired", !.retired = dkNow] ELSE dkKeys[k]]
    IN  /\ dkPass = "roll"
        /\ IF quiet THEN dkPass' = "idle" /\ UNCHANGED <<dkKeys, dkMade>>
           ELSE /\ dkPass' = "reload"
                /\ dkKeys' = IF StartsRollover THEN AddKey(kept) ELSE kept
                /\ dkMade' = IF StartsRollover THEN dkMade + 1 ELSE dkMade
        /\ UNCHANGED <<dkNow, dkServed, dkSeen, dkLastSign, dkSkipped, dkFaults>>

\* The reload after the last zone, or an error at a later zone that skips it.
DkReload ==
    /\ dkPass = "reload" /\ dkPass' = "idle" /\ Serve(dkKeys)
    /\ UNCHANGED <<dkNow, dkKeys, dkLastSign, dkSkipped, dkMade, dkFaults>>

DkLaterZoneFails ==
    /\ dkPass = "reload" /\ dkPass' = "idle"
    /\ dkFaults < DkMaxFaults /\ dkFaults' = dkFaults + 1
    /\ dkSkipped' = TRUE
    /\ UNCHANGED <<dkNow, dkKeys, dkServed, dkSeen, dkLastSign, dkMade>>

\* Any other reload (an edit, a health check) serves what is stored.
DkOtherReload ==
    /\ dkKeys # <<>> /\ dkServed # SignedZone(dkKeys) /\ Serve(dkKeys)
    /\ UNCHANGED <<dkNow, dkKeys, dkPass, dkLastSign, dkSkipped, dkMade, dkFaults>>

\* A start builds the catalog; the age of the signatures is counted anew.
DkRestart ==
    /\ dkFaults < DkMaxFaults /\ dkFaults' = dkFaults + 1
    /\ dkPass' = "idle" /\ dkLastSign' = dkNow
    /\ Serve(dkKeys)
    /\ UNCHANGED <<dkNow, dkKeys, dkSkipped, dkMade>>

\* One maintenance interval passes; validators forget what is too old.
DkTick ==
    /\ dkPass = "idle" /\ dkNow < DkMaxTime
    /\ dkNow' = dkNow + 1 /\ dkPass' = "renew"
    /\ dkSeen' = {s \in dkSeen : dkNow + 1 - s.time <= DkCached}
                 \cup (IF dkKeys = <<>> THEN {} ELSE
                       {[signers |-> dkServed.signers, dnskeys |-> dkServed.dnskeys, time |-> dkNow + 1]})
    /\ UNCHANGED <<dkKeys, dkServed, dkLastSign, dkSkipped, dkMade, dkFaults>>

DkInit ==
    /\ dkNow = 0 /\ dkKeys = <<>> /\ dkServed = [signers |-> {}, dnskeys |-> {}, at |-> 0]
    /\ dkSeen = {} /\ dkPass = "idle" /\ dkLastSign = 0 /\ dkSkipped = FALSE /\ dkMade = 0 /\ dkFaults = 0

DkNext ==
    \/ DkSign \/ DkUnsign \/ (\E f \in BOOLEAN : DkRenew(f)) \/ DkRoll \/ DkReload
    \/ DkLaterZoneFails \/ DkOtherReload \/ DkRestart \/ DkTick

DkSpec == DkInit /\ [][DkNext]_dkVars

\* Whatever answer and whatever DNSKEY set a validator still holds from the last
\* DkCached intervals, some key verifies the one with the other, all through a
\* rollover and over restarts; and the signatures served have not expired.  (Not
\* claimed once a pass stored key changes without reloading: dnssec.rs counts the
\* overlap from the stored time.)
SignedAnswersVerify ==
    dkKeys # <<>> /\ ~dkSkipped =>
      /\ \A s, t \in dkSeen : s.signers \cap t.dnskeys # {}
      /\ dkServed.at + DkValidity > dkNow
=============================================================================
