----------------------------- MODULE AcmeCerts -----------------------------
(* Certificates from an ACME CA: a request or the renewal loop starts a task   *)
(* that proves control of every name of an order with an answer (an HTTP       *)
(* token, a TXT record in a zone hosted here, or one at Cloudflare), fetches   *)
(* the certificate, and takes the answers away again.  Tasks of different      *)
(* certificates run side by side, an administrator deletes and uploads         *)
(* meanwhile, and the server may restart.                                      *)
EXTENDS Naturals, FiniteSets

CONSTANTS
    AcCerts,      \* the certificate names
    AcChallenge,  \* certificate -> "http", "dns" or "cloudflare"
    AcDomains,    \* certificate -> the domains its order is for
    AcMaxTasks, AcMaxFaults, AcMaxEdits

ASSUME AcAssumption == AcMaxTasks \in Nat

AcTasks == 1..AcMaxTasks

VARIABLES
    acRows,       \* certificate -> status of its ACME row, or "none"
    acStored,     \* certificate -> "none", "fresh", "due" (inside the renewal window), "upload"
    acIssuing,    \* Acme.in_progress
    acTasks,      \* task -> [pc, name, todo, placed, told, ok]
    acAnswers,    \* <<task, domain>> whose answer is in place
    acLeft,       \* of those, the ones whose removal failed or was never possible
    acAccount,    \* the CA account is stored
    acTerms,      \* agree_terms
    acRenewer,    \* the renewal loop: [todo, task]
    acUsed, acFaults, acEdits

acVars == <<acRows, acStored, acIssuing, acTasks, acAnswers, acLeft, acAccount, acTerms, acRenewer, acUsed,
            acFaults, acEdits>>
acCalm == <<acFaults, acEdits>>
acTable == <<acRows, acStored>>
acPlaced == <<acAnswers, acLeft>>
acStart == <<acRenewer, acUsed>>

AcNoTask == [pc |-> "none", name |-> "", todo |-> {}, placed |-> {}, told |-> FALSE, ok |-> FALSE]
AcRunning == {t \in AcTasks : acTasks[t].pc \notin {"none", "spawned", "recording"}}
AcFault == acFaults < AcMaxFaults /\ acFaults' = acFaults + 1 /\ UNCHANGED acEdits
AcEdit == acEdits < AcMaxEdits /\ acEdits' = acEdits + 1 /\ UNCHANGED acFaults
AcTo(t, pc) == acTasks' = [acTasks EXCEPT ![t].pc = pc]
AcStatus(n, status) == acRows' = [acRows EXCEPT ![n] = IF @ = "none" THEN "none" ELSE status]

\* tokio::spawn(issue(name)).
AcSpawn(n) ==
    /\ acUsed < AcMaxTasks /\ acUsed' = acUsed + 1
    /\ acTasks' = [acTasks EXCEPT ![acUsed + 1] = [AcNoTask EXCEPT !.pc = "spawned", !.name = n]]

(* ------------------------------- the console ------------------------------ *)

\* request_acme_certificate: a new name only.
AcRequest(n) ==
    /\ acTerms /\ acRows[n] = "none" /\ acStored[n] = "none" /\ AcSpawn(n)
    /\ acRows' = [acRows EXCEPT ![n] = "pending"]
    /\ UNCHANGED <<acStored, acIssuing, acPlaced, acAccount, acTerms, acRenewer, acCalm>>

\* renew_acme_certificate.
AcRenew(n) ==
    /\ acRows[n] # "none" /\ n \notin acIssuing /\ AcEdit /\ AcSpawn(n)
    /\ UNCHANGED <<acTable, acIssuing, acPlaced, acAccount, acTerms, acRenewer>>

\* create_certificate: never over an ACME certificate.
AcUpload(n) ==
    /\ acRows[n] = "none" /\ AcEdit
    /\ acStored' = [acStored EXCEPT ![n] = "upload"]
    /\ UNCHANGED <<acRows, acIssuing, acTasks, acPlaced, acAccount, acTerms, acStart>>

\* delete_certificate of one no listener selects: both rows go.
AcDelete(n) ==
    /\ acRows[n] # "none" \/ acStored[n] # "none"
    /\ AcEdit
    /\ acRows' = [acRows EXCEPT ![n] = "none"] /\ acStored' = [acStored EXCEPT ![n] = "none"]
    /\ UNCHANGED <<acIssuing, acTasks, acPlaced, acAccount, acTerms, acStart>>

\* put_acme_settings.
AcSaveSettings ==
    /\ AcEdit /\ acTerms' = ~acTerms
    /\ UNCHANGED <<acTable, acIssuing, acTasks, acPlaced, acAccount, acStart>>

(* ---------------------------- the renewal loop ---------------------------- *)

\* due: never issued, or within the renewal window of its expiry.
AcDue(n) == acStored[n] \in {"none", "due"}

\* renew_due lists the ACME rows ...
AcRenewTick ==
    /\ acTerms /\ acRenewer = [todo |-> {}, task |-> 0]
    /\ acRenewer' = [acRenewer EXCEPT !.todo = {n \in AcCerts : acRows[n] # "none"}]
    /\ acRenewer' # acRenewer
    /\ UNCHANGED <<acTable, acIssuing, acTasks, acPlaced, acAccount, acTerms, acUsed, acCalm>>

\* ... and issues the due ones one after the other.
AcRenewNext(n) ==
    /\ n \in acRenewer.todo /\ acRenewer.task = 0
    /\ IF AcDue(n)
       THEN AcSpawn(n) /\ acRenewer' = [todo |-> acRenewer.todo \ {n}, task |-> acUsed + 1]
       ELSE acRenewer' = [acRenewer EXCEPT !.todo = @ \ {n}] /\ UNCHANGED <<acTasks, acUsed>>
    /\ UNCHANGED <<acTable, acIssuing, acPlaced, acAccount, acTerms, acCalm>>

AcAge(n) ==
    /\ acStored[n] = "fresh" /\ acStored' = [acStored EXCEPT ![n] = "due"]
    /\ UNCHANGED <<acRows, acIssuing, acTasks, acPlaced, acAccount, acTerms, acStart, acCalm>>

(* --------------------------------- a task --------------------------------- *)

\* The task has returned: its slot is empty and the loop may go on.
AcReturn(t) ==
    /\ acTasks' = [acTasks EXCEPT ![t] = AcNoTask]
    /\ acRenewer' = [acRenewer EXCEPT !.task = IF @ = t THEN 0 ELSE @]

\* issue: one task per certificate, the second is refused.
AcIssue(t) ==
    LET n == acTasks[t].name IN
    /\ acTasks[t].pc = "spawned"
    /\ IF n \in acIssuing
       THEN AcReturn(t) /\ UNCHANGED acIssuing
       ELSE acIssuing' = acIssuing \cup {n} /\ AcTo(t, "read") /\ UNCHANGED acRenewer
    /\ UNCHANGED <<acTable, acPlaced, acAccount, acTerms, acUsed, acCalm>>

\* issue_locked: the row, the terms, the account, the order.  Any of them
\* missing, or a refusal by the CA, ends the task with an error.
AcOpen(t) ==
    LET n == acTasks[t].name IN
    /\ acTasks[t].pc = "read"
    /\ AcStatus(n, "pending")
    /\ AcTo(t, IF acRows[n] = "none" \/ ~acTerms THEN "release" ELSE "account")
    /\ UNCHANGED <<acStored, acIssuing, acPlaced, acAccount, acTerms, acStart, acCalm>>

AcGetAccount(t) ==
    /\ acTasks[t].pc = "account"
    /\ \/ acTasks' = [acTasks EXCEPT ![t].pc = "prove", ![t].todo = AcDomains[acTasks[t].name]] /\ acAccount' = TRUE
       \/ AcTo(t, "release") /\ acAccount' \in {acAccount, TRUE}
    /\ UNCHANGED <<acTable, acIssuing, acPlaced, acTerms, acStart, acCalm>>

\* prove_control, first loop: an authorization that is already valid needs no
\* answer; otherwise the answer goes in place and is remembered.
AcPlace(t, d) ==
    /\ acTasks[t].pc = "prove" /\ d \in acTasks[t].todo
    /\ \/ /\ acTasks' = [acTasks EXCEPT ![t].todo = @ \ {d}, ![t].placed = @ \cup {d}]
          /\ acAnswers' = acAnswers \cup {<<t, d>>}
       \/ acTasks' = [acTasks EXCEPT ![t].todo = @ \ {d}] /\ UNCHANGED acAnswers
       \/ AcTo(t, "clean") /\ UNCHANGED acAnswers
    /\ UNCHANGED <<acTable, acIssuing, acLeft, acAccount, acTerms, acStart, acCalm>>

\* add_txt_record whose reload fails, or a Cloudflare request that times out
\* once it has been carried out: the record is there and its id is not known.
AcPlaceUnknown(t, d) ==
    /\ acTasks[t].pc = "prove" /\ d \in acTasks[t].todo /\ AcChallenge[acTasks[t].name] # "http" /\ AcFault
    /\ acAnswers' = acAnswers \cup {<<t, d>>} /\ acLeft' = acLeft \cup {<<t, d>>}
    /\ AcTo(t, "clean")
    /\ UNCHANGED <<acTable, acIssuing, acAccount, acTerms, acStart>>

\* Mutant of AcTell: the CA is told of each answer as it goes in.
AcTellEach(t) ==
    /\ acTasks[t].pc = "prove" /\ acTasks[t].placed # {}
    /\ acTasks' = [acTasks EXCEPT ![t].pc = IF acTasks[t].todo = {} THEN "finish" ELSE @, ![t].told = TRUE]
    /\ UNCHANGED <<acTable, acIssuing, acPlaced, acAccount, acTerms, acStart, acCalm>>

\* prove_control, second loop, once every answer is in place.
AcTell(t) ==
    /\ acTasks[t].pc = "prove" /\ acTasks[t].todo = {}
    /\ \/ acTasks' = [acTasks EXCEPT ![t].pc = "finish", ![t].told = TRUE]
       \/ acTasks' = [acTasks EXCEPT ![t].pc = "clean", ![t].told = TRUE]
    /\ UNCHANGED <<acTable, acIssuing, acPlaced, acAccount, acTerms, acStart, acCalm>>

\* finish_order: the CA verifies and issues, or does not.
AcFinish(t) ==
    /\ acTasks[t].pc = "finish"
    /\ \E ok \in BOOLEAN : acTasks' = [acTasks EXCEPT ![t].pc = "clean", ![t].ok = ok]
    /\ UNCHANGED <<acTable, acIssuing, acPlaced, acAccount, acTerms, acStart, acCalm>>

AcMine(t) == {<<t, d>> : d \in acTasks[t].placed}

\* Challenges.clean_up, whatever happened; a failed removal is only logged.
AcCleanUp(t) ==
    /\ acTasks[t].pc = "clean"
    /\ \/ acAnswers' = acAnswers \ AcMine(t) /\ UNCHANGED <<acLeft, acCalm>>
       \/ /\ AcChallenge[acTasks[t].name] # "http" /\ AcMine(t) # {} /\ AcFault
          /\ \E kept \in SUBSET AcMine(t) \ {{}} :
                 acAnswers' = (acAnswers \ AcMine(t)) \cup kept /\ acLeft' = acLeft \cup kept
    /\ acTasks' = [acTasks EXCEPT ![t].pc = IF acTasks[t].ok THEN "install" ELSE "release",
                                  ![t].placed = {}, ![t].told = FALSE]
    /\ UNCHANGED <<acTable, acIssuing, acAccount, acTerms, acStart>>

\* install_certificate: stored under its name, whatever is there by now.
AcInstall(t) ==
    /\ acTasks[t].pc = "install"
    /\ \/ acStored' = [acStored EXCEPT ![acTasks[t].name] = "fresh"] /\ AcTo(t, "release") /\ UNCHANGED acCalm
       \/ AcFault /\ acTasks' = [acTasks EXCEPT ![t].pc = "release", ![t].ok = FALSE] /\ UNCHANGED acStored
    /\ UNCHANGED <<acRows, acIssuing, acPlaced, acAccount, acTerms, acStart>>

\* The mark goes first ...
AcRelease(t) ==
    /\ acTasks[t].pc = "release" /\ AcTo(t, "recording") /\ acIssuing' = acIssuing \ {acTasks[t].name}
    /\ UNCHANGED <<acTable, acPlaced, acAccount, acTerms, acStart, acCalm>>

\* ... and the outcome is recorded after it.
AcRecord(t) ==
    /\ acTasks[t].pc = "recording"
    /\ AcStatus(acTasks[t].name, IF acTasks[t].ok THEN "valid" ELSE "failed") /\ AcReturn(t)
    /\ UNCHANGED <<acStored, acIssuing, acPlaced, acAccount, acTerms, acUsed, acCalm>>

\* The process ends: tasks, marks and HTTP tokens are memory.
AcRestart ==
    /\ AcFault
    /\ acTasks' = [t \in AcTasks |-> AcNoTask] /\ acIssuing' = {} /\ acRenewer' = [todo |-> {}, task |-> 0]
    /\ acAnswers' = {a \in acAnswers : a \in acLeft \/ AcChallenge[acTasks[a[1]].name] # "http"}
    /\ acLeft' = acAnswers'
    /\ UNCHANGED <<acTable, acAccount, acTerms, acUsed>>

AcInit ==
    /\ acRows = [n \in AcCerts |-> "none"] /\ acStored = [n \in AcCerts |-> "none"]
    /\ acIssuing = {} /\ acTasks = [t \in AcTasks |-> AcNoTask] /\ acAnswers = {} /\ acLeft = {}
    /\ acAccount = FALSE /\ acTerms = TRUE /\ acRenewer = [todo |-> {}, task |-> 0]
    /\ acUsed = 0 /\ acFaults = 0 /\ acEdits = 0

AcNext ==
    \/ \E n \in AcCerts : AcRequest(n) \/ AcRenew(n) \/ AcUpload(n) \/ AcDelete(n) \/ AcRenewNext(n) \/ AcAge(n)
    \/ \E t \in AcTasks : AcIssue(t) \/ AcOpen(t) \/ AcGetAccount(t) \/ AcTell(t) \/ AcFinish(t) \/ AcCleanUp(t)
                           \/ AcInstall(t) \/ AcRelease(t) \/ AcRecord(t)
    \/ \E t \in AcTasks : \E d \in acTasks[t].todo : AcPlace(t, d) \/ AcPlaceUnknown(t, d)
    \/ AcSaveSettings \/ AcRenewTick \/ AcRestart

AcSpec == AcInit /\ [][AcNext]_acVars

(* ------------------------------- properties ------------------------------- *)

\* While the CA has been told to look, every answer of the order is in place
\* and none is still to come (prove_control's two loops); one order per
\* certificate is open at a time (in_progress); and an answer outlives its
\* order only if it could not be removed or the server went down
\* (Challenges.clean_up runs on every way out of issue_locked).
ChallengesInStep ==
    /\ \A t \in AcRunning :
           /\ acTasks[t].told => acTasks[t].todo = {} /\ AcMine(t) \subseteq acAnswers
           /\ \A u \in AcRunning : acTasks[u].name = acTasks[t].name => u = t
    /\ \A a \in acAnswers : a \in acLeft \/ (a[1] \in AcRunning /\ a \in AcMine(a[1]))
=============================================================================
