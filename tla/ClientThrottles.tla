-------------------------- MODULE ClientThrottles --------------------------
(* What a client may have of the server: DNS cookies (cookies.rs), the        *)
(* fixed-window query limits (core rate_limit.rs) and response rate limiting  *)
(* (core rrl.rs, rrl.rs), in the order the dispatcher consults them.          *)
EXTENDS Naturals, Integers, FiniteSets, FiniteSetsExt

CONSTANTS
    ThClients,      \* client addresses
    ThNetwork,      \* the network each is counted in (a prefix of its address)
    ThExempt,       \* addresses both limiters leave alone
    ThNames,        \* query names
    ThQueries,      \* the queries clients send, with what answers them
    ThChoices,      \* the settings an administrator chooses between
    ThParent,       \* the name one label up
    ThLimit, ThWindow,               \* client_max_queries in client_window_secs
    ThDomainLimit, ThDomainWindow,   \* the same for a name
    ThAllowance,    \* VERIFIED_CLIENT_ALLOWANCE
    ThBuckets,      \* CLIENT_BUCKETS_CAP, DOMAIN_BUCKETS_CAP
    ThSweepAt,      \* SWEEP_AT_ENTRIES
    ThSweepEvery,   \* SWEEP_INTERVAL
    ThRate, ThRrlWindow, ThSlip,     \* responses a second, window_secs, slip
    ThAccounts,     \* MAX_ACCOUNTS
    ThRrlSweep,     \* SWEEP_EVERY
    ThCookieAge, ThCookieAhead,      \* MAX_AGE_SECS, MAX_FUTURE_SECS
    ThMaxTime, ThMaxQueries, ThMaxChanges   \* bounds

ASSUME ThAssumption ==
    /\ {ThLimit, ThWindow, ThDomainLimit, ThDomainWindow, ThAllowance, ThRate, ThRrlWindow} \subseteq Nat \ {0}
    /\ {ThBuckets, ThSweepAt, ThSweepEvery, ThSlip, ThAccounts, ThRrlSweep, ThMaxTime} \subseteq Nat
    /\ ThExempt \subseteq ThClients
    /\ ThQueries \subseteq [name : ThNames, class : {"answer", "nxdomain", "error"}, udp : BOOLEAN]

VARIABLES
    thNow,        \* seconds
    thClients,    \* buckets of the client networks seen
    thDomains,    \* buckets of the names seen
    thSwept,      \* last_sweep of the rate limiter
    thAccounts,   \* RRL accounts
    thRrlSwept,   \* last_sweep of the RRL
    thSettings,   \* what is on: the limits, RRL, log_only, cookies
    thJar,        \* the latest cookie each client was given
    thSecret,     \* the process, whose secret signs cookies
    thAdmitted,   \* history: tracked queries of a network admitted at a time
    thReplies,    \* history: countable responses sent in full at a time
    thUsed        \* queries and changes made
thVars == <<thNow, thClients, thDomains, thSwept, thAccounts, thRrlSwept, thSettings, thJar, thSecret,
            thAdmitted, thReplies, thUsed>>

Times == 0 .. ThMaxTime
Networks == {ThNetwork[c] : c \in ThClients}
Classes == {"answer", "nxdomain", "error"}
(* What RRL counts as the same response. *)
AccountName(class, name) == [answer |-> name, nxdomain |-> ThParent[name], error |-> "any"][class]
AccountKeys == {<<n, cl, AccountName(cl, q)>> : n \in Networks, cl \in Classes, q \in ThNames}

NoBucket == [start |-> -1, count |-> 0]
NoAccount == [last |-> -1, balance |-> 0, limited |-> 0]
NoCookie == [for |-> "none", stamp |-> 0, secret |-> 0]

Fresh(keys, none) == [k \in keys |-> none]
Known(table, none) == {k \in DOMAIN table : table[k] # none}

ThInit ==
    /\ thNow = 0
    /\ thClients = Fresh(Networks, NoBucket) /\ thDomains = Fresh(ThNames, NoBucket) /\ thSwept = 0
    /\ thAccounts = Fresh(AccountKeys, NoAccount) /\ thRrlSwept = 0
    /\ thSettings = [limits |-> TRUE, rrl |-> TRUE, logOnly |-> FALSE, cookies |-> TRUE]
    /\ thJar = Fresh(ThClients, NoCookie) /\ thSecret = 1
    /\ thAdmitted = Fresh(Networks, [t \in Times |-> [plain |-> 0, verified |-> 0]])
    /\ thReplies = Fresh(AccountKeys, [t \in Times |-> 0])
    /\ thUsed = [queries |-> 0, changes |-> 0]

----------------------------------------------------------------------------
(* Cookies.  A server cookie is good for the client and process it was made   *)
(* for, and for a while.                                                      *)
CookieFresh(stamp) ==
    IF stamp <= thNow THEN thNow - stamp <= ThCookieAge ELSE stamp - thNow <= ThCookieAhead
ServerCookie(c) == [for |-> c, stamp |-> thNow, secret |-> thSecret]
CookieValid(cookie, c) ==
    /\ thSettings.cookies
    /\ CookieFresh(cookie.stamp) /\ cookie.for = c /\ cookie.secret = thSecret

----------------------------------------------------------------------------
(* advance_bucket: a bucket whose window has passed starts again. *)
\* Mutant of Advanced: the count starts again but the window does not.
AdvancedStale(bucket, window, limit) ==
    LET b == IF thNow - bucket.start >= window THEN [bucket EXCEPT !.count = 0] ELSE bucket IN
    IF b.count >= limit THEN [bucket |-> b, ok |-> FALSE]
    ELSE [bucket |-> [b EXCEPT !.count = @ + 1], ok |-> TRUE]
Advanced(bucket, window, limit) ==
    LET b == IF thNow - bucket.start >= window THEN [start |-> thNow, count |-> 0] ELSE bucket IN
    IF b.count >= limit THEN [bucket |-> b, ok |-> FALSE]
    ELSE [bucket |-> [b EXCEPT !.count = @ + 1], ok |-> TRUE]

(* One lookup in a bucket map: a new key past the cap is let through          *)
(* untracked.                                                                 *)
Checked(table, key, window, limit) ==
    IF table[key] = NoBucket /\ Cardinality(Known(table, NoBucket)) >= ThBuckets
    THEN [table |-> table, ok |-> TRUE, tracked |-> FALSE]
    ELSE LET b == IF table[key] = NoBucket THEN [start |-> thNow, count |-> 0] ELSE table[key]
             r == Advanced(b, window, limit) IN
         [table |-> [table EXCEPT ![key] = r.bucket], ok |-> r.ok, tracked |-> TRUE]

(* maybe_sweep, after every lookup: buckets whose window has passed go. *)
SweepDue(left) ==
    \/ thNow - left.at >= ThSweepEvery
    \/ /\ Cardinality(Known(left.clients, NoBucket)) + Cardinality(Known(left.domains, NoBucket)) >= ThSweepAt
       /\ thNow - left.at >= 1
Swept(table, window) ==
    [k \in DOMAIN table |-> IF thNow - table[k].start < window THEN table[k] ELSE NoBucket]
Sweep(left) ==
    IF SweepDue(left)
    THEN [clients |-> Swept(left.clients, ThWindow), domains |-> Swept(left.domains, ThDomainWindow), at |-> thNow]
    ELSE left

(* check_client_scaled and check_domain, on what the limiter holds. *)
CheckClient(c, factor, held) ==
    IF ~thSettings.limits \/ c \in ThExempt THEN [ok |-> TRUE, tracked |-> FALSE, left |-> held]
    ELSE LET r == Checked(held.clients, ThNetwork[c], ThWindow, ThLimit * factor) IN
         [ok |-> r.ok, tracked |-> r.tracked, left |-> Sweep([held EXCEPT !.clients = r.table])]
CheckDomain(name, held) ==
    IF ~thSettings.limits THEN [ok |-> TRUE, left |-> held]
    ELSE LET r == Checked(held.domains, name, ThDomainWindow, ThDomainLimit) IN
         [ok |-> r.ok, left |-> Sweep([held EXCEPT !.domains = r.table])]

----------------------------------------------------------------------------
(* ResponseRateLimiter::check_at.  The sweep forgets accounts idle for longer *)
(* than the window.                                                           *)
RrlKept ==
    IF thNow - thRrlSwept >= ThRrlSweep
    THEN [k \in AccountKeys |-> IF thNow - thAccounts[k].last < ThRrlWindow + 1 THEN thAccounts[k] ELSE NoAccount]
    ELSE thAccounts

Debited(a) ==
    LET earned == (thNow - a.last) * ThRate
        spent == Min({a.balance + earned, ThRate}) - 1
        balance == Max({spent, -(ThRate * ThRrlWindow)}) IN
    [last |-> thNow, balance |-> balance, limited |-> IF balance >= 0 THEN a.limited ELSE a.limited + 1]

RrlVerdict(a) ==
    IF a.balance >= 0 THEN "send" ELSE IF ThSlip > 0 /\ a.limited % ThSlip = 0 THEN "slip" ELSE "drop"

(* RrlResponder::send_response: what becomes of a response. *)
SendResponse(c, name, class, counted) ==
    LET key == <<ThNetwork[c], class, AccountName(class, name)>>
        kept == RrlKept
        full == kept[key] = NoAccount /\ Cardinality(Known(kept, NoAccount)) >= ThAccounts
        a == Debited(IF kept[key] = NoAccount THEN [last |-> thNow, balance |-> ThRate, limited |-> 0] ELSE kept[key])
    IN IF ~counted \/ ~thSettings.rrl \/ c \in ThExempt
       THEN thAccounts' = thAccounts /\ UNCHANGED <<thRrlSwept, thReplies>>
       ELSE /\ thRrlSwept' = IF thNow - thRrlSwept >= ThRrlSweep THEN thNow ELSE thRrlSwept
            /\ thAccounts' = IF full THEN kept ELSE [kept EXCEPT ![key] = a]
            /\ thReplies' = IF ~full /\ ~thSettings.logOnly /\ RrlVerdict(a) = "send"
                            THEN [thReplies EXCEPT ![key][thNow] = @ + 1] ELSE thReplies

(* One query of client c: its cookie is checked, then the client's limit,     *)
(* then the name's; the response goes through RRL if it may be a reflection   *)
(* (UDP, no valid cookie).  A query over a limit is answered with an error; a *)
(* malformed cookie FORMERR, before any of this.                              *)
ThQuery(c, name, class, udp, cookie) ==
    LET verified == CookieValid(cookie, c)
        held == [clients |-> thClients, domains |-> thDomains, at |-> thSwept]
        client == CheckClient(c, IF verified THEN ThAllowance ELSE 1, held)
        domain == IF client.ok THEN CheckDomain(name, client.left) ELSE [ok |-> FALSE, left |-> client.left]
    IN /\ thUsed.queries < ThMaxQueries
       /\ thUsed' = [thUsed EXCEPT !.queries = @ + 1]
       /\ thClients' = domain.left.clients /\ thDomains' = domain.left.domains /\ thSwept' = domain.left.at
       /\ thAdmitted' =
            IF client.ok /\ client.tracked
            THEN [thAdmitted EXCEPT ![ThNetwork[c]][thNow][IF verified THEN "verified" ELSE "plain"] = @ + 1]
            ELSE thAdmitted
       /\ SendResponse(c, name, IF domain.ok THEN class ELSE "error", udp /\ ~verified)
       /\ thJar' = [thJar EXCEPT ![c] = IF cookie = NoCookie \/ ~thSettings.cookies THEN @ ELSE ServerCookie(c)]
       /\ UNCHANGED <<thNow, thSettings, thSecret>>

(* The clock. *)
ThTick ==
    /\ thNow < ThMaxTime
    /\ thNow' = thNow + 1
    /\ UNCHANGED <<thClients, thDomains, thSwept, thAccounts, thRrlSwept, thSettings, thJar, thSecret,
                   thAdmitted, thReplies, thUsed>>

(* set_settings: buckets are kept; the accounts go when RRL is turned off.    *)
(* What was let through while a limit was off is nobody's account.            *)
ThSettings(new) ==
    /\ thUsed.changes < ThMaxChanges /\ new # thSettings
    /\ thUsed' = [thUsed EXCEPT !.changes = @ + 1]
    /\ thSettings' = new
    /\ thAccounts' = IF new.rrl THEN thAccounts ELSE Fresh(AccountKeys, NoAccount)
    /\ thReplies' = IF new.rrl THEN thReplies ELSE Fresh(AccountKeys, [t \in Times |-> 0])
    /\ UNCHANGED <<thNow, thClients, thDomains, thSwept, thRrlSwept, thJar, thSecret, thAdmitted>>

(* A restart makes a new secret and forgets the counts. *)
ThRestart ==
    /\ thUsed.changes < ThMaxChanges
    /\ thUsed' = [thUsed EXCEPT !.changes = @ + 1]
    /\ thSecret' = thSecret + 1
    /\ thClients' = Fresh(Networks, NoBucket) /\ thDomains' = Fresh(ThNames, NoBucket) /\ thSwept' = thNow
    /\ thAccounts' = Fresh(AccountKeys, NoAccount) /\ thRrlSwept' = thNow
    /\ thAdmitted' = Fresh(Networks, [t \in Times |-> [plain |-> 0, verified |-> 0]])
    /\ thReplies' = Fresh(AccountKeys, [t \in Times |-> 0])
    /\ UNCHANGED <<thNow, thSettings, thJar>>

(* A client shows no cookie, or one: its own latest, or another client's.     *)
(* One that has none sends a bare client cookie to be given one.              *)
Bare == [for |-> "nobody", stamp |-> 0, secret |-> 0]
Shown(d) == IF thJar[d] = NoCookie THEN Bare ELSE thJar[d]
ThNext ==
    \/ \E c \in ThClients, q \in ThQueries, cookie \in {NoCookie} \cup {Shown(d) : d \in ThClients} :
        ThQuery(c, q.name, q.class, q.udp, cookie)
    \/ ThTick
    \/ \E new \in ThChoices : ThSettings(new)
    \/ ThRestart

ThSpec == ThInit /\ [][ThNext]_thVars

----------------------------------------------------------------------------
(* What a history counts before a time, and over a stretch of time.           *)
Before(h) ==
    LET sum[t \in 0 .. ThMaxTime + 1] == IF t = 0 THEN 0 ELSE sum[t - 1] + h[t - 1] IN sum
SumOver(h, from, to) == Before(h)[to + 1] - Before(h)[from]

PlainOf(n) == [u \in Times |-> thAdmitted[n][u].plain]
AllOf(n) == [u \in Times |-> thAdmitted[n][u].plain + thAdmitted[n][u].verified]

(* The limits hold over any stretch of time that ends with something let      *)
(* through now, whatever sweeps, resets and cookies come between: a network   *)
(* that is tracked gets at most two windows' worth of queries into any one    *)
(* window's time, ThAllowance times as many if some prove their address; and  *)
(* no network is sent more full responses of one kind than ThRate for each    *)
(* second, idle or not beforehand.                                            *)
ThrottlesHold ==
    /\ \A n \in {m \in Networks : thAdmitted[m][thNow] # [plain |-> 0, verified |-> 0]} :
        LET from == Max({0, thNow - ThWindow + 1}) IN
        /\ SumOver(PlainOf(n), from, thNow) <= 2 * ThLimit
        /\ SumOver(AllOf(n), from, thNow) <= 2 * ThLimit * ThAllowance
    /\ \A k \in {l \in AccountKeys : thReplies[l][thNow] > 0}, t \in 0 .. thNow :
        SumOver(thReplies[k], t, thNow) <= ThRate * (thNow - t + 1)
=============================================================================
