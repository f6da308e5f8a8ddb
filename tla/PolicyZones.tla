---------------------------- MODULE PolicyZones ----------------------------
(* The response policy zones (rpz.rs): RpzManager keeps a list of zones, each *)
(* with rules typed in, fetched from a URL or transferred from a primary, and *)
(* publishes the loaded ones for the dispatcher.  A round of loads runs       *)
(* without the lock on the list, so a save may change the list under it.      *)
EXTENDS SerialArith, Sequences, FiniteSets, Sifting

CONSTANTS
    PzLists,     \* the lists of zones an administrator may save
    PzBodies,    \* per place (a text, a URL, the primaries): what it may hold
    PzMaxSaves, PzMaxRounds, PzMaxChanges, PzMaxFaults   \* bounds

ASSUME PzAssumption == \A list \in PzLists : list \in Seq({list[i] : i \in DOMAIN list})

VARIABLES
    pzZones,     \* ZoneState of each zone, in order
    pzSet,       \* the published RpzSet
    pzHas,       \* what each place holds now
    pzRound,     \* the round of loads under way
    pzWake,      \* the permit of `wake`
    pzUsed       \* saves, rounds, changes and faults so far
pzVars == <<pzZones, pzSet, pzHas, pzRound, pzWake, pzUsed>>

Places == DOMAIN PzBodies
NoRules == [serial |-> 0, rules |-> {}, skipped |-> 0, from |-> "nowhere"]
NoRound == [stage |-> "asleep", due |-> <<>>, got |-> [kind |-> "none"]]

----------------------------------------------------------------------------
(* CompiledZone::from_records.  A record is the trigger its owner spells      *)
(* (kind, name, wildcard or not, whether an address parses), and what its     *)
(* CNAME points at, "data" for any other record.                              *)
ActionOf(trigger, records) ==
    LET cnames == {r.target : r \in records} \ {"data"} IN
    IF cnames \cap {".", "*.", "rpz-drop", "rpz-tcp-only"} # {}
    THEN CHOOSE t \in cnames : t \in {".", "*.", "rpz-drop", "rpz-tcp-only"}
    ELSE IF cnames \cap {"rpz-passthru", trigger.name} # {} THEN "passthru" ELSE "local"

AddressKinds == {"rpz-client-ip", "rpz-ip", "rpz-nsip"}
Unsupported(t) ==
    \/ t.kind \in AddressKinds /\ ~t.parses
    \/ t.kind = "rpz-later"
    \/ t.kind = "qname" /\ t.name = "*"

FromRecords(body, place) ==
    LET triggers == {r.trigger : r \in body.records} IN
    [serial |-> body.serial,
     rules |-> {[trigger |-> t, action |-> ActionOf(t, {r \in body.records : r.trigger = t})]
                    : t \in {u \in triggers : ~Unsupported(u)}},
     skipped |-> Cardinality({t \in triggers : Unsupported(t)}),
     from |-> place]

(* What a load gives: rules, "same" for a serial already loaded, or an error. *)
Rules(body, place) == [kind |-> "rules", data |-> FromRecords(body, place)]
FromText(body, place) == IF body.parses THEN Rules(body, place) ELSE [kind |-> "error"]
Transfer(body, place, serial, soaAnswered) ==
    IF serial # 0 /\ soaAnswered /\ ~SerialNewer(body.serial, serial) THEN [kind |-> "same"]
    ELSE IF body.complete THEN Rules(body, place) ELSE [kind |-> "error"]
Load(config, serial, soaAnswered) ==
    IF config.source = "transfer" THEN Transfer(pzHas[config.place], config.place, serial, soaAnswered)
    ELSE FromText(pzHas[config.place], config.place)

----------------------------------------------------------------------------
SameSource(a, b) == a.name = b.name /\ a.source = b.source /\ a.place = b.place
Remote(z) == z.config.on /\ z.config.source # "local"
DueNow(z) == Remote(z) /\ z.due
InForce(zones) == {i \in DOMAIN zones : zones[i].config.on /\ zones[i].data # NoRules}
Publish(zones) ==
    LET active == Sifted(zones, InForce(zones)) IN
    [i \in DOMAIN active |-> [name |-> active[i].config.name, policy |-> active[i].config.policy,
                              data |-> active[i].data]]

FirstOf(places) == CHOOSE i \in places : \A j \in places : i <= j
Fresh(config) == [config |-> config, data |-> NoRules, failed |-> FALSE, due |-> TRUE]
Compiled(z) ==
    LET got == FromText(pzHas[z.config.place], z.config.place) IN
    IF got.kind = "rules" THEN [z EXCEPT !.data = got.data, !.failed = FALSE] ELSE [z EXCEPT !.failed = TRUE]
Taken(config) ==
    LET kept == {i \in DOMAIN pzZones : SameSource(pzZones[i].config, config)}
        state == IF kept = {} THEN Fresh(config) ELSE [pzZones[FirstOf(kept)] EXCEPT !.config = config] IN
    IF config.source = "local" /\ state.data = NoRules THEN Compiled(state) ELSE state

PzInit ==
    /\ pzZones = <<>> /\ pzSet = <<>>
    /\ pzHas \in {f \in [Places -> UNION {PzBodies[p] : p \in Places}] :
                     \A p \in Places : f[p] \in PzBodies[p]}
    /\ pzRound = NoRound /\ pzWake = TRUE
    /\ pzUsed = [saves |-> 0, rounds |-> 0, changes |-> 0, faults |-> 0]

PzSpend(what, limit) == pzUsed[what] < limit /\ pzUsed' = [pzUsed EXCEPT ![what] = @ + 1]

(* set_zones: the list saved in the console, or read again by a reload. *)
PzSave(list) ==
    /\ PzSpend("saves", PzMaxSaves)
    /\ pzZones' = [i \in DOMAIN list |-> Taken(list[i])]
    /\ pzSet' = Publish(pzZones') /\ pzWake' = TRUE
    /\ UNCHANGED <<pzHas, pzRound>>

(* refresh_now: every zone is due. *)
PzRefreshNow ==
    /\ pzUsed.saves > 0 /\ \E i \in DOMAIN pzZones : ~pzZones[i].due
    /\ pzZones' = [i \in DOMAIN pzZones |-> [pzZones[i] EXCEPT !.due = TRUE]]
    /\ pzWake' = TRUE
    /\ UNCHANGED <<pzSet, pzHas, pzRound, pzUsed>>

(* A zone's next_due is reached. *)
PzFallsDue(i) ==
    /\ i \in DOMAIN pzZones /\ ~pzZones[i].due
    /\ pzZones' = [pzZones EXCEPT ![i].due = TRUE]
    /\ UNCHANGED <<pzSet, pzHas, pzRound, pzWake, pzUsed>>

(* run_forever and the first half of refresh_due: what is due, noted down. *)
PzRoundBegins ==
    LET due == Sifted(pzZones, {i \in DOMAIN pzZones : DueNow(pzZones[i])}) IN
    /\ pzRound = NoRound /\ (pzWake \/ due # <<>>)
    /\ PzSpend("rounds", PzMaxRounds)
    /\ pzWake' = FALSE
    /\ pzRound' = IF due = <<>> THEN NoRound
                  ELSE [NoRound EXCEPT !.stage = "load",
                                       !.due = [i \in DOMAIN due |-> [config |-> due[i].config, serial |-> due[i].data.serial]]]
    /\ UNCHANGED <<pzZones, pzSet, pzHas>>

(* load: the request goes out and is answered, or is not. *)
PzLoad ==
    LET next == Head(pzRound.due) IN
    /\ pzRound.stage = "load"
    /\ \/ \E soaAnswered \in BOOLEAN :
            /\ pzRound' = [pzRound EXCEPT !.stage = "apply", !.got = Load(next.config, next.serial, soaAnswered)]
            /\ IF soaAnswered THEN UNCHANGED pzUsed
               ELSE next.config.source = "transfer" /\ PzSpend("faults", PzMaxFaults)
       \/ /\ PzSpend("faults", PzMaxFaults)
          /\ pzRound' = [pzRound EXCEPT !.stage = "apply", !.got = [kind |-> "error"]]
    /\ UNCHANGED <<pzZones, pzSet, pzHas, pzWake>>

Settled(z, got) ==
    IF got.kind = "rules" THEN [z EXCEPT !.data = got.data, !.failed = FALSE, !.due = FALSE]
    ELSE [z EXCEPT !.failed = got.kind = "error", !.due = FALSE]

\* Mutant of IsLoaded: the zone is found again by its name alone.
IsLoadedByName(z, config) == z.config.name = config.name

(* Which zone a finished load is for: removed or changed meanwhile, none is. *)
IsLoaded(z, config) == SameSource(z.config, config)

(* The second half of refresh_due. *)
PzApply ==
    LET config == Head(pzRound.due).config
        places == {i \in DOMAIN pzZones : IsLoaded(pzZones[i], config)}
        rest == Tail(pzRound.due) IN
    /\ pzRound.stage = "apply"
    /\ IF places = {} THEN UNCHANGED <<pzZones, pzSet>>
       ELSE /\ pzZones' = [pzZones EXCEPT ![FirstOf(places)] = Settled(@, pzRound.got)]
            /\ pzSet' = Publish(pzZones')
    /\ pzRound' = IF rest = <<>> THEN NoRound ELSE [NoRound EXCEPT !.stage = "load", !.due = rest]
    /\ UNCHANGED <<pzHas, pzWake, pzUsed>>

(* The publisher puts something else at a place (a typed text never changes). *)
PzPublisherChanges(place) ==
    /\ PzSpend("changes", PzMaxChanges)
    /\ \E body \in PzBodies[place] \ {pzHas[place]} : pzHas' = [pzHas EXCEPT ![place] = body]
    /\ UNCHANGED <<pzZones, pzSet, pzRound, pzWake>>

PzNext ==
    \/ \E list \in PzLists : PzSave(list)
    \/ PzRefreshNow \/ PzRoundBegins \/ PzLoad \/ PzApply
    \/ \E i \in DOMAIN pzZones : PzFallsDue(i)
    \/ \E place \in Places : PzPublisherChanges(place)

PzSpec == PzInit /\ [][PzNext]_pzVars
----------------------------------------------------------------------------
(* What the dispatcher applies under a zone's name are rules of the source    *)
(* that zone has now, in the order of the list and with its policy, and no    *)
(* loaded, enabled zone is missing: however a save of the list, a publisher's *)
(* change and the answers of a round of loads are interleaved.                *)
PolicyZonesInStep ==
    LET live == {i \in DOMAIN pzZones : pzZones[i].config.on /\ pzZones[i].data # NoRules} IN
    /\ Len(pzSet) = Cardinality(live)
    /\ \A i \in live :
        LET z == pzZones[i]
            published == pzSet[Rank(live, i)] IN
        /\ published.name = z.config.name /\ published.policy = z.config.policy
        /\ published.data = z.data /\ z.data.from = z.config.place
        /\ \A rule \in published.data.rules : ~Unsupported(rule.trigger)
=============================================================================
