--------------------------- MODULE SiftingProofs ---------------------------
(* Proofs about what is sifted out of a list, and about the two components    *)
(* that do it: the response policy zones in force, and the query logs, whose  *)
(* old files and rows are deleted.                                            *)
(* A zone's rules stay those its source had when it was last asked (PzInv).   *)
(* A sink's queries are accounted for sink by sink: the database keeps them   *)
(* in the order asked from the queue to the table (DbInv), the others keep    *)
(* a balance of numbers (SyslogInv, ExportInv, FileInv).                      *)
EXTENDS PolicyZones, QueryLogs, FiniteSetTheorems, WellFoundedInduction, TLAPS

\* A set of naturals has a least element (the well-foundedness of <).
LEMMA LeastOf ==
  ASSUME NEW S, S \subseteq Nat, S # {}
  PROVE  \E n \in S : \A m \in S : n <= m
<1> DEFINE R == {ss \in Nat \X Nat : ss[1] < ss[2]}
<1>1. IsWellFoundedOn(R, Nat)
  BY NatLessThanWellFounded DEF OpToRel
<1>2. PICK x \in S : \A y \in S : <<y, x>> \notin R
  <2> HIDE DEF R
  <2>1. QED
    BY <1>1, WFMin
<1>3. \A y \in S : <<y, x>> \in Nat \X Nat
  OBVIOUS
<1>4. \A y \in S : ~(y < x)
  BY <1>2, <1>3
<1>5. QED
  BY <1>4
----------------------------------------------------------------------------
(* Sifting *)

\* The places of a finite set's positions are a numbering of it in order: each
\* has its own, and each number up to its size is the place of one.
LEMMA RanksNumber ==
  ASSUME NEW K, K \subseteq Nat, IsFiniteSet(K)
  PROVE  /\ Cardinality(K) \in Nat
         /\ \A k \in K : Rank(K, k) \in 1 .. Cardinality(K) /\ AtRank(K, Rank(K, k)) = k
         /\ \A i \in 1 .. Cardinality(K) : AtRank(K, i) \in K /\ Rank(K, AtRank(K, i)) = i
         /\ \A j, k \in K : j < k => Rank(K, j) < Rank(K, k)
<1> DEFINE Upto(k) == {j \in K : j <= k}
<1>1. Cardinality(K) \in Nat
  BY FS_CardinalityType
<1>2. ASSUME NEW k \in K
      PROVE  IsFiniteSet(Upto(k)) /\ Cardinality(Upto(k)) \in 1 .. Cardinality(K) /\ Rank(K, k) = Cardinality(Upto(k))
  <2>1. Upto(k) \in SUBSET K /\ k \in Upto(k)
    OBVIOUS
  <2>2. Rank(K, k) = Cardinality(Upto(k))
    BY DEF Rank
  <2> HIDE DEF Upto
  <2>3. IsFiniteSet(Upto(k)) /\ Cardinality(Upto(k)) <= Cardinality(K) /\ Cardinality(Upto(k)) \in Nat
    BY <2>1, FS_Subset, FS_CardinalityType
  <2>4. Cardinality(Upto(k)) # 0
    BY <2>1, <2>3, FS_EmptySet
  <2> QED
    BY <1>1, <2>2, <2>3, <2>4
<1>9. \A k \in K : Rank(K, k) \in 1 .. Cardinality(K) /\ Rank(K, k) \in Nat
  <2> HIDE DEF Upto
  <2> QED
    BY <1>1, <1>2
<1>3. ASSUME NEW j \in K, NEW k \in K, j < k
      PROVE  Rank(K, j) < Rank(K, k)
  <2>1. Upto(j) \in SUBSET Upto(k) /\ k \in Upto(k) /\ k \notin Upto(j)
    <3>1. j \in Nat /\ k \in Nat
      OBVIOUS
    <3>2. ASSUME NEW x \in Upto(j) PROVE x \in Upto(k)
      <4>1. x \in K /\ x \in Nat /\ x <= j
        OBVIOUS
      <4>2. x <= k
        BY <1>3, <3>1, <4>1
      <4> QED
        BY <4>1, <4>2
    <3>3. k \in Upto(k) /\ k \notin Upto(j)
      BY <1>3, <3>1
    <3> HIDE DEF Upto
    <3> QED
      BY <3>2, <3>3
  <2>2. /\ IsFiniteSet(Upto(j)) /\ IsFiniteSet(Upto(k))
        /\ Cardinality(Upto(j)) \in Nat /\ Cardinality(Upto(k)) \in Nat
        /\ Rank(K, j) = Cardinality(Upto(j)) /\ Rank(K, k) = Cardinality(Upto(k))
    BY <1>2
  <2> HIDE DEF Upto
  <2>3. Cardinality(Upto(j)) <= Cardinality(Upto(k)) /\ Cardinality(Upto(j)) # Cardinality(Upto(k))
    BY <2>1, <2>2, FS_Subset
  <2> QED
    BY <2>2, <2>3
<1> DEFINE r == [k \in K |-> Rank(K, k)]
           N == 1 .. Cardinality(K)
<1>4. r \in Injection(K, N)
  <2>1. r \in [K -> N]
    BY <1>2
  <2>2. ASSUME NEW j \in K, NEW k \in K, r[j] = r[k] PROVE j = k
    <3>1. r[j] = Rank(K, j) /\ r[k] = Rank(K, k)
      OBVIOUS
    <3>2. j \in Nat /\ k \in Nat
      OBVIOUS
    <3> HIDE DEF r
    <3>3. Rank(K, j) \in Nat /\ Rank(K, k) \in Nat /\ Rank(K, j) = Rank(K, k)
      BY <1>9, <2>2, <3>1
    <3>4. CASE j < k
      <4>1. Rank(K, j) < Rank(K, k)
        BY <1>3, <3>4
      <4> QED
        BY <3>3, <4>1
    <3>5. CASE k < j
      <4>1. Rank(K, k) < Rank(K, j)
        BY <1>3, <3>5
      <4> QED
        BY <3>3, <4>1
    <3> QED
      BY <3>2, <3>4, <3>5
  <2> HIDE DEF r
  <2> QED
    BY <2>1, <2>2 DEF Injection, IsInjective
<1>5. IsFiniteSet(N) /\ Cardinality(N) = Cardinality(K)
  BY <1>1, FS_Interval
<1>6. r \in Surjection(K, N)
  <2> HIDE DEF r, N
  <2> QED
    BY <1>4, <1>5, FS_Injection
<1>7. ASSUME NEW i \in 1 .. Cardinality(K)
      PROVE  AtRank(K, i) \in K /\ Rank(K, AtRank(K, i)) = i
  <2>1. \E k \in K : r[k] = i
    <3>1. i \in N
      OBVIOUS
    <3> HIDE DEF r, N
    <3> QED
      BY <1>6, <3>1 DEF Surjection
  <2>2. \E k \in K : Rank(K, k) = i
    BY <2>1
  <2> QED
    BY <2>2 DEF AtRank
<1>8. ASSUME NEW k \in K PROVE AtRank(K, Rank(K, k)) = k
  <2> DEFINE l == AtRank(K, Rank(K, k))
  <2>0. Rank(K, k) \in 1 .. Cardinality(K)
    BY <1>2
  <2>1. l \in K /\ Rank(K, l) = Rank(K, k) /\ Rank(K, k) \in Int
    BY <1>1, <1>7, <2>0
  <2> HIDE DEF l
  <2>2. ~(l < k) /\ ~(k < l)
    BY <1>3, <2>1
  <2>3. l \in Nat /\ k \in Nat
    BY <2>1
  <2> QED
    BY <2>2, <2>3 DEF l
<1> QED
  BY <1>1, <1>2, <1>3, <1>7, <1>8

\* What is kept of a list, and where: as many elements as positions, each the
\* element of its position, in order.
LEMMA SiftedIs ==
  ASSUME NEW s, NEW K, K \subseteq Nat, IsFiniteSet(K)
  PROVE  /\ Cardinality(K) \in Nat
         /\ DOMAIN Sifted(s, K) = 1 .. Cardinality(K) /\ Len(Sifted(s, K)) = Cardinality(K)
         /\ \A k \in K : Rank(K, k) \in 1 .. Cardinality(K) /\ Sifted(s, K)[Rank(K, k)] = s[k]
         /\ \A i \in 1 .. Cardinality(K) : AtRank(K, i) \in K /\ Sifted(s, K)[i] = s[AtRank(K, i)]
<1>1. /\ Cardinality(K) \in Nat
      /\ \A k \in K : Rank(K, k) \in 1 .. Cardinality(K) /\ AtRank(K, Rank(K, k)) = k
      /\ \A i \in 1 .. Cardinality(K) : AtRank(K, i) \in K /\ Rank(K, AtRank(K, i)) = i
  BY RanksNumber
<1>2. Sifted(s, K) = [i \in 1 .. Cardinality(K) |-> s[AtRank(K, i)]]
  BY DEF Sifted
<1>3. DOMAIN Sifted(s, K) = 1 .. Cardinality(K) /\ Len(Sifted(s, K)) = Cardinality(K)
  BY <1>1, <1>2
<1> QED
  BY <1>1, <1>2, <1>3

\* Positions of a list are finitely many.
LEMMA PositionsFinite ==
  ASSUME NEW n \in Nat, NEW K, K \subseteq 1 .. n
  PROVE  IsFiniteSet(K) /\ K \subseteq Nat
<1> DEFINE N == 1 .. n
<1>2. IsFiniteSet(N)
  BY FS_Interval
<1>1. K \in SUBSET N /\ K \subseteq Nat
  OBVIOUS
<1> HIDE DEF N
<1> QED
  BY <1>1, <1>2, FS_Subset

----------------------------------------------------------------------------
(* Response policy zones *)

\* A zone's rules are of the source it has now, and of kinds the server applies.
RulesFit(data, config) ==
    data = NoRules \/ (data.from = config.place /\ \A rule \in data.rules : ~Unsupported(rule.trigger))
ZoneFits(z) == DOMAIN z = {"config", "data", "failed", "due"} /\ RulesFit(z.data, z.config)

\* The list is one, and what a load brought is of the source it was made for.
PzListed == DOMAIN pzZones = 1 .. Len(pzZones) /\ Len(pzZones) \in Nat
RoundFits ==
    /\ DOMAIN pzRound = {"stage", "due", "got"}
    /\ pzRound.stage = "apply" /\ pzRound.got.kind = "rules" => RulesFit(pzRound.got.data, Head(pzRound.due).config)
PzInv ==
    /\ PzListed
    /\ \A i \in DOMAIN pzZones : ZoneFits(pzZones[i])
    /\ RoundFits
    /\ pzSet = Publish(pzZones)

\* A list that may be saved is numbered from 1.
LEMMA ListNumbered ==
  ASSUME PzAssumption, NEW list \in PzLists
  PROVE  DOMAIN list = 1 .. Len(list) /\ Len(list) \in Nat
<1>1. list \in Seq({list[i] : i \in DOMAIN list})
  BY DEF PzAssumption
<1> QED
  BY <1>1

\* The rules compiled from a body are of its place, and of kinds that are applied.
LEMMA CompiledFit ==
  ASSUME NEW body, NEW config
  PROVE  RulesFit(FromRecords(body, config.place), config)
<1> DEFINE data == FromRecords(body, config.place)
           supported == {u \in {r.trigger : r \in body.records} : ~Unsupported(u)}
           RuleOf(t) == [trigger |-> t, action |-> ActionOf(t, {r \in body.records : r.trigger = t})]
<1>1. data.from = config.place /\ data.rules = {RuleOf(t) : t \in supported}
  BY DEF FromRecords
<1>2. \A t \in supported : RuleOf(t).trigger = t /\ ~Unsupported(t)
  OBVIOUS
<1> SUFFICES RulesFit(data, config)
  OBVIOUS
<1> HIDE DEF data, supported, RuleOf
<1>3. \A rule \in data.rules : ~Unsupported(rule.trigger)
  BY <1>1, <1>2
<1> QED
  BY <1>1, <1>3 DEF RulesFit

\* So are the rules a load brings.
LEMMA LoadFits ==
  ASSUME NEW config, NEW serial, NEW soaAnswered,
         Load(config, serial, soaAnswered).kind = "rules"
  PROVE  RulesFit(Load(config, serial, soaAnswered).data, config)
<1> DEFINE body == pzHas[config.place]
<1>1. Rules(body, config.place).data = FromRecords(body, config.place)
  BY DEF Rules
<1>2. Load(config, serial, soaAnswered) \in {Rules(body, config.place), [kind |-> "same"], [kind |-> "error"]}
  BY DEF Load, Transfer, FromText
<1>3. Load(config, serial, soaAnswered) = Rules(body, config.place)
  BY <1>2
<1> QED
  BY <1>1, <1>3, CompiledFit

\* The first of some places in the list is one of them.
LEMMA FirstIsOne ==
  ASSUME NEW places, places \subseteq Nat, places # {}
  PROVE  FirstOf(places) \in places
<1>1. \E i \in places : \A j \in places : i <= j
  BY LeastOf
<1> QED
  BY <1>1 DEF FirstOf

\* A zone taken over with its new settings, or a new one, fits.
LEMMA TakenFits ==
  ASSUME PzInv, NEW config
  PROVE  ZoneFits(Taken(config)) /\ Taken(config).config = config
<1> DEFINE kept == {i \in DOMAIN pzZones : SameSource(pzZones[i].config, config)}
           state == IF kept = {} THEN Fresh(config) ELSE [pzZones[FirstOf(kept)] EXCEPT !.config = config]
<1>1. ZoneFits(state) /\ state.config = config
  <2>1. CASE kept = {}
    <3>1. state = Fresh(config)
      BY <2>1
    <3> HIDE DEF kept, state
    <3> QED
      BY <3>1 DEF Fresh, ZoneFits, RulesFit
  <2>2. CASE kept # {}
    <3>1. kept \subseteq Nat
      BY DEF PzInv, PzListed
    <3>2. FirstOf(kept) \in kept
      <4> HIDE DEF kept
      <4> QED
        BY <2>2, <3>1, FirstIsOne
    <3> DEFINE old == pzZones[FirstOf(kept)]
    <3>3. ZoneFits(old) /\ SameSource(old.config, config)
      BY <3>2 DEF PzInv
    <3>4. state = [old EXCEPT !.config = config]
      BY <2>2
    <3> HIDE DEF kept, old, state
    <3>5. DOMAIN old = {"config", "data", "failed", "due"} /\ old.config.place = config.place
      BY <3>3 DEF ZoneFits, SameSource
    <3>6. DOMAIN state = DOMAIN old /\ state.config = config /\ state.data = old.data
      BY <3>4, <3>5
    <3> QED
      BY <3>3, <3>5, <3>6 DEF ZoneFits, RulesFit
  <2> QED
    BY <2>1, <2>2
<1>2. Taken(config) = IF config.source = "local" /\ state.data = NoRules THEN Compiled(state) ELSE state
  BY DEF Taken
<1> HIDE DEF state
<1>3. ZoneFits(Compiled(state)) /\ Compiled(state).config = config
  <2> DEFINE got == FromText(pzHas[state.config.place], state.config.place)
  <2>1. DOMAIN state = {"config", "data", "failed", "due"} /\ RulesFit(state.data, state.config)
    BY <1>1 DEF ZoneFits
  <2>2. got.kind = "rules" => RulesFit(got.data, state.config)
    BY CompiledFit DEF FromText, Rules
  <2>3. Compiled(state) = IF got.kind = "rules" THEN [state EXCEPT !.data = got.data, !.failed = FALSE]
                          ELSE [state EXCEPT !.failed = TRUE]
    BY DEF Compiled
  <2> HIDE DEF got
  <2>4. CASE got.kind = "rules"
    <3>1. Compiled(state) = [state EXCEPT !.data = got.data, !.failed = FALSE]
      BY <2>3, <2>4
    <3> DEFINE new == Compiled(state)
    <3>2. DOMAIN new = DOMAIN state /\ new.config = state.config /\ new.data = got.data
      BY <2>1, <3>1
    <3> HIDE DEF new
    <3>3. ZoneFits(new) /\ new.config = config
      BY <1>1, <2>1, <2>2, <2>4, <3>2 DEF ZoneFits
    <3> QED
      BY <3>3 DEF new
  <2>5. CASE got.kind # "rules"
    <3>1. Compiled(state) = [state EXCEPT !.failed = TRUE]
      BY <2>3, <2>5
    <3> DEFINE new == Compiled(state)
    <3>2. DOMAIN new = DOMAIN state /\ new.config = state.config /\ new.data = state.data
      BY <2>1, <3>1
    <3> HIDE DEF new
    <3>3. ZoneFits(new) /\ new.config = config
      BY <1>1, <2>1, <3>2 DEF ZoneFits
    <3> QED
      BY <3>3 DEF new
  <2> QED
    BY <2>4, <2>5
<1> QED
  BY <1>1, <1>2, <1>3

\* A save of the list.
LEMMA PzSaveKeeps ==
  ASSUME PzAssumption, PzInv, NEW list \in PzLists, PzSave(list)
  PROVE  PzInv'
<1>1. pzZones' = [i \in DOMAIN list |-> Taken(list[i])] /\ pzSet' = Publish(pzZones') /\ pzRound' = pzRound
  BY DEF PzSave
<1>2. DOMAIN list = 1 .. Len(list) /\ Len(list) \in Nat
  BY ListNumbered
<1>3. PzListed'
  BY <1>1, <1>2 DEF PzListed
<1>4. ASSUME NEW i \in DOMAIN pzZones' PROVE ZoneFits(pzZones'[i])
  <2>1. i \in DOMAIN list /\ pzZones'[i] = Taken(list[i])
    BY <1>1, <1>4
  <2> QED
    BY <2>1, TakenFits
<1>5. \A i \in DOMAIN pzZones' : ZoneFits(pzZones'[i])
  BY <1>4
<1> QED
  BY <1>1, <1>3, <1>5 DEF PzInv, RoundFits, ZoneFits, Publish, InForce, Sifted

\* A step that marks zones due changes nothing that is published.
LEMMA DuePublishesNothing ==
  ASSUME PzInv, NEW zones, DOMAIN zones = DOMAIN pzZones,
         \A i \in DOMAIN zones : zones[i] = pzZones[i] \/ zones[i] = [pzZones[i] EXCEPT !.due = TRUE]
  PROVE  Publish(zones) = Publish(pzZones) /\ \A i \in DOMAIN zones : ZoneFits(zones[i])
<1>1. ASSUME NEW i \in DOMAIN zones
      PROVE  zones[i].config = pzZones[i].config /\ zones[i].data = pzZones[i].data /\ ZoneFits(zones[i])
  <2> DEFINE o == pzZones[i]
             n == zones[i]
  <2>1. ZoneFits(o) /\ DOMAIN o = {"config", "data", "failed", "due"}
    BY <1>1 DEF PzInv, ZoneFits
  <2>2. n = o \/ n = [o EXCEPT !.due = TRUE]
    BY <1>1
  <2> HIDE DEF o, n
  <2>3. n.config = o.config /\ n.data = o.data /\ DOMAIN n = DOMAIN o
    BY <2>1, <2>2
  <2>4. n.config = o.config /\ n.data = o.data /\ ZoneFits(n)
    BY <2>1, <2>3 DEF ZoneFits
  <2> QED
    BY <2>4 DEF o, n
<1>2. InForce(zones) = InForce(pzZones)
  BY <1>1 DEF InForce
<1> DEFINE K == InForce(pzZones)
<1>3. Len(pzZones) \in Nat /\ K \subseteq 1 .. Len(pzZones) /\ K \subseteq DOMAIN zones
  BY DEF InForce, PzInv, PzListed
<1> HIDE DEF K
<1>4. /\ DOMAIN Sifted(zones, K) = 1 .. Cardinality(K) /\ DOMAIN Sifted(pzZones, K) = 1 .. Cardinality(K)
      /\ \A i \in 1 .. Cardinality(K) : AtRank(K, i) \in K /\ Sifted(zones, K)[i] = zones[AtRank(K, i)]
                                        /\ Sifted(pzZones, K)[i] = pzZones[AtRank(K, i)]
  BY <1>3, PositionsFinite, SiftedIs
<1>5. \A i \in 1 .. Cardinality(K) : /\ Sifted(zones, K)[i].config = Sifted(pzZones, K)[i].config
                                     /\ Sifted(zones, K)[i].data = Sifted(pzZones, K)[i].data
  BY <1>1, <1>3, <1>4
<1>6. Publish(zones) = [i \in 1 .. Cardinality(K) |-> [name |-> Sifted(zones, K)[i].config.name,
                          policy |-> Sifted(zones, K)[i].config.policy, data |-> Sifted(zones, K)[i].data]]
  BY <1>2, <1>4 DEF Publish, K
<1>7. Publish(pzZones) = [i \in 1 .. Cardinality(K) |-> [name |-> Sifted(pzZones, K)[i].config.name,
                          policy |-> Sifted(pzZones, K)[i].config.policy, data |-> Sifted(pzZones, K)[i].data]]
  BY <1>4 DEF Publish, K
<1> QED
  BY <1>1, <1>5, <1>6, <1>7

\* A list of zones that are all due, or of which one falls due.
LEMMA PzDueKeeps ==
  ASSUME PzInv, pzZones' \in {[i \in DOMAIN pzZones |-> [pzZones[i] EXCEPT !.due = TRUE]]} \cup
                             {[pzZones EXCEPT ![i].due = TRUE] : i \in DOMAIN pzZones},
         UNCHANGED <<pzSet, pzRound>>
  PROVE  PzInv'
<1>1. /\ DOMAIN pzZones' = DOMAIN pzZones
      /\ \A i \in DOMAIN pzZones' : pzZones'[i] = pzZones[i] \/ pzZones'[i] = [pzZones[i] EXCEPT !.due = TRUE]
  <2>1. CASE pzZones' = [i \in DOMAIN pzZones |-> [pzZones[i] EXCEPT !.due = TRUE]]
    BY <2>1
  <2>2. CASE \E i \in DOMAIN pzZones : pzZones' = [pzZones EXCEPT ![i].due = TRUE]
    BY <2>2
  <2> QED
    BY <2>1, <2>2
<1>2. Publish(pzZones') = Publish(pzZones) /\ \A i \in DOMAIN pzZones' : ZoneFits(pzZones'[i])
  BY <1>1, DuePublishesNothing
<1>3. PzListed'
  <2>1. DOMAIN pzZones = 1 .. Len(pzZones) /\ Len(pzZones) \in Nat
    BY DEF PzInv, PzListed
  <2>2. pzZones' = [i \in 1 .. Len(pzZones) |-> pzZones'[i]]
    <3>1. CASE pzZones' = [i \in DOMAIN pzZones |-> [pzZones[i] EXCEPT !.due = TRUE]]
      BY <2>1, <3>1
    <3>2. CASE \E i \in DOMAIN pzZones : pzZones' = [pzZones EXCEPT ![i].due = TRUE]
      BY <2>1, <3>2
    <3> QED
      BY <3>1, <3>2
  <2>3. Len(pzZones') = Len(pzZones)
    BY <2>1, <2>2
  <2> QED
    BY <1>1, <2>1, <2>3 DEF PzListed
<1> QED
  BY <1>2, <1>3 DEF PzInv, RoundFits, ZoneFits, Publish, InForce, Sifted

\* A load that ended.
LEMMA PzLoadKeeps ==
  ASSUME PzInv, PzLoad
  PROVE  PzInv'
<1> DEFINE next == Head(pzRound.due)
<1>1. PICK got : /\ pzRound' = [pzRound EXCEPT !.stage = "apply", !.got = got]
                 /\ got = [kind |-> "error"] \/ \E soaAnswered \in BOOLEAN : got = Load(next.config, next.serial, soaAnswered)
  BY DEF PzLoad
<1>2. got.kind = "rules" => RulesFit(got.data, next.config)
  BY <1>1, LoadFits
<1>3. DOMAIN pzRound = {"stage", "due", "got"}
  BY DEF PzInv, RoundFits
<1>4. /\ DOMAIN pzRound' = {"stage", "due", "got"} /\ pzRound'.got = got /\ pzRound'.due = pzRound.due
  BY <1>1, <1>3
<1>5. RoundFits'
  <2> HIDE DEF next
  <2>1. got.kind = "rules" => RulesFit(got.data, Head(pzRound'.due).config)
    BY <1>2, <1>4 DEF next
  <2> QED
    BY <1>4, <2>1 DEF RoundFits, RulesFit, NoRules, Unsupported, AddressKinds
<1>6. pzZones' = pzZones /\ pzSet' = pzSet
  BY DEF PzLoad
<1> QED
  BY <1>5, <1>6 DEF PzInv, PzListed, ZoneFits, Publish, InForce, Sifted

\* The result of a load put in its zone's place, if the zone is still there.
LEMMA PzApplyKeeps ==
  ASSUME PzInv, PzApply
  PROVE  PzInv'
<1> DEFINE config == Head(pzRound.due).config
           places == {i \in DOMAIN pzZones : IsLoaded(pzZones[i], config)}
           rest == Tail(pzRound.due)
           got == pzRound.got
<1>1. got.kind = "rules" => RulesFit(got.data, config)
  BY DEF PzInv, RoundFits, PzApply
<1>2. RoundFits'
  <2>1. pzRound' = IF rest = <<>> THEN NoRound ELSE [NoRound EXCEPT !.stage = "load", !.due = rest]
    BY DEF PzApply
  <2> HIDE DEF rest
  <2>2. DOMAIN pzRound' = {"stage", "due", "got"} /\ pzRound'.stage # "apply"
    BY <2>1 DEF NoRound
  <2> QED
    BY <2>2 DEF RoundFits
<1>3. CASE places = {}
  <2>1. pzZones' = pzZones /\ pzSet' = pzSet
    BY <1>3 DEF PzApply
  <2> QED
    BY <1>2, <2>1 DEF PzInv, PzListed, ZoneFits, Publish, InForce, Sifted
<1>4. CASE places # {}
  <2> DEFINE first == FirstOf(places)
             old == pzZones[first]
             new == Settled(old, got)
  <2>1. pzZones' = [pzZones EXCEPT ![first] = new] /\ pzSet' = Publish(pzZones')
    BY <1>4 DEF PzApply
  <2>2. DOMAIN pzZones = 1 .. Len(pzZones) /\ Len(pzZones) \in Nat
    BY DEF PzInv, PzListed
  <2>3. first \in places
    <3>1. places \subseteq Nat
      BY <2>2
    <3> HIDE DEF places
    <3> QED
      BY <1>4, <3>1, FirstIsOne
  <2>4. first \in DOMAIN pzZones /\ ZoneFits(old) /\ old.config.place = config.place
    <3>1. first \in DOMAIN pzZones /\ IsLoaded(old, config)
      BY <2>3
    <3> HIDE DEF first, config, places
    <3> QED
      BY <3>1 DEF PzInv, IsLoaded, SameSource
  <2>5. ZoneFits(new)
    <3> HIDE DEF old, got, config
    <3>1. DOMAIN old = {"config", "data", "failed", "due"} /\ RulesFit(old.data, old.config)
      BY <2>4 DEF ZoneFits
    <3>2. CASE got.kind = "rules"
      <4>1. new = [old EXCEPT !.data = got.data, !.failed = FALSE, !.due = FALSE]
        BY <3>2 DEF Settled
      <4> HIDE DEF new
      <4>2. DOMAIN new = DOMAIN old /\ new.config = old.config /\ new.data = got.data
        BY <3>1, <4>1
      <4> QED
        BY <1>1, <2>4, <3>1, <3>2, <4>2 DEF ZoneFits, RulesFit
    <3>3. CASE got.kind # "rules"
      <4>1. new = [old EXCEPT !.failed = got.kind = "error", !.due = FALSE]
        BY <3>3 DEF Settled
      <4> HIDE DEF new
      <4>2. DOMAIN new = DOMAIN old /\ new.config = old.config /\ new.data = old.data
        BY <3>1, <4>1
      <4> QED
        BY <3>1, <4>2 DEF ZoneFits
    <3> QED
      BY <3>2, <3>3
  <2> HIDE DEF first, new, places
  <2>6. DOMAIN pzZones' = DOMAIN pzZones /\ Len(pzZones') = Len(pzZones)
    <3>1. pzZones' = [i \in 1 .. Len(pzZones) |-> pzZones'[i]]
      BY <2>1, <2>2
    <3> QED
      BY <2>1, <2>2, <3>1
  <2>7. PzListed'
    BY <2>2, <2>6 DEF PzListed
  <2>8. ASSUME NEW i \in DOMAIN pzZones' PROVE ZoneFits(pzZones'[i])
    <3>1. CASE i = first
      BY <2>1, <2>4, <2>5, <3>1
    <3>2. CASE i # first
      <4>1. pzZones'[i] = pzZones[i] /\ i \in DOMAIN pzZones
        BY <2>1, <2>6, <3>2
      <4> QED
        BY <4>1 DEF PzInv
    <3> QED
      BY <3>1, <3>2
  <2>9. \A i \in DOMAIN pzZones' : ZoneFits(pzZones'[i])
    BY <2>8
  <2> QED
    BY <1>2, <2>1, <2>7, <2>9 DEF PzInv, ZoneFits, Publish, InForce, Sifted
<1> QED
  BY <1>3, <1>4

\* What is published in step with the list is what the property asks.
LEMMA PzInvStep ==
  ASSUME PzInv
  PROVE  PolicyZonesInStep
<1> DEFINE live == InForce(pzZones)
<1>1. Len(pzZones) \in Nat /\ live \subseteq 1 .. Len(pzZones) /\ live \subseteq DOMAIN pzZones
  BY DEF InForce, PzInv, PzListed
<1> HIDE DEF live
<1> DEFINE active == Sifted(pzZones, live)
<1>2. /\ Cardinality(live) \in Nat /\ DOMAIN active = 1 .. Cardinality(live)
      /\ \A k \in live : Rank(live, k) \in 1 .. Cardinality(live) /\ active[Rank(live, k)] = pzZones[k]
  BY <1>1, PositionsFinite, SiftedIs
<1>3. pzSet = [i \in DOMAIN active |-> [name |-> active[i].config.name, policy |-> active[i].config.policy,
                                        data |-> active[i].data]]
  BY DEF PzInv, Publish, live
<1> HIDE DEF active
<1>4. Len(pzSet) = Cardinality(live)
  BY <1>2, <1>3
<1>5. ASSUME NEW k \in live
      PROVE  LET z == pzZones[k]
                 published == pzSet[Rank(live, k)] IN
             /\ published.name = z.config.name /\ published.policy = z.config.policy
             /\ published.data = z.data /\ z.data.from = z.config.place
             /\ \A rule \in published.data.rules : ~Unsupported(rule.trigger)
  <2>1. pzSet[Rank(live, k)] = [name |-> pzZones[k].config.name, policy |-> pzZones[k].config.policy,
                                data |-> pzZones[k].data]
    BY <1>2, <1>3
  <2>2. pzZones[k].data # NoRules
    BY DEF live, InForce
  <2>3. RulesFit(pzZones[k].data, pzZones[k].config)
    BY <1>1 DEF PzInv, ZoneFits
  <2> QED
    BY <2>1, <2>2, <2>3 DEF RulesFit
<1> QED
  BY <1>4, <1>5 DEF PolicyZonesInStep, live, InForce

(* What the dispatcher applies under a response policy zone's name are rules  *)
(* of the source that zone has now, in the order of the list and with its     *)
(* policy, and no loaded, enabled zone is missing, however saves of the list, *)
(* a publisher's changes and the loads of a round are interleaved (rpz.rs).   *)
THEOREM PolicyZonesInStepCorrect == PzSpec => []PolicyZonesInStep
<1> USE PzAssumption
<1>1. PzInit => PzInv
  <2> SUFFICES ASSUME PzInit PROVE PzInv
    OBVIOUS
  <2>1. pzZones = <<>> /\ pzSet = <<>> /\ pzRound = NoRound
    BY DEF PzInit
  <2>2. InForce(pzZones) = {} /\ Cardinality({}) = 0
    BY <2>1, FS_EmptySet DEF InForce
  <2>3. Publish(pzZones) = <<>>
    BY <2>2 DEF Publish, Sifted
  <2> QED
    BY <2>1, <2>3 DEF PzInv, PzListed, RoundFits, NoRound
<1>2. PzInv /\ [PzNext]_pzVars => PzInv'
  <2> SUFFICES ASSUME PzInv, [PzNext]_pzVars PROVE PzInv'
    OBVIOUS
  <2>1. ASSUME NEW list \in PzLists, PzSave(list) PROVE PzInv'
    BY <2>1, PzSaveKeeps
  <2>2. CASE PzRefreshNow
    BY <2>2, PzDueKeeps DEF PzRefreshNow
  <2>3. CASE PzRoundBegins
    <3>1. pzZones' = pzZones /\ pzSet' = pzSet /\ DOMAIN pzRound' = {"stage", "due", "got"} /\ pzRound'.got.kind = "none"
      <4> DEFINE due == Sifted(pzZones, {i \in DOMAIN pzZones : DueNow(pzZones[i])})
                 noted == [i \in DOMAIN due |-> [config |-> due[i].config, serial |-> due[i].data.serial]]
      <4>1. /\ pzZones' = pzZones /\ pzSet' = pzSet
            /\ pzRound' = IF due = <<>> THEN NoRound ELSE [NoRound EXCEPT !.stage = "load", !.due = noted]
        BY <2>3 DEF PzRoundBegins
      <4> HIDE DEF due, noted
      <4> QED
        BY <4>1 DEF NoRound
    <3>2. RoundFits'
      BY <3>1 DEF RoundFits
    <3> QED
      BY <3>1, <3>2 DEF PzInv, PzListed, ZoneFits, Publish, InForce, Sifted
  <2>4. CASE PzLoad
    BY <2>4, PzLoadKeeps
  <2>5. CASE PzApply
    BY <2>5, PzApplyKeeps
  <2>6. ASSUME NEW i \in DOMAIN pzZones, PzFallsDue(i) PROVE PzInv'
    BY <2>6, PzDueKeeps DEF PzFallsDue
  <2>7. ASSUME NEW place \in Places, PzPublisherChanges(place) PROVE PzInv'
    BY <2>7, ZenonT(60) DEF PzPublisherChanges, PzInv, PzListed, ZoneFits, RoundFits, RulesFit, Publish, InForce, Sifted
  <2>8. CASE UNCHANGED pzVars
    BY <2>8 DEF pzVars, PzInv, PzListed, ZoneFits, RoundFits, RulesFit, Publish, InForce, Sifted
  <2> QED
    BY <2>1, <2>2, <2>3, <2>4, <2>5, <2>6, <2>7, <2>8 DEF PzNext
<1>3. PzInv => PolicyZonesInStep
  BY PzInvStep
<1> QED
  BY <1>1, <1>2, <1>3, PTL DEF PzSpec

----------------------------------------------------------------------------
(* The query logs *)

\* Queries on their way, oldest first.
Entries == [n : Nat, day : Nat]
Elems(s) == {s[i] : i \in DOMAIN s}
Ascending(s) == \A i, j \in DOMAIN s : i < j => s[i].n < s[j].n /\ s[i].day <= s[j].day
Below(s, t) == \A e \in Elems(s), f \in Elems(t) : e.n < f.n /\ e.day <= f.day

\* What a sequence of queries is made of when one is added, the first is taken
\* away, or another follows it.
LEMMA ElemsOf ==
  ASSUME NEW s \in Seq(Entries)
  PROVE  /\ Elems(s) \subseteq Entries /\ Len(s) \in Nat /\ DOMAIN s = 1 .. Len(s)
         /\ Elems(<<>>) = {} /\ Numbers(s) = {e.n : e \in Elems(s)} /\ Numbers(<<>>) = {}
         /\ (s = <<>> <=> Elems(s) = {})
<1>1. Elems(s) \subseteq Entries /\ Len(s) \in Nat /\ DOMAIN s = 1 .. Len(s)
  BY DEF Elems
<1>2. Elems(<<>>) = {} /\ Numbers(<<>>) = {}
  BY DEF Elems, Numbers
<1>3. Numbers(s) = {e.n : e \in Elems(s)}
  BY DEF Elems, Numbers
<1>4. s # <<>> => Elems(s) # {}
  <2>1. s # <<>> => s[1] \in Elems(s)
    BY DEF Elems
  <2> QED
    BY <2>1
<1> QED
  BY <1>1, <1>2, <1>3, <1>4

\* One is added.
LEMMA Added ==
  ASSUME NEW s \in Seq(Entries), NEW e \in Entries
  PROVE  /\ Append(s, e) \in Seq(Entries) /\ Len(Append(s, e)) = Len(s) + 1
         /\ Elems(Append(s, e)) = Elems(s) \cup {e}
         /\ Ascending(s) /\ (\A f \in Elems(s) : f.n < e.n /\ f.day <= e.day) => Ascending(Append(s, e))
<1>1. Append(s, e) \in Seq(Entries) /\ Len(Append(s, e)) = Len(s) + 1 /\ DOMAIN Append(s, e) = 1 .. Len(s) + 1
  OBVIOUS
<1>2. /\ Append(s, e)[Len(s) + 1] = e /\ \A i \in 1 .. Len(s) : Append(s, e)[i] = s[i]
      /\ Len(s) \in Nat /\ DOMAIN s = 1 .. Len(s)
  OBVIOUS
<1>3. Elems(Append(s, e)) = Elems(s) \cup {e}
  <2>1. \A i \in 1 .. Len(s) + 1 : i \in 1 .. Len(s) \/ i = Len(s) + 1
    BY <1>2
  <2>2. ASSUME NEW f \in Elems(Append(s, e)) PROVE f \in Elems(s) \cup {e}
    <3>1. PICK i \in 1 .. Len(s) + 1 : f = Append(s, e)[i]
      BY <1>1 DEF Elems
    <3> QED
      BY <1>2, <2>1, <3>1 DEF Elems
  <2>3. ASSUME NEW f \in Elems(s) PROVE f \in Elems(Append(s, e))
    <3>1. PICK i \in 1 .. Len(s) : f = s[i]
      BY <1>2 DEF Elems
    <3>2. i \in 1 .. Len(s) + 1 /\ f = Append(s, e)[i]
      BY <1>2, <3>1
    <3> QED
      BY <1>1, <3>2 DEF Elems
  <2>4. e \in Elems(Append(s, e))
    <3>1. Len(s) + 1 \in 1 .. Len(s) + 1
      BY <1>2
    <3> QED
      BY <1>1, <1>2, <3>1 DEF Elems
  <2> QED
    BY <2>2, <2>3, <2>4
<1>4. ASSUME Ascending(s), \A f \in Elems(s) : f.n < e.n /\ f.day <= e.day
      PROVE  Ascending(Append(s, e))
  <2> DEFINE t == Append(s, e)
  <2>1. /\ DOMAIN t = 1 .. Len(s) + 1 /\ t[Len(s) + 1] = e /\ \A i \in 1 .. Len(s) : t[i] = s[i]
    BY <1>1, <1>2
  <2> HIDE DEF t
  <2>2. ASSUME NEW i \in 1 .. Len(s) + 1, NEW j \in 1 .. Len(s) + 1, i < j
        PROVE  t[i].n < t[j].n /\ t[i].day <= t[j].day
    <3>1. i \in 1 .. Len(s) /\ t[i] = s[i]
      BY <1>2, <2>1, <2>2
    <3>2. CASE j = Len(s) + 1
      <4>1. s[i] \in Elems(s)
        BY <1>2, <3>1 DEF Elems
      <4> QED
        BY <1>4, <2>1, <3>1, <3>2, <4>1
    <3>3. CASE j # Len(s) + 1
      <4>1. j \in 1 .. Len(s) /\ t[j] = s[j]
        BY <1>2, <2>1, <3>3
      <4> QED
        BY <1>2, <1>4, <2>2, <3>1, <4>1 DEF Ascending
    <3> QED
      BY <3>2, <3>3
  <2>3. Ascending(t)
    BY <2>1, <2>2 DEF Ascending
  <2> QED
    BY <2>3 DEF t
<1> QED
  BY <1>1, <1>3, <1>4

\* The first is taken away.
LEMMA TakenAway ==
  ASSUME NEW s \in Seq(Entries), s # <<>>
  PROVE  /\ Tail(s) \in Seq(Entries) /\ Len(Tail(s)) = Len(s) - 1 /\ Len(s) \in Nat
         /\ Head(s) \in Entries /\ Elems(s) = Elems(Tail(s)) \cup {Head(s)}
         /\ Ascending(s) => Ascending(Tail(s)) /\ \A f \in Elems(Tail(s)) : Head(s).n < f.n /\ Head(s).day <= f.day
<1>1. /\ Tail(s) \in Seq(Entries) /\ Len(Tail(s)) = Len(s) - 1 /\ Len(s) \in Nat /\ Len(s) > 0
      /\ DOMAIN s = 1 .. Len(s) /\ DOMAIN Tail(s) = 1 .. Len(s) - 1
  OBVIOUS
<1>2. /\ Head(s) = s[1] /\ s[1] \in Entries
      /\ \A i \in 1 .. Len(s) - 1 : Tail(s)[i] = s[i + 1]
  OBVIOUS
<1> DEFINE t == Tail(s)
<1>3. DOMAIN t = 1 .. Len(s) - 1 /\ \A i \in 1 .. Len(s) - 1 : t[i] = s[i + 1]
  BY <1>1, <1>2
<1> HIDE DEF t
<1>4. Elems(s) = Elems(t) \cup {s[1]}
  <2>1. ASSUME NEW f \in Elems(s) PROVE f \in Elems(t) \cup {s[1]}
    <3>1. PICK i \in 1 .. Len(s) : f = s[i]
      BY <1>1 DEF Elems
    <3>2. CASE i = 1
      BY <3>1, <3>2
    <3>3. CASE i # 1
      <4>1. i - 1 \in 1 .. Len(s) - 1 /\ t[i - 1] = s[i]
        BY <1>1, <1>3, <3>3
      <4> QED
        BY <1>3, <3>1, <4>1 DEF Elems
    <3> QED
      BY <3>2, <3>3
  <2>2. ASSUME NEW f \in Elems(t) PROVE f \in Elems(s)
    <3>1. PICK i \in 1 .. Len(s) - 1 : f = t[i]
      BY <1>3 DEF Elems
    <3>2. i + 1 \in 1 .. Len(s) /\ f = s[i + 1]
      BY <1>1, <1>3, <3>1
    <3> QED
      BY <1>1, <3>2 DEF Elems
  <2>3. s[1] \in Elems(s)
    <3>1. 1 \in 1 .. Len(s)
      BY <1>1
    <3> QED
      BY <1>1, <3>1 DEF Elems
  <2> QED
    BY <2>1, <2>2, <2>3
<1>5. ASSUME Ascending(s)
      PROVE  Ascending(t) /\ \A f \in Elems(t) : s[1].n < f.n /\ s[1].day <= f.day
  <2>1. ASSUME NEW i \in 1 .. Len(s) - 1, NEW j \in 1 .. Len(s) - 1, i < j
        PROVE  t[i].n < t[j].n /\ t[i].day <= t[j].day
    <3>1. i + 1 \in 1 .. Len(s) /\ j + 1 \in 1 .. Len(s) /\ i + 1 < j + 1
      BY <1>1, <2>1
    <3> QED
      BY <1>1, <1>3, <1>5, <3>1 DEF Ascending
  <2>2. ASSUME NEW f \in Elems(t) PROVE s[1].n < f.n /\ s[1].day <= f.day
    <3>1. PICK i \in 1 .. Len(s) - 1 : f = t[i]
      BY <1>3 DEF Elems
    <3>2. 1 \in 1 .. Len(s) /\ i + 1 \in 1 .. Len(s) /\ 1 < i + 1 /\ f = s[i + 1]
      BY <1>1, <1>3, <3>1
    <3> QED
      BY <1>1, <1>5, <3>2 DEF Ascending
  <2> QED
    BY <1>3, <2>1, <2>2 DEF Ascending
<1> QED
  BY <1>1, <1>2, <1>4, <1>5 DEF t

\* Another follows it.
LEMMA Followed ==
  ASSUME NEW s \in Seq(Entries), NEW t \in Seq(Entries)
  PROVE  /\ s \o t \in Seq(Entries) /\ Len(s \o t) = Len(s) + Len(t)
         /\ Elems(s \o t) = Elems(s) \cup Elems(t)
         /\ Ascending(s) /\ Ascending(t) /\ Below(s, t) => Ascending(s \o t)
         /\ s # <<>> => (s \o t)[1] = s[1] /\ s \o t # <<>>
<1> DEFINE u == s \o t
           a == Len(s)
           b == Len(t)
<1>1. /\ a \in Nat /\ b \in Nat /\ DOMAIN s = 1 .. a /\ DOMAIN t = 1 .. b
      /\ u \in Seq(Entries) /\ Len(u) = a + b /\ DOMAIN u = 1 .. a + b
  OBVIOUS
<1>2. (\A i \in 1 .. a : u[i] = s[i]) /\ \A i \in 1 .. b : u[a + i] = t[i]
  OBVIOUS
<1>3. \A i \in 1 .. a : i \in 1 .. a + b
  BY <1>1
<1>4. \A i \in 1 .. b : a + i \in 1 .. a + b
  BY <1>1
<1>5. \A i \in 1 .. a + b : i \in 1 .. a \/ (i - a \in 1 .. b /\ i = a + (i - a))
  BY <1>1
<1>6. s # <<>> => 1 \in 1 .. a
  OBVIOUS
<1>7. s # <<>> => u[1] = s[1] /\ u # <<>>
  BY <1>1, <1>2, <1>6
<1> HIDE DEF u, a, b
<1>8. Elems(u) = Elems(s) \cup Elems(t)
  <2>1. ASSUME NEW f \in Elems(u) PROVE f \in Elems(s) \cup Elems(t)
    <3>1. PICK i \in 1 .. a + b : f = u[i]
      BY <1>1 DEF Elems
    <3>2. CASE i \in 1 .. a
      BY <1>1, <1>2, <3>1, <3>2 DEF Elems
    <3>3. CASE i \notin 1 .. a
      <4>1. i - a \in 1 .. b /\ f = t[i - a]
        BY <1>2, <1>5, <3>1, <3>3
      <4> QED
        BY <1>1, <4>1 DEF Elems
    <3> QED
      BY <3>2, <3>3
  <2>2. ASSUME NEW f \in Elems(s) PROVE f \in Elems(u)
    <3>1. PICK i \in 1 .. a : f = s[i]
      BY <1>1 DEF Elems
    <3> QED
      BY <1>1, <1>2, <1>3, <3>1 DEF Elems
  <2>3. ASSUME NEW f \in Elems(t) PROVE f \in Elems(u)
    <3>1. PICK i \in 1 .. b : f = t[i]
      BY <1>1 DEF Elems
    <3> QED
      BY <1>1, <1>2, <1>4, <3>1 DEF Elems
  <2> QED
    BY <2>1, <2>2, <2>3
<1>9. ASSUME Ascending(s), Ascending(t), Below(s, t)
      PROVE  Ascending(u)
  <2>1. ASSUME NEW i \in 1 .. a + b, NEW j \in 1 .. a + b, i < j
        PROVE  u[i].n < u[j].n /\ u[i].day <= u[j].day
    <3>1. CASE i \in 1 .. a /\ j \in 1 .. a
      BY <1>1, <1>2, <1>9, <2>1, <3>1 DEF Ascending
    <3>2. CASE i \in 1 .. a /\ j \notin 1 .. a
      <4>1. j - a \in 1 .. b /\ u[j] = t[j - a] /\ u[i] = s[i]
        BY <1>2, <1>5, <3>2
      <4>2. s[i] \in Elems(s) /\ t[j - a] \in Elems(t)
        BY <1>1, <3>2, <4>1 DEF Elems
      <4> QED
        BY <1>9, <4>1, <4>2 DEF Below
    <3>3. CASE i \notin 1 .. a
      <4>1. j \notin 1 .. a
        BY <1>1, <2>1, <3>3
      <4>2. i - a \in 1 .. b /\ j - a \in 1 .. b /\ u[i] = t[i - a] /\ u[j] = t[j - a]
        BY <1>2, <1>5, <3>3, <4>1
      <4>3. i - a < j - a
        BY <1>1, <2>1
      <4> QED
        BY <1>1, <1>9, <4>2, <4>3 DEF Ascending
    <3> QED
      BY <3>1, <3>2, <3>3
  <2> QED
    BY <1>1, <2>1 DEF Ascending
<1> QED
  BY <1>1, <1>7, <1>8, <1>9 DEF u, a, b

\* What is deleted of a list, its oldest queries: the rest is its end.
EndOf(left, rows) ==
    \E k \in 0 .. Len(rows) : Len(left) = Len(rows) - k /\ \A i \in 1 .. Len(left) : left[i] = rows[i + k]

\* The positions from one on, sifted, are the end of a list.
LEMMA SiftedEnd ==
  ASSUME NEW rows \in Seq(Entries), NEW k \in 0 .. Len(rows)
  PROVE  Sifted(rows, k + 1 .. Len(rows)) \in Seq(Entries) /\ EndOf(Sifted(rows, k + 1 .. Len(rows)), rows)
<1> DEFINE m == Len(rows)
           K == k + 1 .. m
           left == Sifted(rows, K)
<1> SUFFICES left \in Seq(Entries) /\ EndOf(left, rows)
  OBVIOUS
<1>1. m \in Nat /\ k \in Nat /\ k <= m /\ K \subseteq 1 .. m /\ DOMAIN rows = 1 .. m /\ \A i \in 1 .. m : rows[i] \in Entries
  OBVIOUS
<1>2. Cardinality(K) = m - k
  <2>1. k + 1 \in Int /\ m \in Int
    BY <1>1
  <2>2. Cardinality(k + 1 .. m) = IF k + 1 > m THEN 0 ELSE m - (k + 1) + 1
    BY <2>1, FS_Interval
  <2> QED
    BY <1>1, <2>2
<1> HIDE DEF m, K
<1>3. /\ DOMAIN left = 1 .. m - k /\ Len(left) = m - k
      /\ \A j \in K : Rank(K, j) \in 1 .. m - k /\ left[Rank(K, j)] = rows[j]
      /\ \A i \in 1 .. m - k : AtRank(K, i) \in K /\ left[i] = rows[AtRank(K, i)]
  <2>1. /\ Cardinality(K) = m - k /\ DOMAIN left = 1 .. Cardinality(K) /\ Len(left) = Cardinality(K)
        /\ \A j \in K : Rank(K, j) \in 1 .. Cardinality(K) /\ left[Rank(K, j)] = rows[j]
        /\ \A i \in 1 .. Cardinality(K) : AtRank(K, i) \in K /\ left[i] = rows[AtRank(K, i)]
    <3>1. K \subseteq Nat /\ IsFiniteSet(K)
      BY <1>1, PositionsFinite
    <3>2. /\ Cardinality(K) \in Nat
          /\ \A j \in K : Rank(K, j) \in 1 .. Cardinality(K) /\ AtRank(K, Rank(K, j)) = j
          /\ \A i \in 1 .. Cardinality(K) : AtRank(K, i) \in K /\ Rank(K, AtRank(K, i)) = i
      BY <3>1, RanksNumber
    <3>3. left = [i \in 1 .. Cardinality(K) |-> rows[AtRank(K, i)]]
      BY DEF Sifted
    <3> HIDE DEF left
    <3>4. DOMAIN left = 1 .. Cardinality(K) /\ \A i \in 1 .. Cardinality(K) : left[i] = rows[AtRank(K, i)]
      BY <3>3
    <3>5. Len(left) = Cardinality(K)
      BY <3>2, <3>3
    <3>6. \A j \in K : left[Rank(K, j)] = rows[j]
      BY <3>2, <3>4
    <3> QED
      BY <1>2, <3>2, <3>4, <3>5, <3>6
  <2> HIDE DEF left
  <2> QED
    BY <2>1
<1>4. ASSUME NEW i \in 1 .. m - k PROVE left[i] = rows[i + k]
  <2>1. i + k \in K /\ i + k \in Int /\ k + 1 \in Int
    BY <1>1 DEF m, K
  <2>2. {j \in K : j <= i + k} = k + 1 .. i + k
    BY <1>1 DEF m, K
  <2>3. Cardinality(k + 1 .. i + k) = IF k + 1 > i + k THEN 0 ELSE i + k - (k + 1) + 1
    BY <2>1, FS_Interval
  <2>5. i \in Int /\ ~(k + 1 > i + k) /\ i + k - (k + 1) + 1 = i
    BY <1>1
  <2>6. Cardinality(k + 1 .. i + k) = i
    BY <2>3, <2>5
  <2>4. Rank(K, i + k) = i
    BY <2>2, <2>6 DEF Rank
  <2> QED
    BY <1>3, <2>1, <2>4
<1>5. left = [i \in 1 .. m - k |-> left[i]] /\ \A i \in 1 .. m - k : left[i] \in Entries
  <2>1. \A i \in 1 .. m - k : left[i] \in Entries
    BY <1>1, <1>3
  <2>2. left = [i \in 1 .. m - k |-> rows[AtRank(K, i)]]
    BY <1>2 DEF Sifted
  <2> HIDE DEF left
  <2> QED
    BY <1>3, <2>1, <2>2
<1>6. m - k \in Nat
  BY <1>1
<1>7. left \in Seq(Entries)
  <2> HIDE DEF left
  <2> QED
    BY <1>5, <1>6
<1>8. EndOf(left, rows)
  BY <1>1, <1>3, <1>4 DEF EndOf, m
<1> QED
  BY <1>7, <1>8

\* The rows of the last days of an ascending list are its end, and so are the
\* newest QlMaxRows.
LEMMA TrimmedIsEnd ==
  ASSUME QlAssumption, NEW rows \in Seq(Entries), Ascending(rows), qlDay \in Nat
  PROVE  /\ Recent(rows) \in Seq(Entries) /\ EndOf(Recent(rows), rows)
         /\ Trimmed(rows) \in Seq(Entries) /\ EndOf(Trimmed(rows), rows)
<1> DEFINE m == Len(rows)
<1>1. m \in Nat /\ DOMAIN rows = 1 .. m /\ (\A i \in 1 .. m : rows[i] \in Entries) /\ QlRetention \in Nat /\ QlMaxRows \in Nat
  BY DEF QlAssumption
<1>2. EndOf(rows, rows)
  <2>1. 0 \in 0 .. m /\ m = m - 0 /\ \A i \in 1 .. m : i + 0 = i
    BY <1>1
  <2> QED
    BY <1>1, <2>1 DEF EndOf
<1>3. Recent(rows) \in Seq(Entries) /\ EndOf(Recent(rows), rows)
  <2>1. CASE QlRetention = 0
    BY <1>2, <2>1 DEF Recent
  <2>2. CASE QlRetention # 0
    <3> DEFINE K == Young(rows)
    <3>1. K \subseteq 1 .. m /\ Recent(rows) = Sifted(rows, K)
      BY <1>1, <2>2 DEF Recent, Young
    <3>2. ASSUME NEW i \in K, NEW j \in 1 .. m, i < j PROVE j \in K
      <4>1. i \in DOMAIN rows /\ j \in DOMAIN rows /\ rows[i].day + QlRetention >= qlDay /\ rows[i].day <= rows[j].day
        BY <1>1, <3>2 DEF Young, Ascending
      <4>2. rows[i].day \in Nat /\ rows[j].day \in Nat
        BY <1>1, <4>1 DEF Entries
      <4>3. rows[j].day + QlRetention >= qlDay
        BY <1>1, <4>1, <4>2
      <4> QED
        BY <4>1, <4>3 DEF Young
    <3>3. CASE K = {}
      <4>1. m \in 0 .. Len(rows) /\ K = m + 1 .. Len(rows)
        BY <1>1, <3>3
      <4> HIDE DEF K
      <4> QED
        BY <3>1, <4>1, SiftedEnd
    <3>4. CASE K # {}
      <4>1. K \subseteq Nat
        BY <3>1
      <4>2. PICK f \in K : \A j \in K : f <= j
        <5> HIDE DEF K
        <5> QED
          BY <3>4, <4>1, LeastOf
      <4>3. f \in 1 .. m /\ f - 1 \in 0 .. Len(rows)
        BY <1>1, <3>1
      <4>4. K = (f - 1) + 1 .. Len(rows)
        <5>1. ASSUME NEW j \in K PROVE j \in f .. m
          BY <3>1, <4>2, <4>3
        <5>2. ASSUME NEW j \in f .. m PROVE j \in K
          <6>1. j \in 1 .. m /\ (j = f \/ f < j)
            BY <1>1, <4>3
          <6> QED
            BY <3>2, <4>2, <6>1
        <5>3. (f - 1) + 1 = f
          BY <4>3
        <5> HIDE DEF K
        <5> QED
          BY <5>1, <5>2, <5>3
      <4> HIDE DEF K
      <4> QED
        BY <3>1, <4>3, <4>4, SiftedEnd
    <3> QED
      BY <3>3, <3>4
  <2> QED
    BY <2>1, <2>2
<1>4. Trimmed(rows) \in Seq(Entries) /\ EndOf(Trimmed(rows), rows)
  <2>1. CASE QlMaxRows = 0 \/ m <= QlMaxRows
    BY <1>2, <2>1 DEF Trimmed
  <2>2. CASE ~(QlMaxRows = 0 \/ m <= QlMaxRows)
    <3> DEFINE k == m - QlMaxRows
    <3>1. k \in 0 .. m /\ k + 1 \in 1 .. m /\ Trimmed(rows) = SubSeq(rows, k + 1, m)
      BY <1>1, <2>2 DEF Trimmed
    <3>2. /\ SubSeq(rows, k + 1, m) \in Seq(Entries) /\ Len(SubSeq(rows, k + 1, m)) = m - k
          /\ \A i \in 1 .. m - k : SubSeq(rows, k + 1, m)[i] = rows[i + k]
      BY <1>1, <3>1
    <3> QED
      BY <3>1, <3>2 DEF EndOf
  <2> QED
    BY <2>1, <2>2
<1> QED
  BY <1>3, <1>4

\* The end of an end is an end.
LEMMA EndOfEnd ==
  ASSUME NEW s \in Seq(Entries), NEW t \in Seq(Entries), NEW u \in Seq(Entries), EndOf(u, t), EndOf(t, s)
  PROVE  EndOf(u, s)
<1>1. PICK k \in 0 .. Len(t) : Len(u) = Len(t) - k /\ \A i \in 1 .. Len(u) : u[i] = t[i + k]
  BY DEF EndOf
<1>2. PICK l \in 0 .. Len(s) : Len(t) = Len(s) - l /\ \A i \in 1 .. Len(t) : t[i] = s[i + l]
  BY DEF EndOf
<1>3. Len(s) \in Nat /\ Len(t) \in Nat /\ Len(u) \in Nat
  OBVIOUS
<1>4. k + l \in 0 .. Len(s) /\ Len(u) = Len(s) - (k + l)
  BY <1>1, <1>2, <1>3
<1>5. ASSUME NEW i \in 1 .. Len(u) PROVE u[i] = s[i + (k + l)]
  <2>1. i + k \in 1 .. Len(t) /\ (i + k) + l = i + (k + l)
    BY <1>1, <1>2, <1>3
  <2> QED
    BY <1>1, <1>2, <2>1
<1> QED
  BY <1>4, <1>5 DEF EndOf

\* The end of an ascending list is ascending and of its elements; what is not in
\* it is older than its first, or than the last of the list if nothing is left.
LEMMA EndIs ==
  ASSUME NEW rows \in Seq(Entries), NEW left \in Seq(Entries), Ascending(rows), EndOf(left, rows)
  PROVE  /\ Ascending(left) /\ Elems(left) \subseteq Elems(rows)
         /\ \A e \in Elems(rows) : e \in Elems(left) \/ (left # <<>> /\ e.n < left[1].n)
                                   \/ (left = <<>> /\ rows # <<>> /\ e.n <= rows[Len(rows)].n)
         /\ left # <<>> => rows # <<>> /\ rows[1].n <= left[1].n
         /\ rows # <<>> => rows[1] \in Elems(rows) /\ rows[Len(rows)] \in Elems(rows) /\ rows[1].n <= rows[Len(rows)].n
         /\ Len(rows) > Len(left) /\ left = <<>> <=> left = <<>> /\ rows # <<>>
<1> DEFINE m == Len(rows)
           l == Len(left)
<1>1. PICK k \in 0 .. m : l = m - k /\ \A i \in 1 .. l : left[i] = rows[i + k]
  BY DEF EndOf
<1>2. /\ m \in Nat /\ l \in Nat /\ DOMAIN rows = 1 .. m /\ DOMAIN left = 1 .. l
      /\ (rows = <<>> <=> m = 0) /\ (left = <<>> <=> l = 0)
      /\ \A i \in 1 .. m : rows[i] \in Entries /\ rows[i].n \in Nat
  <2>1. \A i \in 1 .. m : rows[i] \in Entries
    OBVIOUS
  <2>2. \A i \in 1 .. m : rows[i].n \in Nat
    BY <2>1 DEF Entries
  <2> QED
    BY <2>1, <2>2
<1> HIDE DEF m, l
<1>3. \A i \in 1 .. l : i + k \in 1 .. m
  BY <1>1, <1>2
<1>4. Ascending(left)
  <2>1. ASSUME NEW i \in 1 .. l, NEW j \in 1 .. l, i < j PROVE left[i].n < left[j].n /\ left[i].day <= left[j].day
    <3>1. i + k \in 1 .. m /\ j + k \in 1 .. m /\ i + k < j + k
      BY <1>1, <1>2, <1>3, <2>1
    <3> QED
      BY <1>1, <1>2, <3>1 DEF Ascending
  <2> QED
    BY <1>2, <2>1 DEF Ascending
<1>5. Elems(left) \subseteq Elems(rows)
  BY <1>1, <1>2, <1>3 DEF Elems
<1>6. \A i, j \in 1 .. m : i <= j => rows[i].n <= rows[j].n
  <2> TAKE i, j \in 1 .. m
  <2>1. i < j => rows[i].n < rows[j].n
    BY <1>2 DEF Ascending
  <2>2. i \in Int /\ j \in Int /\ rows[i].n \in Nat /\ rows[j].n \in Nat
    BY <1>2
  <2> QED
    BY <2>1, <2>2
<1>7. rows # <<>> => 1 \in 1 .. m /\ m \in 1 .. m /\ 1 <= m
  BY <1>2
<1>8. rows # <<>> => rows[1] \in Elems(rows) /\ rows[m] \in Elems(rows) /\ rows[1].n <= rows[m].n
  BY <1>2, <1>6, <1>7 DEF Elems
<1>9. ASSUME left # <<>> PROVE rows # <<>> /\ rows[1].n <= left[1].n
  <2>1. 1 \in 1 .. l /\ 1 + k \in 1 .. m /\ left[1] = rows[1 + k] /\ 1 \in 1 .. m /\ 1 <= 1 + k /\ rows # <<>>
    BY <1>1, <1>2, <1>3, <1>9
  <2> QED
    BY <1>6, <2>1
<1>10. ASSUME NEW e \in Elems(rows)
       PROVE  e \in Elems(left) \/ (left # <<>> /\ e.n < left[1].n)
              \/ (left = <<>> /\ rows # <<>> /\ e.n <= rows[m].n)
  <2>1. PICK i \in 1 .. m : e = rows[i]
    BY <1>2 DEF Elems
  <2>2. rows # <<>> /\ i <= m /\ m \in 1 .. m
    BY <1>2, <2>1
  <2>3. CASE left = <<>>
    BY <1>6, <2>1, <2>2, <2>3
  <2>4. CASE left # <<>> /\ i <= k
    <3>1. 1 \in 1 .. l /\ 1 + k \in 1 .. m /\ left[1] = rows[1 + k] /\ i < 1 + k
      BY <1>1, <1>2, <1>3, <2>4
    <3> QED
      BY <1>2, <2>1, <2>4, <3>1 DEF Ascending
  <2>5. CASE ~(i <= k)
    <3>1. i - k \in 1 .. l /\ (i - k) + k = i
      BY <1>1, <1>2, <2>5
    <3>2. left[i - k] = rows[i]
      BY <1>1, <3>1
    <3> QED
      BY <1>2, <2>1, <3>1, <3>2 DEF Elems
  <2> QED
    BY <2>3, <2>4, <2>5
<1>11. m > l /\ left = <<>> <=> left = <<>> /\ rows # <<>>
  BY <1>2
<1> QED
  BY <1>4, <1>5, <1>8, <1>9, <1>10, <1>11 DEF m, l

\* The database: the stored rows k, the batch p and the queue q follow each other
\* in the order asked, a being the newest query and d today; c is the newest query
\* of rows all deleted, and b holds those refused or lost.
Accounted(k, p, q, b, c, n) ==
    \/ n \in Numbers(k) \cup Numbers(p) \cup Numbers(q) \cup b
    \/ n <= c
    \/ k # <<>> /\ n < k[1].n
DbGood(k, p, q, b, c, a, d) ==
    /\ k \in Seq(Entries) /\ p \in Seq(Entries) /\ q \in Seq(Entries) /\ c \in Nat /\ a \in Nat /\ d \in Nat /\ c <= a
    /\ Ascending(k) /\ Ascending(p) /\ Ascending(q)
    /\ Below(k, p) /\ Below(k, q) /\ Below(p, q)
    /\ \A e \in Elems(k) \cup Elems(p) \cup Elems(q) : c < e.n /\ e.n <= a /\ e.day <= d
    /\ \A n \in 1 .. a : Accounted(k, p, q, b, c, n)

\* A query is offered: queued, or refused.
LEMMA DbOffered ==
  ASSUME NEW k, NEW p, NEW q, NEW b, NEW c, NEW a, NEW d, DbGood(k, p, q, b, c, a, d)
  PROVE  /\ DbGood(k, p, Append(q, [n |-> a + 1, day |-> d]), b, c, a + 1, d)
         /\ DbGood(k, p, q, b \cup {a + 1}, c, a + 1, d)
<1> USE DEF DbGood
<1> DEFINE e == [n |-> a + 1, day |-> d]
           r == Append(q, e)
<1>1. e \in Entries /\ e.n = a + 1 /\ e.day = d
  BY DEF Entries
<1>2. \A f \in Elems(k) \cup Elems(p) \cup Elems(q) : f \in Entries /\ f.n \in Nat /\ f.day \in Nat
  <2>1. \A f \in Elems(k) \cup Elems(p) \cup Elems(q) : f \in Entries
    BY ElemsOf
  <2> QED
    BY <2>1 DEF Entries
<1>3. \A f \in Elems(k) \cup Elems(p) \cup Elems(q) : f.n < e.n /\ f.day <= e.day
  BY <1>1, <1>2
<1> HIDE DEF e
<1>4. r \in Seq(Entries) /\ Elems(r) = Elems(q) \cup {e} /\ Ascending(r)
  BY <1>1, <1>3, Added
<1> HIDE DEF r
<1>5. Below(k, r) /\ Below(p, r)
  BY <1>3, <1>4 DEF Below
<1>6. \A f \in Elems(k) \cup Elems(p) \cup Elems(r) : c < f.n /\ f.n <= a + 1 /\ f.day <= d
  BY <1>1, <1>2, <1>4
<1>7. Numbers(r) = Numbers(q) \cup {a + 1}
  BY <1>1, <1>4, ElemsOf
<1>8. \A n \in 1 .. a + 1 : n \in 1 .. a \/ n = a + 1
  OBVIOUS
<1>9. \A n \in 1 .. a + 1 : Accounted(k, p, r, b, c, n) /\ Accounted(k, p, q, b \cup {a + 1}, c, n)
  BY <1>7, <1>8 DEF Accounted
<1>10. a + 1 \in Nat /\ c <= a + 1
  OBVIOUS
<1>11. \A f \in Elems(k) \cup Elems(p) \cup Elems(q) : c < f.n /\ f.n <= a + 1 /\ f.day <= d
  BY <1>2
<1>12. DbGood(k, p, r, b, c, a + 1, d)
  BY <1>4, <1>5, <1>6, <1>9, <1>10
<1>13. DbGood(k, p, q, b \cup {a + 1}, c, a + 1, d)
  BY <1>9, <1>10, <1>11
<1> QED
  BY <1>12, <1>13 DEF r, e

\* A day passes.
LEMMA DbMidnight ==
  ASSUME NEW k, NEW p, NEW q, NEW b, NEW c, NEW a, NEW d, DbGood(k, p, q, b, c, a, d)
  PROVE  DbGood(k, p, q, b, c, a, d + 1)
<1> USE DEF DbGood
<1>1. \A f \in Elems(k) \cup Elems(p) \cup Elems(q) : f \in Entries /\ f.day \in Nat
  <2>1. \A f \in Elems(k) \cup Elems(p) \cup Elems(q) : f \in Entries
    BY ElemsOf
  <2> QED
    BY <2>1 DEF Entries
<1>2. \A f \in Elems(k) \cup Elems(p) \cup Elems(q) : f.day <= d + 1
  BY <1>1
<1> QED
  BY <1>2

\* The writer takes a query from the queue into its batch.
LEMMA DbReceived ==
  ASSUME NEW k, NEW p, NEW q, NEW b, NEW c, NEW a, NEW d, DbGood(k, p, q, b, c, a, d), q # <<>>
  PROVE  DbGood(k, Append(p, Head(q)), Tail(q), b, c, a, d)
<1> USE DEF DbGood
<1> DEFINE h == Head(q)
           t == Tail(q)
           r == Append(p, h)
<1>1. /\ t \in Seq(Entries) /\ h \in Entries /\ Elems(q) = Elems(t) \cup {h} /\ Ascending(t)
      /\ \A f \in Elems(t) : h.n < f.n /\ h.day <= f.day
  BY TakenAway
<1> HIDE DEF h, t
<1>2. \A f \in Elems(p) : f.n < h.n /\ f.day <= h.day
  BY <1>1 DEF Below
<1>3. r \in Seq(Entries) /\ Elems(r) = Elems(p) \cup {h} /\ Ascending(r)
  BY <1>1, <1>2, Added
<1> HIDE DEF r
<1>4. Below(k, r) /\ Below(k, t) /\ Below(r, t)
  BY <1>1, <1>3 DEF Below
<1>5. \A e \in Elems(k) \cup Elems(r) \cup Elems(t) : c < e.n /\ e.n <= a /\ e.day <= d
  BY <1>1, <1>3
<1>6. Numbers(r) \cup Numbers(t) = Numbers(p) \cup Numbers(q)
  <2>1. /\ Numbers(r) = {e.n : e \in Elems(r)} /\ Numbers(t) = {e.n : e \in Elems(t)}
        /\ Numbers(p) = {e.n : e \in Elems(p)} /\ Numbers(q) = {e.n : e \in Elems(q)}
    BY <1>1, <1>3, ElemsOf
  <2> QED
    BY <1>1, <1>3, <2>1
<1>7. \A n \in 1 .. a : Accounted(k, r, t, b, c, n)
  BY <1>6 DEF Accounted
<1>8. DbGood(k, r, t, b, c, a, d)
  BY <1>1, <1>3, <1>4, <1>5, <1>7
<1> QED
  BY <1>8 DEF r, t, h

\* The batch is written, or lost.
LEMMA DbFlushed ==
  ASSUME NEW k, NEW p, NEW q, NEW b, NEW c, NEW a, NEW d, DbGood(k, p, q, b, c, a, d)
  PROVE  /\ DbGood(k \o p, <<>>, q, b, c, a, d)
         /\ DbGood(k, <<>>, q, b \cup Numbers(p), c, a, d)
         /\ DbGood(k, p, <<>>, b \cup Numbers(q), c, a, d)
<1> USE DEF DbGood
<1> DEFINE r == k \o p
<1>1. /\ r \in Seq(Entries) /\ Elems(r) = Elems(k) \cup Elems(p) /\ Ascending(r)
      /\ k # <<>> => r[1] = k[1] /\ r # <<>>
  BY Followed
<1> HIDE DEF r
<1>2. <<>> \in Seq(Entries) /\ Elems(<<>>) = {} /\ Numbers(<<>>) = {} /\ Ascending(<<>>)
  BY ElemsOf DEF Ascending
<1>3. Numbers(r) = Numbers(k) \cup Numbers(p)
  <2>1. /\ Numbers(r) = {e.n : e \in Elems(r)} /\ Numbers(k) = {e.n : e \in Elems(k)}
        /\ Numbers(p) = {e.n : e \in Elems(p)}
    BY <1>1, ElemsOf
  <2> QED
    BY <1>1, <2>1
<1>4. Below(r, <<>>) /\ Below(<<>>, q) /\ Below(r, q) /\ Below(k, <<>>) /\ Below(p, <<>>)
  BY <1>1, <1>2 DEF Below
<1>5. \A n \in 1 .. a : /\ Accounted(r, <<>>, q, b, c, n) /\ Accounted(k, <<>>, q, b \cup Numbers(p), c, n)
                        /\ Accounted(k, p, <<>>, b \cup Numbers(q), c, n)
  BY <1>1, <1>2, <1>3 DEF Accounted
<1>6. DbGood(r, <<>>, q, b, c, a, d)
  BY <1>1, <1>2, <1>4, <1>5
<1>7. DbGood(k, <<>>, q, b \cup Numbers(p), c, a, d) /\ DbGood(k, p, <<>>, b \cup Numbers(q), c, a, d)
  BY <1>2, <1>4, <1>5
<1> QED
  BY <1>6, <1>7 DEF r

\* Old rows are deleted: what is left is the end of them.
LEMMA DbDeleted ==
  ASSUME NEW k, NEW p, NEW q, NEW b, NEW c, NEW a, NEW d, DbGood(k, p, q, b, c, a, d),
         NEW left \in Seq(Entries), EndOf(left, k)
  PROVE  DbGood(left, p, q, b, IF Len(k) > Len(left) /\ left = <<>> THEN k[Len(k)].n ELSE c, a, d)
<1> USE DEF DbGood
<1> DEFINE l == k[Len(k)].n
           x == IF Len(k) > Len(left) /\ left = <<>> THEN l ELSE c
<1>1. /\ Ascending(left) /\ Elems(left) \subseteq Elems(k)
      /\ \A e \in Elems(k) : e \in Elems(left) \/ (left # <<>> /\ e.n < left[1].n)
                             \/ (left = <<>> /\ k # <<>> /\ e.n <= l)
      /\ left # <<>> => k # <<>> /\ k[1].n <= left[1].n
      /\ k # <<>> => k[1] \in Elems(k) /\ k[Len(k)] \in Elems(k) /\ k[1].n <= l
      /\ Len(k) > Len(left) /\ left = <<>> <=> left = <<>> /\ k # <<>>
  BY EndIs
<1>2. x = IF left = <<>> /\ k # <<>> THEN l ELSE c
  BY <1>1
<1>3. \A f \in Elems(k) \cup Elems(p) \cup Elems(q) : f \in Entries /\ f.n \in Nat /\ f.day \in Nat
  <2>1. \A f \in Elems(k) \cup Elems(p) \cup Elems(q) : f \in Entries
    BY ElemsOf
  <2> QED
    BY <2>1 DEF Entries
<1>4. Below(left, p) /\ Below(left, q)
  BY <1>1 DEF Below
<1>5. Numbers(left) = {e.n : e \in Elems(left)} /\ Numbers(k) = {e.n : e \in Elems(k)} /\ (left = <<>> <=> Elems(left) = {})
  BY ElemsOf
<1>6. CASE left = <<>> /\ k # <<>>
  <2>1. x = l /\ k[Len(k)] \in Elems(k) /\ k[1] \in Elems(k) /\ k[1].n <= l
    BY <1>1, <1>2, <1>6
  <2>2. l \in Nat /\ c < l /\ l <= a /\ k[1].n \in Nat
    BY <1>3, <2>1
  <2>3. \A e \in Elems(left) \cup Elems(p) \cup Elems(q) : l < e.n /\ e.n <= a /\ e.day <= d
    <3>1. Elems(left) = {}
      BY <1>5, <1>6
    <3>2. \A e \in Elems(p) \cup Elems(q) : l < e.n
      BY <2>1 DEF Below
    <3> QED
      BY <3>1, <3>2
  <2>4. ASSUME NEW n \in 1 .. a PROVE Accounted(left, p, q, b, l, n)
    <3>1. Accounted(k, p, q, b, c, n)
      OBVIOUS
    <3>2. ASSUME n \in Numbers(k) PROVE n <= l
      BY <1>1, <1>5, <1>6, <3>2
    <3>3. n <= c \/ n < k[1].n => n <= l
      <4>1. n \in Nat /\ c \in Nat
        OBVIOUS
      <4> HIDE DEF l
      <4> QED
        BY <2>1, <2>2, <4>1
    <3> QED
      BY <3>1, <3>2, <3>3 DEF Accounted
  <2>5. DbGood(left, p, q, b, l, a, d)
    <3> HIDE DEF l
    <3> QED
      BY <1>1, <1>4, <2>2, <2>3, <2>4
  <2> QED
    BY <2>1, <2>5
<1>7. CASE ~(left = <<>> /\ k # <<>>)
  <2>1. x = c
    BY <1>2, <1>7
  <2>2. \A e \in Elems(left) \cup Elems(p) \cup Elems(q) : c < e.n /\ e.n <= a /\ e.day <= d
    BY <1>1
  <2>3. ASSUME NEW n \in 1 .. a PROVE Accounted(left, p, q, b, c, n)
    <3>1. Accounted(k, p, q, b, c, n)
      OBVIOUS
    <3>2. ASSUME n \in Numbers(k) PROVE n \in Numbers(left) \/ (left # <<>> /\ n < left[1].n)
      BY <1>1, <1>5, <1>7, <3>2
    <3>3. ASSUME k # <<>>, n < k[1].n PROVE left # <<>> /\ n < left[1].n
      <4>1. left # <<>> /\ k[1].n <= left[1].n
        BY <1>1, <1>7, <3>3
      <4>2. left[1] \in Elems(left)
        <5>1. 1 \in DOMAIN left
          BY <4>1
        <5> QED
          BY <5>1 DEF Elems
      <4>3. n \in Nat /\ k[1].n \in Nat /\ left[1].n \in Nat
        BY <1>1, <1>3, <3>3, <4>2
      <4> QED
        BY <3>3, <4>1, <4>3
    <3> QED
      BY <3>1, <3>2, <3>3 DEF Accounted
  <2>4. DbGood(left, p, q, b, c, a, d)
    BY <1>1, <1>4, <2>2, <2>3
  <2> QED
    BY <2>1, <2>4
<1> QED
  BY <1>6, <1>7

\* The console clears the log.
LEMMA DbCleared ==
  ASSUME NEW k, NEW p, NEW q, NEW b, NEW c, NEW a, NEW d, DbGood(k, p, q, b, c, a, d), k # <<>>
  PROVE  DbGood(<<>>, p, q, b, k[Len(k)].n, a, d)
<1>1. k \in Seq(Entries) /\ Len(k) \in Nat /\ Len(k) > 0 /\ <<>> \in Seq(Entries) /\ Len(<<>>) = 0
  BY DEF DbGood
<1>2. EndOf(<<>>, k)
  <2>1. Len(k) \in 0 .. Len(k) /\ 0 = Len(k) - Len(k) /\ \A i \in 1 .. 0 : FALSE
    BY <1>1
  <2> QED
    BY <1>1, <2>1 DEF EndOf
<1>3. DbGood(<<>>, p, q, b, IF Len(k) > Len(<<>>) /\ <<>> = <<>> THEN k[Len(k)].n ELSE c, a, d)
  BY <1>1, <1>2, DbDeleted
<1> QED
  BY <1>1, <1>3

\* A step of the logs is one of the sink's own, or a switch, a day passing or,
\* where there is a queue, an offer.
LEMMA SinkSteps ==
  ASSUME QlNext
  PROVE  /\ qlSink' = qlSink
         /\ qlSink = "db" => \/ QlOffer \/ QlSwitch \/ QlMidnight \/ QdClear \/ QdRestart
                             \/ \E ok \in BOOLEAN : QdReceive(ok) \/ \E aged \in BOOLEAN : QdTick(ok, aged)
         /\ qlSink = "file" => \/ QlSwitch \/ QlMidnight
                               \/ \E t \in QlThreads : \/ QfLook(t)
                                                       \/ \E ok \in BOOLEAN : QfWrite(t, ok) \/ QfOpen(t, ok) \/ QfInstall(t, ok)
         /\ qlSink = "syslog" => \/ QlOffer \/ QlSwitch \/ QlMidnight
                                 \/ QsDiscards \/ QsRetargeted \/ QsCounts \/ QsRetryDue
                                 \/ \E note, line \in Sendings : QsHands(note, line)
         /\ qlSink = "export" => \/ QlOffer \/ QlSwitch \/ QlMidnight \/ QxTake \/ QxClose \/ QxSent
                                 \/ \E taken \in BOOLEAN : QxFails(taken)
<1>1. QlOffer => qlSink # "file" /\ qlSink' = qlSink
  BY DEF QlOffer
<1>2. QlSwitch \/ QlMidnight => qlSink' = qlSink
  BY DEF QlSwitch, QlMidnight
<1>3. ASSUME NEW ok \in BOOLEAN PROVE QdReceive(ok) => qlSink = "db" /\ qlSink' = qlSink
  BY DEF QdReceive, Queued
<1>4. ASSUME NEW ok \in BOOLEAN, NEW aged \in BOOLEAN PROVE QdTick(ok, aged) => qlSink = "db" /\ qlSink' = qlSink
  BY DEF QdTick, Queued
<1>5. QdClear \/ QdRestart => qlSink = "db" /\ qlSink' = qlSink
  BY DEF QdClear, QdRestart, Queued
<1>6. ASSUME NEW note \in Sendings, NEW line \in Sendings
      PROVE  QsHands(note, line) => qlSink = "syslog" /\ qlSink' = qlSink
  BY DEF QsHands, QsLine, Queued
<1>7. QsDiscards \/ QsRetargeted \/ QsCounts \/ QsRetryDue => qlSink = "syslog" /\ qlSink' = qlSink
  BY DEF QsDiscards, QsRetargeted, QsCounts, QsRetryDue, QsLine, Queued
<1>8. QxTake \/ QxClose \/ QxSent => qlSink = "export" /\ qlSink' = qlSink
  BY DEF QxTake, QxClose, QxSent, Queued
<1>9. ASSUME NEW taken \in BOOLEAN PROVE QxFails(taken) => qlSink = "export" /\ qlSink' = qlSink
  BY DEF QxFails, Queued
<1>10. ASSUME NEW t \in QlThreads PROVE QfLook(t) => qlSink = "file" /\ qlSink' = qlSink
  BY DEF QfLook, Unqueued
<1>11. ASSUME NEW t \in QlThreads, NEW ok \in BOOLEAN
       PROVE  QfWrite(t, ok) \/ QfOpen(t, ok) \/ QfInstall(t, ok) => qlSink = "file" /\ qlSink' = qlSink
  BY DEF QfWrite, QfOpen, QfInstall, Unqueued
<1> QED
  BY <1>1, <1>2, <1>3, <1>4, <1>5, <1>6, <1>7, <1>8, <1>9, <1>10, <1>11 DEF QlNext

\* The writer of the database, and what it answers for.
DbInv ==
    qlSink = "db" =>
        /\ qlW = [pending |-> qlW.pending, cut |-> qlW.cut, bad |-> qlW.bad]
        /\ DbGood(qlKept, qlW.pending, qlQ, qlW.bad, qlW.cut, qlAsked, qlDay)

\* The writer's tick: the batch is written or lost, and old rows are deleted.
LEMMA DbTicked ==
  ASSUME QlAssumption, NEW k, NEW q, NEW b, NEW c, NEW a, DbGood(k, <<>>, q, b, c, a, qlDay), NEW aged \in BOOLEAN
  PROVE  LET left == IF aged THEN Recent(Trimmed(k)) ELSE Trimmed(k) IN
         DbGood(left, <<>>, q, b, IF Len(k) > Len(left) /\ left = <<>> THEN k[Len(k)].n ELSE c, a, qlDay)
<1> DEFINE left == IF aged THEN Recent(Trimmed(k)) ELSE Trimmed(k)
<1> SUFFICES DbGood(left, <<>>, q, b, IF Len(k) > Len(left) /\ left = <<>> THEN k[Len(k)].n ELSE c, a, qlDay)
  OBVIOUS
<1>1. k \in Seq(Entries) /\ Ascending(k) /\ qlDay \in Nat
  BY DEF DbGood
<1>2. Trimmed(k) \in Seq(Entries) /\ EndOf(Trimmed(k), k)
  BY <1>1, TrimmedIsEnd
<1>3. Ascending(Trimmed(k))
  BY <1>1, <1>2, EndIs
<1>4. Recent(Trimmed(k)) \in Seq(Entries) /\ EndOf(Recent(Trimmed(k)), Trimmed(k))
  BY <1>1, <1>2, <1>3, TrimmedIsEnd
<1>5. EndOf(Recent(Trimmed(k)), k)
  BY <1>1, <1>2, <1>4, EndOfEnd
<1>6. left \in Seq(Entries) /\ EndOf(left, k)
  BY <1>2, <1>4, <1>5
<1> HIDE DEF left
<1> QED
  BY <1>6, DbDeleted

\* Every step of the database's writer keeps it.
LEMMA DbKeeps ==
  ASSUME QlAssumption, DbInv, [QlNext]_qlVars
  PROVE  DbInv'
<1> SUFFICES ASSUME qlSink' = "db" PROVE DbInv'
  BY DEF DbInv
<1>1. CASE UNCHANGED qlVars
  BY <1>1 DEF DbInv, qlVars
<1>2. CASE QlNext
  <2>1. qlSink = "db" /\ \/ QlOffer \/ QlSwitch \/ QlMidnight \/ QdClear \/ QdRestart
                         \/ \E ok \in BOOLEAN : QdReceive(ok) \/ \E aged \in BOOLEAN : QdTick(ok, aged)
    BY <1>2, SinkSteps
  <2>2. PICK p, c, b : qlW = [pending |-> p, cut |-> c, bad |-> b] /\ DbGood(qlKept, p, qlQ, b, c, qlAsked, qlDay)
    BY <2>1 DEF DbInv
  <2>3. ASSUME NEW k, NEW r, NEW q, NEW x, NEW y, NEW a, NEW d, DbGood(k, r, q, x, y, a, d),
               qlW' = [pending |-> r, cut |-> y, bad |-> x], qlKept' = k, qlQ' = q, qlAsked' = a, qlDay' = d
        PROVE  DbInv'
    <3>1. qlW'.pending = r /\ qlW'.cut = y /\ qlW'.bad = x
      BY <2>3
    <3> QED
      BY <2>3, <3>1 DEF DbInv
  <2>4. /\ \A x : [qlW EXCEPT !.pending = x] = [pending |-> x, cut |-> c, bad |-> b]
        /\ \A x : [qlW EXCEPT !.cut = x] = [pending |-> p, cut |-> x, bad |-> b]
        /\ \A x : [qlW EXCEPT !.bad = x] = [pending |-> p, cut |-> c, bad |-> x]
        /\ \A x, y : [qlW EXCEPT !.pending = x, !.cut = y] = [pending |-> x, cut |-> y, bad |-> b]
        /\ \A x, y : [qlW EXCEPT !.pending = x, !.bad = y] = [pending |-> x, cut |-> c, bad |-> y]
        /\ \A x, y, z : [[qlW EXCEPT !.pending = x, !.cut = y] EXCEPT !.bad = z] = [pending |-> x, cut |-> y, bad |-> z]
        /\ qlW.pending = p /\ qlW.cut = c /\ qlW.bad = b
    <3>1. qlW.pending = p /\ qlW.cut = c /\ qlW.bad = b
      BY <2>2
    <3>2. ASSUME NEW x PROVE [qlW EXCEPT !.pending = x] = [pending |-> x, cut |-> c, bad |-> b]
      BY <2>2
    <3>3. ASSUME NEW x PROVE [qlW EXCEPT !.cut = x] = [pending |-> p, cut |-> x, bad |-> b]
      BY <2>2
    <3>4. ASSUME NEW x PROVE [qlW EXCEPT !.bad = x] = [pending |-> p, cut |-> c, bad |-> x]
      BY <2>2
    <3>5. ASSUME NEW x, NEW y PROVE [qlW EXCEPT !.pending = x, !.cut = y] = [pending |-> x, cut |-> y, bad |-> b]
      <4>1. [[pending |-> x, cut |-> c, bad |-> b] EXCEPT !.cut = y] = [pending |-> x, cut |-> y, bad |-> b]
        OBVIOUS
      <4>2. [qlW EXCEPT !.pending = x, !.cut = y] = [[qlW EXCEPT !.pending = x] EXCEPT !.cut = y]
        OBVIOUS
      <4> QED
        BY <3>2, <4>1, <4>2, Zenon
    <3>6. ASSUME NEW x, NEW y PROVE [qlW EXCEPT !.pending = x, !.bad = y] = [pending |-> x, cut |-> c, bad |-> y]
      <4>1. [[pending |-> x, cut |-> c, bad |-> b] EXCEPT !.bad = y] = [pending |-> x, cut |-> c, bad |-> y]
        OBVIOUS
      <4>2. [qlW EXCEPT !.pending = x, !.bad = y] = [[qlW EXCEPT !.pending = x] EXCEPT !.bad = y]
        OBVIOUS
      <4> QED
        BY <3>2, <4>1, <4>2, Zenon
    <3>7. ASSUME NEW x, NEW y, NEW z
          PROVE  [[qlW EXCEPT !.pending = x, !.cut = y] EXCEPT !.bad = z] = [pending |-> x, cut |-> y, bad |-> z]
      <4>1. [[pending |-> x, cut |-> y, bad |-> b] EXCEPT !.bad = z] = [pending |-> x, cut |-> y, bad |-> z]
        OBVIOUS
      <4> QED
        BY <3>5, <4>1, Zenon
    <3> QED
      BY <3>1, <3>2, <3>3, <3>4, <3>5, <3>6, <3>7
  <2>5. CASE QlOffer
    <3>1. /\ qlAsked' = qlAsked + 1 /\ qlKept' = qlKept /\ qlDay' = qlDay
          /\ \/ qlQ' = Append(qlQ, [n |-> qlAsked + 1, day |-> qlDay]) /\ qlW' = qlW
             \/ qlW' = [pending |-> p, cut |-> c, bad |-> b \cup {qlAsked + 1}] /\ qlQ' = qlQ
      BY <2>1, <2>4, <2>5 DEF QlOffer, Row
    <3>2. /\ DbGood(qlKept, p, Append(qlQ, [n |-> qlAsked + 1, day |-> qlDay]), b, c, qlAsked + 1, qlDay)
          /\ DbGood(qlKept, p, qlQ, b \cup {qlAsked + 1}, c, qlAsked + 1, qlDay)
      BY <2>2, DbOffered
    <3> QED
      BY <2>2, <2>3, <3>1, <3>2
  <2>6. CASE QlSwitch
    BY <2>2, <2>3, <2>6 DEF QlSwitch
  <2>7. CASE QlMidnight
    <3>1. DbGood(qlKept, p, qlQ, b, c, qlAsked, qlDay + 1)
      BY <2>2, DbMidnight
    <3> QED
      BY <2>2, <2>3, <2>7, <3>1 DEF QlMidnight
  <2>8. CASE QdClear
    <3>1. DbGood(<<>>, p, qlQ, b, qlKept[Len(qlKept)].n, qlAsked, qlDay)
      BY <2>2, <2>8, DbCleared DEF QdClear
    <3>2. /\ qlKept' = <<>> /\ qlW' = [pending |-> p, cut |-> qlKept[Len(qlKept)].n, bad |-> b]
          /\ qlQ' = qlQ /\ qlAsked' = qlAsked /\ qlDay' = qlDay
      BY <2>4, <2>8 DEF QdClear, Queued
    <3> QED
      BY <2>3, <3>1, <3>2
  <2>9. CASE QdRestart
    <3>1. DbGood(qlKept \o p, <<>>, qlQ, b, c, qlAsked, qlDay)
      BY <2>2, DbFlushed
    <3>2. DbGood(qlKept \o p, <<>>, <<>>, b \cup Numbers(qlQ), c, qlAsked, qlDay)
      BY <3>1, DbFlushed
    <3>3. /\ qlKept' = qlKept \o p /\ qlW' = [pending |-> <<>>, cut |-> c, bad |-> b \cup Numbers(qlQ)]
          /\ qlQ' = <<>> /\ qlAsked' = qlAsked /\ qlDay' = qlDay
      BY <2>4, <2>9 DEF QdRestart, Queued
    <3> QED
      BY <2>3, <3>2, <3>3
  <2>10. ASSUME NEW ok \in BOOLEAN, QdReceive(ok) PROVE DbInv'
    <3> DEFINE r == Append(p, Head(qlQ))
    <3>1. DbGood(qlKept, r, Tail(qlQ), b, c, qlAsked, qlDay)
      BY <2>2, <2>10, DbReceived DEF QdReceive
    <3>2. qlQ' = Tail(qlQ) /\ qlAsked' = qlAsked /\ qlDay' = qlDay
      BY <2>10 DEF QdReceive, Queued
    <3>3. \/ /\ qlKept' = IF ok THEN qlKept \o r ELSE qlKept
             /\ qlW' = [qlW EXCEPT !.pending = <<>>, !.bad = IF ok THEN b ELSE b \cup Numbers(r)]
          \/ qlW' = [qlW EXCEPT !.pending = r] /\ qlKept' = qlKept
      BY <2>4, <2>10 DEF QdReceive, Flushed
    <3> HIDE DEF r
    <3>4. /\ DbGood(qlKept \o r, <<>>, Tail(qlQ), b, c, qlAsked, qlDay)
          /\ DbGood(qlKept, <<>>, Tail(qlQ), b \cup Numbers(r), c, qlAsked, qlDay)
      BY <3>1, DbFlushed
    <3>5. CASE qlW' = [qlW EXCEPT !.pending = r] /\ qlKept' = qlKept
      BY <2>3, <2>4, <3>1, <3>2, <3>5
    <3>6. CASE /\ qlKept' = IF ok THEN qlKept \o r ELSE qlKept
               /\ qlW' = [qlW EXCEPT !.pending = <<>>, !.bad = IF ok THEN b ELSE b \cup Numbers(r)]
      <4>1. CASE ok
        <5>1. qlKept' = qlKept \o r /\ qlW' = [pending |-> <<>>, cut |-> c, bad |-> b]
          BY <2>4, <3>6, <4>1
        <5> QED
          BY <2>3, <3>2, <3>4, <5>1
      <4>2. CASE ~ok
        <5>1. qlKept' = qlKept /\ qlW' = [pending |-> <<>>, cut |-> c, bad |-> b \cup Numbers(r)]
          BY <2>4, <3>6, <4>2
        <5> QED
          BY <2>3, <3>2, <3>4, <5>1
      <4> QED
        BY <4>1, <4>2
    <3> QED
      BY <3>3, <3>5, <3>6
  <2>11. ASSUME NEW ok \in BOOLEAN, NEW aged \in BOOLEAN, QdTick(ok, aged) PROVE DbInv'
    <3> DEFINE k == IF ok THEN qlKept \o p ELSE qlKept
               x == IF ok THEN b ELSE b \cup Numbers(p)
               left == IF aged THEN Recent(Trimmed(k)) ELSE Trimmed(k)
               y == IF Len(k) > Len(left) /\ left = <<>> THEN k[Len(k)].n ELSE c
    <3>1. DbGood(k, <<>>, qlQ, x, c, qlAsked, qlDay)
      <4>1. /\ DbGood(qlKept \o p, <<>>, qlQ, b, c, qlAsked, qlDay)
            /\ DbGood(qlKept, <<>>, qlQ, b \cup Numbers(p), c, qlAsked, qlDay)
        BY <2>2, DbFlushed
      <4> QED
        BY <4>1
    <3>2. qlKept' = left /\ qlQ' = qlQ /\ qlAsked' = qlAsked /\ qlDay' = qlDay
      BY <2>4, <2>11 DEF QdTick, Queued
    <3>3. qlW' = [[qlW EXCEPT !.pending = <<>>, !.cut = y] EXCEPT !.bad = x]
      BY <2>4, <2>11, ZenonT(60) DEF QdTick, Cut
    <3> HIDE DEF k, x
    <3>4. DbGood(left, <<>>, qlQ, x, y, qlAsked, qlDay)
      BY <3>1, DbTicked
    <3> HIDE DEF left, y
    <3>5. qlW' = [pending |-> <<>>, cut |-> y, bad |-> x]
      BY <2>4, <3>3
    <3> QED
      BY <2>3, <3>2, <3>4, <3>5
  <2> QED
    BY <2>1, <2>5, <2>6, <2>7, <2>8, <2>9, <2>10, <2>11
<1> QED
  BY <1>1, <1>2

\* What the database's part of the property says of it.
LEMMA DbAccounted ==
  ASSUME DbInv, qlSink = "db"
  PROVE  /\ \A i, j \in DOMAIN qlKept : i < j => qlKept[i].n < qlKept[j].n
         /\ \A n \in 1 .. qlAsked :
              \/ n \in Numbers(qlKept) \cup Numbers(qlW.pending) \cup Numbers(qlQ) \cup qlW.bad
              \/ n <= qlW.cut
              \/ qlKept # <<>> /\ n < qlKept[1].n
  BY DEF DbInv, DbGood, Accounted, Ascending

\* The syslog sink: what was asked is kept, queued, dropped, told, gone, counted in a
\* note that is gone or thrown away; the last three only by a fault, as the sink is
\* switched off only by one.
SyslogWorker == [up : BOOLEAN, waits : BOOLEAN, gone : Nat, unsaid : Nat]
SyslogInv ==
    qlSink = "syslog" =>
        /\ qlKept \in Seq(Entries) /\ qlQ \in Seq(Entries) /\ qlW \in SyslogWorker
        /\ {qlAsked, qlDay, qlFaults, qlDropped, qlTold, qlLost} \subseteq Nat
        /\ qlAsked = Len(qlKept) + Len(qlQ) + qlDropped + qlTold + qlLost + qlW.gone + qlW.unsaid
        /\ qlFaults = 0 => qlOn /\ qlLost = 0 /\ qlW.gone = 0 /\ qlW.unsaid = 0

\* Nothing happens to the worker's histories when only its connection does.
LEMMA SyslogConnection ==
  ASSUME qlW \in SyslogWorker, NEW up \in BOOLEAN, NEW waits \in BOOLEAN
  PROVE  /\ [qlW EXCEPT !.up = up] \in SyslogWorker /\ [qlW EXCEPT !.waits = waits] \in SyslogWorker
         /\ [qlW EXCEPT !.up = up, !.waits = waits] \in SyslogWorker
         /\ [qlW EXCEPT !.up = up].gone = qlW.gone /\ [qlW EXCEPT !.up = up].unsaid = qlW.unsaid
         /\ [qlW EXCEPT !.waits = waits].gone = qlW.gone /\ [qlW EXCEPT !.waits = waits].unsaid = qlW.unsaid
         /\ [qlW EXCEPT !.up = up, !.waits = waits].gone = qlW.gone
         /\ [qlW EXCEPT !.up = up, !.waits = waits].unsaid = qlW.unsaid
BY DEF SyslogWorker

\* A step that is a fault says nothing of a sink that never failed.
LEMMA SyslogFault ==
  ASSUME qlFaults \in Nat, NEW failed \in BOOLEAN, Fault(failed)
  PROVE  qlFaults' \in Nat /\ (failed => qlFaults' # 0) /\ (~failed => qlFaults' = qlFaults)
BY DEF Fault

\* A line taken from the queue goes to one of the places there are.
LEMMA SyslogBalance ==
  ASSUME NEW a \in Nat, NEW k \in Nat, NEW q \in Nat, NEW x \in Nat, NEW t \in Nat, NEW l \in Nat, NEW g \in Nat, NEW u \in Nat,
         NEW kk \in Nat, NEW qq \in Nat, NEW xx \in Nat, NEW tt \in Nat, NEW ll \in Nat, NEW gg \in Nat, NEW uu \in Nat,
         a = k + q + x + t + l + g + u, qq = q - 1,
         (kk + xx + gg) + (tt + uu) + ll = (k + g) + (t + u + x) + l + 1
  PROVE  a = kk + qq + xx + tt + ll + gg + uu
BY SMTT(30)

\* Every step of the syslog writer keeps it.
LEMMA SyslogKeeps ==
  ASSUME SyslogInv, [QlNext]_qlVars
  PROVE  SyslogInv'
<1> SUFFICES ASSUME qlSink' = "syslog" PROVE SyslogInv'
  BY DEF SyslogInv
<1>1. CASE UNCHANGED qlVars
  BY <1>1 DEF SyslogInv, qlVars
<1>2. CASE QlNext
  <2>1. qlSink = "syslog" /\ \/ QlOffer \/ QlSwitch \/ QlMidnight
                             \/ QsDiscards \/ QsRetargeted \/ QsCounts \/ QsRetryDue
                             \/ \E note, line \in Sendings : QsHands(note, line)
    BY <1>2, SinkSteps
  <2>2. /\ qlKept \in Seq(Entries) /\ qlQ \in Seq(Entries) /\ qlW \in SyslogWorker
        /\ qlAsked \in Nat /\ qlDay \in Nat /\ qlDropped \in Nat /\ qlTold \in Nat /\ qlLost \in Nat /\ qlFaults \in Nat
        /\ Len(qlKept) \in Nat /\ Len(qlQ) \in Nat /\ qlW.gone \in Nat /\ qlW.unsaid \in Nat
        /\ qlAsked = Len(qlKept) + Len(qlQ) + qlDropped + qlTold + qlLost + qlW.gone + qlW.unsaid
        /\ qlFaults = 0 => qlOn /\ qlLost = 0 /\ qlW.gone = 0 /\ qlW.unsaid = 0
    BY <2>1 DEF SyslogInv, SyslogWorker
  <2>3. CASE QlOffer
    <3>1. /\ qlAsked' = qlAsked + 1 /\ qlKept' = qlKept /\ qlDay' = qlDay /\ qlTold' = qlTold /\ qlLost' = qlLost
          /\ qlW' = qlW /\ qlFaults' = qlFaults /\ qlOn' = qlOn
          /\ \/ qlQ' = Append(qlQ, [n |-> qlAsked + 1, day |-> qlDay]) /\ qlDropped' = qlDropped
             \/ qlDropped' = qlDropped + 1 /\ qlQ' = qlQ
      BY <2>1, <2>3 DEF QlOffer, Row
    <3>2. [n |-> qlAsked + 1, day |-> qlDay] \in Entries
      BY <2>2 DEF Entries
    <3>3. CASE qlQ' = Append(qlQ, [n |-> qlAsked + 1, day |-> qlDay]) /\ qlDropped' = qlDropped
      <4>1. qlQ' \in Seq(Entries) /\ Len(qlQ') = Len(qlQ) + 1
        BY <2>2, <3>2, <3>3, Added
      <4> QED
        BY <2>2, <3>1, <3>3, <4>1 DEF SyslogInv
    <3>4. CASE qlDropped' = qlDropped + 1 /\ qlQ' = qlQ
      BY <2>2, <3>1, <3>4 DEF SyslogInv
    <3> QED
      BY <3>1, <3>3, <3>4
  <2>4. CASE QlSwitch
    <3>1. qlFaults' \in Nat /\ qlFaults' # 0
      BY <2>2, <2>4 DEF QlSwitch
    <3> QED
      BY <2>2, <2>4, <3>1 DEF SyslogInv, QlSwitch
  <2>5. CASE QlMidnight
    BY <2>2, <2>5 DEF SyslogInv, QlMidnight
  <2>6. CASE QsRetryDue \/ QsRetargeted
    <3>1. /\ qlW' \in SyslogWorker /\ qlW'.gone = qlW.gone /\ qlW'.unsaid = qlW.unsaid
      BY <2>2, <2>6, SyslogConnection DEF QsRetryDue, QsRetargeted
    <3>2. qlFaults' \in Nat /\ (qlFaults' = 0 => qlFaults = 0)
      BY <2>2, <2>6, SyslogFault DEF QsRetryDue, QsRetargeted
    <3>3. UNCHANGED <<qlQ, qlKept, qlAsked, qlDay, qlOn, qlDropped, qlTold, qlLost>>
      BY <2>6 DEF QsRetryDue, QsRetargeted, Queued
    <3> QED
      BY <2>2, <3>1, <3>2, <3>3 DEF SyslogInv
  <2>7. ASSUME QsLine
        PROVE  /\ qlAsked' = qlAsked /\ qlDay' = qlDay /\ qlOn' = qlOn
               /\ qlQ' \in Seq(Entries) /\ Len(qlQ') = Len(qlQ) - 1 /\ Len(qlQ') \in Nat /\ Head(qlQ) \in Entries
    <3>1. /\ qlQ # <<>> /\ qlQ' = Tail(qlQ) /\ qlAsked' = qlAsked /\ qlDay' = qlDay /\ qlOn' = qlOn
      BY <2>7 DEF QsLine, Queued
    <3> QED
      BY <2>2, <3>1, TakenAway
  <2>8. CASE QsDiscards
    <3>1. QsLine /\ qlLost' = qlLost + 1 /\ UNCHANGED <<qlKept, qlDropped, qlTold>>
      BY <2>8 DEF QsDiscards
    <3>2. /\ qlW' \in SyslogWorker /\ qlW'.gone = qlW.gone /\ qlW'.unsaid = qlW.unsaid
      BY <2>2, <2>8, SyslogConnection DEF QsDiscards
    <3>3. qlFaults' \in Nat /\ qlFaults' # 0
      BY <2>2, <2>8, SyslogFault DEF QsDiscards
    <3>4. qlAsked = Len(qlKept) + Len(qlQ') + qlDropped + qlTold + (qlLost + 1) + qlW.gone + qlW.unsaid
      BY <2>2, <2>7, <3>1, SyslogBalance
    <3> QED
      BY <2>2, <2>7, <3>1, <3>2, <3>3, <3>4 DEF SyslogInv
  <2>9. CASE QsCounts
    <3>1. QsLine /\ qlDropped' = qlDropped + 1 /\ UNCHANGED <<qlFaults, qlKept, qlTold, qlLost>>
      BY <2>9 DEF QsCounts
    <3>2. /\ qlW' \in SyslogWorker /\ qlW'.gone = qlW.gone /\ qlW'.unsaid = qlW.unsaid
      BY <2>2, <2>9, SyslogConnection DEF QsCounts
    <3>3. qlAsked = Len(qlKept) + Len(qlQ') + (qlDropped + 1) + qlTold + qlLost + qlW.gone + qlW.unsaid
      BY <2>2, <2>7, <3>1, SyslogBalance
    <3> QED
      BY <2>2, <2>7, <3>1, <3>2, <3>3 DEF SyslogInv
  <2>10. ASSUME NEW note \in Sendings, NEW line \in Sendings, QsHands(note, line) PROVE SyslogInv'
    <3>1. /\ QsLine /\ UNCHANGED qlLost
          /\ Fault(note # "arrives" \/ line = "vanishes")
          /\ qlKept' = IF line = "arrives" THEN Append(qlKept, Head(qlQ)) ELSE qlKept
          /\ qlTold' = IF note = "arrives" THEN qlTold + qlDropped ELSE qlTold
          /\ qlDropped' = IF line = "fails" THEN 1 ELSE 0
      BY <2>10 DEF QsHands
    <3>2. /\ qlW'.gone = IF line = "vanishes" THEN qlW.gone + 1 ELSE qlW.gone
          /\ qlW'.unsaid = IF note = "arrives" THEN qlW.unsaid ELSE qlW.unsaid + qlDropped
          /\ qlW' \in SyslogWorker
      <4>1. qlW' = [up |-> line # "fails", waits |-> FALSE,
                     gone |-> IF line = "vanishes" THEN qlW.gone + 1 ELSE qlW.gone,
                     unsaid |-> IF note = "arrives" THEN qlW.unsaid ELSE qlW.unsaid + qlDropped]
        BY <2>10 DEF QsHands
      <4> QED
        BY <2>2, <4>1 DEF SyslogWorker
    <3>3. /\ qlFaults' \in Nat
          /\ qlFaults' = 0 => qlFaults = 0 /\ note = "arrives" /\ line # "vanishes"
      BY <2>2, <3>1, SyslogFault
    <3>4. /\ qlKept' \in Seq(Entries) /\ Len(qlKept') \in Nat
          /\ Len(qlKept') = IF line = "arrives" THEN Len(qlKept) + 1 ELSE Len(qlKept)
      <4>1. Append(qlKept, Head(qlQ)) \in Seq(Entries) /\ Len(Append(qlKept, Head(qlQ))) = Len(qlKept) + 1
        BY <2>2, <2>7, <3>1, Added
      <4> QED
        BY <2>2, <3>1, <4>1
    <3>5. /\ qlDropped' \in Nat /\ qlW'.gone \in Nat
          /\ \/ Len(qlKept') = Len(qlKept) + 1 /\ qlDropped' = 0 /\ qlW'.gone = qlW.gone
             \/ Len(qlKept') = Len(qlKept) /\ qlDropped' = 0 /\ qlW'.gone = qlW.gone + 1
             \/ Len(qlKept') = Len(qlKept) /\ qlDropped' = 1 /\ qlW'.gone = qlW.gone
      <4>1. line \in {"arrives", "vanishes", "fails"}
        BY DEF Sendings
      <4>2. CASE line = "arrives"
        <5>1. Len(qlKept') = Len(qlKept) + 1 /\ qlDropped' = 0 /\ qlW'.gone = qlW.gone
          BY <3>1, <3>2, <3>4, <4>2
        <5> QED
          BY <2>2, <5>1
      <4>3. CASE line = "vanishes"
        <5>1. Len(qlKept') = Len(qlKept) /\ qlDropped' = 0 /\ qlW'.gone = qlW.gone + 1
          BY <3>1, <3>2, <3>4, <4>3
        <5> QED
          BY <2>2, <5>1
      <4>4. CASE line = "fails"
        <5>1. Len(qlKept') = Len(qlKept) /\ qlDropped' = 1 /\ qlW'.gone = qlW.gone
          BY <3>1, <3>2, <3>4, <4>4
        <5> QED
          BY <2>2, <5>1
      <4> QED
        BY <4>1, <4>2, <4>3, <4>4
    <3>6. /\ qlTold' \in Nat /\ qlW'.unsaid \in Nat
          /\ \/ qlTold' = qlTold + qlDropped /\ qlW'.unsaid = qlW.unsaid
             \/ qlTold' = qlTold /\ qlW'.unsaid = qlW.unsaid + qlDropped
      <4>1. CASE note = "arrives"
        <5>1. qlTold' = qlTold + qlDropped /\ qlW'.unsaid = qlW.unsaid
          BY <3>1, <3>2, <4>1
        <5> QED
          BY <2>2, <5>1
      <4>2. CASE note # "arrives"
        <5>1. qlTold' = qlTold /\ qlW'.unsaid = qlW.unsaid + qlDropped
          BY <3>1, <3>2, <4>2
        <5> QED
          BY <2>2, <5>1
      <4> QED
        BY <4>1, <4>2
    <3>8. qlAsked = Len(qlKept') + Len(qlQ') + qlDropped' + qlTold' + qlLost + qlW'.gone + qlW'.unsaid
      <4>1. Len(qlQ') \in Nat /\ Len(qlQ') = Len(qlQ) - 1 /\ Len(qlKept') \in Nat
        BY <2>7, <3>1, <3>4
      <4>2. PICK k \in Nat, kk \in Nat, q \in Nat, qq \in Nat, g \in Nat, gg \in Nat, u \in Nat, uu \in Nat :
               /\ k = Len(qlKept) /\ kk = Len(qlKept') /\ q = Len(qlQ) /\ qq = Len(qlQ')
               /\ g = qlW.gone /\ gg = qlW'.gone /\ u = qlW.unsaid /\ uu = qlW'.unsaid
        BY <2>2, <3>5, <3>6, <4>1
      <4>3. PICK x \in Nat, xx \in Nat, t \in Nat, tt \in Nat, l \in Nat :
               x = qlDropped /\ xx = qlDropped' /\ t = qlTold /\ tt = qlTold' /\ l = qlLost
        BY <2>2, <3>5, <3>6
      <4>4. qlAsked = k + q + x + t + l + g + u /\ qlAsked \in Nat /\ qq = q - 1
        BY <2>2, <4>1, <4>2, <4>3
      <4>5. kk + xx + gg = k + g + 1
        <5>1. \/ kk = k + 1 /\ xx = 0 /\ gg = g
              \/ kk = k /\ xx = 0 /\ gg = g + 1
              \/ kk = k /\ xx = 1 /\ gg = g
          BY <3>5, <4>2, <4>3
        <5> QED
          BY <5>1
      <4>6. tt + uu = t + u + x
        <5>1. (tt = t + x /\ uu = u) \/ (tt = t /\ uu = u + x)
          BY <3>6, <4>2, <4>3
        <5> QED
          BY <5>1
      <4>7. (kk + xx + gg) + (tt + uu) + l = (k + g) + (t + u + x) + l + 1
        BY <4>5, <4>6
      <4>8. qlAsked = kk + qq + xx + tt + l + gg + uu
        BY <4>4, <4>7, SyslogBalance
      <4> QED
        BY <4>2, <4>3, <4>8
    <3>7. qlFaults' = 0 => qlOn /\ qlLost = 0 /\ qlW'.gone = 0 /\ qlW'.unsaid = 0
      BY <2>2, <3>2, <3>3
    <3> QED
      BY <2>2, <2>7, <3>1, <3>2, <3>3, <3>4, <3>5, <3>6, <3>7, <3>8 DEF SyslogInv
  <2> QED
    BY <2>1, <2>3, <2>4, <2>5, <2>6, <2>8, <2>9, <2>10
<1> QED
  BY <1>1, <1>2

\* No two queries of an ascending list have the same number.
LEMMA AscendingCount ==
  ASSUME NEW s \in Seq(Entries), Ascending(s)
  PROVE  IsFiniteSet(Numbers(s)) /\ Cardinality(Numbers(s)) = Len(s)
<1> DEFINE f == [i \in 1 .. Len(s) |-> s[i].n]
<1>1. /\ Len(s) \in Nat /\ DOMAIN s = 1 .. Len(s) /\ \A i \in 1 .. Len(s) : s[i] \in Entries
  OBVIOUS
<1>2. \A i \in 1 .. Len(s) : s[i].n \in Nat
  BY <1>1 DEF Entries
<1>3. f \in Surjection(1 .. Len(s), Numbers(s))
  <2>1. \A i \in 1 .. Len(s) : f[i] = s[i].n /\ s[i].n \in Numbers(s)
    BY <1>1 DEF Numbers
  <2>2. f \in [1 .. Len(s) -> Numbers(s)]
    BY <2>1
  <2>3. \A x \in Numbers(s) : \E i \in 1 .. Len(s) : f[i] = x
    BY <1>1 DEF Numbers
  <2> HIDE DEF f
  <2> QED
    BY <2>2, <2>3 DEF Surjection
<1>4. ASSUME NEW i \in 1 .. Len(s), NEW j \in 1 .. Len(s), s[i].n = s[j].n PROVE i = j
  <2>1. (i < j => s[i].n < s[j].n) /\ (j < i => s[j].n < s[i].n)
    BY <1>1 DEF Ascending
  <2>2. s[i].n \in Nat /\ s[j].n \in Nat /\ i \in Int /\ j \in Int
    BY <1>2
  <2> QED
    BY <1>4, <2>1, <2>2
<1>5. f \in Injection(1 .. Len(s), Numbers(s))
  <2>1. \A i, j \in 1 .. Len(s) : f[i] = f[j] => i = j
    BY <1>4
  <2>2. f \in [1 .. Len(s) -> Numbers(s)]
    BY <1>3 DEF Surjection
  <2> HIDE DEF f
  <2> QED
    BY <2>1, <2>2 DEF Injection, IsInjective
<1> HIDE DEF f
<1>6. f \in Bijection(1 .. Len(s), Numbers(s))
  BY <1>3, <1>5 DEF Bijection
<1>7. IsFiniteSet(1 .. Len(s)) /\ Cardinality(1 .. Len(s)) = Len(s)
  <2>1. 1 \in Int /\ Len(s) \in Int
    BY <1>1
  <2>2. IsFiniteSet(1 .. Len(s)) /\ Cardinality(1 .. Len(s)) = IF 1 > Len(s) THEN 0 ELSE Len(s) - 1 + 1
    BY <2>1, FS_Interval
  <2> QED
    BY <1>1, <2>2
<1>8. ExistsBijection(1 .. Len(s), Numbers(s))
  BY <1>6 DEF ExistsBijection
<1> QED
  BY <1>7, <1>8, FS_Bijection

\* The export: the batch b and the queue q follow each other in the order asked,
\* a being the newest query and d today; nothing queued has been delivered, and the
\* t queries counted as sent are among those delivered that are not being sent again.
SentFor(k, b, t) == t \in Nat /\ t <= Cardinality(Numbers(k) \ Numbers(b))
XpGood(k, b, q, a, d, t) ==
    /\ k \in Seq(Entries) /\ b \in Seq(Entries) /\ q \in Seq(Entries) /\ a \in Nat /\ d \in Nat
    /\ Ascending(b) /\ Ascending(q) /\ Below(b, q)
    /\ \A e \in Elems(k) \cup Elems(b) \cup Elems(q) : e.n <= a
    /\ \A e \in Elems(b) \cup Elems(q) : e.day <= d
    /\ \A e \in Elems(k), f \in Elems(q) : e.n # f.n
    /\ SentFor(k, b, t)

\* What it speaks of is finite.
LEMMA XpFinite ==
  ASSUME NEW k, NEW b, NEW q, NEW a, NEW d, NEW t, XpGood(k, b, q, a, d, t)
  PROVE  /\ IsFiniteSet(Numbers(k)) /\ IsFiniteSet(Numbers(b)) /\ IsFiniteSet(Numbers(k) \ Numbers(b))
         /\ Cardinality(Numbers(b)) = Len(b)
<1> USE DEF XpGood
<1>1. Numbers(k) = {e.n : e \in Elems(k)} /\ Elems(k) \subseteq Entries
  BY ElemsOf
<1>2. Numbers(k) \subseteq Nat /\ \A x \in Numbers(k) : x <= a
  BY <1>1 DEF Entries
<1>3. IsFiniteSet(Numbers(k))
  BY <1>2, FS_BoundedSetOfNaturals
<1>4. IsFiniteSet(Numbers(b)) /\ Cardinality(Numbers(b)) = Len(b)
  BY AscendingCount
<1>5. IsFiniteSet(Numbers(k) \ Numbers(b))
  BY <1>3, FS_Subset
<1> QED
  BY <1>3, <1>4, <1>5

\* A query is queued, or dropped, and a day may pass.
LEMMA XpOffered ==
  ASSUME NEW k, NEW b, NEW q, NEW a, NEW d, NEW t, XpGood(k, b, q, a, d, t)
  PROVE  /\ XpGood(k, b, Append(q, [n |-> a + 1, day |-> d]), a + 1, d, t)
         /\ XpGood(k, b, q, a + 1, d, t) /\ XpGood(k, b, q, a, d + 1, t)
<1> USE DEF XpGood
<1> DEFINE e == [n |-> a + 1, day |-> d]
           r == Append(q, e)
<1>1. e \in Entries /\ e.n = a + 1 /\ e.day = d
  BY DEF Entries
<1>2. \A f \in Elems(k) \cup Elems(b) \cup Elems(q) : f \in Entries /\ f.n \in Nat /\ f.day \in Nat
  <2>1. \A f \in Elems(k) \cup Elems(b) \cup Elems(q) : f \in Entries
    BY ElemsOf
  <2> QED
    BY <2>1 DEF Entries
<1>3. (\A f \in Elems(b) \cup Elems(q) : f.n < e.n /\ f.day <= e.day) /\ \A f \in Elems(k) : f.n # e.n
  BY <1>1, <1>2
<1> HIDE DEF e
<1>4. r \in Seq(Entries) /\ Elems(r) = Elems(q) \cup {e} /\ Ascending(r)
  BY <1>1, <1>3, Added
<1> HIDE DEF r
<1>5. Below(b, r)
  BY <1>3, <1>4 DEF Below
<1>6. /\ \A f \in Elems(k) \cup Elems(b) \cup Elems(r) : f.n <= a + 1
      /\ \A f \in Elems(b) \cup Elems(r) : f.day <= d
      /\ \A f \in Elems(k) \cup Elems(b) \cup Elems(q) : f.n <= a + 1
      /\ \A f \in Elems(b) \cup Elems(q) : f.day <= d + 1
  BY <1>1, <1>2, <1>4
<1>7. \A g \in Elems(k), f \in Elems(r) : g.n # f.n
  BY <1>3, <1>4
<1>8. a + 1 \in Nat /\ d + 1 \in Nat
  OBVIOUS
<1>9. XpGood(k, b, r, a + 1, d, t)
  BY <1>4, <1>5, <1>6, <1>7, <1>8
<1>10. XpGood(k, b, q, a + 1, d, t) /\ XpGood(k, b, q, a, d + 1, t)
  BY <1>6, <1>8
<1> QED
  BY <1>9, <1>10 DEF r, e

\* A query is taken from the queue into the batch.
LEMMA XpTaken ==
  ASSUME NEW k, NEW b, NEW q, NEW a, NEW d, NEW t, XpGood(k, b, q, a, d, t), q # <<>>
  PROVE  XpGood(k, Append(b, Head(q)), Tail(q), a, d, t)
<1> USE DEF XpGood
<1> DEFINE h == Head(q)
           u == Tail(q)
           r == Append(b, h)
<1>1. /\ u \in Seq(Entries) /\ h \in Entries /\ Elems(q) = Elems(u) \cup {h} /\ Ascending(u)
      /\ \A f \in Elems(u) : h.n < f.n /\ h.day <= f.day
  BY TakenAway
<1> HIDE DEF h, u
<1>2. \A f \in Elems(b) : f.n < h.n /\ f.day <= h.day
  BY <1>1 DEF Below
<1>3. r \in Seq(Entries) /\ Elems(r) = Elems(b) \cup {h} /\ Ascending(r)
  BY <1>1, <1>2, Added
<1> HIDE DEF r
<1>4. Below(r, u)
  BY <1>1, <1>3 DEF Below
<1>5. /\ \A e \in Elems(k) \cup Elems(r) \cup Elems(u) : e.n <= a
      /\ \A e \in Elems(r) \cup Elems(u) : e.day <= d
      /\ \A e \in Elems(k), f \in Elems(u) : e.n # f.n
  BY <1>1, <1>3
<1>6. SentFor(k, r, t)
  <2>1. /\ Numbers(r) = {e.n : e \in Elems(r)} /\ Numbers(b) = {e.n : e \in Elems(b)}
        /\ Numbers(k) = {e.n : e \in Elems(k)}
    BY <1>3, ElemsOf
  <2>2. Numbers(r) = Numbers(b) \cup {h.n} /\ h.n \notin Numbers(k)
    BY <1>1, <1>3, <2>1
  <2>3. Numbers(k) \ Numbers(r) = Numbers(k) \ Numbers(b)
    BY <2>2
  <2> QED
    BY <2>3 DEF SentFor
<1>7. XpGood(k, r, u, a, d, t)
  BY <1>1, <1>3, <1>4, <1>5, <1>6
<1> QED
  BY <1>7 DEF r, u, h

\* The batch is given up, delivered and tried again, delivered and given up, or
\* delivered and counted as sent.
LEMMA XpClosed ==
  ASSUME NEW k, NEW b, NEW q, NEW a, NEW d, NEW t, XpGood(k, b, q, a, d, t)
  PROVE  /\ XpGood(k, <<>>, q, a, d, t) /\ XpGood(k \o b, b, q, a, d, t)
         /\ XpGood(k \o b, <<>>, q, a, d, t) /\ XpGood(k \o b, <<>>, q, a, d, t + Len(b))
<1> USE DEF XpGood
<1> DEFINE r == k \o b
           K == Numbers(k)
           B == Numbers(b)
<1>1. r \in Seq(Entries) /\ Elems(r) = Elems(k) \cup Elems(b)
  BY Followed
<1> HIDE DEF r
<1>2. <<>> \in Seq(Entries) /\ Elems(<<>>) = {} /\ Numbers(<<>>) = {} /\ Ascending(<<>>) /\ Below(<<>>, q)
  BY ElemsOf DEF Ascending, Below
<1>3. Numbers(r) = K \cup B
  <2>1. Numbers(r) = {e.n : e \in Elems(r)} /\ K = {e.n : e \in Elems(k)} /\ B = {e.n : e \in Elems(b)}
    BY <1>1, ElemsOf
  <2> QED
    BY <1>1, <2>1
<1>4. IsFiniteSet(K) /\ IsFiniteSet(B) /\ IsFiniteSet(K \ B) /\ Cardinality(B) = Len(b)
  BY XpFinite
<1>5. t \in Nat /\ t <= Cardinality(K \ B)
  BY DEF SentFor
<1> HIDE DEF K, B
<1>6. IsFiniteSet(K \cup B) /\ Cardinality(K \cup B) = Cardinality(K \ B) + Cardinality(B)
  <2>1. (K \ B) \cup B = K \cup B /\ (K \ B) \cap B = {}
    OBVIOUS
  <2>2. IsFiniteSet((K \ B) \cup B) /\ Cardinality((K \ B) \cup B) = Cardinality(K \ B) + Cardinality(B) - Cardinality((K \ B) \cap B)
    BY <1>4, FS_Union
  <2>3. Cardinality({}) = 0
    BY FS_EmptySet
  <2>4. Cardinality(K \ B) \in Nat /\ Cardinality(B) \in Nat
    BY <1>4, FS_CardinalityType
  <2>5. Cardinality((K \ B) \cup B) = Cardinality(K \ B) + Cardinality(B) - 0
    BY <2>1, <2>2, <2>3, Zenon
  <2>6. Cardinality((K \ B) \cup B) = Cardinality(K \ B) + Cardinality(B)
    BY <2>4, <2>5
  <2> QED
    BY <2>1, <2>2, <2>6, Zenon
<1>7. Cardinality(K \ B) <= Cardinality(K)
  BY <1>4, FS_Subset
<1>8. /\ Cardinality(K \ B) \in Nat /\ Cardinality(K) \in Nat /\ Len(b) \in Nat /\ Cardinality(K \cup B) \in Nat
  BY <1>4, <1>6, FS_CardinalityType
<1>9. /\ t <= Cardinality(K) /\ t + Len(b) <= Cardinality(K \cup B) /\ t <= Cardinality(K \cup B) /\ t + Len(b) \in Nat
  BY <1>4, <1>5, <1>6, <1>7, <1>8
<1>10. (K \cup B) \ B = K \ B /\ K \ {} = K /\ (K \cup B) \ {} = K \cup B
  OBVIOUS
<1>11. SentFor(k, <<>>, t) /\ SentFor(r, b, t) /\ SentFor(r, <<>>, t) /\ SentFor(r, <<>>, t + Len(b))
  BY <1>2, <1>3, <1>5, <1>9, <1>10 DEF SentFor, K, B
<1>12. /\ \A e \in Elems(r) \cup Elems(b) \cup Elems(q) : e.n <= a
       /\ \A e \in Elems(r), f \in Elems(q) : e.n # f.n
  <2>1. \A e \in Elems(b), f \in Elems(q) : e \in Entries /\ f \in Entries /\ e.n < f.n
    BY ElemsOf DEF Below
  <2>2. \A e \in Elems(b), f \in Elems(q) : e.n # f.n
    BY <2>1 DEF Entries
  <2> QED
    BY <1>1, <2>2
<1>13. XpGood(k, <<>>, q, a, d, t)
  BY <1>2, <1>11
<1>14. XpGood(r, b, q, a, d, t)
  BY <1>1, <1>11, <1>12
<1>15. XpGood(r, <<>>, q, a, d, t) /\ XpGood(r, <<>>, q, a, d, t + Len(b))
  BY <1>1, <1>2, <1>11, <1>12
<1> QED
  BY <1>13, <1>14, <1>15 DEF r

\* The exporter: what was asked is told, dropped, lost, queued or in the batch.
ExportInv ==
    qlSink = "export" =>
        /\ qlW = [batch |-> qlW.batch, on |-> qlW.on, tries |-> qlW.tries, unreported |-> qlW.unreported]
        /\ qlW.unreported \in Nat /\ qlDropped \in Nat /\ qlLost \in Nat /\ qlW.unreported <= qlDropped
        /\ XpGood(qlKept, qlW.batch, qlQ, qlAsked, qlDay, qlTold)
        /\ qlAsked = qlTold + qlDropped + qlLost + Len(qlQ) + Len(qlW.batch)

\* What an exporter's step leaves is good again.
LEMMA ExportStep ==
  ASSUME NEW k, NEW b, NEW q, NEW a, NEW d, NEW t, NEW u \in Nat, NEW x \in Nat, NEW l \in Nat, NEW o, NEW y,
         XpGood(k, b, q, a, d, t), u <= x, a = t + x + l + Len(q) + Len(b),
         qlW' = [batch |-> b, on |-> o, tries |-> y, unreported |-> u],
         qlKept' = k, qlQ' = q, qlAsked' = a, qlDay' = d, qlTold' = t, qlDropped' = x, qlLost' = l
  PROVE  ExportInv'
<1>1. qlW'.batch = b /\ qlW'.on = o /\ qlW'.tries = y /\ qlW'.unreported = u
  OBVIOUS
<1> QED
  BY <1>1 DEF ExportInv

\* Every step of the exporter keeps it.
LEMMA ExportKeeps ==
  ASSUME ExportInv, [QlNext]_qlVars
  PROVE  ExportInv'
<1> SUFFICES ASSUME qlSink' = "export" PROVE ExportInv'
  BY DEF ExportInv
<1>1. CASE UNCHANGED qlVars
  BY <1>1 DEF ExportInv, qlVars
<1>2. CASE QlNext
  <2>1. qlSink = "export" /\ \/ QlOffer \/ QlSwitch \/ QlMidnight \/ QxTake \/ QxClose \/ QxSent
                             \/ \E taken \in BOOLEAN : QxFails(taken)
    BY <1>2, SinkSteps
  <2>2. PICK b, o, y, u : /\ qlW = [batch |-> b, on |-> o, tries |-> y, unreported |-> u]
                          /\ u \in Nat /\ qlDropped \in Nat /\ qlLost \in Nat /\ u <= qlDropped
                          /\ XpGood(qlKept, b, qlQ, qlAsked, qlDay, qlTold)
                          /\ qlAsked = qlTold + qlDropped + qlLost + Len(qlQ) + Len(b)
    BY <2>1 DEF ExportInv
  <2>3. /\ qlKept \in Seq(Entries) /\ b \in Seq(Entries) /\ qlQ \in Seq(Entries) /\ qlAsked \in Nat /\ qlDay \in Nat
        /\ qlTold \in Nat /\ Len(qlQ) \in Nat /\ Len(b) \in Nat
    BY <2>2 DEF XpGood, SentFor
  <2>4. qlW.batch = b /\ qlW.on = o /\ qlW.tries = y /\ qlW.unreported = u
    BY <2>2
  <2>5. CASE QlOffer
    <3>1. /\ qlAsked' = qlAsked + 1 /\ qlKept' = qlKept /\ qlDay' = qlDay /\ qlTold' = qlTold /\ qlLost' = qlLost
          /\ \/ qlQ' = Append(qlQ, [n |-> qlAsked + 1, day |-> qlDay]) /\ qlDropped' = qlDropped /\ qlW' = qlW
             \/ qlDropped' = qlDropped + 1 /\ qlQ' = qlQ /\ qlW' = [qlW EXCEPT !.unreported = u + 1]
      BY <2>1, <2>4, <2>5 DEF QlOffer, Row
    <3>2. /\ XpGood(qlKept, b, Append(qlQ, [n |-> qlAsked + 1, day |-> qlDay]), qlAsked + 1, qlDay, qlTold)
          /\ XpGood(qlKept, b, qlQ, qlAsked + 1, qlDay, qlTold)
      BY <2>2, XpOffered
    <3>3. CASE qlQ' = Append(qlQ, [n |-> qlAsked + 1, day |-> qlDay]) /\ qlDropped' = qlDropped /\ qlW' = qlW
      <4>1. [n |-> qlAsked + 1, day |-> qlDay] \in Entries
        BY <2>3 DEF Entries
      <4>2. Len(qlQ') = Len(qlQ) + 1
        BY <2>3, <3>3, <4>1, Added
      <4>3. qlAsked' = qlTold + qlDropped + qlLost + Len(qlQ') + Len(b)
        BY <2>2, <2>3, <3>1, <4>2, SMTT(30)
      <4> QED
        BY <2>2, <3>1, <3>2, <3>3, <4>3, ExportStep
    <3>4. CASE qlDropped' = qlDropped + 1 /\ qlQ' = qlQ /\ qlW' = [qlW EXCEPT !.unreported = u + 1]
      <4>1. qlW' = [batch |-> b, on |-> o, tries |-> y, unreported |-> u + 1]
        BY <2>2, <3>4
      <4>2. u + 1 \in Nat /\ qlDropped + 1 \in Nat /\ u + 1 <= qlDropped + 1
        BY <2>2
      <4>3. qlAsked + 1 = qlTold + (qlDropped + 1) + qlLost + Len(qlQ) + Len(b)
        BY <2>2, <2>3
      <4> QED
        BY <2>2, <3>1, <3>2, <3>4, <4>1, <4>2, <4>3, ExportStep
    <3> QED
      BY <3>1, <3>3, <3>4
  <2>6. CASE QlSwitch
    BY <2>2, <2>6, ExportStep DEF QlSwitch
  <2>7. CASE QlMidnight
    <3>1. XpGood(qlKept, b, qlQ, qlAsked, qlDay + 1, qlTold)
      BY <2>2, XpOffered
    <3> QED
      BY <2>2, <2>7, <3>1, ExportStep DEF QlMidnight
  <2>8. CASE QxTake
    <3> DEFINE r == Append(b, Head(qlQ))
               on == IF b = <<>> THEN qlOn ELSE o
    <3>1. /\ qlQ # <<>> /\ qlQ' = Tail(qlQ) /\ qlKept' = qlKept /\ qlAsked' = qlAsked /\ qlDay' = qlDay
          /\ qlTold' = qlTold /\ qlDropped' = qlDropped /\ qlLost' = qlLost
          /\ qlW' = [qlW EXCEPT !.batch = r, !.on = on]
      BY <2>4, <2>8 DEF QxTake, Queued
    <3>2. XpGood(qlKept, r, Tail(qlQ), qlAsked, qlDay, qlTold)
      BY <2>2, <3>1, XpTaken
    <3>3. Len(Tail(qlQ)) = Len(qlQ) - 1 /\ Len(r) = Len(b) + 1
      BY <2>3, <3>1, TakenAway, Added
    <3> HIDE DEF r, on
    <3>4. qlW' = [batch |-> r, on |-> on, tries |-> y, unreported |-> u]
      BY <2>2, <3>1
    <3>5. qlAsked = qlTold + qlDropped + qlLost + Len(Tail(qlQ)) + Len(r)
      <4>1. PICK m \in Nat, n \in Nat : m = Len(qlQ) /\ n = Len(b)
        BY <2>3
      <4>2. Len(Tail(qlQ)) = m - 1 /\ Len(r) = n + 1
        BY <3>3, <4>1
      <4>3. qlAsked = qlTold + qlDropped + qlLost + m + n
        BY <2>2, <4>1
      <4>4. qlTold + qlDropped + qlLost + m + n = qlTold + qlDropped + qlLost + (m - 1) + (n + 1)
        BY <2>2, <2>3, <4>1
      <4> QED
        BY <4>2, <4>3, <4>4
    <3> QED
      BY <2>2, <3>1, <3>2, <3>4, <3>5, ExportStep
  <2>9. CASE QxClose
    <3>1. /\ qlQ' = qlQ /\ qlKept' = qlKept /\ qlAsked' = qlAsked /\ qlDay' = qlDay
          /\ qlTold' = qlTold /\ qlDropped' = qlDropped
          /\ \/ qlW' = [qlW EXCEPT !.tries = 1] /\ qlLost' = qlLost
             \/ qlW' = [qlW EXCEPT !.batch = <<>>] /\ qlLost' = qlLost + Len(b)
      BY <2>4, <2>9 DEF QxClose, Queued
    <3>2. CASE qlW' = [qlW EXCEPT !.tries = 1] /\ qlLost' = qlLost
      <4>1. qlW' = [batch |-> b, on |-> o, tries |-> 1, unreported |-> u]
        BY <2>2, <3>2
      <4> QED
        BY <2>2, <3>1, <3>2, <4>1, ExportStep
    <3>3. CASE qlW' = [qlW EXCEPT !.batch = <<>>] /\ qlLost' = qlLost + Len(b)
      <4>1. qlW' = [batch |-> <<>>, on |-> o, tries |-> y, unreported |-> u]
        BY <2>2, <3>3
      <4>2. XpGood(qlKept, <<>>, qlQ, qlAsked, qlDay, qlTold)
        BY <2>2, XpClosed
      <4>3. qlLost + Len(b) \in Nat /\ qlAsked = qlTold + qlDropped + (qlLost + Len(b)) + Len(qlQ) + Len(<<>>)
        BY <2>2, <2>3
      <4> QED
        BY <2>2, <3>1, <3>3, <4>1, <4>2, <4>3, ExportStep
    <3> QED
      BY <3>1, <3>2, <3>3
  <2>10. CASE QxSent
    <3>1. /\ qlQ' = qlQ /\ qlKept' = qlKept \o b /\ qlAsked' = qlAsked /\ qlDay' = qlDay
          /\ qlTold' = qlTold + Len(b) /\ qlDropped' = qlDropped /\ qlLost' = qlLost
          /\ qlW' = [qlW EXCEPT !.batch = <<>>, !.tries = 0, !.unreported = 0]
      BY <2>4, <2>10 DEF QxSent, Queued
    <3>2. qlW' = [batch |-> <<>>, on |-> o, tries |-> 0, unreported |-> 0]
      BY <2>2, <3>1
    <3>3. XpGood(qlKept \o b, <<>>, qlQ, qlAsked, qlDay, qlTold + Len(b))
      BY <2>2, XpClosed
    <3>4. 0 <= qlDropped /\ 0 \in Nat /\ qlAsked = (qlTold + Len(b)) + qlDropped + qlLost + Len(qlQ) + Len(<<>>)
      BY <2>2, <2>3
    <3> QED
      BY <2>2, <3>1, <3>2, <3>3, <3>4, ExportStep
  <2>11. ASSUME NEW taken \in BOOLEAN, QxFails(taken) PROVE ExportInv'
    <3> DEFINE k == IF taken THEN qlKept \o b ELSE qlKept
    <3>1. /\ qlQ' = qlQ /\ qlKept' = k /\ qlAsked' = qlAsked /\ qlDay' = qlDay /\ qlTold' = qlTold /\ qlLost' = qlLost
          /\ \/ qlW' = [qlW EXCEPT !.tries = y + 1] /\ qlDropped' = qlDropped
             \/ /\ qlW' = [qlW EXCEPT !.batch = <<>>, !.tries = 0, !.unreported = u + Len(b)]
                /\ qlDropped' = qlDropped + Len(b)
      BY <2>4, <2>11 DEF QxFails, Queued
    <3>2. XpGood(k, b, qlQ, qlAsked, qlDay, qlTold) /\ XpGood(k, <<>>, qlQ, qlAsked, qlDay, qlTold)
      <4>1. CASE taken
        BY <2>2, <4>1, XpClosed
      <4>2. CASE ~taken
        BY <2>2, <4>2, XpClosed
      <4> QED
        BY <4>1, <4>2
    <3> HIDE DEF k
    <3>3. CASE qlW' = [qlW EXCEPT !.tries = y + 1] /\ qlDropped' = qlDropped
      <4>1. qlW' = [batch |-> b, on |-> o, tries |-> y + 1, unreported |-> u]
        BY <2>2, <3>3
      <4> QED
        BY <2>2, <3>1, <3>2, <3>3, <4>1, ExportStep
    <3>4. CASE /\ qlW' = [qlW EXCEPT !.batch = <<>>, !.tries = 0, !.unreported = u + Len(b)]
               /\ qlDropped' = qlDropped + Len(b)
      <4>1. qlW' = [batch |-> <<>>, on |-> o, tries |-> 0, unreported |-> u + Len(b)]
        BY <2>2, <3>4
      <4>2. u + Len(b) \in Nat /\ qlDropped + Len(b) \in Nat /\ u + Len(b) <= qlDropped + Len(b)
        BY <2>2, <2>3
      <4>3. qlAsked = qlTold + (qlDropped + Len(b)) + qlLost + Len(qlQ) + Len(<<>>)
        BY <2>2, <2>3
      <4> QED
        BY <2>2, <3>1, <3>2, <3>4, <4>1, <4>2, <4>3, ExportStep
    <3> QED
      BY <3>1, <3>3, <3>4
  <2> QED
    BY <2>1, <2>5, <2>6, <2>7, <2>8, <2>9, <2>10, <2>11
<1> QED
  BY <1>1, <1>2

\* What the exporter's part of the property says of it.
LEMMA ExportAccounted ==
  ASSUME ExportInv, qlSink = "export"
  PROVE  /\ qlAsked = qlTold + qlDropped + qlLost + Len(qlQ) + Len(qlW.batch)
         /\ qlTold <= Cardinality(Numbers(qlKept))
         /\ qlW.unreported <= qlDropped
<1>1. XpGood(qlKept, <<>>, qlQ, qlAsked, qlDay, qlTold)
  BY XpClosed DEF ExportInv
<1>2. Numbers(<<>>) = {}
  BY DEF Numbers
<1>3. qlTold <= Cardinality(Numbers(qlKept) \ {}) /\ Numbers(qlKept) \ {} = Numbers(qlKept)
  BY <1>1, <1>2 DEF XpGood, SentFor
<1> QED
  BY <1>3 DEF ExportInv

\* The files that are not old are still a list of queries.
LEMMA FilesStay ==
  ASSUME QlAssumption, NEW files \in Seq(Entries)
  PROVE  FilesKept(files) \in Seq(Entries) /\ Len(FilesKept(files)) \in Nat
<1> DEFINE K == Young(files)
           left == Sifted(files, K)
<1>1. K \subseteq 1 .. Len(files) /\ Len(files) \in Nat /\ DOMAIN files = 1 .. Len(files) /\ \A i \in DOMAIN files : files[i] \in Entries
  BY DEF Young
<1> HIDE DEF K
<1>2. K \subseteq Nat /\ IsFiniteSet(K)
  BY <1>1, PositionsFinite
<1>3. Cardinality(K) \in Nat
  BY <1>2, FS_CardinalityType
<1>4. \A i \in 1 .. Cardinality(K) : AtRank(K, i) \in K
  BY <1>2, SiftedIs
<1>5. \A i \in 1 .. Cardinality(K) : files[AtRank(K, i)] \in Entries
  BY <1>1, <1>4
<1>6. left = [i \in 1 .. Cardinality(K) |-> files[AtRank(K, i)]]
  BY DEF Sifted
<1>7. left \in [1 .. Cardinality(K) -> Entries]
  BY <1>5, <1>6
<1>8. left \in Seq(Entries)
  <2> HIDE DEF left
  <2> QED
    BY <1>3, <1>7
<1>9. FilesKept(files) = files \/ FilesKept(files) = left
  BY DEF FilesKept, K
<1> HIDE DEF left
<1>10. FilesKept(files) \in Seq(Entries)
  BY <1>8, <1>9
<1> QED
  BY <1>10

\* The threads with a query in hand.
Busy(f) == {t \in QlThreads : f[t] # Idle}
Hands == [task : {"idle", "write", "open", "install"}, n : Nat, day : Nat]

\* One thread takes a query up, lets it go, or goes on with it.
LEMMA HandsCounted ==
  ASSUME IsFiniteSet(QlThreads), NEW f \in [QlThreads -> Hands], NEW t \in QlThreads, NEW v \in Hands
  PROVE  /\ Cardinality(Busy(f)) \in Nat /\ [f EXCEPT ![t] = v] \in [QlThreads -> Hands]
         /\ f[t] = Idle /\ v # Idle => Cardinality(Busy([f EXCEPT ![t] = v])) = Cardinality(Busy(f)) + 1
         /\ f[t] # Idle /\ v = Idle => Cardinality(Busy([f EXCEPT ![t] = v])) = Cardinality(Busy(f)) - 1
         /\ f[t] # Idle /\ v # Idle => Cardinality(Busy([f EXCEPT ![t] = v])) = Cardinality(Busy(f))
<1> DEFINE g == [f EXCEPT ![t] = v]
<1>1. g \in [QlThreads -> Hands] /\ g[t] = v /\ \A s \in QlThreads : s # t => g[s] = f[s]
  OBVIOUS
<1> HIDE DEF g
<1>2. Busy(f) \subseteq QlThreads
  BY DEF Busy
<1>3. IsFiniteSet(Busy(f))
  BY <1>2, FS_Subset
<1>4. Cardinality(Busy(f)) \in Nat
  BY <1>3, FS_CardinalityType
<1>5. ASSUME f[t] = Idle, v # Idle PROVE Cardinality(Busy(g)) = Cardinality(Busy(f)) + 1
  <2>1. Busy(g) = Busy(f) \cup {t} /\ t \notin Busy(f)
    BY <1>1, <1>5 DEF Busy
  <2> QED
    BY <1>3, <2>1, FS_AddElement
<1>6. ASSUME f[t] # Idle, v = Idle PROVE Cardinality(Busy(g)) = Cardinality(Busy(f)) - 1
  <2>1. Busy(g) = Busy(f) \ {t} /\ t \in Busy(f)
    BY <1>1, <1>6 DEF Busy
  <2> QED
    BY <1>3, <2>1, FS_RemoveElement
<1>7. ASSUME f[t] # Idle, v # Idle PROVE Cardinality(Busy(g)) = Cardinality(Busy(f))
  <2>1. Busy(g) = Busy(f)
    BY <1>1, <1>7 DEF Busy
  <2> QED
    BY <2>1
<1> QED
  BY <1>1, <1>4, <1>5, <1>6, <1>7 DEF g

\* The logger under its lock: the file it writes to, whether it is disabled, its
\* threads, and the lines deleted with old files.
Logger(v, w, x, f, c) ==
    /\ DOMAIN v = {"writer", "disabled", "threads", "cut"}
    /\ v.writer = w /\ v.disabled = x /\ v.threads = f /\ v.cut = c

\* What setting one of its fields changes.
LEMMA LoggerSet ==
  ASSUME NEW v, NEW w, NEW x, NEW f \in [QlThreads -> Hands], NEW c, Logger(v, w, x, f, c), NEW y, NEW t \in QlThreads
  PROVE  /\ Logger([v EXCEPT !.writer = y], y, x, f, c) /\ Logger([v EXCEPT !.disabled = y], w, y, f, c)
         /\ Logger([v EXCEPT !.cut = y], w, x, f, y)
         /\ Logger([v EXCEPT !.threads[t] = y], w, x, [f EXCEPT ![t] = y], c)
<1> USE DEF Logger
<1>1. Logger([v EXCEPT !.writer = y], y, x, f, c)
  OBVIOUS
<1>2. Logger([v EXCEPT !.disabled = y], w, y, f, c)
  OBVIOUS
<1>3. Logger([v EXCEPT !.cut = y], w, x, f, y)
  OBVIOUS
<1>4. Logger([v EXCEPT !.threads[t] = y], w, x, [f EXCEPT ![t] = y], c)
  <2> DEFINE r == [v EXCEPT !.threads[t] = y]
  <2>1. DOMAIN r = {"writer", "disabled", "threads", "cut"}
    OBVIOUS
  <2>2. r.writer = w /\ r.disabled = x /\ r.cut = c
    OBVIOUS
  <2>3. r.threads = [v.threads EXCEPT ![t] = y]
    OBVIOUS
  <2> HIDE DEF r
  <2>4. Logger(r, w, x, [f EXCEPT ![t] = y], c)
    BY <2>1, <2>2, <2>3
  <2> QED
    BY <2>4 DEF r
<1> QED
  BY <1>1, <1>2, <1>3, <1>4

\* The files: what was asked is in a file, deleted with one, lost or in the hands
\* of a thread; a loss disables the logger.
FileGood(k, w, x, f, c, a, d, l) ==
    /\ k \in Seq(Entries) /\ w \in Nat /\ x \in BOOLEAN /\ f \in [QlThreads -> Hands] /\ c \in Int
    /\ a \in Nat /\ d \in Nat /\ l \in Nat
    /\ a = Len(k) + c + l + Cardinality(Busy(f))
    /\ (l > 0 => x = TRUE)
FileInv ==
    qlSink = "file" =>
        /\ Logger(qlW, qlW.writer, qlW.disabled, qlW.threads, qlW.cut)
        /\ FileGood(qlKept, qlW.writer, qlW.disabled, qlW.threads, qlW.cut, qlAsked, qlDay, qlLost)

\* What a step of the files leaves is good again.
LEMMA FileStep ==
  ASSUME NEW k, NEW w, NEW x, NEW f, NEW c, NEW a, NEW d, NEW l,
         FileGood(k, w, x, f, c, a, d, l), Logger(qlW', w, x, f, c),
         qlKept' = k, qlAsked' = a, qlDay' = d, qlLost' = l
  PROVE  FileInv'
<1>1. qlW'.writer = w /\ qlW'.disabled = x /\ qlW'.threads = f /\ qlW'.cut = c
  BY DEF Logger
<1>2. FileGood(qlKept', qlW'.writer, qlW'.disabled, qlW'.threads, qlW'.cut, qlAsked', qlDay', qlLost')
  BY <1>1
<1>3. Logger(qlW', qlW'.writer, qlW'.disabled, qlW'.threads, qlW'.cut)
  BY <1>1
<1> QED
  BY <1>2, <1>3 DEF FileInv, FileGood, Logger, Busy

\* One of the logger's threads writes its line, or loses it.
LEMMA FileWrote ==
  ASSUME QlAssumption, NEW v, NEW w, NEW x, NEW f, NEW c, Logger(v, w, x, f, c), qlW.threads = f,
         FileGood(qlKept, w, x, f, c, qlAsked, qlDay, qlLost),
         NEW t \in QlThreads, f[t] # Idle, NEW ok \in BOOLEAN, Wrote(t, v, ok), UNCHANGED qlAsked, Unqueued
  PROVE  FileInv'
<1> DEFINE g == [f EXCEPT ![t] = Idle]
           e == [n |-> f[t].n, day |-> w]
           p == [v EXCEPT !.threads[t] = Idle]
           z == [[p EXCEPT !.writer = 0] EXCEPT !.disabled = TRUE]
<1>1. qlAsked' = qlAsked /\ qlDay' = qlDay
  BY DEF Unqueued
<1>2. /\ v.writer = w /\ v.disabled = x /\ v.threads = f /\ v.cut = c
      /\ qlKept \in Seq(Entries) /\ w \in Nat /\ x \in BOOLEAN /\ f \in [QlThreads -> Hands] /\ c \in Int
      /\ qlAsked \in Nat /\ qlDay \in Nat /\ qlLost \in Nat
      /\ qlAsked = Len(qlKept) + c + qlLost + Cardinality(Busy(f)) /\ (qlLost > 0 => x = TRUE)
  BY DEF Logger, FileGood
<1>3. Idle \in Hands /\ f[t] \in Hands
  BY <1>2 DEF Idle, Hands
<1>4. e \in Entries
  BY <1>2, <1>3 DEF Hands, Entries
<1>5. g \in [QlThreads -> Hands] /\ Cardinality(Busy(g)) = Cardinality(Busy(f)) - 1 /\ Cardinality(Busy(f)) \in Nat
  <2>1. IsFiniteSet(QlThreads)
    BY DEF QlAssumption
  <2> QED
    BY <1>2, <1>3, <2>1, HandsCounted, ZenonT(60)
<1>6. Logger(p, w, x, g, c)
  BY <1>2, LoggerSet
<1> HIDE DEF g, p
<1>7. Logger(z, 0, TRUE, g, c)
  <2>1. Logger([p EXCEPT !.writer = 0], 0, x, g, c)
    BY <1>5, <1>6, LoggerSet
  <2> QED
    BY <1>5, <2>1, LoggerSet
<1>8. \/ x = TRUE /\ qlLost' = qlLost + 1 /\ qlW' = p /\ qlKept' = qlKept
      \/ x = FALSE /\ qlKept' = Append(qlKept, e) /\ qlLost' = qlLost /\ qlW' = p
      \/ x = FALSE /\ qlLost' = qlLost + 1 /\ qlKept' = qlKept /\ qlW' = z
  <2>1. x = TRUE \/ x = FALSE
    BY <1>2
  <2>2. ok = TRUE \/ ok = FALSE
    OBVIOUS
  <2>3. CASE x = TRUE
    BY <1>2, <2>3 DEF Wrote, p
  <2>4. CASE x = FALSE /\ ok = TRUE
    BY <1>2, <2>4 DEF Wrote, p
  <2>5. CASE x = FALSE /\ ok = FALSE
    BY <1>2, <2>5 DEF Wrote, p
  <2> QED
    BY <2>1, <2>2, <2>3, <2>4, <2>5
<1> HIDE DEF e, z
<1>9. Append(qlKept, e) \in Seq(Entries) /\ Len(Append(qlKept, e)) = Len(qlKept) + 1 /\ Len(qlKept) \in Nat
  BY <1>2, <1>4, Added
<1>9a. /\ qlAsked = Len(qlKept) + c + (qlLost + 1) + Cardinality(Busy(g)) /\ qlLost + 1 \in Nat
       /\ qlAsked = Len(Append(qlKept, e)) + c + qlLost + Cardinality(Busy(g))
  <2> DEFINE k == Len(qlKept)
             k1 == Len(Append(qlKept, e))
             b == Cardinality(Busy(f))
             b1 == Cardinality(Busy(g))
  <2>1. /\ k \in Nat /\ k1 = k + 1 /\ b \in Nat /\ b1 = b - 1 /\ c \in Int /\ qlLost \in Nat
        /\ qlAsked = k + c + qlLost + b
    BY <1>2, <1>5, <1>9
  <2> HIDE DEF k, k1, b, b1
  <2>2. qlAsked = k + c + (qlLost + 1) + b1 /\ qlLost + 1 \in Nat /\ qlAsked = k1 + c + qlLost + b1
    BY <2>1
  <2> QED
    BY <2>2 DEF k, k1, b1
<1>10. FileGood(qlKept, w, TRUE, g, c, qlAsked, qlDay, qlLost + 1)
  <2>1. qlAsked = Len(qlKept) + c + (qlLost + 1) + Cardinality(Busy(g)) /\ qlLost + 1 \in Nat
    BY <1>9a
  <2>2. TRUE \in BOOLEAN
    OBVIOUS
  <2> QED
    BY <1>2, <1>5, <2>1, <2>2 DEF FileGood
<1>11. FileGood(qlKept, 0, TRUE, g, c, qlAsked, qlDay, qlLost + 1)
  BY <1>10 DEF FileGood
<1>12. FileGood(Append(qlKept, e), w, x, g, c, qlAsked, qlDay, qlLost)
  <2>1. qlAsked = Len(Append(qlKept, e)) + c + qlLost + Cardinality(Busy(g))
    BY <1>9a
  <2> QED
    BY <1>2, <1>5, <1>9, <2>1 DEF FileGood
<1>13. CASE x = TRUE /\ qlLost' = qlLost + 1 /\ qlW' = p /\ qlKept' = qlKept
  <2>1. FileGood(qlKept, w, x, g, c, qlAsked, qlDay, qlLost + 1)
    BY <1>10, <1>13
  <2> QED
    BY <1>1, <1>6, <1>13, <2>1, FileStep
<1>14. CASE x = FALSE /\ qlKept' = Append(qlKept, e) /\ qlLost' = qlLost /\ qlW' = p
  BY <1>1, <1>6, <1>12, <1>14, FileStep
<1>15. CASE x = FALSE /\ qlLost' = qlLost + 1 /\ qlKept' = qlKept /\ qlW' = z
  BY <1>1, <1>7, <1>11, <1>15, FileStep
<1> QED
  BY <1>8, <1>13, <1>14, <1>15

\* Every step of the logger's threads keeps it.
LEMMA FileKeeps ==
  ASSUME QlAssumption, FileInv, [QlNext]_qlVars
  PROVE  FileInv'
<1> SUFFICES ASSUME qlSink' = "file" PROVE FileInv'
  BY DEF FileInv
<1>1. CASE UNCHANGED qlVars
  BY <1>1 DEF FileInv, FileGood, Logger, Busy, qlVars
<1>2. CASE QlNext
  <2>1. qlSink = "file" /\ \/ QlSwitch \/ QlMidnight
                           \/ \E t \in QlThreads : \/ QfLook(t)
                                                   \/ \E ok \in BOOLEAN : QfWrite(t, ok) \/ QfOpen(t, ok) \/ QfInstall(t, ok)
    BY <1>2, SinkSteps
  <2>2. PICK w, x, f, c : Logger(qlW, w, x, f, c) /\ FileGood(qlKept, w, x, f, c, qlAsked, qlDay, qlLost)
    BY <2>1 DEF FileInv
  <2>3. qlW.writer = w /\ qlW.disabled = x /\ qlW.threads = f /\ qlW.cut = c
    BY <2>2 DEF Logger
  <2>4. /\ qlKept \in Seq(Entries) /\ w \in Nat /\ x \in BOOLEAN /\ f \in [QlThreads -> Hands] /\ c \in Int
        /\ qlAsked \in Nat /\ qlDay \in Nat /\ qlLost \in Nat /\ Len(qlKept) \in Nat
        /\ qlAsked = Len(qlKept) + c + qlLost + Cardinality(Busy(f)) /\ (qlLost > 0 => x = TRUE)
    BY <2>2 DEF FileGood
  <2>5. Idle \in Hands /\ Idle.task = "idle" /\ IsFiniteSet(QlThreads)
    BY DEF Idle, Hands, QlAssumption
  <2>6. CASE QlSwitch
    BY <2>2, <2>6, FileStep DEF QlSwitch
  <2>7. CASE QlMidnight
    <3>1. FileGood(qlKept, w, x, f, c, qlAsked, qlDay + 1, qlLost)
      BY <2>2 DEF FileGood
    <3> QED
      BY <2>2, <2>7, <3>1, FileStep DEF QlMidnight
  <2>8. ASSUME NEW t \in QlThreads, QfLook(t) PROVE FileInv'
    <3> DEFINE h == [task |-> IF qlW.disabled \/ qlW.writer # qlDay THEN "open" ELSE "write", n |-> qlAsked + 1, day |-> qlDay]
               g == [f EXCEPT ![t] = h]
    <3>1. /\ f[t] = Idle /\ qlAsked' = qlAsked + 1 /\ qlKept' = qlKept /\ qlDay' = qlDay /\ qlLost' = qlLost
          /\ qlW' = [qlW EXCEPT !.threads[t] = h]
      BY <2>3, <2>8 DEF QfLook, Thread, Unqueued
    <3>2. h.task \in {"open", "write"} /\ h \in Hands
      <4>1. (IF qlW.disabled \/ qlW.writer # qlDay THEN "open" ELSE "write") \in {"open", "write"}
        OBVIOUS
      <4> QED
        BY <2>4, <4>1 DEF Hands
    <3> HIDE DEF h
    <3>3. h # Idle
      BY <2>5, <3>2
    <3>4. g \in [QlThreads -> Hands] /\ Cardinality(Busy(g)) = Cardinality(Busy(f)) + 1 /\ Cardinality(Busy(f)) \in Nat
      BY <2>4, <2>5, <3>1, <3>2, <3>3, HandsCounted, ZenonT(60)
    <3>5. Logger([qlW EXCEPT !.threads[t] = h], w, x, g, c)
      BY <2>2, <2>4, LoggerSet
    <3> HIDE DEF g
    <3>6. qlAsked + 1 = Len(qlKept) + c + qlLost + Cardinality(Busy(g)) /\ qlAsked + 1 \in Nat
      BY <2>4, <3>4
    <3>7. FileGood(qlKept, w, x, g, c, qlAsked + 1, qlDay, qlLost)
      BY <2>4, <3>4, <3>6 DEF FileGood
    <3> QED
      BY <3>1, <3>5, <3>7, FileStep
  <2>9. ASSUME NEW t \in QlThreads, NEW ok \in BOOLEAN, QfWrite(t, ok) PROVE FileInv'
    <3>1. f[t] # Idle /\ Wrote(t, qlW, ok) /\ UNCHANGED qlAsked /\ Unqueued
      BY <2>3, <2>5, <2>9 DEF QfWrite
    <3> QED
      BY <2>2, <2>3, <3>1, FileWrote
  <2>10. ASSUME NEW t \in QlThreads, NEW ok \in BOOLEAN, QfInstall(t, ok) PROVE FileInv'
    <3> DEFINE v == [qlW EXCEPT !.writer = f[t].day]
    <3>1. f[t] # Idle /\ Wrote(t, IF qlW.disabled THEN qlW ELSE v, ok) /\ UNCHANGED qlAsked /\ Unqueued
      BY <2>3, <2>5, <2>10 DEF QfInstall
    <3>2. f[t].day \in Nat
      BY <2>4 DEF Hands
    <3>3. Logger(v, f[t].day, x, f, c)
      BY <2>2, <2>4, LoggerSet
    <3>4. FileGood(qlKept, f[t].day, x, f, c, qlAsked, qlDay, qlLost)
      BY <2>4, <3>2 DEF FileGood
    <3> HIDE DEF v
    <3>5. CASE qlW.disabled
      <4>1. Wrote(t, qlW, ok)
        BY <3>1, <3>5
      <4> QED
        BY <2>2, <2>3, <3>1, <4>1, FileWrote
    <3>6. CASE ~qlW.disabled
      <4>1. Wrote(t, v, ok)
        BY <3>1, <3>6
      <4> QED
        BY <2>3, <3>1, <3>3, <3>4, <4>1, FileWrote
    <3> QED
      BY <3>5, <3>6
  <2>11. ASSUME NEW t \in QlThreads, NEW ok \in BOOLEAN, QfOpen(t, ok) PROVE FileInv'
    <3>1. f[t] # Idle /\ f[t] \in Hands /\ qlAsked' = qlAsked /\ qlDay' = qlDay
      BY <2>3, <2>4, <2>5, <2>11 DEF QfOpen, Unqueued
    <3>2. CASE ok = TRUE
      <4> DEFINE h == [f[t] EXCEPT !.task = "install"]
                 g == [f EXCEPT ![t] = h]
                 k == FilesKept(qlKept)
                 y == c + Len(qlKept) - Len(k)
                 p == [qlW EXCEPT !.threads[t] = h]
      <4>1. qlKept' = k /\ qlLost' = qlLost /\ qlW' = [p EXCEPT !.cut = @ + Len(qlKept) - Len(k)]
        BY <2>3, <2>11, <3>2 DEF QfOpen, Thread
      <4>2. h \in Hands /\ h.task = "install"
        BY <3>1 DEF Hands
      <4> HIDE DEF h
      <4>3. h # Idle
        BY <2>5, <4>2
      <4>4. g \in [QlThreads -> Hands] /\ Cardinality(Busy(g)) = Cardinality(Busy(f)) /\ Cardinality(Busy(f)) \in Nat
        BY <2>4, <2>5, <3>1, <4>2, <4>3, HandsCounted, ZenonT(60)
      <4>5. k \in Seq(Entries) /\ Len(k) \in Nat
        BY <2>4, FilesStay
      <4>6. Logger(p, w, x, g, c)
        BY <2>2, <2>4, LoggerSet
      <4> HIDE DEF g, k, p
      <4>7. [p EXCEPT !.cut = @ + Len(qlKept) - Len(k)] = [p EXCEPT !.cut = y]
        BY <4>6 DEF Logger
      <4>8. Logger([p EXCEPT !.cut = y], w, x, g, y)
        <5> HIDE DEF y
        <5> QED
          BY <4>4, <4>6, LoggerSet
      <4>9. y \in Int /\ qlAsked = Len(k) + y + qlLost + Cardinality(Busy(g))
        BY <2>4, <4>4, <4>5
      <4> HIDE DEF y
      <4>10. FileGood(k, w, x, g, y, qlAsked, qlDay, qlLost)
        BY <2>4, <4>4, <4>5, <4>9 DEF FileGood
      <4>11. Logger(qlW', w, x, g, y)
        BY <4>1, <4>7, <4>8
      <4> QED
        BY <3>1, <4>1, <4>10, <4>11, FileStep
    <3>3. CASE ok = FALSE
      <4> DEFINE g == [f EXCEPT ![t] = Idle]
                 p == [qlW EXCEPT !.threads[t] = Idle]
      <4>1. qlKept' = qlKept /\ qlLost' = qlLost + 1 /\ qlW' = [p EXCEPT !.disabled = TRUE]
        BY <2>3, <2>11, <3>3 DEF QfOpen, Thread
      <4>2. g \in [QlThreads -> Hands] /\ Cardinality(Busy(g)) = Cardinality(Busy(f)) - 1 /\ Cardinality(Busy(f)) \in Nat
        BY <2>4, <2>5, <3>1, HandsCounted
      <4>3. Logger(p, w, x, g, c)
        BY <2>2, <2>4, LoggerSet
      <4> HIDE DEF g, p
      <4>4. Logger([p EXCEPT !.disabled = TRUE], w, TRUE, g, c)
        BY <4>2, <4>3, LoggerSet
      <4>5. qlAsked = Len(qlKept) + c + (qlLost + 1) + Cardinality(Busy(g)) /\ qlLost + 1 \in Nat /\ TRUE \in BOOLEAN
        BY <2>4, <4>2
      <4>6. FileGood(qlKept, w, TRUE, g, c, qlAsked, qlDay, qlLost + 1)
        BY <2>4, <4>2, <4>5 DEF FileGood
      <4>7. Logger(qlW', w, TRUE, g, c)
        BY <4>1, <4>4
      <4> QED
        BY <3>1, <4>1, <4>6, <4>7, FileStep
    <3> QED
      BY <3>2, <3>3
  <2> QED
    BY <2>1, <2>6, <2>7, <2>8, <2>9, <2>10, <2>11
<1> QED
  BY <1>1, <1>2

\* The queries of a sink, whichever it is.
QlInv == qlSink \in {"file", "db", "syslog", "export"} /\ DbInv /\ SyslogInv /\ ExportInv /\ FileInv

\* It holds of the sinks as they are made.
LEMMA QlInvFirst ==
  ASSUME QlAssumption, QlInit
  PROVE  QlInv
<1>1. /\ qlSink \in {"file", "db", "syslog", "export"} /\ qlAsked = 0 /\ qlDay = 1 /\ qlQ = <<>> /\ qlKept = <<>>
      /\ qlDropped = 0 /\ qlTold = 0 /\ qlLost = 0
  BY DEF QlInit, Workers
<1>2. /\ <<>> \in Seq(Entries) /\ Len(<<>>) = 0 /\ Elems(<<>>) = {} /\ Numbers(<<>>) = {} /\ Ascending(<<>>)
      /\ Below(<<>>, <<>>) /\ Cardinality({}) = 0
  <2>1. <<>> \in Seq(Entries) /\ Len(<<>>) = 0
    OBVIOUS
  <2>2. Elems(<<>>) = {} /\ Numbers(<<>>) = {}
    BY <2>1, ElemsOf
  <2>3. Ascending(<<>>) /\ Below(<<>>, <<>>)
    BY <2>2 DEF Ascending, Below
  <2> QED
    BY <2>1, <2>2, <2>3, FS_EmptySet
<1>3. DbInv
  <2>1. SUFFICES ASSUME qlSink = "db" PROVE DbInv
    BY DEF DbInv
  <2>2. qlW = [pending |-> <<>>, cut |-> 0, bad |-> {}]
    BY <2>1 DEF QlInit, Workers
  <2>3. DbGood(<<>>, <<>>, <<>>, {}, 0, 0, 1)
    BY <1>2 DEF DbGood
  <2> QED
    BY <1>1, <2>2, <2>3 DEF DbInv
<1>4. SyslogInv
  <2>1. SUFFICES ASSUME qlSink = "syslog" PROVE SyslogInv
    BY DEF SyslogInv
  <2>2. qlW = [up |-> FALSE, waits |-> FALSE, gone |-> 0, unsaid |-> 0] /\ qlFaults = 0 /\ qlOn = TRUE
    BY <2>1 DEF QlInit, Workers
  <2>3. qlW \in SyslogWorker /\ qlW.gone = 0 /\ qlW.unsaid = 0
    BY <2>2 DEF SyslogWorker
  <2> QED
    BY <1>1, <1>2, <2>2, <2>3 DEF SyslogInv
<1>5. ExportInv
  <2>1. SUFFICES ASSUME qlSink = "export" PROVE ExportInv
    BY DEF ExportInv
  <2>2. qlW = [batch |-> <<>>, on |-> FALSE, tries |-> 0, unreported |-> 0]
    BY <2>1 DEF QlInit, Workers
  <2>3. qlW.batch = <<>> /\ qlW.on = FALSE /\ qlW.tries = 0 /\ qlW.unreported = 0
    BY <2>2
  <2>4. SentFor(<<>>, <<>>, 0)
    <3>1. Numbers(<<>>) \ Numbers(<<>>) = {} /\ 0 \in Nat /\ 0 <= 0
      BY <1>2
    <3> QED
      BY <1>2, <3>1 DEF SentFor
  <2>5. XpGood(<<>>, <<>>, <<>>, 0, 1, 0)
    BY <1>2, <2>4 DEF XpGood
  <2> QED
    BY <1>1, <1>2, <2>2, <2>3, <2>5 DEF ExportInv
<1>6. FileInv
  <2>1. SUFFICES ASSUME qlSink = "file" PROVE FileInv
    BY DEF FileInv
  <2> DEFINE f == [t \in QlThreads |-> Idle]
  <2>2. qlW = [writer |-> 0, disabled |-> FALSE, threads |-> f, cut |-> 0]
    BY <2>1 DEF QlInit, Workers
  <2>3. f \in [QlThreads -> Hands] /\ Busy(f) = {}
    BY DEF Idle, Hands, Busy
  <2> HIDE DEF f
  <2>4. qlW.writer = 0 /\ qlW.disabled = FALSE /\ qlW.threads = f /\ qlW.cut = 0
    BY <2>2
  <2>5. DOMAIN qlW = {"writer", "disabled", "threads", "cut"}
    BY <2>2
  <2>6. FileGood(<<>>, 0, FALSE, f, 0, 0, 1, 0)
    BY <1>2, <2>3 DEF FileGood
  <2> QED
    BY <1>1, <2>4, <2>5, <2>6 DEF FileInv, Logger
<1> QED
  BY <1>1, <1>3, <1>4, <1>5, <1>6 DEF QlInv

\* Every query a sink was offered is where the sink says it is: in a file, a row of
\* the database, delivered or waiting, counted as dropped or told of, or lost in one of
\* the ways LogsAccounted names; what the export counts as sent was delivered, and a
\* syslog server misses no line it is not told of while the network loses nothing and
\* the settings stay (query_log.rs, query_db_log.rs, syslog.rs, log_export.rs).
THEOREM LogsAccountedCorrect == QlSpec => []LogsAccounted
<1> USE QlAssumption
<1>1. QlInit => QlInv
  BY QlInvFirst
<1>2. QlInv /\ [QlNext]_qlVars => QlInv'
  <2> SUFFICES ASSUME QlInv, [QlNext]_qlVars PROVE QlInv'
    OBVIOUS
  <2>1. qlSink' = qlSink
    <3>1. CASE UNCHANGED qlVars
      BY <3>1 DEF qlVars
    <3>2. CASE QlNext
      BY <3>2, SinkSteps
    <3> QED
      BY <3>1, <3>2
  <2>2. DbInv'
    BY DbKeeps DEF QlInv
  <2>3. SyslogInv'
    BY SyslogKeeps DEF QlInv
  <2>4. ExportInv'
    BY ExportKeeps DEF QlInv
  <2>5. FileInv'
    BY FileKeeps DEF QlInv
  <2> QED
    BY <2>1, <2>2, <2>3, <2>4, <2>5 DEF QlInv
<1>3. QlInv => LogsAccounted
  <2> SUFFICES ASSUME QlInv PROVE LogsAccounted
    OBVIOUS
  <2>1. CASE qlSink = "file"
    <3>1. /\ qlAsked = Len(qlKept) + qlW.cut + qlLost + Cardinality({t \in QlThreads : qlW.threads[t] # Idle})
          /\ (qlLost > 0 => qlW.disabled = TRUE)
      BY <2>1 DEF QlInv, FileInv, FileGood, Busy
    <3> QED
      BY <2>1, <3>1 DEF LogsAccounted
  <2>2. CASE qlSink = "db"
    <3>1. DbInv
      BY DEF QlInv
    <3> QED
      BY <2>2, <3>1, DbAccounted DEF LogsAccounted
  <2>3. CASE qlSink = "syslog"
    <3>1. /\ qlAsked = Len(qlKept) + Len(qlQ) + qlDropped + qlTold + qlLost + qlW.gone + qlW.unsaid
          /\ qlFaults = 0 => qlLost = 0 /\ qlW.gone = 0 /\ qlW.unsaid = 0
          /\ Len(qlKept) \in Nat /\ Len(qlQ) \in Nat /\ qlDropped \in Nat /\ qlTold \in Nat
      BY <2>3 DEF QlInv, SyslogInv
    <3>2. qlFaults = 0 => qlAsked = Len(qlKept) + Len(qlQ) + qlDropped + qlTold
      BY <3>1
    <3> QED
      BY <2>3, <3>1, <3>2 DEF LogsAccounted
  <2>4. CASE qlSink = "export"
    <3>1. ExportInv
      BY DEF QlInv
    <3> QED
      BY <2>4, <3>1, ExportAccounted DEF LogsAccounted
  <2> QED
    BY <2>1, <2>2, <2>3, <2>4 DEF QlInv
<1> QED
  BY <1>1, <1>2, <1>3, PTL DEF QlSpec
=============================================================================
