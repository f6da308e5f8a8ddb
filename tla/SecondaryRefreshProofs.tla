----------------------- MODULE SecondaryRefreshProofs -----------------------
(***************************************************************************)
(* Proofs about SecondaryRefresh: what is stored of a secondary zone is    *)
(* between refreshes one version, with its serial (StoredWhole), and it    *)
(* never goes back (StoredForward), for any number of zones, masters and   *)
(* NOTIFY tasks.                                                           *)
(*                                                                         *)
(* The argument: whoever works on a zone holds the lock, so a step of a    *)
(* refresh is judged by its own zone alone (WorkedInv); a row made anew    *)
(* has an identifier no refresh knows (RowReplaced); and of two serials of *)
(* one primary the newer is that of the later version (NewerIsLater).      *)
(***************************************************************************)
EXTENDS SecondaryRefresh, FiniteSetTheorems, WellFoundedInduction, NaturalsInduction,
        SequenceTheorems, TLAPS

----------------------------------------------------------------------------
(* The serials of the primary's versions *)

\* A set of numbers has a least one.
LEMMA LeastNumber ==
  ASSUME NEW S, S \subseteq Nat, S # {}
  PROVE  \E n \in S : \A m \in S : n <= m
<1> DEFINE R == {ss \in Nat \X Nat : ss[1] < ss[2]}
<1>1. IsWellFoundedOn(R, Nat)
  BY NatLessThanWellFounded DEF OpToRel
<1>2. PICK x \in S : \A y \in S : <<y, x>> \notin R
  <2> HIDE DEF R
  <2>1. QED
    BY <1>1, WFMin
<1>3. \A y \in S : <<y, x>> \in Nat \X Nat
  OBVIOUS
<1>4. \A y \in S : ~(y < x)
  BY <1>2, <1>3
<1>5. QED
  BY <1>4

\* f gives the first n versions their serials.
Numbers(f, n) ==
  f = [v \in 1 .. n |-> IF v = 1 THEN FirstSerial ELSE BumpSerial(f[v - 1])]

\* There is such a function for every n: the one for n - 1, and one value more.
LEMMA NumbersExist ==
  ASSUME NEW n \in Nat
  PROVE  \E f : Numbers(f, n)
<1> DEFINE Bad == {m \in Nat : ~ \E f : Numbers(f, m)}
<1>1. ASSUME Bad # {} PROVE FALSE
  <2>1. PICK m \in Bad : \A k \in Bad : m <= k
    <3> HIDE DEF Bad
    <3>1. Bad \subseteq Nat
      BY DEF Bad
    <3>2. QED
      BY <1>1, <3>1, LeastNumber
  <2>2. m \in Nat
    OBVIOUS
  <2>3. CASE m = 0
    <3> DEFINE f == [v \in 1 .. 0 |-> FirstSerial]
    <3>1. f = [v \in 1 .. 0 |-> IF v = 1 THEN FirstSerial ELSE BumpSerial(f[v - 1])]
      OBVIOUS
    <3>2. Numbers(f, m)
      <4> HIDE DEF f
      <4>1. QED
        BY <2>3, <3>1 DEF Numbers
    <3>3. QED
      BY <2>1, <3>2
  <2>4. CASE m # 0
    <3>1. m - 1 \in Nat /\ m - 1 \notin Bad
      BY <2>1, <2>2, <2>4
    <3>2. PICK f : Numbers(f, m - 1)
      BY <3>1
    <3> DEFINE g == [v \in 1 .. m |-> IF v = m THEN (IF m = 1 THEN FirstSerial ELSE BumpSerial(f[m - 1]))
                                                ELSE f[v]]
    <3>3. ASSUME NEW v \in 1 .. m
          PROVE  g[v] = IF v = 1 THEN FirstSerial ELSE BumpSerial(g[v - 1])
      <4>1. CASE v = m /\ m = 1
        BY <4>1
      <4>2. CASE v = m /\ m # 1
        <5>1. m - 1 \in 1 .. m /\ m - 1 # m
          BY <2>2, <2>4, <4>2
        <5>2. g[m - 1] = f[m - 1]
          BY <5>1
        <5>3. g[m] = BumpSerial(f[m - 1])
          BY <2>2, <4>2
        <5>4. QED
          BY <4>2, <5>2, <5>3
      <4>3. CASE v # m
        <5>1. v \in 1 .. m - 1 /\ g[v] = f[v]
          BY <2>2, <4>3
        <5>2. f[v] = IF v = 1 THEN FirstSerial ELSE BumpSerial(f[v - 1])
          BY <3>2, <5>1 DEF Numbers
        <5>3. v # 1 => v - 1 \in 1 .. m /\ v - 1 # m
          BY <2>2, <5>1
        <5>4. v # 1 => g[v - 1] = f[v - 1]
          BY <5>3
        <5>5. QED
          BY <5>1, <5>2, <5>4
      <4>4. QED
        BY <4>1, <4>2, <4>3
    <3>4. g = [v \in 1 .. m |-> g[v]]
      OBVIOUS
    <3> HIDE DEF g
    <3>5. Numbers(g, m)
      BY <3>3, <3>4 DEF Numbers
    <3>6. QED
      BY <2>1, <3>5
  <2>5. QED
    BY <2>3, <2>4
<1>2. QED
  BY <1>1

\* The first version has FirstSerial, and every other one the serial after the one
\* before it.
LEMMA SerialAtEquation ==
  ASSUME NEW v \in 1 .. MaxVersion
  PROVE  SerialAt[v] = IF v = 1 THEN FirstSerial ELSE BumpSerial(SerialAt[v - 1])
<1>1. \E f : Numbers(f, MaxVersion)
  BY NumbersExist, BoundsAssumption
<1>2. SerialAt = CHOOSE f : Numbers(f, MaxVersion)
  BY DEF SerialAt, Numbers
<1>3. Numbers(SerialAt, MaxVersion)
  BY <1>1, <1>2
<1>4. QED
  BY <1>3 DEF Numbers

\* They are serials.
LEMMA SerialAtType ==
  \A v \in 1 .. MaxVersion : SerialAt[v] \in Serial
<1> DEFINE Bad == {v \in 1 .. MaxVersion : SerialAt[v] \notin Serial}
<1>1. ASSUME Bad # {} PROVE FALSE
  <2>1. Bad \subseteq Nat
    OBVIOUS
  <2>2. PICK v \in Bad : \A w \in Bad : v <= w
    <3> HIDE DEF Bad
    <3>1. QED
      BY <1>1, <2>1, LeastNumber
  <2>3. v # 1
    BY SerialAtEquation, SerialAssumption
  <2>4. v - 1 \in 1 .. MaxVersion /\ v - 1 \notin Bad
    BY <2>2, <2>3, BoundsAssumption
  <2>5. SerialAt[v - 1] \in Serial /\ SerialAt[v] = BumpSerial(SerialAt[v - 1])
    BY <2>3, <2>4, SerialAtEquation
  <2>6. SerialAt[v] \in Serial
    BY <2>5, HalfAssumption DEF BumpSerial, WrappingInc, Serial, Space
  <2>7. QED
    BY <2>6
<1>2. QED
  BY <1>1

\* Where the number space is not used up, the serials count up from FirstSerial,
\* past the largest one on to 1.
Counted(v) ==
  IF FirstSerial + v - 1 < Space THEN FirstSerial + v - 1 ELSE FirstSerial + v - Space

LEMMA SerialAtCounts ==
  ASSUME MaxVersion < Half
  PROVE  \A v \in 1 .. MaxVersion : SerialAt[v] = Counted(v)
<1> DEFINE Bad == {v \in 1 .. MaxVersion : SerialAt[v] # Counted(v)}
<1>1. ASSUME Bad # {} PROVE FALSE
  <2>1. Bad \subseteq Nat
    OBVIOUS
  <2>2. PICK v \in Bad : \A w \in Bad : v <= w
    <3> HIDE DEF Bad
    <3>1. QED
      BY <1>1, <2>1, LeastNumber
  <2>3. v # 1
    BY SerialAtEquation, SerialAssumption, HalfAssumption DEF Counted, Serial, Space
  <2>4. v - 1 \in 1 .. MaxVersion /\ v - 1 \notin Bad
    BY <2>2, <2>3, BoundsAssumption
  <2>5. SerialAt[v] = BumpSerial(Counted(v - 1))
    BY <2>3, <2>4, SerialAtEquation
  <2>6. BumpSerial(Counted(v - 1)) = Counted(v)
    <3>1. v \in 2 .. MaxVersion /\ MaxVersion \in Nat /\ FirstSerial \in 0 .. 2 * Half - 1 /\ Half \in Nat
      BY <2>3, BoundsAssumption, SerialAssumption, HalfAssumption DEF Serial, Space
    <3>2. FirstSerial + (v - 1) - 1 = FirstSerial + v - 2
      BY <3>1
    <3>3. QED
      BY <3>1, <3>2, HalfAssumption DEF BumpSerial, WrappingInc, Counted, Space
  <2>7. QED
    BY <2>5, <2>6
<1>2. QED
  BY <1>1

\* Of two versions the one that serial arithmetic takes for newer is the later one
\* (serial_newer), as long as there are fewer versions than half the number space.
LEMMA NewerIsLater ==
  ASSUME MaxVersion < Half, NEW a \in 1 .. MaxVersion, NEW b \in 1 .. MaxVersion,
         SerialNewer(SerialAt[a], SerialAt[b])
  PROVE  a > b
<1>1. SerialAt[a] = Counted(a) /\ SerialAt[b] = Counted(b)
  BY SerialAtCounts
<1>2. SUFFICES ASSUME a <= b PROVE FALSE
  BY BoundsAssumption
<1>3. /\ MaxVersion \in Nat /\ FirstSerial \in 0 .. 2 * Half - 1 /\ Half \in Nat
  BY BoundsAssumption, SerialAssumption, HalfAssumption DEF Serial, Space
<1>4. Counted(a) # Counted(b) /\ WrappingSub(Counted(a), Counted(b)) < Half
  BY <1>1 DEF SerialNewer
<1>5. QED
  BY <1>2, <1>3, <1>4, HalfAssumption DEF WrappingSub, Counted, Space
----------------------------------------------------------------------------
(* The types *)

Steps   == {"idle", "lock", "soa", "transfer", "set_soa", "records", "wire", "touch", "reload"}
Active  == Steps \ {"idle", "lock"}
Storing == Active \ {"soa", "transfer"}

\* Rows and jobs, with identifiers of any size.
AnyRow == [exists : BOOLEAN, id : Nat, serial : Serial, records : Version,
           wire : Version, touched : BOOLEAN]
AnyJob == [zone : Zones \cup {Free}, id : Nat, serial : Serial,
           asked : 0 .. Len(MasterOrder) + 1, master : Serial, full : BOOLEAN, got : Version]

\* Identifiers are those of rows that were created.
RowType ==
  /\ row \in [Zones -> AnyRow] /\ rows \in Nat
  /\ \A z \in Zones : row[z].id <= rows /\ (row[z].exists => row[z].id # 0)

\* What a refresh at step s works on, where n rows were created.
Fits(s, j, n) ==
  /\ s \in Steps /\ j \in AnyJob /\ j.id <= n
  /\ s # "idle" => j.zone \in Zones
  /\ s \in Active => j.asked \in 1 .. Len(MasterOrder)
  /\ s \in Storing => j.got \in 1 .. MaxVersion

\* Whoever works on a zone holds the lock.
JobType ==
  /\ pc \in [Tasks -> Steps] /\ job \in [Tasks -> AnyJob]
  /\ refreshing \in Tasks \cup {Free}
  /\ \A t \in Tasks : Fits(pc[t], job[t], rows)
  /\ \A t \in Tasks : pc[t] \in Active => refreshing = t

LinkType ==
  /\ primary \in [Zones -> 1 .. MaxVersion]
  /\ master \in [Masters -> [Zones -> 1 .. MaxVersion]]

ErrorType == storeerrors \in Nat /\ crashes \in Nat

TypeInv == RowType /\ JobType /\ LinkType /\ ErrorType

\* Task t goes on to step s with job j, and takes or gives back the lock.
Moves(t, s, j) ==
  /\ pc' = [pc EXCEPT ![t] = s]
  /\ job' = [job EXCEPT ![t] = j]
  /\ \/ refreshing' = refreshing
     \/ refreshing = Free /\ refreshing' = t
     \/ refreshing = t /\ refreshing' = Free
  /\ s \in Active => refreshing' = t

\* A task that moves keeps the types of the jobs.
LEMMA MoveType ==
  ASSUME TypeInv, NEW t \in Tasks, NEW s, NEW j, Moves(t, s, j),
         rows' \in {rows, rows + 1}, Fits(s, j, rows')
  PROVE  JobType'
<1>1. rows \in Nat /\ rows' \in Nat
  BY DEF TypeInv, RowType
<1>2. pc' \in [Tasks -> Steps] /\ job' \in [Tasks -> AnyJob] /\ refreshing' \in Tasks \cup {Free}
  BY DEF TypeInv, JobType, Moves, Fits
<1>3. pc'[t] = s /\ job'[t] = j /\ \A x \in Tasks \ {t} : pc'[x] = pc[x] /\ job'[x] = job[x]
  BY DEF TypeInv, JobType, Moves
<1>4. ASSUME NEW x \in Tasks PROVE Fits(pc'[x], job'[x], rows')
  <2>1. CASE x = t
    BY <1>3, <2>1
  <2>2. CASE x # t
    <3>1. Fits(pc[x], job[x], rows) /\ job[x].id \in Nat
      BY DEF TypeInv, JobType, AnyJob
    <3>2. job[x].id <= rows'
      BY <1>1, <3>1 DEF Fits
    <3>3. QED
      BY <1>3, <2>2, <3>1, <3>2 DEF Fits
  <2>3. QED
    BY <2>1, <2>2
<1>5. ASSUME NEW x \in Tasks, pc'[x] \in Active PROVE refreshing' = x
  <2>1. CASE x = t
    BY <1>3, <1>5, <2>1 DEF Moves
  <2>2. CASE x # t
    <3>1. refreshing = x
      BY <1>3, <1>5, <2>2 DEF TypeInv, JobType
    <3>2. QED
      BY <2>2, <3>1, TasksAssumption DEF Moves
  <2>3. QED
    BY <2>1, <2>2
<1>6. QED
  BY <1>2, <1>4, <1>5 DEF JobType

\* No job is one that every step fits but those of a refresh.
LEMMA NoJobFits == \A n \in Nat : Fits("idle", NoJob, n)
<1>1. 0 \in Serial /\ 0 \in 0 .. Len(MasterOrder) + 1 /\ 0 \in Version
  BY MastersAssumption, BoundsAssumption, HalfAssumption, LenProperties DEF Version, Serial, Space
<1>2. QED
  BY <1>1 DEF Fits, NoJob, AnyJob, Steps, Active, Storing

\* A new row, and none.
LEMMA NewRowType ==
  ASSUME TypeInv
  PROVE  /\ NewRow \in AnyRow /\ NewRow.id = rows + 1 /\ NewRow.exists /\ ~NewRow.touched
         /\ NoRow \in AnyRow /\ NoRow.id = 0 /\ ~NoRow.exists
<1>1. 0 \in Serial /\ DefaultSerial \in Serial /\ 0 \in Version /\ rows + 1 \in Nat
  BY BoundsAssumption, HalfAssumption DEF Version, Serial, Space, DefaultSerial, TypeInv, RowType
<1>2. QED
  BY <1>1 DEF NewRow, NoRow, AnyRow

\* A refresh that returns.
LEMMA FinishMoves ==
  ASSUME TypeInv, NEW t \in Tasks, Finish(t)
  PROVE  Moves(t, "idle", NoJob)
BY DEF Finish, GoTo, Moves, Active

\* The master a refresh asks, and the version that one has.
LEMMA AskedType ==
  ASSUME TypeInv, NEW t \in Tasks, pc[t] \in Active
  PROVE  /\ job[t] \in AnyJob /\ job[t].zone \in Zones /\ job[t].asked \in 1 .. Len(MasterOrder)
         /\ Asked(t) \in Masters
         /\ master[Asked(t)][job[t].zone] \in 1 .. MaxVersion
         /\ refreshing = t /\ row[job[t].zone] \in AnyRow
         /\ Len(MasterOrder) \in Nat
<1>1. /\ job[t] \in AnyJob /\ job[t].zone \in Zones /\ job[t].asked \in 1 .. Len(MasterOrder) /\ refreshing = t
  BY DEF TypeInv, JobType, Fits, Active
<1>2. DOMAIN MasterOrder = 1 .. Len(MasterOrder) /\ Len(MasterOrder) \in Nat
  BY MastersAssumption, LenProperties
<1>3. Asked(t) \in Masters
  BY <1>1, <1>2 DEF Asked, Masters
<1>4. QED
  BY <1>1, <1>2, <1>3 DEF TypeInv, LinkType, RowType

\* What the store has after a step of the refresh t: its row as it was, or the same
\* row with other data.
RowKept(t) ==
  \/ row' = row
  \/ /\ Present(t)
     /\ \E r \in AnyRow : r.id = job[t].id /\ r.exists /\ row' = [row EXCEPT ![job[t].zone] = r]

\* A step of a refresh that holds the lock keeps the types.
LEMMA HolderType ==
  ASSUME TypeInv, NEW t \in Tasks, pc[t] \in Active, NEW s, NEW j, Moves(t, s, j), Fits(s, j, rows),
         RowKept(t), rows' = rows, UNCHANGED linkVars, ErrorType'
  PROVE  TypeInv'
<1>1. JobType'
  BY MoveType
<1>2. RowType'
  <2>1. job[t].zone \in Zones
    BY AskedType
  <2>2. CASE row' = row
    BY <2>2 DEF TypeInv, RowType
  <2>3. ASSUME Present(t), NEW r \in AnyRow, r.id = job[t].id, r.exists, row' = [row EXCEPT ![job[t].zone] = r]
        PROVE  RowType'
    <3>1. r.id <= rows /\ r.id # 0
      BY <2>1, <2>3 DEF Present, TypeInv, RowType
    <3>2. QED
      BY <2>1, <2>3, <3>1 DEF TypeInv, RowType
  <2>4. QED
    BY <2>2, <2>3 DEF RowKept
<1>3. LinkType'
  BY DEF TypeInv, LinkType, linkVars
<1>4. QED
  BY <1>1, <1>2, <1>3 DEF TypeInv
----------------------------------------------------------------------------
(* What is stored *)

\* What a refresh at step s with job j knows of its row r, while that is there: the
\* serial it compares is the row's, a zone that was transferred before is stored only
\* if the transfer is newer, and what it has stored is there.
Stage(s, j, r) ==
  /\ s \in {"soa", "transfer", "set_soa"} => j.serial = r.serial
  /\ s = "transfer" /\ r.touched => ~j.full
  /\ s = "set_soa" /\ r.touched => SerialNewer(SerialAt[j.got], r.serial)
  /\ s \in {"records", "wire", "touch"} => r.serial = SerialAt[j.got]
  /\ s \in {"wire", "touch"} => r.records = j.got
  /\ s = "touch" => r.wire = j.got

\* A zone that was transferred is stored in both places,
Full(r) == r.exists /\ r.touched => r.records # 0 /\ r.wire # 0

\* ... as the same version, of which it has the serial,
Whole(r) == r.exists /\ r.touched => r.serial = SerialAt[r.wire] /\ r.records = r.wire

\* ... unless a refresh is storing a later one right now.
WholeInv ==
  storeerrors = 0 /\ crashes = 0 => \A z \in Zones :
    \/ Whole(row[z])
    \/ \E t \in Tasks : pc[t] \in {"records", "wire"} /\ job[t].zone = z /\ Present(t)

DataInv ==
  /\ \A z \in Zones : Full(row[z])
  /\ WholeInv
  /\ \A t \in Tasks : Present(t) => Stage(pc[t], job[t], row[job[t].zone])

\* Whatever failed in the middle, the serial is that of a version no older than what
\* is stored,
Ordered(r) ==
  r.exists /\ r.touched =>
    \E m \in 1 .. MaxVersion : r.serial = SerialAt[m] /\ r.records <= m /\ r.wire <= m

\* ... and what a refresh has yet to store is not older either.
Ahead(s, j, r) ==
  r.touched => /\ s = "records" => r.records <= j.got /\ r.wire <= j.got
               /\ s = "wire" => r.wire <= j.got

OrderInv ==
  /\ \A z \in Zones : Ordered(row[z])
  /\ \A t \in Tasks : Present(t) => Ahead(pc[t], job[t], row[job[t].zone])

Inv == TypeInv /\ DataInv /\ (MaxVersion < Half => OrderInv)

\* The row of a refresh t that moves to step s with job j, and its zone's row after
\* it, in terms of that zone alone.
Worked(t, s, j) ==
  LET r == row'[job[t].zone]
  IN /\ Moves(t, s, j) /\ RowKept(t) /\ rows' = rows
     /\ s # "idle" => j.zone = job[t].zone /\ j.id = job[t].id
     /\ Fits(s, j, rows) /\ UNCHANGED linkVars /\ ErrorType'
     /\ Present(t) => Stage(s, j, r)
     /\ Full(r)
     /\ storeerrors' = 0 /\ crashes' = 0 =>
          /\ storeerrors = 0 /\ crashes = 0
          /\ Whole(r) \/ (Present(t) /\ s \in {"records", "wire"})
     /\ MaxVersion < Half => Ordered(r) /\ (Present(t) => Ahead(s, j, r))

\* It is enough to look at that zone: nobody else has the lock.
LEMMA WorkedInv ==
  ASSUME Inv, NEW t \in Tasks, pc[t] \in Active, NEW s, NEW j, Worked(t, s, j)
  PROVE  Inv'
<1> DEFINE z == job[t].zone
<1>1. /\ TypeInv /\ DataInv /\ Moves(t, s, j) /\ RowKept(t) /\ rows' = rows
      /\ s # "idle" => j.zone = z /\ j.id = job[t].id
      /\ Fits(s, j, rows) /\ UNCHANGED linkVars /\ ErrorType'
  BY DEF Inv, Worked
<1>2. TypeInv'
  BY <1>1, HolderType
<1>3. z \in Zones /\ refreshing = t
  BY <1>1, AskedType
<1>4. \A y \in Zones \ {z} : row'[y] = row[y]
  BY <1>1, <1>3 DEF RowKept, TypeInv, RowType
<1>5. row'[z].exists = row[z].exists /\ row'[z].id = row[z].id
  <2>1. CASE row' = row
    BY <2>1
  <2>2. CASE row' # row
    BY <1>1, <1>3, <2>2 DEF RowKept, Present, TypeInv, RowType
  <2>3. QED
    BY <2>1, <2>2
<1>6. pc'[t] = s /\ job'[t] = j /\ \A x \in Tasks \ {t} : pc'[x] = pc[x] /\ job'[x] = job[x]
  BY <1>1 DEF TypeInv, JobType, Moves
<1>7. \A x \in Tasks \ {t} : pc[x] \notin Active
  BY <1>1, <1>3 DEF TypeInv, JobType
<1>8. s # "idle" => (Present(t)' <=> Present(t))
  BY <1>1, <1>5, <1>6 DEF Present
<1>9. DataInv'
  <2>1. \A y \in Zones : Full(row'[y])
    <3>1. Full(row'[z])
      BY DEF Worked
    <3>2. QED
      BY <1>1, <1>4, <3>1 DEF DataInv
  <2>2. ASSUME NEW x \in Tasks, Present(x)' PROVE Stage(pc'[x], job'[x], row'[job'[x].zone])
    <3>1. CASE x = t /\ s # "idle"
      <4>1. Stage(s, j, row'[z])
        BY <1>8, <2>2, <3>1 DEF Worked
      <4>2. QED
        BY <1>1, <1>6, <3>1, <4>1
    <3>2. CASE pc'[x] \notin Active
      BY <3>2 DEF Stage, Active, Steps
    <3>3. CASE x = t /\ s = "idle"
      BY <1>6, <3>3 DEF Stage
    <3>4. CASE x # t
      BY <1>6, <1>7, <3>2, <3>4
    <3>5. QED
      BY <3>1, <3>3, <3>4
  <2>3. WholeInv'
    <3>1. SUFFICES ASSUME storeerrors' = 0, crashes' = 0, NEW y \in Zones
                   PROVE  \/ Whole(row'[y])
                          \/ \E x \in Tasks : pc'[x] \in {"records", "wire"} /\ job'[x].zone = y /\ Present(x)'
      BY DEF WholeInv
    <3>2. /\ storeerrors = 0 /\ crashes = 0
          /\ Whole(row'[z]) \/ (Present(t) /\ s \in {"records", "wire"})
      BY <3>1 DEF Worked
    <3>3. CASE y = z
      BY <1>1, <1>6, <1>8, <3>2, <3>3
    <3>4. CASE y # z
      <4>1. \/ Whole(row[y])
            \/ \E x \in Tasks : pc[x] \in {"records", "wire"} /\ job[x].zone = y /\ Present(x)
        BY <1>1, <3>2 DEF DataInv, WholeInv
      <4>2. ~ \E x \in Tasks : pc[x] \in {"records", "wire"} /\ job[x].zone = y
        BY <1>7, <3>4 DEF Active, Steps
      <4>3. QED
        BY <1>4, <3>4, <4>1, <4>2
    <3>5. QED
      BY <3>3, <3>4
  <2>4. QED
    BY <2>1, <2>2, <2>3 DEF DataInv
<1>10. ASSUME MaxVersion < Half PROVE OrderInv'
  <2>1. OrderInv /\ Ordered(row'[z]) /\ (Present(t) => Ahead(s, j, row'[z]))
    BY <1>10 DEF Inv, Worked
  <2>2. \A y \in Zones : Ordered(row'[y])
    BY <1>4, <2>1 DEF OrderInv
  <2>3. ASSUME NEW x \in Tasks, Present(x)' PROVE Ahead(pc'[x], job'[x], row'[job'[x].zone])
    <3>1. CASE x = t /\ s # "idle"
      BY <1>1, <1>6, <1>8, <2>1, <2>3, <3>1
    <3>2. CASE pc'[x] \notin Active
      BY <3>2 DEF Ahead, Active, Steps
    <3>3. CASE x = t /\ s = "idle"
      BY <1>6, <3>3 DEF Ahead
    <3>4. CASE x # t
      BY <1>6, <1>7, <3>2, <3>4
    <3>5. QED
      BY <3>1, <3>3, <3>4
  <2>4. QED
    BY <2>2, <2>3 DEF OrderInv
<1>11. QED
  BY <1>2, <1>9, <1>10 DEF Inv
----------------------------------------------------------------------------
(* The steps of a refresh *)

\* What is known of the zone of a refresh that holds the lock.
LEMMA HolderFacts ==
  ASSUME Inv, NEW t \in Tasks, pc[t] \in Active
  PROVE  LET r == row[job[t].zone]
         IN /\ TypeInv /\ Fits(pc[t], job[t], rows) /\ r \in AnyRow /\ job[t] \in AnyJob
            /\ Full(r) /\ (Present(t) => Stage(pc[t], job[t], r))
            /\ storeerrors = 0 /\ crashes = 0 =>
                 Whole(r) \/ (Present(t) /\ pc[t] \in {"records", "wire"})
            /\ MaxVersion < Half => Ordered(r) /\ (Present(t) => Ahead(pc[t], job[t], r))
            /\ ErrorType
<1> DEFINE z == job[t].zone
<1>1. TypeInv /\ DataInv /\ (MaxVersion < Half => OrderInv) /\ ErrorType
  BY DEF Inv, TypeInv
<1>2. z \in Zones /\ row[z] \in AnyRow /\ job[t] \in AnyJob /\ Fits(pc[t], job[t], rows) /\ refreshing = t
  BY <1>1, AskedType DEF TypeInv, JobType
<1>3. ASSUME storeerrors = 0, crashes = 0
      PROVE  Whole(row[z]) \/ (Present(t) /\ pc[t] \in {"records", "wire"})
  <2>1. \/ Whole(row[z])
        \/ \E x \in Tasks : pc[x] \in {"records", "wire"} /\ job[x].zone = z /\ Present(x)
    BY <1>1, <1>2, <1>3 DEF DataInv, WholeInv
  <2>2. \A x \in Tasks : pc[x] \in {"records", "wire"} => x = t
    BY <1>1, <1>2 DEF TypeInv, JobType, Active, Steps
  <2>3. QED
    BY <2>1, <2>2
<1>4. QED
  BY <1>1, <1>2, <1>3 DEF DataInv, OrderInv

\* A refresh that goes on, and stores nothing in this step.
LEMMA GoOn ==
  ASSUME Inv, NEW t \in Tasks, pc[t] \in Active, NEW s, NEW j, Moves(t, s, j), row' = row, rows' = rows,
         UNCHANGED linkVars, ErrorType',
         s # "idle" => j.zone = job[t].zone /\ j.id = job[t].id,
         Fits(s, j, rows), s \notin {"records", "wire"},
         storeerrors' = 0 /\ crashes' = 0 =>
           storeerrors = 0 /\ crashes = 0 /\ ~(Present(t) /\ pc[t] \in {"records", "wire"}),
         Present(t) => Stage(s, j, row[job[t].zone])
  PROVE  Inv'
<1>1. RowKept(t)
  BY DEF RowKept
<1>2. Ahead(s, j, row[job[t].zone])
  BY DEF Ahead
<1>3. Worked(t, s, j)
  BY <1>1, <1>2, HolderFacts DEF Worked
<1>4. QED
  BY <1>3, WorkedInv

\* One that returns; a store call that failed is counted.
LEMMA Return ==
  ASSUME Inv, NEW t \in Tasks, pc[t] \in Active, Finish(t), row' = row, rows' = rows,
         UNCHANGED <<linkVars, crashes>>,
         \/ storeerrors' = storeerrors + 1
         \/ storeerrors' = storeerrors /\ ~(Present(t) /\ pc[t] \in {"records", "wire"})
  PROVE  Inv'
<1>1. TypeInv /\ rows \in Nat /\ ErrorType
  BY DEF Inv, TypeInv, RowType
<1>2. Moves(t, "idle", NoJob)
  BY <1>1, FinishMoves
<1>3. Fits("idle", NoJob, rows)
  BY <1>1, NoJobFits
<1>4. Stage("idle", NoJob, row[job[t].zone])
  BY DEF Stage
<1>5. ErrorType' /\ (storeerrors' = 0 => storeerrors = 0 /\ ~(Present(t) /\ pc[t] \in {"records", "wire"}))
  BY <1>1 DEF ErrorType
<1>6. QED
  BY <1>2, <1>3, <1>4, <1>5, GoOn

\* The queries and transfers, which store nothing.
LEMMA AskStep ==
  ASSUME Inv, NEW t \in Tasks, QuerySoa(t) \/ QuerySoaFails(t) \/ Transfer(t) \/ TransferFails(t)
  PROVE  Inv'
<1> DEFINE z == job[t].zone
<1>1. /\ pc[t] \in {"soa", "transfer"} /\ pc[t] \in Active
      /\ UNCHANGED <<linkVars, storeVars, storeerrors, crashes>>
  BY DEF QuerySoa, QuerySoaFails, Transfer, TransferFails, countVars, Active, Steps
<1>2. CASE Finish(t)
  BY <1>1, <1>2, Return DEF storeVars
<1>3. /\ TypeInv /\ Fits(pc[t], job[t], rows) /\ job[t] \in AnyJob /\ row[z] \in AnyRow /\ ErrorType
      /\ Full(row[z]) /\ (Present(t) => Stage(pc[t], job[t], row[z]))
  BY <1>1, HolderFacts
<1>4. /\ z \in Zones /\ refreshing = t /\ master[Asked(t)][z] \in 1 .. MaxVersion
      /\ job[t].asked \in 1 .. Len(MasterOrder) /\ Len(MasterOrder) \in Nat
  BY <1>1, <1>3, AskedType
<1>5. ErrorType' /\ row' = row /\ rows' = rows
  BY <1>1, <1>3 DEF ErrorType, storeVars
<1>6. CASE QuerySoa(t) /\ ~Finish(t)
  <2> DEFINE serial == SerialAt[master[Asked(t)][z]]
             j == [job[t] EXCEPT !.master = serial, !.full = Incomplete(t)]
  <2>1. /\ pc[t] = "soa" /\ refreshing' = refreshing /\ pc' = [pc EXCEPT ![t] = "transfer"]
        /\ job' = [job EXCEPT ![t].master = serial, ![t].full = Incomplete(t)]
    BY <1>6 DEF QuerySoa, GoTo
  <2>2. job' = [job EXCEPT ![t] = j]
    BY <1>3, <2>1 DEF TypeInv, JobType
  <2>3. serial \in Serial /\ Incomplete(t) \in BOOLEAN
    BY <1>4, SerialAtType DEF Incomplete
  <2>4. /\ j \in AnyJob /\ j.zone = z /\ j.id = job[t].id /\ j.full = Incomplete(t) /\ j.serial = job[t].serial
        /\ j.asked = job[t].asked /\ j.got = job[t].got
    BY <1>3, <2>3 DEF AnyJob
  <2> HIDE DEF j
  <2>5. Moves(t, "transfer", j) /\ Fits("transfer", j, rows)
    BY <1>3, <1>4, <2>1, <2>2, <2>4 DEF Moves, Fits, Steps, Active, Storing
  <2>6. Present(t) => Stage("transfer", j, row[z])
    <3>1. ASSUME Present(t), row[z].touched PROVE ~Incomplete(t)
      BY <1>3, <3>1 DEF Incomplete, Full, Present
    <3>2. QED
      BY <1>3, <2>1, <2>4, <3>1 DEF Stage
  <2>7. QED
    BY <1>1, <1>5, <2>1, <2>4, <2>5, <2>6, GoOn
<1>7. CASE QuerySoaFails(t) /\ ~Finish(t)
  <2> DEFINE j == [job[t] EXCEPT !.asked = job[t].asked + 1]
  <2>1. /\ pc[t] = "soa" /\ job[t].asked < Len(MasterOrder) /\ UNCHANGED <<pc, refreshing>>
        /\ job' = [job EXCEPT ![t].asked = @ + 1]
    BY <1>7 DEF QuerySoaFails
  <2>2. job' = [job EXCEPT ![t] = j] /\ pc' = [pc EXCEPT ![t] = "soa"]
    BY <1>3, <2>1 DEF TypeInv, JobType
  <2>3. job[t].asked + 1 \in 1 .. Len(MasterOrder) /\ job[t].asked + 1 \in 0 .. Len(MasterOrder) + 1
    BY <1>4, <2>1
  <2>4. /\ j \in AnyJob /\ j.zone = z /\ j.id = job[t].id /\ j.serial = job[t].serial
        /\ j.asked = job[t].asked + 1
    BY <1>3, <2>3 DEF AnyJob
  <2> HIDE DEF j
  <2>5. Moves(t, "soa", j) /\ Fits("soa", j, rows)
    BY <1>3, <1>4, <2>1, <2>2, <2>3, <2>4 DEF Moves, Fits, Steps, Active, Storing
  <2>6. Present(t) => Stage("soa", j, row[z])
    BY <1>3, <2>1, <2>4 DEF Stage
  <2>7. QED
    BY <1>1, <1>5, <2>1, <2>4, <2>5, <2>6, GoOn
<1>8. CASE Transfer(t) /\ ~Finish(t)
  <2> DEFINE v == master[Asked(t)][z]
             j == [job[t] EXCEPT !.got = v]
  <2>1. /\ pc[t] = "transfer" /\ refreshing' = refreshing /\ pc' = [pc EXCEPT ![t] = "set_soa"]
        /\ job' = [job EXCEPT ![t].got = v]
        /\ job[t].full \/ SerialNewer(SerialAt[v], job[t].serial)
    BY <1>8 DEF Transfer, GoTo
  <2>2. job' = [job EXCEPT ![t] = j]
    BY <1>3, <2>1 DEF TypeInv, JobType
  <2>3. v \in 1 .. MaxVersion /\ v \in Version
    BY <1>4, BoundsAssumption DEF Version
  <2>4. /\ j \in AnyJob /\ j.zone = z /\ j.id = job[t].id /\ j.serial = job[t].serial
        /\ j.asked = job[t].asked /\ j.got = v
    BY <1>3, <2>3 DEF AnyJob
  <2> HIDE DEF j
  <2>5. Moves(t, "set_soa", j) /\ Fits("set_soa", j, rows)
    BY <1>3, <1>4, <2>1, <2>2, <2>3, <2>4 DEF Moves, Fits, Steps, Active, Storing
  <2>6. Present(t) => Stage("set_soa", j, row[z])
    BY <1>3, <2>1, <2>4 DEF Stage
  <2>7. QED
    BY <1>1, <1>5, <2>1, <2>4, <2>5, <2>6, GoOn
<1>9. QED
  BY <1>2, <1>6, <1>7, <1>8 DEF TransferFails

\* A store call of transfer_from that finds its row and goes on to step s.
LEMMA StoreRow ==
  ASSUME Inv, NEW t \in Tasks, pc[t] \in Storing, Present(t), NEW r \in AnyRow,
         row' = [row EXCEPT ![job[t].zone] = r], r.exists, r.id = job[t].id,
         NEW s \in Storing, pc' = [pc EXCEPT ![t] = s], job' = job, refreshing' = refreshing, rows' = rows,
         UNCHANGED <<linkVars, storeerrors, crashes>>,
         Stage(s, job[t], r), Full(r), MaxVersion < Half => Ordered(r) /\ Ahead(s, job[t], r),
         Whole(r) \/ s \in {"records", "wire"} \/ ~(storeerrors = 0 /\ crashes = 0)
  PROVE  Inv'
<1> DEFINE z == job[t].zone
<1>1. pc[t] \in Active /\ s \in Active /\ s # "idle"
  BY DEF Storing, Active
<1>2. TypeInv /\ Fits(pc[t], job[t], rows) /\ job[t] \in AnyJob /\ ErrorType
  BY <1>1, HolderFacts
<1>3. z \in Zones /\ refreshing = t
  BY <1>1, <1>2, AskedType
<1>4. job' = [job EXCEPT ![t] = job[t]] /\ row'[z] = r
  BY <1>2, <1>3 DEF TypeInv, JobType, RowType
<1>5. Moves(t, s, job[t])
  BY <1>3, <1>4 DEF Moves
<1>6. Fits(s, job[t], rows)
  BY <1>1, <1>2 DEF Fits, Storing, Active
<1>7. RowKept(t)
  BY DEF RowKept
<1>8. ErrorType'
  BY <1>2 DEF ErrorType
<1>9. Worked(t, s, job[t])
  BY <1>4, <1>5, <1>6, <1>7, <1>8 DEF Worked
<1>10. QED
  BY <1>1, <1>9, WorkedInv

\* The store calls of a transfer, in their order: the serial, the record table, the
\* transfer as it was received, and the note that it is complete.
LEMMA StoreStep ==
  ASSUME Inv, NEW t \in Tasks, SetSoa(t) \/ SetRecords(t) \/ SetWire(t) \/ Touch(t)
  PROVE  Inv'
<1> DEFINE z == job[t].zone
           r == row[z]
           got == job[t].got
<1>1. pc[t] \in {"set_soa", "records", "wire", "touch"} /\ pc[t] \in Active /\ pc[t] \in Storing
  BY DEF SetSoa, SetRecords, SetWire, Touch, Active, Storing, Steps
<1>2. /\ TypeInv /\ Fits(pc[t], job[t], rows) /\ job[t] \in AnyJob /\ r \in AnyRow /\ ErrorType
      /\ Full(r) /\ (Present(t) => Stage(pc[t], job[t], r))
      /\ storeerrors = 0 /\ crashes = 0 => Whole(r) \/ (Present(t) /\ pc[t] \in {"records", "wire"})
      /\ MaxVersion < Half => Ordered(r) /\ (Present(t) => Ahead(pc[t], job[t], r))
  BY <1>1, HolderFacts
<1>3. z \in Zones /\ refreshing = t
  BY <1>1, <1>2, AskedType
<1>4. got \in 1 .. MaxVersion /\ got \in Version /\ got # 0 /\ SerialAt[got] \in Serial /\ got \in Nat
  BY <1>1, <1>2, SerialAtType, BoundsAssumption DEF Fits, Version
<1>5. r.records \in Nat /\ r.wire \in Nat
  BY <1>2, BoundsAssumption DEF AnyRow, Version
<1>6. CASE ~Present(t) /\ ~Touch(t)
  <2>1. Finish(t) /\ row' = row /\ rows' = rows /\ UNCHANGED <<linkVars, crashes, storeerrors>>
    BY <1>6 DEF SetSoa, SetRecords, SetWire, Store, countVars
  <2>2. QED
    BY <1>1, <1>6, <2>1, Return
<1>7. CASE SetSoa(t) /\ Present(t)
  <2> DEFINE n == [r EXCEPT !.serial = SerialAt[got]]
  <2>1. /\ pc[t] = "set_soa" /\ row' = [row EXCEPT ![z] = n] /\ pc' = [pc EXCEPT ![t] = "records"]
        /\ job' = job /\ refreshing' = refreshing /\ rows' = rows /\ UNCHANGED <<linkVars, storeerrors, crashes>>
    BY <1>7 DEF SetSoa, Store, GoTo, countVars
  <2>2. /\ n \in AnyRow /\ n.exists = r.exists /\ n.id = r.id /\ n.serial = SerialAt[got]
        /\ n.records = r.records /\ n.wire = r.wire /\ n.touched = r.touched
    BY <1>2, <1>4 DEF AnyRow
  <2> HIDE DEF n
  <2>3. Stage("records", job[t], n) /\ Full(n)
    BY <1>2, <2>2 DEF Stage, Full
  <2>4. ASSUME MaxVersion < Half PROVE Ordered(n) /\ Ahead("records", job[t], n)
    <3>1. CASE r.touched
      <4>1. PICK m \in 1 .. MaxVersion : r.serial = SerialAt[m] /\ r.records <= m /\ r.wire <= m
        BY <1>2, <1>7, <2>4, <3>1 DEF Ordered, Present
      <4>2. SerialNewer(SerialAt[got], SerialAt[m])
        BY <1>2, <1>7, <2>1, <3>1, <4>1 DEF Stage
      <4>3. got > m
        BY <1>4, <2>4, <4>2, NewerIsLater
      <4>4. r.records <= got /\ r.wire <= got
        BY <1>4, <1>5, <4>1, <4>3
      <4>5. QED
        BY <1>4, <2>2, <4>4 DEF Ordered, Ahead
    <3>2. CASE ~r.touched
      BY <2>2, <3>2 DEF Ordered, Ahead
    <3>3. QED
      BY <3>1, <3>2
  <2>5. n.exists /\ n.id = job[t].id /\ "records" \in Storing
    BY <1>7, <2>2 DEF Present, Storing, Active, Steps
  <2>6. QED
    BY <1>1, <1>7, <2>1, <2>2, <2>3, <2>4, <2>5, StoreRow
<1>8. CASE SetRecords(t) /\ Present(t)
  <2> DEFINE n == [r EXCEPT !.records = got]
  <2>1. /\ pc[t] = "records" /\ row' = [row EXCEPT ![z] = n] /\ pc' = [pc EXCEPT ![t] = "wire"]
        /\ job' = job /\ refreshing' = refreshing /\ rows' = rows /\ UNCHANGED <<linkVars, storeerrors, crashes>>
    BY <1>8 DEF SetRecords, Store, GoTo, countVars
  <2>2. /\ n \in AnyRow /\ n.exists = r.exists /\ n.id = r.id /\ n.serial = r.serial
        /\ n.records = got /\ n.wire = r.wire /\ n.touched = r.touched
    BY <1>2, <1>4 DEF AnyRow
  <2> HIDE DEF n
  <2>3. Stage("wire", job[t], n) /\ Full(n) /\ r.serial = SerialAt[got]
    BY <1>2, <1>4, <1>8, <2>1, <2>2 DEF Stage, Full
  <2>4. ASSUME MaxVersion < Half PROVE Ordered(n) /\ Ahead("wire", job[t], n)
    <3>1. r.touched => r.wire <= got
      BY <1>2, <1>8, <2>1, <2>4 DEF Ahead
    <3>2. QED
      BY <1>4, <2>2, <2>3, <3>1 DEF Ordered, Ahead
  <2>5. n.exists /\ n.id = job[t].id /\ "wire" \in Storing
    BY <1>8, <2>2 DEF Present, Storing, Active, Steps
  <2>6. QED
    BY <1>1, <1>8, <2>1, <2>2, <2>3, <2>4, <2>5, StoreRow
<1>9. CASE SetWire(t) /\ Present(t)
  <2> DEFINE n == [r EXCEPT !.wire = got]
  <2>1. /\ pc[t] = "wire" /\ row' = [row EXCEPT ![z] = n] /\ pc' = [pc EXCEPT ![t] = "touch"]
        /\ job' = job /\ refreshing' = refreshing /\ rows' = rows /\ UNCHANGED <<linkVars, storeerrors, crashes>>
    BY <1>9 DEF SetWire, Store, GoTo, countVars
  <2>2. /\ n \in AnyRow /\ n.exists = r.exists /\ n.id = r.id /\ n.serial = r.serial
        /\ n.records = r.records /\ n.wire = got /\ n.touched = r.touched
    BY <1>2, <1>4 DEF AnyRow
  <2> HIDE DEF n
  <2>3. Stage("touch", job[t], n) /\ Full(n) /\ r.serial = SerialAt[got] /\ r.records = got
    BY <1>2, <1>4, <1>9, <2>1, <2>2 DEF Stage, Full
  <2>4. Ordered(n) /\ Ahead("touch", job[t], n) /\ Whole(n)
    BY <1>4, <2>2, <2>3 DEF Ordered, Ahead, Whole
  <2>5. n.exists /\ n.id = job[t].id /\ "touch" \in Storing
    BY <1>9, <2>2 DEF Present, Storing, Active, Steps
  <2>6. QED
    BY <1>1, <1>9, <2>1, <2>2, <2>3, <2>4, <2>5, StoreRow
<1>10. CASE Touch(t) /\ Present(t)
  <2> DEFINE n == [r EXCEPT !.touched = TRUE]
  <2>1. /\ pc[t] = "touch" /\ row' = [row EXCEPT ![z].touched = TRUE] /\ pc' = [pc EXCEPT ![t] = "reload"]
        /\ job' = job /\ refreshing' = refreshing /\ rows' = rows /\ UNCHANGED <<linkVars, storeerrors, crashes>>
    BY <1>10 DEF Touch, GoTo, countVars
  <2>2. row' = [row EXCEPT ![z] = n]
    BY <1>2, <1>3, <2>1 DEF TypeInv, RowType
  <2>3. /\ n \in AnyRow /\ n.exists = r.exists /\ n.id = r.id /\ n.serial = r.serial
        /\ n.records = r.records /\ n.wire = r.wire
    BY <1>2 DEF AnyRow
  <2> HIDE DEF n
  <2>4. r.serial = SerialAt[got] /\ r.records = got /\ r.wire = got
    BY <1>2, <1>10, <2>1 DEF Stage
  <2>5. Stage("reload", job[t], n) /\ Full(n) /\ Ordered(n) /\ Ahead("reload", job[t], n) /\ Whole(n)
    BY <1>4, <2>3, <2>4 DEF Stage, Full, Ordered, Ahead, Whole
  <2>6. n.exists /\ n.id = job[t].id /\ "reload" \in Storing
    BY <1>10, <2>3 DEF Present, Storing, Active, Steps
  <2>7. QED
    BY <1>1, <1>10, <2>1, <2>2, <2>3, <2>5, <2>6, StoreRow
<1>11. CASE Touch(t) /\ ~Present(t)
  <2>1. /\ row' = row /\ pc' = [pc EXCEPT ![t] = "reload"] /\ job' = job /\ refreshing' = refreshing
        /\ rows' = rows /\ UNCHANGED <<linkVars, storeerrors, crashes>>
    BY <1>11 DEF Touch, GoTo, countVars
  <2>2. job' = [job EXCEPT ![t] = job[t]]
    BY <1>2, <2>1 DEF TypeInv, JobType
  <2>3. Moves(t, "reload", job[t])
    BY <1>3, <2>1, <2>2 DEF Moves
  <2>4. Fits("reload", job[t], rows) /\ ErrorType'
    BY <1>1, <1>2, <1>4, <2>1 DEF Fits, Storing, Active, Steps, ErrorType
  <2>5. QED
    BY <1>1, <1>11, <2>1, <2>3, <2>4, GoOn
<1>12. QED
  BY <1>6, <1>7, <1>8, <1>9, <1>10, <1>11

\* The reload, and a store call that fails.
LEMMA EndStep ==
  ASSUME Inv, NEW t \in Tasks, RefreshReload(t) \/ StoreFails(t)
  PROVE  Inv'
<1>1. pc[t] \in Active
  BY DEF RefreshReload, StoreFails, Active, Steps
<1>2. Finish(t) /\ row' = row /\ rows' = rows /\ UNCHANGED <<linkVars, crashes>>
  BY DEF RefreshReload, StoreFails, storeVars, countVars
<1>3. storeerrors' = storeerrors + 1 \/ (storeerrors' = storeerrors /\ pc[t] = "reload")
  BY DEF RefreshReload, StoreFails, countVars
<1>4. QED
  BY <1>1, <1>2, <1>3, Return
----------------------------------------------------------------------------
(* The steps that are not those of a refresh that holds the lock *)

\* A refresh that has not begun knows nothing of its row.
LEMMA NotBegun ==
  ASSUME NEW s \in Steps \ Active, NEW j, NEW r
  PROVE  Stage(s, j, r) /\ Ahead(s, j, r)
BY DEF Stage, Ahead, Steps, Active

\* Steps of the other servers, of the loop and of the handlers that leave the store and
\* the refreshes alone.
LEMMA Elsewhere ==
  ASSUME Inv, LinkType', UNCHANGED <<row, rows, refreshing, pc, job, storeerrors, crashes>>
  PROVE  Inv'
<1>1. TypeInv'
  BY DEF Inv, TypeInv, RowType, JobType, ErrorType
<1>2. DataInv'
  BY DEF Inv, DataInv, WholeInv, Present
<1>3. MaxVersion < Half => OrderInv'
  BY DEF Inv, OrderInv, Present
<1>4. QED
  BY <1>1, <1>2, <1>3 DEF Inv

\* The primaries and masters, the loop between two zones, and the handlers' calls of
\* the refresher and of the reload.
LEMMA ElsewhereStep ==
  ASSUME Inv,
         \/ \E z \in Zones : PrimaryChange(z) \/ \E m \in Masters : MasterSync(m, z)
         \/ LoopSnapshot \/ LoopSleep \/ LoopTimer \/ SetZone \/ RemoveZone \/ AdminReload
         \/ UNCHANGED vars
  PROVE  Inv'
<1>1. LinkType
  BY DEF Inv, TypeInv
<1>2. CASE \E z \in Zones : PrimaryChange(z)
  <2>1. PICK z \in Zones : PrimaryChange(z)
    BY <1>2
  <2>2. primary[z] + 1 \in 1 .. MaxVersion
    BY <1>1, <2>1, BoundsAssumption DEF LinkType, PrimaryChange
  <2>3. LinkType'
    BY <1>1, <2>1, <2>2 DEF LinkType, PrimaryChange
  <2>4. QED
    BY <2>1, <2>3, Elsewhere DEF PrimaryChange, storeVars, countVars
<1>3. CASE \E z \in Zones : \E m \in Masters : MasterSync(m, z)
  <2>1. PICK z \in Zones, m \in Masters : MasterSync(m, z)
    BY <1>3
  <2>2. primary[z] \in 1 .. MaxVersion /\ master[m] \in [Zones -> 1 .. MaxVersion]
    BY <1>1 DEF LinkType
  <2>3. LinkType'
    BY <1>1, <2>1, <2>2 DEF LinkType, MasterSync
  <2>4. QED
    BY <2>1, <2>3, Elsewhere DEF MasterSync, storeVars, countVars
<1>4. CASE LoopSnapshot \/ LoopSleep \/ LoopTimer
  <2>1. UNCHANGED <<linkVars, row, rows, refreshing, pc, job, storeerrors, crashes>>
    BY <1>4 DEF LoopSnapshot, LoopSleep, LoopTimer, storeVars, countVars
  <2>2. QED
    BY <1>1, <2>1, Elsewhere DEF LinkType, linkVars
<1>5. CASE SetZone \/ RemoveZone \/ AdminReload
  <2>1. UNCHANGED <<linkVars, row, rows, refreshing, pc, job, storeerrors, crashes>>
    BY <1>5 DEF SetZone, RemoveZone, AdminReload, storeVars, countVars
  <2>2. QED
    BY <1>1, <2>1, Elsewhere DEF LinkType, linkVars
<1>6. CASE UNCHANGED vars
  <2>1. UNCHANGED <<linkVars, row, rows, refreshing, pc, job, storeerrors, crashes>>
    BY <1>6 DEF vars, linkVars
  <2>2. QED
    BY <1>1, <2>1, Elsewhere DEF LinkType, linkVars
<1>7. QED
  BY <1>2, <1>3, <1>4, <1>5, <1>6

\* A refresh is asked for, by the loop or by a NOTIFY.
LEMMA WantedStep ==
  ASSUME Inv, NEW t \in Tasks, NEW z \in Zones, pc[t] = "idle", pc' = [pc EXCEPT ![t] = "lock"],
         job' = [job EXCEPT ![t] = [NoJob EXCEPT !.zone = z]],
         UNCHANGED <<linkVars, row, rows, refreshing, storeerrors, crashes>>
  PROVE  Inv'
<1> DEFINE j == [NoJob EXCEPT !.zone = z]
<1>1. TypeInv /\ DataInv /\ rows \in Nat /\ NoJob \in AnyJob /\ Fits("idle", NoJob, rows)
  BY NoJobFits DEF Inv, TypeInv, RowType, Fits
<1>2. j \in AnyJob /\ j.zone = z /\ j.id = NoJob.id
  BY <1>1 DEF AnyJob
<1> HIDE DEF j
<1>3. Fits("lock", j, rows')
  BY <1>1, <1>2 DEF Fits, Steps, Active, Storing
<1>4. Moves(t, "lock", j)
  BY <1>1 DEF Moves, j, Active
<1>5. JobType'
  BY <1>1, <1>3, <1>4, MoveType
<1>6. TypeInv'
  BY <1>1, <1>5 DEF TypeInv, RowType, LinkType, ErrorType, linkVars
<1>7. pc'[t] = "lock" /\ \A x \in Tasks \ {t} : pc'[x] = pc[x] /\ job'[x] = job[x]
  BY <1>1 DEF TypeInv, JobType
<1>8. DataInv'
  <2>1. ASSUME NEW x \in Tasks, Present(x)' PROVE Stage(pc'[x], job'[x], row'[job'[x].zone])
    <3>1. CASE x = t
      BY <1>7, <3>1, NotBegun DEF Steps, Active
    <3>2. CASE x # t
      BY <1>1, <1>7, <2>1, <3>2 DEF DataInv, Present
    <3>3. QED
      BY <3>1, <3>2
  <2>2. WholeInv'
    <3>1. SUFFICES ASSUME storeerrors' = 0, crashes' = 0, NEW y \in Zones
                   PROVE  \/ Whole(row'[y])
                          \/ \E x \in Tasks : pc'[x] \in {"records", "wire"} /\ job'[x].zone = y /\ Present(x)'
      BY DEF WholeInv
    <3>2. \/ Whole(row[y])
          \/ \E x \in Tasks : pc[x] \in {"records", "wire"} /\ job[x].zone = y /\ Present(x)
      BY <1>1, <3>1 DEF DataInv, WholeInv
    <3>3. ASSUME NEW x \in Tasks, pc[x] \in {"records", "wire"}, job[x].zone = y, Present(x)
          PROVE  pc'[x] \in {"records", "wire"} /\ job'[x].zone = y /\ Present(x)'
      BY <1>7, <3>3 DEF Present
    <3>4. QED
      BY <3>2, <3>3
  <2>3. QED
    BY <1>1, <2>1, <2>2 DEF DataInv
<1>9. ASSUME MaxVersion < Half PROVE OrderInv'
  <2>1. OrderInv
    BY <1>9 DEF Inv
  <2>2. ASSUME NEW x \in Tasks, Present(x)' PROVE Ahead(pc'[x], job'[x], row'[job'[x].zone])
    <3>1. CASE x = t
      BY <1>7, <3>1, NotBegun DEF Steps, Active
    <3>2. CASE x # t
      BY <1>7, <2>1, <2>2, <3>2 DEF OrderInv, Present
    <3>3. QED
      BY <3>1, <3>2
  <2>3. QED
    BY <2>1, <2>2 DEF OrderInv
<1>10. QED
  BY <1>6, <1>8, <1>9 DEF Inv

\* A zone's row is made or deleted, whoever works on it: no refresh knows the row that
\* is there then.
LEMMA RowReplaced ==
  ASSUME Inv, NEW z \in Zones, NEW n, row' = [row EXCEPT ![z] = n],
         (n = NewRow /\ rows' = rows + 1) \/ (n = NoRow /\ rows' = rows),
         UNCHANGED <<linkVars, refreshing, pc, job, crashes>>, storeerrors' \in {storeerrors, storeerrors + 1}
  PROVE  Inv'
<1>1. /\ TypeInv /\ DataInv /\ rows \in Nat /\ n \in AnyRow /\ ~(n.exists /\ n.touched)
      /\ n.id <= rows' /\ (n.exists => n.id = rows + 1)
  BY NewRowType DEF Inv, TypeInv, RowType
<1>2. rows' \in Nat /\ rows <= rows' /\ storeerrors \in Nat
      /\ storeerrors' \in Nat /\ (storeerrors' = 0 => storeerrors = 0)
  BY <1>1 DEF TypeInv, ErrorType
<1>3. row'[z] = n /\ row' \in [Zones -> AnyRow] /\ \A y \in Zones \ {z} : row'[y] = row[y]
  BY <1>1 DEF TypeInv, RowType
<1>4. TypeInv'
  <2>1. RowType'
    <3>1. ASSUME NEW y \in Zones PROVE row'[y].id <= rows' /\ (row'[y].exists => row'[y].id # 0)
      <4>1. CASE y = z
        BY <1>1, <1>3, <4>1
      <4>2. CASE y # z
        <5>1. row[y].id \in Nat /\ row[y].id <= rows /\ (row[y].exists => row[y].id # 0)
          BY <1>1 DEF TypeInv, RowType, AnyRow
        <5>2. QED
          BY <1>1, <1>2, <1>3, <4>2, <5>1
      <4>3. QED
        BY <4>1, <4>2
    <3>2. QED
      BY <1>2, <1>3, <3>1 DEF RowType
  <2>2. JobType'
    <3>1. ASSUME NEW x \in Tasks PROVE Fits(pc[x], job[x], rows')
      <4>1. Fits(pc[x], job[x], rows) /\ job[x].id \in Nat
        BY <1>1 DEF TypeInv, JobType, AnyJob
      <4>2. job[x].id <= rows'
        BY <1>1, <1>2, <4>1 DEF Fits
      <4>3. QED
        BY <4>1, <4>2 DEF Fits
    <3>2. QED
      BY <1>1, <3>1 DEF TypeInv, JobType
  <2>3. QED
    BY <1>1, <1>2, <2>1, <2>2 DEF TypeInv, LinkType, ErrorType, linkVars
<1>5. ASSUME NEW x \in Tasks, pc[x] \in Active, job[x].zone = z PROVE ~Present(x)'
  <2>1. job[x].id \in Nat /\ job[x].id <= rows
    BY <1>1 DEF TypeInv, JobType, AnyJob, Fits
  <2>2. n.exists => n.id # job[x].id
    BY <1>1, <2>1
  <2>3. QED
    BY <1>3, <1>5, <2>2 DEF Present
<1>6. ASSUME NEW x \in Tasks, pc[x] \in Active, Present(x)'
      PROVE  job[x].zone \in Zones \ {z} /\ Present(x)
  <2>1. job[x].zone \in Zones
    BY <1>1, <1>6 DEF TypeInv, JobType, Fits, Active
  <2>2. QED
    BY <1>3, <1>5, <1>6, <2>1 DEF Present
<1>7. \A x \in Tasks : pc[x] \in Steps
  BY <1>1 DEF TypeInv, JobType
<1>8. DataInv'
  <2>1. \A y \in Zones : Full(row'[y])
    BY <1>1, <1>3 DEF DataInv, Full
  <2>2. ASSUME NEW x \in Tasks, Present(x)' PROVE Stage(pc'[x], job'[x], row'[job'[x].zone])
    <3>1. CASE pc[x] \in Active
      BY <1>1, <1>3, <1>6, <2>2, <3>1 DEF DataInv
    <3>2. CASE pc[x] \notin Active
      BY <1>7, <3>2, NotBegun
    <3>3. QED
      BY <3>1, <3>2
  <2>3. WholeInv'
    <3>1. SUFFICES ASSUME storeerrors' = 0, crashes' = 0, NEW y \in Zones, y # z
                   PROVE  \/ Whole(row'[y])
                          \/ \E x \in Tasks : pc'[x] \in {"records", "wire"} /\ job'[x].zone = y /\ Present(x)'
      BY <1>1, <1>3 DEF WholeInv, Whole
    <3>2. \/ Whole(row[y])
          \/ \E x \in Tasks : pc[x] \in {"records", "wire"} /\ job[x].zone = y /\ Present(x)
      BY <1>1, <1>2, <3>1 DEF DataInv, WholeInv
    <3>3. ASSUME NEW x \in Tasks, pc[x] \in {"records", "wire"}, job[x].zone = y, Present(x)
          PROVE  Present(x)'
      BY <1>3, <3>1, <3>3 DEF Present
    <3>4. QED
      BY <1>3, <3>1, <3>2, <3>3
  <2>4. QED
    BY <2>1, <2>2, <2>3 DEF DataInv
<1>9. ASSUME MaxVersion < Half PROVE OrderInv'
  <2>1. OrderInv
    BY <1>9 DEF Inv
  <2>2. \A y \in Zones : Ordered(row'[y])
    BY <1>1, <1>3, <2>1 DEF OrderInv, Ordered
  <2>3. ASSUME NEW x \in Tasks, Present(x)' PROVE Ahead(pc'[x], job'[x], row'[job'[x].zone])
    <3>1. CASE pc[x] \in Active
      BY <1>3, <1>6, <2>1, <2>3, <3>1 DEF OrderInv
    <3>2. CASE pc[x] \notin Active
      BY <1>7, <3>2, NotBegun
    <3>3. QED
      BY <3>1, <3>2
  <2>4. QED
    BY <2>2, <2>3 DEF OrderInv
<1>10. QED
  BY <1>4, <1>8, <1>9 DEF Inv

\* The handlers that make and delete rows.
LEMMA AdminStep ==
  ASSUME Inv, (\E z \in Zones : AdminCreate(z) \/ AdminDelete(z)) \/ AdminReloadFails,
         admin.step = "added" => admin.zone \in Zones
  PROVE  Inv'
<1>1. LinkType
  BY DEF Inv, TypeInv
<1>2. ASSUME NEW z \in Zones, AdminCreate(z) PROVE Inv'
  <2>1. /\ row' = [row EXCEPT ![z] = NewRow] /\ rows' = rows + 1
        /\ UNCHANGED <<linkVars, refreshing, pc, job, crashes, storeerrors>>
    BY <1>2 DEF AdminCreate, AdminBegins
  <2>2. QED
    BY <2>1, RowReplaced
<1>3. ASSUME NEW z \in Zones, AdminDelete(z) PROVE Inv'
  <2>1. /\ row' = [row EXCEPT ![z] = NoRow] /\ rows' = rows
        /\ UNCHANGED <<linkVars, refreshing, pc, job, crashes, storeerrors>>
    BY <1>3 DEF AdminDelete, AdminBegins
  <2>2. QED
    BY <2>1, RowReplaced
<1>4. CASE AdminReloadFails /\ admin.step = "added"
  <2>1. /\ row' = [row EXCEPT ![admin.zone] = NoRow] /\ rows' = rows /\ storeerrors' = storeerrors + 1
        /\ UNCHANGED <<linkVars, refreshing, pc, job, crashes>>
    BY <1>4 DEF AdminReloadFails
  <2>2. QED
    BY <1>4, <2>1, RowReplaced
<1>5. CASE AdminReloadFails /\ admin.step # "added"
  <2>1. /\ row' = row /\ rows' = rows /\ storeerrors' = storeerrors + 1
        /\ UNCHANGED <<linkVars, refreshing, pc, job, crashes>>
    BY <1>5 DEF AdminReloadFails
  <2>2. storeerrors \in Nat /\ storeerrors' \in Nat /\ storeerrors' # 0
    BY <2>1 DEF Inv, TypeInv, ErrorType
  <2>3. TypeInv'
    BY <2>1, <2>2 DEF Inv, TypeInv, RowType, JobType, LinkType, ErrorType, linkVars
  <2>4. DataInv'
    BY <2>1, <2>2 DEF Inv, DataInv, WholeInv, Present
  <2>5. MaxVersion < Half => OrderInv'
    BY <2>1 DEF Inv, OrderInv, Present
  <2>6. QED
    BY <2>3, <2>4, <2>5 DEF Inv
<1>6. QED
  BY <1>2, <1>3, <1>4, <1>5

\* A refresh takes the lock, and makes the row when there is none.
LEMMA StartStep ==
  ASSUME Inv, NEW t \in Tasks, RefreshStart(t)
  PROVE  Inv'
<1> DEFINE z == job[t].zone
           r == row'[z]
           j == [job[t] EXCEPT !.id = r.id, !.serial = r.serial, !.asked = 1]
<1>1. /\ TypeInv /\ DataInv /\ pc[t] = "lock" /\ refreshing = Free /\ refreshing' = t
      /\ pc' = [pc EXCEPT ![t] = "soa"]
      /\ job' = [job EXCEPT ![t].id = r.id, ![t].serial = r.serial, ![t].asked = 1]
      /\ UNCHANGED <<linkVars, storeerrors, crashes>>
  BY DEF Inv, RefreshStart, EnsureZone, GoTo, countVars
<1>2. job[t] \in AnyJob /\ z \in Zones /\ Fits("lock", job[t], rows) /\ rows \in Nat
  BY <1>1 DEF TypeInv, JobType, RowType, Fits
<1>3. \A x \in Tasks : pc[x] \in Steps \ Active
  BY <1>1, TasksAssumption DEF TypeInv, JobType
<1>4. RowType' /\ rows' \in {rows, rows + 1} /\ rows' \in Nat /\ r.id <= rows' /\ r \in AnyRow
      /\ (row' = row \/ (row' = [row EXCEPT ![z] = NewRow] /\ ~(r.exists /\ r.touched)))
  <2>1. CASE row[z].exists /\ UNCHANGED <<row, rows>>
    BY <1>1, <1>2, <2>1 DEF TypeInv, RowType
  <2>2. CASE row' = [row EXCEPT ![z] = NewRow] /\ rows' = rows + 1
    <3>1. NewRow \in AnyRow /\ NewRow.id = rows + 1 /\ NewRow.exists /\ ~NewRow.touched
      BY <1>1, NewRowType
    <3>2. row'[z] = NewRow /\ row' \in [Zones -> AnyRow] /\ \A y \in Zones \ {z} : row'[y] = row[y]
      BY <1>1, <1>2, <2>2, <3>1 DEF TypeInv, RowType
    <3>3. ASSUME NEW y \in Zones PROVE row'[y].id <= rows' /\ (row'[y].exists => row'[y].id # 0)
      <4>1. CASE y = z
        BY <1>2, <2>2, <3>1, <3>2, <4>1
      <4>2. CASE y # z
        <5>1. row[y].id \in Nat /\ row[y].id <= rows /\ (row[y].exists => row[y].id # 0)
          BY <1>1 DEF TypeInv, RowType, AnyRow
        <5>2. QED
          BY <1>2, <2>2, <3>2, <4>2, <5>1
      <4>3. QED
        BY <4>1, <4>2
    <3>4. QED
      BY <1>2, <2>2, <3>1, <3>2, <3>3 DEF RowType
  <2>3. QED
    BY <2>1, <2>2 DEF RefreshStart, EnsureZone
<1>5. job' = [job EXCEPT ![t] = j]
  BY <1>1, <1>2 DEF TypeInv, JobType
<1>6. 1 \in 1 .. Len(MasterOrder) /\ 1 \in 0 .. Len(MasterOrder) + 1
  <2>1. Len(MasterOrder) \in Nat /\ Len(MasterOrder) # 0
    BY MastersAssumption, EmptySeq, LenProperties
  <2>2. QED
    BY <2>1
<1>7. /\ j \in AnyJob /\ j.zone = z /\ j.id = r.id /\ j.serial = r.serial /\ j.asked = 1
  BY <1>2, <1>4, <1>6 DEF AnyJob, AnyRow
<1>8. r.exists => Full(r) /\ (r.touched => row' = row)
  BY <1>1, <1>2, <1>4 DEF DataInv, Full
<1> HIDE DEF j
<1>9. Fits("soa", j, rows')
  BY <1>2, <1>4, <1>6, <1>7 DEF Fits, Steps, Active, Storing
<1>10. Moves(t, "soa", j)
  BY <1>1, <1>5 DEF Moves
<1>11. TypeInv'
  <2>1. JobType'
    BY <1>1, <1>4, <1>9, <1>10, MoveType
  <2>2. QED
    BY <1>1, <1>4, <2>1 DEF TypeInv, LinkType, ErrorType, linkVars
<1>12. pc'[t] = "soa" /\ job'[t] = j /\ \A x \in Tasks \ {t} : pc'[x] = pc[x]
  BY <1>1, <1>5 DEF TypeInv, JobType
<1>13. \A y \in Zones : row'[y] = row[y] \/ ~(row'[y].exists /\ row'[y].touched)
  BY <1>1, <1>2, <1>4 DEF TypeInv, RowType
<1>14. ASSUME NEW x \in Tasks PROVE Stage(pc'[x], job'[x], row'[job'[x].zone])
                                     /\ Ahead(pc'[x], job'[x], row'[job'[x].zone])
  <2>1. CASE x = t
    BY <1>7, <1>12, <2>1 DEF Stage, Ahead
  <2>2. CASE x # t
    BY <1>3, <1>12, <2>2, NotBegun
  <2>3. QED
    BY <2>1, <2>2
<1>15. DataInv'
  <2>1. \A y \in Zones : Full(row'[y])
    BY <1>1, <1>13 DEF DataInv, Full
  <2>2. WholeInv'
    <3>1. SUFFICES ASSUME storeerrors' = 0, crashes' = 0, NEW y \in Zones PROVE Whole(row'[y])
      BY DEF WholeInv
    <3>2. Whole(row[y])
      BY <1>1, <1>3, <3>1 DEF DataInv, WholeInv, Active, Steps
    <3>3. QED
      BY <1>13, <3>2 DEF Whole
  <2>3. QED
    BY <1>14, <2>1, <2>2 DEF DataInv
<1>16. ASSUME MaxVersion < Half PROVE OrderInv'
  <2>1. OrderInv
    BY <1>16 DEF Inv
  <2>2. \A y \in Zones : Ordered(row'[y])
    BY <1>13, <2>1 DEF OrderInv, Ordered
  <2>3. QED
    BY <1>14, <2>2 DEF OrderInv
<1>17. QED
  BY <1>11, <1>15, <1>16 DEF Inv

\* A restart: no refresh is left, what was stored stays.
LEMMA CrashStep ==
  ASSUME Inv, Crash
  PROVE  Inv'
<1>1. /\ TypeInv /\ DataInv /\ refreshing' = Free /\ pc' = [t \in Tasks |-> "idle"]
      /\ job' = [t \in Tasks |-> NoJob] /\ crashes' = crashes + 1
      /\ UNCHANGED <<linkVars, row, rows, storeerrors>>
  BY DEF Inv, Crash
<1>2. rows \in Nat /\ crashes \in Nat /\ crashes' \in Nat /\ crashes' # 0
  BY <1>1 DEF TypeInv, RowType, ErrorType
<1>3. Fits("idle", NoJob, rows) /\ "idle" \in Steps \ Active /\ NoJob \in AnyJob
  BY <1>2, NoJobFits DEF Steps, Active, Fits
<1>4. TypeInv'
  BY <1>1, <1>2, <1>3 DEF TypeInv, RowType, JobType, LinkType, ErrorType, linkVars
<1>5. \A x \in Tasks : Stage(pc'[x], job'[x], row'[job'[x].zone]) /\ Ahead(pc'[x], job'[x], row'[job'[x].zone])
  BY <1>1, <1>3, NotBegun
<1>6. DataInv'
  BY <1>1, <1>2, <1>5 DEF DataInv, WholeInv
<1>7. MaxVersion < Half => OrderInv'
  BY <1>1, <1>5 DEF Inv, OrderInv
<1>8. QED
  BY <1>4, <1>6, <1>7 DEF Inv

\* A server started for the first time.
LEMMA InitInv == Init => Inv
<1> SUFFICES ASSUME Init PROVE Inv
  OBVIOUS
<1>1. 0 \in Nat /\ 0 \in Serial /\ 0 \in Version /\ 1 \in 1 .. MaxVersion
  BY BoundsAssumption, HalfAssumption DEF Version, Serial, Space
<1>2. NoRow \in AnyRow /\ NoRow.id = 0 /\ ~NoRow.exists
  BY <1>1 DEF NoRow, AnyRow
<1>3. Fits("idle", NoJob, 0) /\ "idle" \in Steps \ Active /\ NoJob \in AnyJob
  BY <1>1, NoJobFits DEF Steps, Active, Fits
<1>4. TypeInv
  <2>1. RowType
    BY <1>1, <1>2 DEF Init, RowType
  <2>2. JobType
    BY <1>3 DEF Init, JobType
  <2>3. LinkType /\ ErrorType
    BY <1>1 DEF Init, LinkType, ErrorType
  <2>4. QED
    BY <2>1, <2>2, <2>3 DEF TypeInv
<1>5. \A x \in Tasks : Stage(pc[x], job[x], row[job[x].zone]) /\ Ahead(pc[x], job[x], row[job[x].zone])
  BY <1>3, NotBegun DEF Init
<1>6. \A y \in Zones : Full(row[y]) /\ Whole(row[y]) /\ Ordered(row[y])
  BY <1>2 DEF Init, Full, Whole, Ordered
<1>7. QED
  BY <1>4, <1>5, <1>6 DEF Inv, DataInv, WholeInv, OrderInv

\* The zone a handler works on.
AdminType == admin.step # "idle" => admin.zone \in Zones

IInv == Inv /\ AdminType

\* The handlers keep to the zone they began with.
LEMMA AdminTypeStep ==
  ASSUME IInv, [Next]_vars
  PROVE  AdminType'
<1>1. CASE admin' = admin
  BY <1>1 DEF IInv, AdminType
<1>2. CASE admin' # admin
  <2>1. Admin \/ Crash
    BY <1>2 DEF Next, vars, PrimaryChange, MasterSync, LoopStep, LoopSnapshot, LoopNext, LoopSleep,
       LoopTimer, Refresh, RefreshStart, QuerySoa, Transfer, SetSoa, SetRecords, SetWire, Store, Touch,
       RefreshReload, QuerySoaFails, TransferFails, StoreFails, NotifyReceived
  <2>2. QED
    BY <2>1 DEF IInv, AdminType, Admin, Crash, AdminCreate, AdminDelete, SetZone, RemoveZone,
       AdminReload, AdminReloadFails, AdminGoTo
<1>3. QED
  BY <1>1, <1>2

\* Every step keeps the invariant.
LEMMA StepInv ==
  ASSUME IInv, [Next]_vars
  PROVE  IInv'
<1>1. Inv /\ AdminType /\ TypeInv
  BY DEF IInv, Inv
<1>2. CASE \E z \in Zones : PrimaryChange(z) \/ \E m \in Masters : MasterSync(m, z)
  BY <1>1, <1>2, AdminTypeStep, ElsewhereStep DEF IInv
<1>3. CASE LoopSnapshot \/ LoopSleep \/ LoopTimer \/ SetZone \/ RemoveZone \/ AdminReload \/ UNCHANGED vars
  BY <1>1, <1>3, AdminTypeStep, ElsewhereStep DEF IInv
<1>4. ASSUME NEW z \in Zones, LoopNext(z) PROVE Inv'
  BY <1>1, <1>4, WantedStep DEF LoopNext, storeVars, countVars, Tasks
<1>5. ASSUME NEW t \in Notified, NEW z \in Zones, NotifyReceived(t, z) PROVE Inv'
  BY <1>1, <1>5, WantedStep DEF NotifyReceived, storeVars, countVars, Tasks
<1>6. ASSUME NEW t \in Tasks, Refresh(t) \/ QuerySoaFails(t) \/ TransferFails(t) \/ StoreFails(t)
      PROVE  Inv'
  BY <1>1, <1>6, StartStep, AskStep, StoreStep, EndStep DEF Refresh
<1>7. CASE (\E z \in Zones : AdminCreate(z) \/ AdminDelete(z)) \/ AdminReloadFails
  <2>1. admin.step = "added" => admin.zone \in Zones
    BY <1>1 DEF AdminType
  <2>2. QED
    BY <1>1, <1>7, <2>1, AdminTypeStep, AdminStep DEF IInv
<1>8. CASE Crash
  BY <1>1, <1>8, AdminTypeStep, CrashStep DEF IInv
<1>9. QED
  BY <1>2, <1>3, <1>4, <1>5, <1>6, <1>7, <1>8, AdminTypeStep DEF IInv, Next, LoopStep, Admin

\* The invariant holds in every run.
THEOREM InvCorrect == Spec => []IInv
<1>1. Init => IInv
  BY InitInv DEF IInv, Init, AdminType
<1>2. IInv /\ [Next]_vars => IInv'
  BY StepInv
<1>3. QED
  BY <1>1, <1>2, PTL DEF Spec

\* StoredWhole: while no refresh runs, the serial of a zone that was transferred is that
\* of the data stored with it, in both places, unless a store call failed or the server
\* stopped in the middle of one.  Only a refresh at "records" or "wire" breaks this, and
\* it holds the lock until it has set it right.
THEOREM StoredWholeCorrect == Spec => []StoredWhole
<1>1. IInv => StoredWhole
  <2>1. SUFFICES ASSUME IInv, storeerrors = 0, crashes = 0, NEW z \in Zones, refreshing = Free,
                        row[z].exists, row[z].touched
                 PROVE  row[z].serial = SerialAt[row[z].wire] /\ row[z].records = row[z].wire
    BY DEF StoredWhole
  <2>2. \A t \in Tasks : pc[t] \notin Active
    BY <2>1, TasksAssumption DEF IInv, Inv, TypeInv, JobType
  <2>3. Whole(row[z])
    BY <2>1, <2>2 DEF IInv, Inv, DataInv, WholeInv, Active, Steps
  <2>4. QED
    BY <2>1, <2>3 DEF Whole
<1>2. QED
  BY <1>1, InvCorrect, PTL

\* StoredForward, as one step of the store.
Forward ==
  \A z \in Zones :
    row[z].exists /\ row[z].touched /\ row'[z].exists /\ row'[z].id = row[z].id
      => row'[z].records >= row[z].records /\ row'[z].wire >= row[z].wire

\* A step that leaves a row as it was, or replaces it by another, does not move it back.
LEMMA StaysForward ==
  ASSUME TypeInv, \A z \in Zones : \/ row'[z] = row[z]
                                   \/ ~row[z].exists \/ ~row'[z].exists \/ row'[z].id # row[z].id
                                   \/ row'[z].records = row[z].records /\ row'[z].wire = row[z].wire
  PROVE  Forward
<1>1. \A z \in Zones : row[z].records \in Int /\ row[z].wire \in Int
  BY BoundsAssumption DEF TypeInv, RowType, AnyRow, Version
<1>2. QED
  BY <1>1 DEF Forward

\* Only the store calls of a refresh change the data of a row that stays.
LEMMA StepForward ==
  ASSUME IInv, [Next]_vars, MaxVersion < Half
  PROVE  Forward
<1>1. Inv /\ TypeInv /\ AdminType /\ row \in [Zones -> AnyRow] /\ rows \in Nat /\ OrderInv
  BY DEF IInv, Inv, TypeInv, RowType
<1>2. ASSUME row' = row PROVE Forward
  BY <1>1, <1>2, StaysForward
<1>3. ASSUME NEW z \in Zones, NEW n, row' = [row EXCEPT ![z] = n], ~row[z].exists \/ ~n.exists
      PROVE  Forward
  BY <1>1, <1>3, StaysForward
<1>4. ASSUME NEW z \in Zones, AdminCreate(z) \/ AdminDelete(z) PROVE Forward
  BY <1>1, <1>3, <1>4, NewRowType DEF AdminCreate, AdminDelete
<1>5. CASE AdminReloadFails
  <2>1. CASE admin.step = "added"
    BY <1>1, <1>3, <1>5, <2>1, NewRowType DEF AdminReloadFails, AdminType
  <2>2. CASE admin.step # "added"
    BY <1>2, <1>5, <2>2 DEF AdminReloadFails
  <2>3. QED
    BY <2>1, <2>2
<1>6. ASSUME NEW t \in Tasks, RefreshStart(t) PROVE Forward
  <2>1. job[t].zone \in Zones
    BY <1>1, <1>6 DEF RefreshStart, TypeInv, JobType, Fits
  <2>2. QED
    BY <1>2, <1>3, <1>6, <2>1 DEF RefreshStart, EnsureZone
<1>7. ASSUME NEW t \in Tasks, SetSoa(t) \/ SetRecords(t) \/ SetWire(t) \/ Touch(t) PROVE Forward
  <2> DEFINE z == job[t].zone
             r == row[z]
             got == job[t].got
  <2>1. pc[t] \in Active /\ pc[t] \in Storing
    BY <1>7 DEF SetSoa, SetRecords, SetWire, Touch, Active, Storing, Steps
  <2>2. z \in Zones /\ r \in AnyRow /\ got \in Int /\ r.records \in Int /\ r.wire \in Int
    <3>1. z \in Zones /\ r \in AnyRow /\ Fits(pc[t], job[t], rows)
      BY <1>1, <2>1, AskedType DEF TypeInv, JobType
    <3>2. QED
      BY <2>1, <3>1, BoundsAssumption DEF Fits, AnyRow, Version
  <2>3. CASE ~Present(t)
    <3>1. row' = row
      BY <1>7, <2>3 DEF SetSoa, SetRecords, SetWire, Touch, Store
    <3>2. QED
      BY <1>2, <3>1
  <2>4. CASE Present(t)
    <3>1. Ahead(pc[t], job[t], r)
      BY <1>1, <2>4 DEF OrderInv
    <3>2. CASE SetSoa(t)
      <4>1. row' = [row EXCEPT ![z] = [r EXCEPT !.serial = SerialAt[got]]]
        BY <2>4, <3>2 DEF SetSoa, Store
      <4>2. row'[z].records = r.records /\ row'[z].wire = r.wire
        BY <1>1, <2>2, <4>1 DEF AnyRow
      <4>3. QED
        BY <1>1, <2>2, <4>1, <4>2, StaysForward
    <3>3. CASE Touch(t)
      <4>1. row' = [row EXCEPT ![z].touched = TRUE]
        BY <2>4, <3>3 DEF Touch
      <4>2. row'[z].records = r.records /\ row'[z].wire = r.wire
        BY <1>1, <2>2, <4>1 DEF AnyRow
      <4>3. QED
        BY <1>1, <2>2, <4>1, <4>2, StaysForward
    <3>4. CASE SetRecords(t) \/ SetWire(t)
      <4>1. \/ pc[t] = "records" /\ row' = [row EXCEPT ![z] = [r EXCEPT !.records = got]]
            \/ pc[t] = "wire" /\ row' = [row EXCEPT ![z] = [r EXCEPT !.wire = got]]
        BY <2>4, <3>4 DEF SetRecords, SetWire, Store
      <4>2. \A y \in Zones \ {z} : row'[y] = row[y]
        BY <1>1, <2>2, <4>1
      <4>3. \/ pc[t] = "records" /\ row'[z].records = got /\ row'[z].wire = r.wire
            \/ pc[t] = "wire" /\ row'[z].records = r.records /\ row'[z].wire = got
        BY <1>1, <2>2, <4>1 DEF AnyRow
      <4>4. r.touched => row'[z].records >= r.records /\ row'[z].wire >= r.wire
        BY <2>2, <3>1, <4>3 DEF Ahead
      <4>5. \A y \in Zones : row[y].records \in Int /\ row[y].wire \in Int
        BY <1>1, BoundsAssumption DEF AnyRow, Version
      <4>6. QED
        BY <4>2, <4>4, <4>5 DEF Forward
    <3>5. QED
      BY <1>7, <3>2, <3>3, <3>4
  <2>5. QED
    BY <2>3, <2>4
<1>8. CASE row' # row
  <2>1. \/ \E z \in Zones : AdminCreate(z) \/ AdminDelete(z)
        \/ AdminReloadFails
        \/ \E t \in Tasks : RefreshStart(t) \/ SetSoa(t) \/ SetRecords(t) \/ SetWire(t) \/ Touch(t)
    BY <1>8 DEF Next, vars, storeVars, PrimaryChange, MasterSync, LoopStep, LoopSnapshot, LoopNext,
       LoopSleep, LoopTimer, Refresh, QuerySoa, Transfer, RefreshReload, QuerySoaFails, TransferFails,
       StoreFails, NotifyReceived, Admin, SetZone, RemoveZone, AdminReload, Crash
  <2>2. QED
    BY <1>4, <1>5, <1>6, <1>7, <2>1
<1>9. QED
  BY <1>2, <1>8

\* StoredForward: as long as a zone's row lives, a zone that was transferred whole never
\* goes back to an older version, in neither place it is stored and whichever master it
\* came from.  The serials are compared as RFC 1982 has it, so the primary may not go
\* round half of the serial space.
THEOREM StoredForwardCorrect == MaxVersion < Half => (Spec => StoredForward)
<1> SUFFICES ASSUME MaxVersion < Half PROVE Spec => StoredForward
  OBVIOUS
<1>1. IInv /\ [Next]_vars => [Forward]_vars
  BY StepForward
<1>2. Spec => [][Forward]_vars
  BY <1>1, InvCorrect, PTL DEF Spec
<1>3. QED
  BY <1>2, PTL DEF StoredForward, Forward
=============================================================================
