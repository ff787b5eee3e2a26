------------------------ MODULE MissionIntakeProofs ------------------------
(* Theorems about MissionIntake: the mission service composed with the       *)
(* quota endpoints, for every set of missions, keys, requests and operators, *)
(* all limits and energies, any number of retries and of faults.             *)
EXTENDS MissionIntake, QuotaProofs, FiniteSetTheorems

\* The request has made a mission of its reservation, under its own key.
MissionMade(s) ==
  LET m == sub[s].mission IN
    m \in Missions /\ Exists(m) /\ mission[m].key = sub[s].key

\* What a request knows from having come as far as it has.
SubKnows(s) ==
  sub[s] # Done =>
    /\ sub[s].pc \in {"lookup", "cache"} => sub[s].key \in Keys
    /\ sub[s].pc = "insert" => sub[s].answer # "rejected"
    /\ sub[s].pc = "handover" => sub[s].answer # "rejected" /\ MissionMade(s)
    /\ sub[s].pc = "cache" => sub[s].answer = "rejected" \/ MissionMade(s)

\* The status that a write after the state machine was asked brings.
Target(op) == IF op = "cancel" THEN "cancelled" ELSE "scheduled"

\* A copy is never ahead of its row; if its version is still the row's, what
\* the state machine was asked is still true.
CopyKnows(c) ==
  /\ Exists(c.mission)
  /\ c.version <= mission[c.mission].version
  /\ c.version = mission[c.mission].version /\ c.op # "priority" =>
       CanTransition(mission[c.mission].status, Target(c.op))

EditsKnow ==
  /\ \A o \in Operators :
       edit[o] # Done => edit[o].op # "advance" /\ CopyKnows(edit[o])
  /\ promote # Done => promote.op = "advance" /\ CopyKnows(promote)

IInv ==
  /\ TypeOK
  /\ Unborn
  /\ \A s \in Submitters : SubKnows(s)
  /\ AnswersTruthful
  /\ EditsKnow
  /\ EnergyAccounted

-----------------------------------------------------------------------------
(* Counting units.                                                          *)

LEMMA FirstNumbers ==
  ASSUME NEW n \in Nat
  PROVE  IsFiniteSet(1 .. n) /\ Cardinality(1 .. n) = n
BY FS_Interval

LEMMA UnitsFinite ==
  ASSUME NEW ids, IsFiniteSet(ids), NEW f, \A i \in ids : f[i].energy \in Nat
  PROVE  IsFiniteSet(UnitsOf(f, ids)) /\ Cardinality(UnitsOf(f, ids)) \in Nat
<1> DEFINE U(i) == {i} \X (1 .. f[i].energy)
           pieces == {U(i) : i \in ids}
           g == [i \in ids |-> U(i)]
<1>1. g \in Surjection(ids, pieces)
  BY DEF Surjection
<1>2. IsFiniteSet(pieces)
  <2> HIDE DEF g, pieces
  <2> QED
    BY <1>1, FS_Surjection
<1>3. ASSUME NEW p \in pieces PROVE IsFiniteSet(p)
  <2>1. PICK i \in ids : p = {i} \X (1 .. f[i].energy)
    OBVIOUS
  <2>2. IsFiniteSet({i}) /\ IsFiniteSet(1 .. f[i].energy)
    BY FS_Singleton, FirstNumbers
  <2> QED
    BY <2>1, <2>2, FS_Product
<1>4. IsFiniteSet(UNION pieces)
  <2> HIDE DEF pieces
  <2> QED
    BY <1>2, <1>3, FS_UNION
<1> QED
  BY <1>4, FS_CardinalityType DEF UnitsOf

\* One more record brings its units.
LEMMA UnitsAdded ==
  ASSUME NEW ids, IsFiniteSet(ids), NEW x, x \notin ids, NEW f,
         \A i \in ids \union {x} : f[i].energy \in Nat
  PROVE  Cardinality(UnitsOf(f, ids \union {x})) = Cardinality(UnitsOf(f, ids)) + f[x].energy
<1> DEFINE old == UnitsOf(f, ids)
           new == {x} \X (1 .. f[x].energy)
<1>1. UnitsOf(f, ids \union {x}) = old \union new
  BY DEF UnitsOf
<1>2. old \intersect new = {}
  BY DEF UnitsOf
<1>3. IsFiniteSet(old) /\ Cardinality(old) \in Nat
  BY UnitsFinite
<1>4. IsFiniteSet(new) /\ Cardinality(new) = f[x].energy
  <2>1. IsFiniteSet({x}) /\ Cardinality({x}) = 1
    BY FS_Singleton
  <2>2. f[x].energy \in Nat /\ IsFiniteSet(1 .. f[x].energy)
        /\ Cardinality(1 .. f[x].energy) = f[x].energy
    BY FirstNumbers
  <2>3. IsFiniteSet(new) /\ Cardinality(new) = Cardinality({x}) * Cardinality(1 .. f[x].energy)
    BY <2>1, <2>2, FS_Product
  <2> QED
    BY <2>1, <2>2, <2>3
<1> HIDE DEF old, new
<1>5. Cardinality(old \union new) = Cardinality(old) + Cardinality(new) - Cardinality({})
  BY <1>2, <1>3, <1>4, FS_Union
<1>6. Cardinality({}) = 0 /\ f[x].energy \in Nat
  BY FS_EmptySet
<1>7. Cardinality(old \union new) = Cardinality(old) + f[x].energy
  BY <1>3, <1>4, <1>5, <1>6
<1> QED
  BY <1>1, <1>7 DEF old

\* Records that agree have the same units.
LEMMA UnitsAgree ==
  ASSUME NEW ids, NEW f, NEW g, \A i \in ids : g[i].energy = f[i].energy
  PROVE  UnitsOf(g, ids) = UnitsOf(f, ids)
BY DEF UnitsOf

LEMMA UnitsJoined ==
  ASSUME NEW ids, IsFiniteSet(ids), NEW f, \A i \in ids : f[i].energy \in Nat,
         NEW g, \A i \in ids : g[i].energy = f[i].energy,
         NEW x, x \notin ids, g[x].energy \in Nat
  PROVE  Cardinality(UnitsOf(g, ids \union {x})) = Cardinality(UnitsOf(f, ids)) + g[x].energy
<1>1. Cardinality(UnitsOf(g, ids \union {x})) = Cardinality(UnitsOf(g, ids)) + g[x].energy
  <2>1. \A i \in ids \union {x} : g[i].energy \in Nat
    OBVIOUS
  <2> QED
    BY <2>1, UnitsAdded
<1> QED
  BY <1>1, UnitsAgree

LEMMA UnitsLeft ==
  ASSUME NEW ids, IsFiniteSet(ids), NEW f, \A i \in ids : f[i].energy \in Nat,
         NEW g, NEW x \in ids, \A i \in ids \ {x} : g[i].energy = f[i].energy
  PROVE  Cardinality(UnitsOf(g, ids \ {x})) = Cardinality(UnitsOf(f, ids)) - f[x].energy
<1> DEFINE rest == ids \ {x}
<1>1. IsFiniteSet(rest) /\ x \notin rest /\ ids = rest \union {x}
  BY FS_RemoveElement
<1>2. \A i \in rest \union {x} : f[i].energy \in Nat
  BY <1>1
<1>3. UnitsOf(g, rest) = UnitsOf(f, rest)
  BY UnitsAgree
<1> HIDE DEF rest
<1>4. Cardinality(UnitsOf(f, rest \union {x})) = Cardinality(UnitsOf(f, rest)) + f[x].energy
  BY <1>1, <1>2, UnitsAdded
<1>5. Cardinality(UnitsOf(f, rest)) \in Nat /\ f[x].energy \in Nat
  BY <1>1, <1>2, UnitsFinite
<1>6. Cardinality(UnitsOf(f, rest)) = Cardinality(UnitsOf(f, ids)) - f[x].energy
  BY <1>1, <1>4, <1>5
<1> QED
  BY <1>3, <1>6 DEF rest

-----------------------------------------------------------------------------
(* Accounts of the energy.                                                  *)

\* Units of a row that the quota endpoints did not move and no request left.
Own(q) == Held(q) - ledger[q] - stranded[q]

SpokenByMissions(q) == Cardinality(UnitsOf(mission, MissionsOf(q)))
SpokenByRequests(q) == Cardinality(UnitsOf(sub, HoldersOf(q)))

\* The missions of every row, and their units, are what they were.
SameMissions ==
  /\ \A m \in Missions : Exists(m)' => Exists(m)
  /\ \A q \in Quotas : /\ MissionsOf(q)' = MissionsOf(q)
                       /\ \A m \in MissionsOf(q) : mission'[m].energy = mission[m].energy

LEMMA RecordTypes ==
  ASSUME TypeOK
  PROVE  /\ \A m \in Missions : Exists(m) => mission[m] \in MissionRow
         /\ \A s \in Submitters : sub[s] # Done => sub[s] \in Sub
         /\ \A o \in Operators : edit[o] # Done => edit[o] \in Edit
         /\ promote # Done => promote \in Edit
         /\ Energies \subseteq Nat
         /\ \A n \in Energies : n > 0
BY IntakeAssumption DEF TypeOK, Exists

\* Sums are of finitely many natural numbers.
LEMMA SpokenTypes ==
  ASSUME TypeOK, NEW q \in Quotas
  PROVE  /\ IsFiniteSet(MissionsOf(q)) /\ \A m \in MissionsOf(q) : mission[m].energy \in Nat
         /\ IsFiniteSet(HoldersOf(q)) /\ \A s \in HoldersOf(q) : sub[s].energy \in Nat
         /\ SpokenByMissions(q) \in Nat /\ SpokenByRequests(q) \in Nat
         /\ Held(q) \in Int /\ ledger[q] \in Int /\ stranded[q] \in Nat /\ Own(q) \in Int
<1>1. \A m \in MissionsOf(q) : mission[m].energy \in Nat
  BY RecordTypes DEF MissionsOf, MissionRow
<1>2. \A s \in HoldersOf(q) : sub[s].energy \in Nat
  BY RecordTypes DEF HoldersOf, Holding, Sub
<1>3. MissionsOf(q) \in SUBSET Missions /\ HoldersOf(q) \in SUBSET Submitters
  BY DEF MissionsOf, HoldersOf
<1>4. IsFiniteSet(MissionsOf(q)) /\ IsFiniteSet(HoldersOf(q))
  BY <1>3, IntakeAssumption, FS_Subset
<1>5. SpokenByMissions(q) \in Nat /\ SpokenByRequests(q) \in Nat
  BY <1>1, <1>2, <1>4, UnitsFinite DEF SpokenByMissions, SpokenByRequests
<1>6. quota[q] \in QuotaRow /\ ledger[q] \in Int /\ stranded[q] \in Nat
  BY DEF TypeOK, QuotaTypeOK
<1>7. Held(q) \in Int
  BY <1>6 DEF Held, QuotaRow
<1> QED
  BY <1>1, <1>2, <1>4, <1>5, <1>6, <1>7 DEF Own

AccountedByRow ==
  \A q \in Quotas : Own(q) = SpokenByMissions(q) + SpokenByRequests(q)

LEMMA AccountsByRow == TypeOK => (EnergyAccounted <=> AccountedByRow)
BY SpokenTypes DEF EnergyAccounted, SpokenFor, SpokenByMissions, SpokenByRequests, Own,
   AccountedByRow

LEMMA AccountsByRowNext == TypeOK' => (EnergyAccounted' <=> AccountedByRow')
BY AccountsByRow, PTL

\* Everything that is spoken for was before, and nothing is given back.
LEMMA AccountsKept ==
  ASSUME TypeOK, TypeOK', EnergyAccounted, SameMissions,
         \A s \in Submitters :
           /\ Holding(s)' <=> Holding(s)
           /\ Holding(s) => /\ sub'[s].quota = sub[s].quota
                            /\ sub'[s].energy = sub[s].energy,
         \A q \in Quotas : Own(q)' = Own(q)
  PROVE  EnergyAccounted'
<1>1. ASSUME NEW q \in Quotas
      PROVE  /\ SpokenByMissions(q)' = SpokenByMissions(q)
             /\ SpokenByRequests(q)' = SpokenByRequests(q)
  <2>1. SpokenByMissions(q)' = SpokenByMissions(q)
    BY UnitsAgree DEF SpokenByMissions, SameMissions
  <2>2. /\ HoldersOf(q)' = HoldersOf(q)
        /\ \A s \in HoldersOf(q) : sub'[s].energy = sub[s].energy
    BY DEF HoldersOf
  <2> QED
    BY <2>1, <2>2, UnitsAgree DEF SpokenByRequests
<1>2. ASSUME NEW q \in Quotas
      PROVE  Own(q)' = SpokenByMissions(q)' + SpokenByRequests(q)'
  BY <1>1, AccountsByRow DEF AccountedByRow
<1> QED
  BY <1>2, AccountsByRowNext DEF AccountedByRow

\* A request reserves: its units are on the row, and spoken for.
LEMMA AccountsTaken ==
  ASSUME TypeOK, TypeOK', EnergyAccounted, SameMissions,
         NEW s \in Submitters, ~Holding(s), Holding(s)',
         NEW p \in Quotas, sub'[s].quota = p,
         \A x \in Submitters \ {s} : sub'[x] = sub[x],
         Own(p)' = Own(p) + sub'[s].energy,
         \A q \in Quotas \ {p} : Own(q)' = Own(q)
  PROVE  EnergyAccounted'
<1>1. \A q \in Quotas : SpokenByMissions(q)' = SpokenByMissions(q)
  BY UnitsAgree DEF SpokenByMissions, SameMissions
<1>2. \A q \in Quotas \ {p} : SpokenByRequests(q)' = SpokenByRequests(q)
  <2> SUFFICES ASSUME NEW q \in Quotas \ {p}
               PROVE  SpokenByRequests(q)' = SpokenByRequests(q)
    OBVIOUS
  <2>1. HoldersOf(q)' = HoldersOf(q) /\ \A x \in HoldersOf(q) : sub'[x].energy = sub[x].energy
    BY DEF HoldersOf, Holding
  <2> QED
    BY <2>1, UnitsAgree DEF SpokenByRequests
<1>3. sub'[s].energy \in Nat
  <2>1. sub'[s] \in Sub
    BY DEF TypeOK, Holding
  <2> QED
    BY <2>1, IntakeAssumption DEF Sub
<1>4. SpokenByRequests(p)' = SpokenByRequests(p) + sub'[s].energy
  <2>1. /\ HoldersOf(p)' = HoldersOf(p) \union {s} /\ s \notin HoldersOf(p)
        /\ \A x \in HoldersOf(p) : sub'[x].energy = sub[x].energy
    BY DEF HoldersOf, Holding
  <2> QED
    BY <1>3, <2>1, SpokenTypes, UnitsJoined DEF SpokenByRequests
<1>5. ASSUME NEW q \in Quotas
      PROVE  Own(q)' = SpokenByMissions(q)' + SpokenByRequests(q)'
  <2>1. Own(q) = SpokenByMissions(q) + SpokenByRequests(q)
    BY AccountsByRow DEF AccountedByRow
  <2> QED
    BY <1>1, <1>2, <1>3, <1>4, <2>1, SpokenTypes
<1> QED
  BY <1>5, AccountsByRowNext DEF AccountedByRow

\* What a request that stops holding leaves to its row.
LEMMA HolderLeaves ==
  ASSUME TypeOK, NEW s \in Submitters, Holding(s), ~Holding(s)',
         \A x \in Submitters \ {s} : sub'[x] = sub[x],
         NEW p \in Quotas, NEW n \in Nat, p = sub[s].quota, n = sub[s].energy
  PROVE  /\ SpokenByRequests(p)' = SpokenByRequests(p) - n
         /\ \A q \in Quotas \ {p} : SpokenByRequests(q)' = SpokenByRequests(q)
<1>1. SpokenByRequests(p)' = SpokenByRequests(p) - n
  <2>1. /\ HoldersOf(p)' = HoldersOf(p) \ {s} /\ s \in HoldersOf(p)
        /\ \A x \in HoldersOf(p) \ {s} : sub'[x].energy = sub[x].energy
    BY DEF HoldersOf, Holding
  <2>2. IsFiniteSet(HoldersOf(p)) /\ \A x \in HoldersOf(p) : sub[x].energy \in Nat
    BY SpokenTypes
  <2>3. Cardinality(UnitsOf(sub', HoldersOf(p) \ {s})) = Cardinality(UnitsOf(sub, HoldersOf(p))) - n
    BY <2>1, <2>2, UnitsLeft
  <2> QED
    BY <2>1, <2>3 DEF SpokenByRequests
<1>2. ASSUME NEW q \in Quotas \ {p} PROVE SpokenByRequests(q)' = SpokenByRequests(q)
  <2>1. HoldersOf(q)' = HoldersOf(q) /\ \A x \in HoldersOf(q) : sub'[x].energy = sub[x].energy
    BY DEF HoldersOf, Holding
  <2> QED
    BY <2>1, UnitsAgree DEF SpokenByRequests
<1> QED
  BY <1>1, <1>2

\* A request gives its units back, or leaves them on the row, where they are
\* counted.
LEMMA AccountsReturned ==
  ASSUME TypeOK, TypeOK', EnergyAccounted, SameMissions,
         NEW s \in Submitters, Holding(s), ~Holding(s)',
         \A x \in Submitters \ {s} : sub'[x] = sub[x],
         NEW p \in Quotas, NEW n \in Nat, p = sub[s].quota, n = sub[s].energy,
         Own(p)' = Own(p) - n,
         \A q \in Quotas \ {p} : Own(q)' = Own(q)
  PROVE  EnergyAccounted'
<1>1. \A q \in Quotas : SpokenByMissions(q)' = SpokenByMissions(q)
  BY UnitsAgree DEF SpokenByMissions, SameMissions
<1>3. /\ SpokenByRequests(p)' = SpokenByRequests(p) - n
      /\ \A q \in Quotas \ {p} : SpokenByRequests(q)' = SpokenByRequests(q)
  BY HolderLeaves
<1>5. ASSUME NEW q \in Quotas
      PROVE  Own(q)' = SpokenByMissions(q)' + SpokenByRequests(q)'
  <2>1. Own(q) = SpokenByMissions(q) + SpokenByRequests(q)
    BY AccountsByRow DEF AccountedByRow
  <2> QED
    BY <1>1, <1>3, <2>1, SpokenTypes
<1> QED
  BY <1>5, AccountsByRowNext DEF AccountedByRow

\* A request makes a mission of its reservation.
LEMMA AccountsInserted ==
  ASSUME TypeOK, TypeOK', EnergyAccounted,
         NEW s \in Submitters, Holding(s), ~Holding(s)',
         \A x \in Submitters \ {s} : sub'[x] = sub[x],
         NEW m \in Missions, ~Exists(m), Exists(m)',
         NEW p \in Quotas, NEW n \in Nat, p = sub[s].quota, n = sub[s].energy,
         mission'[m].quota = p, mission'[m].energy = n,
         \A x \in Missions \ {m} : mission'[x] = mission[x],
         \A q \in Quotas : Own(q)' = Own(q)
  PROVE  EnergyAccounted'
<1>2. /\ SpokenByRequests(p)' = SpokenByRequests(p) - n
      /\ \A q \in Quotas \ {p} : SpokenByRequests(q)' = SpokenByRequests(q)
  BY HolderLeaves
<1>3. SpokenByMissions(p)' = SpokenByMissions(p) + n
  <2>1. /\ MissionsOf(p)' = MissionsOf(p) \union {m} /\ m \notin MissionsOf(p)
        /\ \A x \in MissionsOf(p) : mission'[x].energy = mission[x].energy
    BY DEF MissionsOf, Exists
  <2>2. IsFiniteSet(MissionsOf(p)) /\ \A x \in MissionsOf(p) : mission[x].energy \in Nat
    BY SpokenTypes
  <2>3. Cardinality(UnitsOf(mission', MissionsOf(p) \union {m}))
          = Cardinality(UnitsOf(mission, MissionsOf(p))) + mission'[m].energy
    BY <2>1, <2>2, UnitsJoined
  <2> QED
    BY <2>1, <2>3 DEF SpokenByMissions
<1>4. ASSUME NEW q \in Quotas \ {p} PROVE SpokenByMissions(q)' = SpokenByMissions(q)
  <2>1. /\ MissionsOf(q)' = MissionsOf(q)
        /\ \A x \in MissionsOf(q) : mission'[x].energy = mission[x].energy
    BY DEF MissionsOf, Exists
  <2> QED
    BY <2>1, UnitsAgree DEF SpokenByMissions
<1>5. ASSUME NEW q \in Quotas
      PROVE  Own(q)' = SpokenByMissions(q)' + SpokenByRequests(q)'
  <2>1. Own(q) = SpokenByMissions(q) + SpokenByRequests(q)
    BY AccountsByRow DEF AccountedByRow
  <2> QED
    BY <1>2, <1>3, <1>4, <2>1, SpokenTypes
<1> QED
  BY <1>5, AccountsByRowNext DEF AccountedByRow

\* Every request is gone, and what they had reserved is left on the rows.
LEMMA AccountsStranded ==
  ASSUME TypeOK, TypeOK', EnergyAccounted, SameMissions,
         \A s \in Submitters : ~Holding(s)',
         \A q \in Quotas : Own(q)' = Own(q) - SpokenByRequests(q)
  PROVE  EnergyAccounted'
<1>1. ASSUME NEW q \in Quotas
      PROVE  Own(q)' = SpokenByMissions(q)' + SpokenByRequests(q)'
  <2>1. SpokenByMissions(q)' = SpokenByMissions(q)
    BY UnitsAgree DEF SpokenByMissions, SameMissions
  <2>2. HoldersOf(q)' = {} /\ UnitsOf(sub', {}) = {}
    BY DEF HoldersOf, UnitsOf
  <2>3. SpokenByRequests(q)' = 0
    BY <2>2, FS_EmptySet DEF SpokenByRequests
  <2>4. Own(q) = SpokenByMissions(q) + SpokenByRequests(q)
    BY AccountsByRow DEF AccountedByRow
  <2> QED
    BY <2>1, <2>3, <2>4, SpokenTypes
<1> QED
  BY <1>1, AccountsByRowNext DEF AccountedByRow

-----------------------------------------------------------------------------
(* What requests leave behind.                                              *)

\* Requests that hold nothing leave nothing.
LEMMA StrandNone ==
  ASSUME TypeOK, NEW S, \A q \in Quotas : S \intersect HoldersOf(q) = {}, Strand(S)
  PROVE  UNCHANGED stranded
<1>1. UnitsOf(sub, {}) = {} /\ Cardinality({}) = 0
  BY FS_EmptySet DEF UnitsOf
<1>2. stranded \in [Quotas -> Nat]
  BY DEF TypeOK
<1>3. \A q \in Quotas : Cardinality(UnitsOf(sub, S \intersect HoldersOf(q))) = 0
  BY <1>1
<1>4. stranded' = [q \in Quotas |-> stranded[q] + 0]
  BY <1>3 DEF Strand
<1> QED
  BY <1>2, <1>4

\* One that holds leaves its units on its row.
LEMMA StrandOne ==
  ASSUME TypeOK, NEW s \in Submitters, Holding(s), Strand({s}),
         NEW p \in Quotas, NEW n \in Nat, p = sub[s].quota, n = sub[s].energy
  PROVE  /\ stranded' \in [Quotas -> Nat]
         /\ stranded'[p] = stranded[p] + n
         /\ \A q \in Quotas \ {p} : stranded'[q] = stranded[q]
<1>1. UnitsOf(sub, {}) = {} /\ Cardinality({}) = 0 /\ IsFiniteSet({})
  BY FS_EmptySet DEF UnitsOf
<1>2. stranded \in [Quotas -> Nat]
  BY DEF TypeOK
<1>3. Cardinality(UnitsOf(sub, {s})) = n
  <2>1. Cardinality(UnitsOf(sub, {} \union {s})) = Cardinality(UnitsOf(sub, {})) + sub[s].energy
    BY <1>1, UnitsAdded
  <2>2. {} \union {s} = {s}
    OBVIOUS
  <2>3. Cardinality(UnitsOf(sub, {s})) = Cardinality(UnitsOf(sub, {})) + sub[s].energy
    BY <2>1, <2>2, Zenon
  <2>4. Cardinality(UnitsOf(sub, {})) = 0
    BY <1>1, Zenon
  <2> QED
    BY <2>3, <2>4
<1>4. {s} \intersect HoldersOf(p) = {s}
  BY DEF HoldersOf
<1>5. \A q \in Quotas \ {p} : {s} \intersect HoldersOf(q) = {}
  BY DEF HoldersOf
<1>6. stranded' = [q \in Quotas |-> stranded[q] + Cardinality(UnitsOf(sub, {s} \intersect HoldersOf(q)))]
  BY DEF Strand
<1>7. stranded'[p] = stranded[p] + n
  BY <1>3, <1>4, <1>6
<1>8. \A q \in Quotas \ {p} : stranded'[q] = stranded[q]
  BY <1>1, <1>2, <1>5, <1>6
<1>9. \A q \in Quotas : stranded'[q] \in Nat
  BY <1>2, <1>7, <1>8
<1> QED
  BY <1>6, <1>7, <1>8, <1>9

\* All of them leave what requests had spoken for.
LEMMA StrandAll ==
  ASSUME TypeOK, Strand(Submitters)
  PROVE  /\ stranded' \in [Quotas -> Nat]
         /\ \A q \in Quotas : stranded'[q] = stranded[q] + SpokenByRequests(q)
<1>1. \A q \in Quotas : Submitters \intersect HoldersOf(q) = HoldersOf(q)
  BY DEF HoldersOf
<1>2. stranded' = [q \in Quotas |-> stranded[q] + SpokenByRequests(q)]
  BY <1>1 DEF Strand, SpokenByRequests
<1>3. \A q \in Quotas : stranded[q] \in Nat /\ SpokenByRequests(q) \in Nat
  BY SpokenTypes
<1> QED
  BY <1>2, <1>3

-----------------------------------------------------------------------------
(* Rows and what is known of them.                                          *)

\* Missions do not disappear, keep their keys, and change with their version.
Lasting ==
  \A m \in Missions :
    Exists(m) =>
      /\ Exists(m)'
      /\ mission'[m].key = mission[m].key
      /\ mission[m].version <= mission'[m].version
      /\ mission'[m].version = mission[m].version => mission'[m] = mission[m]

LEMMA StandingLasts ==
  ASSUME TypeOK, UNCHANGED mission
  PROVE  Lasting /\ SameMissions /\ StatusChangeIsEdge
<1>1. \A m \in Missions : Exists(m) => mission[m].version \in Nat
  BY RecordTypes DEF MissionRow
<1> QED
  BY <1>1 DEF Lasting, SameMissions, StatusChangeIsEdge, MissionsOf, Exists

\* The guarded UPDATEs of a mission.
LEMMA Editing ==
  ASSUME TypeOK, NEW m \in Missions, NEW v \in Nat,
         \/ \E st \in MissionStatus :
              /\ mission' = UpdateMissionStatus(m, st, v)
              /\ MissionWhere(m, v) => CanTransition(mission[m].status, st)
         \/ \E p \in Priorities : mission' = UpdatePriority(m, p, v)
  PROVE  /\ mission' \in [Missions -> MissionRow \union {Unused}]
         /\ Lasting /\ SameMissions /\ StatusChangeIsEdge
<1>1. CASE ~MissionWhere(m, v)
  <2>1. UNCHANGED mission
    BY <1>1 DEF UpdateMissionStatus, UpdatePriority
  <2> QED
    BY <2>1, StandingLasts DEF TypeOK
<1>2. CASE MissionWhere(m, v)
  <2>1. mission[m] \in MissionRow /\ Exists(m)
    BY <1>2, RecordTypes DEF MissionWhere
  <2>2. PICK k \in Nat : k = mission[m].version + 1
    BY <2>1 DEF MissionRow
  <2>3. PICK r : /\ mission' = [mission EXCEPT ![m] = r]
                 /\ r \in MissionRow
                 /\ r.key = mission[m].key /\ r.quota = mission[m].quota
                 /\ r.energy = mission[m].energy /\ r.version = k
                 /\ r.status = mission[m].status \/ CanTransition(mission[m].status, r.status)
    <3>1. ASSUME NEW st \in MissionStatus, mission' = UpdateMissionStatus(m, st, v),
                 CanTransition(mission[m].status, st)
          PROVE  \E r : /\ mission' = [mission EXCEPT ![m] = r]
                        /\ r \in MissionRow
                        /\ r.key = mission[m].key /\ r.quota = mission[m].quota
                        /\ r.energy = mission[m].energy /\ r.version = k
                        /\ r.status = mission[m].status \/ CanTransition(mission[m].status, r.status)
      <4> DEFINE r == [mission[m] EXCEPT !.status = st, !.version = k]
      <4>1. mission' = [mission EXCEPT ![m] = r]
        BY <1>2, <2>2, <3>1 DEF UpdateMissionStatus
      <4>2. /\ r \in MissionRow
            /\ r.key = mission[m].key /\ r.quota = mission[m].quota
            /\ r.energy = mission[m].energy /\ r.version = k /\ r.status = st
        BY <2>1 DEF MissionRow
      <4> QED
        BY <3>1, <4>1, <4>2
    <3>2. ASSUME NEW p \in Priorities, mission' = UpdatePriority(m, p, v)
          PROVE  \E r : /\ mission' = [mission EXCEPT ![m] = r]
                        /\ r \in MissionRow
                        /\ r.key = mission[m].key /\ r.quota = mission[m].quota
                        /\ r.energy = mission[m].energy /\ r.version = k
                        /\ r.status = mission[m].status \/ CanTransition(mission[m].status, r.status)
      <4> DEFINE r == [mission[m] EXCEPT !.priority = p, !.version = k]
      <4>1. mission' = [mission EXCEPT ![m] = r]
        BY <1>2, <2>2, <3>2 DEF UpdatePriority
      <4>2. /\ r \in MissionRow
            /\ r.key = mission[m].key /\ r.quota = mission[m].quota
            /\ r.energy = mission[m].energy /\ r.version = k /\ r.status = mission[m].status
        BY <2>1 DEF MissionRow
      <4> QED
        BY <4>1, <4>2
    <3> QED
      BY <1>2, <3>1, <3>2
  <2>4. /\ mission' \in [Missions -> MissionRow \union {Unused}]
        /\ mission'[m] = r /\ \A x \in Missions \ {m} : mission'[x] = mission[x]
    BY <2>3 DEF TypeOK
  <2>5. r # Unused /\ mission[m].version \in Nat
    BY <2>1, <2>3 DEF MissionRow, Unused
  <2>6. \A x \in Missions : Exists(x)' <=> Exists(x)
    BY <2>1, <2>4, <2>5 DEF Exists
  <2>7. Lasting
    <3>1. \A x \in Missions : Exists(x) => mission[x].version \in Nat
      BY RecordTypes DEF MissionRow
    <3> QED
      BY <2>2, <2>3, <2>4, <2>5, <2>6, <3>1 DEF Lasting
  <2>8. SameMissions
    BY <2>3, <2>4, <2>6 DEF SameMissions, MissionsOf
  <2>9. StatusChangeIsEdge
    BY <2>2, <2>3, <2>4 DEF StatusChangeIsEdge
  <2> QED
    BY <2>4, <2>7, <2>8, <2>9
<1> QED
  BY <1>1, <1>2

\* What requests, copies and stored answers know stays true.
LEMMA KnowsKept ==
  ASSUME TypeOK, Lasting, NEW s \in Submitters, SubKnows(s), sub'[s] = sub[s]
  PROVE  SubKnows(s)'
BY DEF Lasting, SubKnows, MissionMade

LEMMA CopyKept ==
  ASSUME TypeOK, TypeOK', Lasting, NEW c \in Edit, CopyKnows(c)
  PROVE  CopyKnows(c)'
<1>1. c.mission \in Missions /\ c.version \in Nat
  BY DEF Edit
<1>2. mission[c.mission] \in MissionRow
  BY <1>1, RecordTypes DEF CopyKnows
<1>3. mission'[c.mission] \in MissionRow
  BY <1>1 DEF TypeOK, CopyKnows, Lasting, Exists
<1> QED
  BY <1>1, <1>2, <1>3 DEF CopyKnows, Lasting, MissionRow

LEMMA EditsKept ==
  ASSUME TypeOK, TypeOK', Lasting, EditsKnow, UNCHANGED <<edit, promote>>
  PROVE  EditsKnow'
<1>1. \A o \in Operators : edit[o] # Done => CopyKnows(edit[o])'
  BY CopyKept, RecordTypes DEF EditsKnow
<1> QED
  BY <1>1, CopyKept, RecordTypes DEF EditsKnow

LEMMA AnswersKept ==
  ASSUME Lasting, SameMissions, AnswersTruthful, UNCHANGED record
  PROVE  AnswersTruthful'
BY DEF Lasting, SameMissions, AnswersTruthful

-----------------------------------------------------------------------------
(* Requests: where they go from one statement to the next.                  *)

\* Request s ends, or goes on for the same key, row and energy.
Moved(s) ==
  /\ sub' \in [Submitters -> Sub \union {Done}]
  /\ \A x \in Submitters \ {s} : sub'[x] = sub[x]
  /\ sub'[s] # Done =>
       /\ sub'[s].key = sub[s].key /\ sub'[s].quota = sub[s].quota
       /\ sub'[s].energy = sub[s].energy

LEMMA Going ==
  ASSUME TypeOK, NEW s \in Submitters, sub[s] # Done, NEW pc \in SubPc, Goto(s, pc)
  PROVE  /\ Moved(s)
         /\ sub'[s].pc = pc
         /\ sub'[s].mission = sub[s].mission /\ sub'[s].answer = sub[s].answer
<1>1. sub[s] \in Sub
  BY RecordTypes
<1> QED
  BY <1>1 DEF Goto, Moved, TypeOK, Sub

LEMMA Ending ==
  ASSUME TypeOK, NEW s \in Submitters, Answer(s)
  PROVE  Moved(s) /\ sub'[s] = Done
BY DEF Answer, Moved, TypeOK

LEMMA Storing ==
  ASSUME TypeOK, NEW s \in Submitters, sub[s] # Done,
         NEW a \in {"accepted", "queued", "rejected"}, Store(s, a)
  PROVE  /\ Moved(s)
         /\ sub'[s] # Done =>
              /\ sub'[s].pc = "cache" /\ sub'[s].key \in Keys
              /\ sub'[s].mission = sub[s].mission /\ sub'[s].answer = a
<1>1. sub[s] \in Sub
  BY RecordTypes
<1>2. CASE sub[s].key = NoKey
  BY <1>2, Ending DEF Store
<1>3. CASE sub[s].key # NoKey
  <2>1. sub[s].key \in Keys
    BY <1>1, <1>3 DEF Sub
  <2>2. sub' = [sub EXCEPT ![s] = [sub[s] EXCEPT !.pc = "cache", !.answer = a]]
    BY <1>3 DEF Store
  <2>3. [sub[s] EXCEPT !.pc = "cache", !.answer = a] \in Sub
    BY <1>1 DEF Sub, SubPc
  <2> QED
    BY <1>1, <2>1, <2>2, <2>3 DEF Moved, TypeOK, Sub
<1> QED
  BY <1>2, <1>3

LEMMA TryingAgain ==
  ASSUME TypeOK, NEW s \in Submitters, sub[s] # Done, TryAgain(s)
  PROVE  Moved(s) /\ (sub'[s] # Done => sub'[s].pc = "reserve")
<1>1. sub[s] \in Sub
  BY RecordTypes
<1>2. CASE sub[s].attempts + 1 < Tries("reserve")
  <2>1. PICK k \in Nat : k = sub[s].attempts + 1
    BY <1>1 DEF Sub
  <2>2. sub' = [sub EXCEPT ![s] = [sub[s] EXCEPT !.pc = "reserve", !.attempts = k]]
    BY <1>2, <2>1 DEF TryAgain
  <2>3. [sub[s] EXCEPT !.pc = "reserve", !.attempts = k] \in Sub
    BY <1>1 DEF Sub, SubPc
  <2> QED
    BY <1>1, <2>2, <2>3 DEF Moved, TypeOK, Sub
<1>3. CASE ~(sub[s].attempts + 1 < Tries("reserve"))
  BY <1>3, Ending DEF TryAgain
<1> QED
  BY <1>2, <1>3

\* A request's mission is still there under its key when the request has moved.
LEMMA MadeKept ==
  ASSUME Lasting, NEW s \in Submitters, MissionMade(s),
         sub'[s].mission = sub[s].mission, sub'[s].key = sub[s].key
  PROVE  MissionMade(s)'
BY DEF Lasting, MissionMade

\* What every step of a request that leaves missions and answers alone keeps.
LEMMA RequestKeeps ==
  ASSUME IInv, NEW s \in Submitters, Moved(s), SubKnows(s)',
         QuotaTypeOK', Unborn', handover' \subseteq Missions,
         faults' \in 0 .. MaxFaults, stranded' \in [Quotas -> Nat], EnergyAccounted',
         UNCHANGED <<mission, record, edit, promote, backward, ledger>>
  PROVE  IInv' /\ StatusChangeIsEdge
<1>1. TypeOK'
  BY DEF IInv, TypeOK, Moved
<1>2. Lasting /\ SameMissions /\ StatusChangeIsEdge
  BY StandingLasts DEF IInv
<1>3. \A x \in Submitters : SubKnows(x)'
  BY <1>2, KnowsKept DEF IInv, Moved
<1>4. AnswersTruthful' /\ EditsKnow'
  BY <1>1, <1>2, AnswersKept, EditsKept DEF IInv
<1> QED
  BY <1>1, <1>2, <1>3, <1>4 DEF IInv

\* The same, for a step that moves no units of the row, and leaves the request
\* without a reservation as it was, or with the one it had.
LEMMA QuietRequestKeeps ==
  ASSUME IInv, NEW s \in Submitters, Moved(s), SubKnows(s)',
         Holding(s)' <=> Holding(s),
         QuotaTypeOK', Unborn', \A q \in Quotas : Held(q)' = Held(q),
         handover' \subseteq Missions, faults' \in 0 .. MaxFaults,
         UNCHANGED <<mission, record, edit, promote, backward, ledger, stranded>>
  PROVE  IInv' /\ StatusChangeIsEdge
<1>1. TypeOK'
  BY DEF IInv, TypeOK, Moved
<1>2. SameMissions
  BY StandingLasts DEF IInv
<1>3. \A x \in Submitters :
        /\ Holding(x)' <=> Holding(x)
        /\ Holding(x) => /\ sub'[x].quota = sub[x].quota
                         /\ sub'[x].energy = sub[x].energy
  BY DEF Moved, Holding
<1>4. \A q \in Quotas : Own(q)' = Own(q)
  BY DEF Own
<1>5. EnergyAccounted'
  BY <1>1, <1>2, <1>3, <1>4, AccountsKept DEF IInv
<1>6. stranded' \in [Quotas -> Nat]
  BY <1>1 DEF TypeOK
<1> QED
  BY <1>5, <1>6, RequestKeeps

-----------------------------------------------------------------------------
(* The steps of a request.                                                  *)

\* A step of a request leaves calls, operators, the engine and history alone,
\* unless it compensates.
Elsewhere == UNCHANGED <<call, edit, promote, faults, backward, ledger, stranded>>

\* What a step may rely on, and what an invariant of the parts gives.
LEMMA Given ==
  ASSUME IInv, NEW s \in Submitters, sub[s] # Done
  PROVE  /\ TypeOK /\ QuotaTypeOK /\ Unborn /\ SubKnows(s)
         /\ handover \subseteq Missions /\ faults \in 0 .. MaxFaults
         /\ sub[s] \in Sub /\ sub[s].quota \in Quotas
         /\ sub[s].energy \in Nat /\ sub[s].energy > 0
<1>1. sub[s] \in Sub
  BY RecordTypes DEF IInv
<1>2. sub[s].quota \in Quotas /\ sub[s].energy \in Energies
  BY <1>1 DEF Sub
<1>3. sub[s].energy \in Nat /\ sub[s].energy > 0
  BY <1>2, RecordTypes DEF IInv
<1>4. TypeOK /\ Unborn /\ SubKnows(s)
  BY DEF IInv
<1> QED
  BY <1>1, <1>2, <1>3, <1>4 DEF TypeOK

\* The units of a row that is as it was.
LEMMA SameQuota ==
  ASSUME UNCHANGED <<quota, call, backward>>, QuotaTypeOK, Unborn
  PROVE  QuotaTypeOK' /\ Unborn' /\ \A q \in Quotas : Held(q)' = Held(q)
BY DEF QuotaTypeOK, Unborn, Held

\* Creating a row holds no units.
LEMMA CreatedHeld ==
  ASSUME QuotaTypeOK, Unborn, UNCHANGED <<call, backward>>, NEW q \in Quotas,
         quota' = GetOrCreateQuota(q)
  PROVE  QuotaTypeOK' /\ Unborn' /\ \A r \in Quotas : Held(r)' = Held(r)
<1>1. QuotaTypeOK' /\ Unborn'
  <2>1. 0 \in Int
    OBVIOUS
  <2> QED
    BY <2>1, StatementTypes DEF QuotaTypeOK
<1>2. \A r \in Quotas : Held(r)' = Held(r)
  BY DEF QuotaTypeOK, Unborn, GetOrCreateQuota, NewQuota, NoQuota, Held
<1> QED
  BY <1>1, <1>2

LEMMA SubmitKeeps ==
  ASSUME IInv, NEW s \in Submitters, NEW k \in Keys \union {NoKey}, NEW q \in Quotas,
         NEW n \in Energies, NEW p \in Priorities, Submit(s, k, q, n, p), Elsewhere
  PROVE  IInv' /\ StatusChangeIsEdge
<1> DEFINE new == [pc |-> IF k = NoKey THEN "reserve" ELSE "lookup", key |-> k, quota |-> q,
                   energy |-> n, priority |-> p, version |-> 0, attempts |-> 0,
                   mission |-> NoMission, answer |-> "rejected"]
<1>1. /\ sub' = [sub EXCEPT ![s] = new]
      /\ UNCHANGED <<quota, mission, record, handover, call, edit, promote, faults, backward, ledger, stranded>>
  BY DEF Submit, rowVars, Elsewhere
<1>2. new \in Sub
  BY DEF Sub, SubPc
<1>3. TypeOK
  BY DEF IInv
<1>4. /\ sub' \in [Submitters -> Sub \union {Done}] /\ sub'[s] = new
      /\ \A x \in Submitters \ {s} : sub'[x] = sub[x]
  BY <1>1, <1>2, <1>3 DEF TypeOK
<1>5. TypeOK' /\ Unborn' /\ \A r \in Quotas : Held(r)' = Held(r)
  BY <1>1, <1>3, <1>4, SameQuota DEF TypeOK, IInv
<1>6. Lasting /\ SameMissions /\ StatusChangeIsEdge
  BY <1>1, <1>3, StandingLasts
<1>7. \A x \in Submitters : SubKnows(x)'
  <2>1. SubKnows(s)'
    BY <1>4 DEF SubKnows
  <2> QED
    BY <1>3, <1>4, <1>6, <2>1, KnowsKept DEF IInv
<1>8. AnswersTruthful' /\ EditsKnow'
  BY <1>1, <1>3, <1>5, <1>6, AnswersKept, EditsKept DEF IInv
<1>9. EnergyAccounted'
  <2>1. ~Holding(s)' /\ ~Holding(s)
    BY <1>4 DEF Holding, Submit
  <2>2. \A x \in Submitters :
          /\ Holding(x)' <=> Holding(x)
          /\ Holding(x) => /\ sub'[x].quota = sub[x].quota
                           /\ sub'[x].energy = sub[x].energy
    BY <1>4, <2>1 DEF Holding
  <2>3. \A r \in Quotas : Own(r)' = Own(r)
    BY <1>1, <1>5 DEF Own
  <2> QED
    BY <1>3, <1>5, <1>6, <2>2, <2>3, AccountsKept DEF IInv
<1> QED
  BY <1>5, <1>6, <1>7, <1>8, <1>9 DEF IInv

LEMMA LookUpKeeps ==
  ASSUME IInv, NEW s \in Submitters, LookUp(s), Elsewhere
  PROVE  IInv' /\ StatusChangeIsEdge
<1>1. sub[s] # Done /\ sub[s].pc = "lookup"
  BY DEF LookUp, Done
<1>2. UNCHANGED <<quota, mission, record, handover, call, edit, promote, faults, backward, ledger, stranded>>
  BY DEF LookUp, rowVars, Elsewhere
<1>3. Moved(s) /\ (sub'[s] # Done => sub'[s].pc = "reserve")
  BY <1>1, Given, Ending, Going DEF LookUp, SubPc
<1>4. SubKnows(s)' /\ ~Holding(s)' /\ ~Holding(s)
  BY <1>1, <1>3 DEF SubKnows, Holding
<1>5. QuotaTypeOK' /\ Unborn' /\ \A q \in Quotas : Held(q)' = Held(q)
  BY <1>1, <1>2, Given, SameQuota
<1> QED
  BY <1>1, <1>2, <1>3, <1>4, <1>5, Given, QuietRequestKeeps

LEMMA ReserveLookKeeps ==
  ASSUME IInv, NEW s \in Submitters, ReserveLook(s), Elsewhere
  PROVE  IInv' /\ StatusChangeIsEdge
<1>1. sub[s] # Done /\ sub[s].pc = "reserve"
  BY DEF ReserveLook, Done
<1>2. UNCHANGED <<mission, record, handover, call, edit, promote, faults, backward, ledger, stranded>>
  BY DEF ReserveLook, rowVars, Elsewhere
<1>3. QuotaTypeOK' /\ Unborn' /\ \A q \in Quotas : Held(q)' = Held(q)
  BY <1>1, <1>2, Given, CreatedHeld DEF ReserveLook
<1>4. Moved(s) /\ SubKnows(s)' /\ ~Holding(s)'
  <2>1. CASE Store(s, "rejected")
    BY <1>1, <2>1, Given, Storing DEF SubKnows, Holding
  <2>2. CASE sub' = [sub EXCEPT ![s].pc = "write", ![s].version = quota'[sub[s].quota].version]
    <3>1. PICK v \in Nat : v = quota'[sub[s].quota].version
      BY <1>1, <1>3, Given DEF QuotaTypeOK, QuotaRow
    <3>2. sub' = [sub EXCEPT ![s] = [sub[s] EXCEPT !.pc = "write", !.version = v]]
      BY <2>2, <3>1
    <3>3. sub[s] \in Sub /\ [sub[s] EXCEPT !.pc = "write", !.version = v] \in Sub
      BY <1>1, Given DEF Sub, SubPc
    <3>4. Moved(s) /\ sub'[s].pc = "write"
      BY <1>1, <3>2, <3>3, Given DEF Moved, TypeOK, Sub
    <3> QED
      BY <3>4 DEF SubKnows, Holding
  <2> QED
    BY <2>1, <2>2 DEF ReserveLook
<1>5. ~Holding(s)
  BY <1>1 DEF Holding
<1> QED
  BY <1>1, <1>2, <1>3, <1>4, <1>5, Given, QuietRequestKeeps

LEMMA ReserveTakeKeeps ==
  ASSUME IInv, NEW s \in Submitters, ReserveTake(s), Elsewhere
  PROVE  IInv' /\ StatusChangeIsEdge
<1>1. sub[s] # Done /\ sub[s].pc = "write"
  BY DEF ReserveTake, Done
<1>2. UNCHANGED <<mission, record, handover, call, edit, promote, faults, backward, ledger, stranded>>
  BY DEF ReserveTake, rowVars, Elsewhere
<1>3. PICK p \in Quotas, n \in Nat : p = sub[s].quota /\ n = sub[s].energy
  BY <1>1, Given
<1>4. quota' = ReserveQuota(p, n, sub[s].version)
  BY <1>3 DEF ReserveTake
<1>5. QuotaTypeOK' /\ Unborn' /\ \A q \in Quotas \ {p} : Held(q)' = Held(q)
  <2>1. n \in Int
    OBVIOUS
  <2> QED
    BY <1>1, <1>2, <1>4, <2>1, Given, StatementTypes DEF QuotaTypeOK, Held
<1>6. CASE quota' = quota
  <2>1. TryAgain(s)
    BY <1>6 DEF ReserveTake, Reserved
  <2>2. Moved(s) /\ SubKnows(s)' /\ ~Holding(s)' /\ ~Holding(s)
    BY <1>1, <2>1, Given, TryingAgain DEF SubKnows, Holding
  <2>3. \A q \in Quotas : Held(q)' = Held(q)
    BY <1>6 DEF Held
  <2> QED
    BY <1>1, <1>2, <1>5, <2>2, <2>3, Given, QuietRequestKeeps
<1>7. CASE quota' # quota
  <2>1. Goto(s, "reread")
    BY <1>7 DEF ReserveTake, Reserved
  <2>2. /\ Moved(s) /\ SubKnows(s)' /\ ~Holding(s) /\ Holding(s)'
        /\ sub'[s].quota = p /\ sub'[s].energy = n
    BY <1>1, <1>3, <2>1, Given, Going DEF SubKnows, Holding, SubPc, Moved, Done
  <2>3. Held(p)' = Held(p) + n
    BY <1>1, <1>4, <1>7, Given DEF ReserveQuota, Held, QuotaTypeOK, QuotaRow
  <2>4. Own(p)' = Own(p) + sub'[s].energy /\ \A q \in Quotas \ {p} : Own(q)' = Own(q)
    <3>1. ledger[p] \in Int /\ Held(p) \in Int /\ stranded[p] \in Nat
      BY <1>1, Given, SpokenTypes
    <3> QED
      BY <1>2, <1>5, <2>2, <2>3, <3>1 DEF Own
  <2>5. TypeOK' /\ SameMissions
    BY <1>1, <1>2, <1>5, <2>2, Given, StandingLasts DEF TypeOK, Moved
  <2>6. EnergyAccounted'
    BY <1>1, <2>2, <2>4, <2>5, AccountsTaken DEF IInv, Moved
  <2> QED
    BY <1>1, <1>2, <1>5, <2>2, <2>5, <2>6, Given, RequestKeeps DEF TypeOK
<1> QED
  BY <1>6, <1>7

LEMMA ReserveRefusedKeeps ==
  ASSUME IInv, NEW s \in Submitters, ReserveRefused(s), Elsewhere
  PROVE  IInv' /\ StatusChangeIsEdge
<1>1. sub[s] # Done /\ ~Holding(s)
  BY DEF ReserveRefused, Done, Holding
<1>2. UNCHANGED <<quota, mission, record, handover, call, edit, promote, faults, backward, ledger, stranded>>
  BY DEF ReserveRefused, rowVars, Elsewhere
<1>3. Moved(s) /\ SubKnows(s)' /\ ~Holding(s)'
  BY <1>1, Given, TryingAgain DEF ReserveRefused, SubKnows, Holding
<1>4. QuotaTypeOK' /\ Unborn' /\ \A q \in Quotas : Held(q)' = Held(q)
  BY <1>1, <1>2, Given, SameQuota
<1> QED
  BY <1>1, <1>2, <1>3, <1>4, Given, QuietRequestKeeps

LEMMA RereadKeeps ==
  ASSUME IInv, NEW s \in Submitters, Reread(s), Elsewhere
  PROVE  IInv' /\ StatusChangeIsEdge
<1>1. sub[s] # Done /\ sub[s].pc = "reread"
  BY DEF Reread, Done
<1>2. UNCHANGED <<quota, mission, record, handover, call, edit, promote, faults, backward, ledger, stranded>>
  BY DEF Reread, rowVars, Elsewhere
<1>3. Moved(s) /\ SubKnows(s)' /\ Holding(s) /\ Holding(s)'
  <2>1. PICK v \in Nat : v = quota[sub[s].quota].version
    BY <1>1, Given DEF QuotaTypeOK, QuotaRow
  <2>2. PICK a \in {"accepted", "queued"} :
          a = IF HighlyUtilized(sub[s].quota) THEN "queued" ELSE "accepted"
    OBVIOUS
  <2>3. sub' = [sub EXCEPT ![s] = [sub[s] EXCEPT !.pc = "insert", !.version = v, !.answer = a]]
    BY <2>1, <2>2 DEF Reread
  <2>4. sub[s] \in Sub /\ [sub[s] EXCEPT !.pc = "insert", !.version = v, !.answer = a] \in Sub
    BY <1>1, Given DEF Sub, SubPc
  <2>5. Moved(s) /\ sub'[s].pc = "insert" /\ sub'[s].answer = a
    BY <1>1, <2>3, <2>4, Given DEF Moved, TypeOK, Sub
  <2> QED
    BY <1>1, <2>5 DEF SubKnows, Holding, Done
<1>4. QuotaTypeOK' /\ Unborn' /\ \A q \in Quotas : Held(q)' = Held(q)
  BY <1>1, <1>2, Given, SameQuota
<1> QED
  BY <1>1, <1>2, <1>3, <1>4, Given, QuietRequestKeeps

\* A fresh row of a mission disturbs none that is there.
LEMMA FreshLasts ==
  ASSUME TypeOK, NEW m \in Missions, ~Exists(m), NEW row \in MissionRow,
         mission' = [mission EXCEPT ![m] = row]
  PROVE  /\ mission' \in [Missions -> MissionRow \union {Unused}]
         /\ Exists(m)' /\ mission'[m] = row
         /\ \A x \in Missions \ {m} : mission'[x] = mission[x]
         /\ Lasting /\ StatusChangeIsEdge
<1>1. row # Unused
  BY DEF MissionRow, Unused
<1>2. /\ mission' \in [Missions -> MissionRow \union {Unused}]
      /\ mission'[m] = row /\ \A x \in Missions \ {m} : mission'[x] = mission[x]
  BY DEF TypeOK
<1>3. \A x \in Missions : Exists(x) => mission[x].version \in Nat
  BY RecordTypes DEF MissionRow
<1> QED
  BY <1>1, <1>2, <1>3 DEF Lasting, StatusChangeIsEdge, Exists

LEMMA InsertKeeps ==
  ASSUME IInv, NEW s \in Submitters, Insert(s), Elsewhere
  PROVE  IInv' /\ StatusChangeIsEdge
<1>1. sub[s] # Done /\ sub[s].pc = "insert"
  BY DEF Insert, Done
<1>2. UNCHANGED <<quota, record, handover, call, edit, promote, faults, backward, ledger, stranded>>
  BY DEF Insert, Elsewhere
<1>3. QuotaTypeOK' /\ Unborn' /\ \A q \in Quotas : Held(q)' = Held(q)
  BY <1>1, <1>2, Given, SameQuota
<1>4. CASE Goto(s, "compensate") /\ UNCHANGED mission
  <2>1. Moved(s) /\ SubKnows(s)' /\ Holding(s) /\ Holding(s)'
    BY <1>1, <1>4, Given, Going DEF SubKnows, Holding, SubPc, Done
  <2> QED
    BY <1>1, <1>2, <1>3, <1>4, <2>1, Given, QuietRequestKeeps
<1>5. ASSUME NEW m \in Missions, ~Exists(m), ~Taken(sub[s].key),
             mission' = [mission EXCEPT ![m] =
                  [status |-> sub[s].answer, version |-> 1, key |-> sub[s].key,
                   quota |-> sub[s].quota, energy |-> sub[s].energy,
                   priority |-> sub[s].priority]],
             sub' = [sub EXCEPT ![s].pc = "handover", ![s].mission = m]
      PROVE  IInv' /\ StatusChangeIsEdge
  <2> DEFINE row == [status |-> sub[s].answer, version |-> 1, key |-> sub[s].key,
                     quota |-> sub[s].quota, energy |-> sub[s].energy,
                     priority |-> sub[s].priority]
  <2>1. row \in MissionRow
    BY <1>1, Given DEF SubKnows, Sub, MissionRow, MissionStatus
  <2>2. /\ mission' \in [Missions -> MissionRow \union {Unused}]
        /\ Exists(m)' /\ mission'[m] = row
        /\ \A x \in Missions \ {m} : mission'[x] = mission[x]
        /\ Lasting /\ StatusChangeIsEdge
    <3>1. mission' = [mission EXCEPT ![m] = row]
      BY <1>5
    <3> HIDE DEF row
    <3> QED
      BY <1>1, <1>5, <2>1, <3>1, Given, FreshLasts
  <2>3. /\ Moved(s) /\ sub'[s].pc = "handover" /\ sub'[s].mission = m
        /\ sub'[s].key = sub[s].key /\ sub'[s].answer = sub[s].answer
    <3>1. sub' = [sub EXCEPT ![s] = [sub[s] EXCEPT !.pc = "handover", !.mission = m]]
      BY <1>5
    <3>2. [sub[s] EXCEPT !.pc = "handover", !.mission = m] \in Sub
      BY <1>1, Given DEF Sub, SubPc
    <3> QED
      BY <1>1, <3>1, <3>2, Given DEF Moved, TypeOK, Sub
  <2>4. TypeOK'
    BY <1>1, <1>2, <1>3, <2>2, <2>3, Given DEF TypeOK, Moved
  <2>5. SubKnows(s)'
    BY <1>1, <2>2, <2>3, Given DEF SubKnows, MissionMade
  <2>6. \A x \in Submitters : SubKnows(x)'
    BY <2>2, <2>3, <2>5, KnowsKept DEF IInv, Moved
  <2>7. AnswersTruthful' /\ EditsKnow'
    <3>1. AnswersTruthful
      BY DEF IInv
    <3>2. \A x \in Missions \ {m} :
            Exists(x)' => /\ Exists(x) /\ mission'[x].key = mission[x].key
                          /\ mission[x].key # sub[s].key \/ sub[s].key = NoKey
      BY <1>5, <2>2 DEF Taken, Exists
    <3>3. AnswersTruthful'
      BY <1>2, <2>2, <3>1, <3>2 DEF AnswersTruthful, Lasting
    <3> QED
      BY <1>2, <2>2, <2>4, <3>3, EditsKept DEF IInv
  <2>8. EnergyAccounted'
    <3>1. PICK p \in Quotas, n \in Nat : p = sub[s].quota /\ n = sub[s].energy
      BY <1>1, Given
    <3>2. mission'[m].quota = p /\ mission'[m].energy = n
      BY <2>2, <3>1
    <3>3. Holding(s) /\ ~Holding(s)' /\ \A q \in Quotas : Own(q)' = Own(q)
      BY <1>1, <1>2, <1>3, <2>3 DEF Holding, Own
    <3> QED
      BY <1>5, <2>2, <2>3, <2>4, <3>1, <3>2, <3>3, AccountsInserted DEF IInv, Moved
  <2> QED
    BY <1>2, <1>3, <2>2, <2>4, <2>6, <2>7, <2>8 DEF IInv
<1> QED
  BY <1>4, <1>5 DEF Insert

LEMMA CompensateKeeps ==
  ASSUME IInv, NEW s \in Submitters, Compensate(s),
         UNCHANGED <<call, edit, promote, faults, backward, ledger>>,
         Strand(IF quota' = quota THEN {s} ELSE {})
  PROVE  IInv' /\ StatusChangeIsEdge
<1>1. sub[s] # Done /\ sub[s].pc = "compensate"
  BY DEF Compensate, Done
<1>2. UNCHANGED <<mission, record, handover, call, edit, promote, faults, backward, ledger>>
  BY DEF Compensate, rowVars
<1>3. PICK p \in Quotas, n \in Nat : p = sub[s].quota /\ n = sub[s].energy
  BY <1>1, Given
<1>4. PICK v : quota' = ReleaseQuota(p, n, v)
  BY <1>3 DEF Compensate, GivenBack
<1>5. QuotaTypeOK' /\ Unborn' /\ \A q \in Quotas \ {p} : Held(q)' = Held(q)
  <2>1. n \in Int
    OBVIOUS
  <2> QED
    BY <1>1, <1>2, <1>4, <2>1, Given, StatementTypes DEF QuotaTypeOK, Held
<1>6. Moved(s) /\ sub'[s] = Done
  BY Ending DEF Compensate, IInv
<1>7. Holding(s) /\ ~Holding(s)'
  BY <1>1, <1>6 DEF Holding
<1>8. /\ stranded' \in [Quotas -> Nat]
      /\ Own(p)' = Own(p) - n
      /\ \A q \in Quotas \ {p} : Own(q)' = Own(q)
  <2>1. /\ ledger[p] \in Int /\ Held(p) \in Int /\ stranded[p] \in Nat
        /\ stranded \in [Quotas -> Nat]
    BY <1>1, Given, SpokenTypes DEF TypeOK
  <2>2. CASE quota' = quota
    <3>1. /\ stranded' \in [Quotas -> Nat]
          /\ stranded'[p] = stranded[p] + n
          /\ \A q \in Quotas \ {p} : stranded'[q] = stranded[q]
      BY <1>1, <1>3, <1>7, <2>2, Given, StrandOne
    <3>2. Held(p)' = Held(p)
      BY <2>2 DEF Held
    <3> QED
      BY <1>2, <1>5, <2>1, <3>1, <3>2 DEF Own
  <2>3. CASE quota' # quota
    <3>1. UNCHANGED stranded
      BY <1>1, <2>3, Given, StrandNone
    <3>2. Held(p)' = Held(p) - n
      BY <1>1, <1>4, <2>3, Given DEF ReleaseQuota, Held, QuotaTypeOK, QuotaRow
    <3> QED
      BY <1>2, <1>5, <2>1, <3>1, <3>2 DEF Own
  <2> QED
    BY <2>2, <2>3
<1>9. TypeOK' /\ SameMissions
  BY <1>1, <1>2, <1>5, <1>6, <1>8, Given, StandingLasts DEF TypeOK, Moved
<1>10. EnergyAccounted'
  BY <1>3, <1>6, <1>7, <1>8, <1>9, AccountsReturned DEF IInv, Moved
<1>11. SubKnows(s)'
  BY <1>6 DEF SubKnows
<1> QED
  BY <1>1, <1>2, <1>5, <1>6, <1>8, <1>10, <1>11, Given, RequestKeeps

LEMMA OpenHandoverKeeps ==
  ASSUME IInv, NEW s \in Submitters, OpenHandover(s), Elsewhere
  PROVE  IInv' /\ StatusChangeIsEdge
<1>1. sub[s] # Done /\ sub[s].pc = "handover"
  BY DEF OpenHandover, Done
<1>2. UNCHANGED <<quota, mission, record, call, edit, promote, faults, backward, ledger, stranded>>
  BY DEF OpenHandover, Elsewhere
<1>3. MissionMade(s) /\ sub[s].answer \in {"accepted", "queued", "rejected"}
  BY <1>1, Given DEF SubKnows, Sub
<1>4. handover' \subseteq Missions
  BY <1>1, <1>3, Given DEF OpenHandover, MissionMade
<1>5. Moved(s) /\ SubKnows(s)' /\ ~Holding(s)'
  <2>1. /\ Moved(s)
        /\ sub'[s] # Done => /\ sub'[s].pc = "cache" /\ sub'[s].key \in Keys
                             /\ sub'[s].mission = sub[s].mission
    BY <1>1, <1>3, Given, Storing DEF OpenHandover
  <2>2. sub'[s] # Done => MissionMade(s)'
    BY <1>1, <1>2, <1>3, <2>1, Given, MadeKept, StandingLasts DEF Moved
  <2> QED
    BY <2>1, <2>2 DEF SubKnows, Holding
<1>6. QuotaTypeOK' /\ Unborn' /\ \A q \in Quotas : Held(q)' = Held(q)
  BY <1>1, <1>2, Given, SameQuota
<1>7. ~Holding(s)
  BY <1>1 DEF Holding
<1> QED
  BY <1>1, <1>2, <1>4, <1>5, <1>6, <1>7, Given, QuietRequestKeeps

LEMMA CacheKeeps ==
  ASSUME IInv, NEW s \in Submitters, Cache(s), Elsewhere
  PROVE  IInv' /\ StatusChangeIsEdge
<1>1. sub[s] # Done /\ sub[s].pc = "cache"
  BY DEF Cache, Done
<1>2. UNCHANGED <<quota, mission, handover, call, edit, promote, faults, backward, ledger, stranded>>
  BY DEF Cache, Elsewhere
<1>3. sub[s].key \in Keys /\ (sub[s].answer = "rejected" \/ MissionMade(s))
  BY <1>1, Given DEF SubKnows
<1>4. QuotaTypeOK' /\ Unborn' /\ \A q \in Quotas : Held(q)' = Held(q)
  BY <1>1, <1>2, Given, SameQuota
<1>5. Moved(s) /\ sub'[s] = Done
  BY Ending DEF Cache, IInv
<1> DEFINE new == [answer |-> sub[s].answer, mission |-> sub[s].mission, expired |-> FALSE]
<1>6. record' = record \/ record' = [record EXCEPT ![sub[s].key] = new]
  BY DEF Cache
<1>7. new \in Record
  BY <1>1, Given DEF Sub, Record
<1>8. TypeOK'
  <2>1. record' \in [Keys -> Record]
    <3> HIDE DEF new
    <3> QED
      BY <1>1, <1>3, <1>6, <1>7, Given DEF TypeOK
  <2> QED
    BY <1>1, <1>2, <1>4, <1>5, <2>1, Given DEF TypeOK, Moved
<1>9. Lasting /\ SameMissions /\ StatusChangeIsEdge
  BY <1>1, <1>2, Given, StandingLasts
<1>10. \A x \in Submitters : SubKnows(x)'
  <2>1. SubKnows(s)'
    BY <1>5 DEF SubKnows
  <2> QED
    BY <1>5, <1>9, <2>1, KnowsKept DEF IInv, Moved
<1>11. AnswersTruthful'
  <2>1. AnswersTruthful /\ record \in [Keys -> Record]
    BY DEF IInv, TypeOK
  <2>2. \A k \in Keys : record'[k] = record[k] \/ (k = sub[s].key /\ record'[k] = new)
    <3> HIDE DEF new
    <3> QED
      BY <1>3, <1>6, <2>1
  <2> QED
    BY <1>2, <1>3, <2>1, <2>2 DEF AnswersTruthful, MissionMade, Exists
<1>12. EnergyAccounted'
  <2>1. \A x \in Submitters :
          /\ Holding(x)' <=> Holding(x)
          /\ Holding(x) => /\ sub'[x].quota = sub[x].quota
                           /\ sub'[x].energy = sub[x].energy
    BY <1>1, <1>5 DEF Moved, Holding
  <2>2. \A q \in Quotas : Own(q)' = Own(q)
    BY <1>2, <1>4 DEF Own
  <2> QED
    BY <1>8, <1>9, <2>1, <2>2, AccountsKept DEF IInv
<1> QED
  BY <1>2, <1>4, <1>8, <1>9, <1>10, <1>11, <1>12, EditsKept DEF IInv

LEMMA ExpireKeeps ==
  ASSUME IInv, NEW k \in Keys, Expire(k),
         UNCHANGED <<call, edit, promote, faults, backward, ledger, stranded>>
  PROVE  IInv' /\ StatusChangeIsEdge
<1>1. UNCHANGED <<quota, mission, handover, sub, call, edit, promote, faults, backward, ledger, stranded>>
  BY DEF Expire
<1>2. TypeOK /\ record[k] \in Record
  BY DEF IInv, TypeOK
<1>3. /\ record' \in [Keys -> Record]
      /\ \A j \in Keys : record'[j].answer = record[j].answer
                         /\ record'[j].mission = record[j].mission
  <2>1. record' = [record EXCEPT ![k] = [record[k] EXCEPT !.expired = TRUE]]
    BY DEF Expire
  <2>2. [record[k] EXCEPT !.expired = TRUE] \in Record
    BY <1>2 DEF Record
  <2> QED
    BY <1>2, <2>1, <2>2 DEF TypeOK, Record
<1>4. Lasting /\ SameMissions /\ StatusChangeIsEdge
  BY <1>1, <1>2, StandingLasts
<1>5. TypeOK' /\ Unborn' /\ \A q \in Quotas : Held(q)' = Held(q)
  BY <1>1, <1>2, <1>3, SameQuota DEF TypeOK, IInv
<1>6. \A x \in Submitters : SubKnows(x)'
  BY <1>1, <1>2, <1>4, KnowsKept DEF IInv
<1>7. AnswersTruthful'
  BY <1>1, <1>3 DEF IInv, AnswersTruthful, Exists
<1>8. EnergyAccounted'
  BY <1>1, <1>2, <1>4, <1>5, AccountsKept DEF IInv, Holding, Own
<1> QED
  BY <1>1, <1>2, <1>4, <1>5, <1>6, <1>7, <1>8, EditsKept DEF IInv

-----------------------------------------------------------------------------
(* The steps of operators, the engine and the quota endpoints.              *)

\* What a step keeps that edits missions for operators or the engine.
LEMMA EditKeeps ==
  ASSUME IInv, mission' \in [Missions -> MissionRow \union {Unused}],
         edit' \in [Operators -> Edit \union {Done}], promote' \in Edit \union {Done},
         Lasting, SameMissions, TypeOK' => EditsKnow',
         UNCHANGED <<quota, call, record, handover, sub, faults, backward, ledger, stranded>>
  PROVE  IInv'
<1>1. TypeOK
  BY DEF IInv
<1>2. TypeOK' /\ Unborn' /\ \A q \in Quotas : Held(q)' = Held(q)
  BY <1>1, SameQuota DEF TypeOK, IInv
<1>3. \A x \in Submitters : SubKnows(x)'
  BY <1>1, KnowsKept DEF IInv
<1>4. AnswersTruthful'
  BY AnswersKept DEF IInv
<1>5. EnergyAccounted'
  BY <1>1, <1>2, AccountsKept DEF IInv, Holding, Own
<1> QED
  BY <1>2, <1>3, <1>4, <1>5 DEF IInv

\* Every copy stays a copy that is not ahead of its row.
LEMMA CopiesKept ==
  ASSUME TypeOK, TypeOK', Lasting
  PROVE  \A c \in Edit : CopyKnows(c) => CopyKnows(c)'
BY CopyKept

\* A copy of a row that is there, taken for an edit that is possible.
LEMMA Copied ==
  ASSUME TypeOK, NEW m \in Missions, Exists(m), NEW p \in Priorities,
         NEW op \in {"cancel", "priority", "advance"},
         op # "priority" => CanTransition(mission[m].status, Target(op))
  PROVE  /\ Copy(op, m, p) \in Edit
         /\ Copy(op, m, p).op = op
         /\ CopyKnows(Copy(op, m, p))
<1>1. mission[m].version \in Nat
  BY RecordTypes DEF MissionRow
<1> QED
  BY <1>1 DEF Copy, Edit, CopyKnows

LEMMA ReadKeeps ==
  ASSUME IInv, NEW o \in Operators, NEW m \in Missions, NEW p \in Priorities,
         CancelRead(o, m) \/ PriorityRead(o, m, p),
         UNCHANGED <<quota, call, sub, promote, faults, backward, ledger, stranded>>
  PROVE  IInv' /\ StatusChangeIsEdge
<1>1. TypeOK /\ EditsKnow /\ Exists(m)
  BY DEF IInv, CancelRead, PriorityRead
<1>2. mission[m].priority \in Priorities
  BY <1>1, RecordTypes DEF MissionRow
<1>3. PICK c \in Edit : c.op # "advance" /\ CopyKnows(c) /\ edit' = [edit EXCEPT ![o] = c]
  <2>1. CASE CancelRead(o, m)
    <3>1. "cancel" \in {"cancel", "priority", "advance"}
          /\ CanTransition(mission[m].status, Target("cancel"))
      BY <2>1 DEF CancelRead, Target
    <3>2. /\ Copy("cancel", m, mission[m].priority) \in Edit
          /\ Copy("cancel", m, mission[m].priority).op = "cancel"
          /\ CopyKnows(Copy("cancel", m, mission[m].priority))
      BY <1>1, <1>2, <3>1, Copied
    <3> QED
      BY <2>1, <3>2 DEF CancelRead
  <2>2. CASE PriorityRead(o, m, p)
    <3>1. /\ Copy("priority", m, p) \in Edit
          /\ Copy("priority", m, p).op = "priority"
          /\ CopyKnows(Copy("priority", m, p))
      BY <1>1, Copied
    <3> QED
      BY <2>2, <3>1 DEF PriorityRead
  <2> QED
    BY <2>1, <2>2
<1>4. UNCHANGED <<quota, call, mission, record, handover, sub, promote, faults, backward, ledger, stranded>>
  BY DEF CancelRead, PriorityRead, rowVars
<1>5. Lasting /\ SameMissions /\ StatusChangeIsEdge
  BY <1>1, <1>4, StandingLasts
<1>6. edit' \in [Operators -> Edit \union {Done}]
  BY <1>1, <1>3 DEF TypeOK
<1>7. ASSUME TypeOK' PROVE EditsKnow'
  <2>1. \A d \in Edit : CopyKnows(d) => CopyKnows(d)'
    BY <1>1, <1>5, <1>7, CopiesKept
  <2>2. edit'[o] = c /\ \A x \in Operators \ {o} : edit'[x] = edit[x]
    BY <1>1, <1>3 DEF TypeOK
  <2> QED
    BY <1>1, <1>3, <1>4, <2>1, <2>2, RecordTypes DEF EditsKnow, CopyKnows
<1> QED
  BY <1>1, <1>4, <1>5, <1>6, <1>7, EditKeeps DEF TypeOK

LEMMA EditWriteKeeps ==
  ASSUME IInv, NEW o \in Operators, EditWrite(o),
         UNCHANGED <<quota, call, sub, promote, faults, backward, ledger, stranded>>
  PROVE  IInv' /\ StatusChangeIsEdge
<1>1. TypeOK /\ EditsKnow /\ edit[o] # Done
  BY DEF IInv, EditWrite
<1>2. edit[o] \in Edit /\ CopyKnows(edit[o])
  BY <1>1, RecordTypes DEF EditsKnow
<1>3. PICK m \in Missions, v \in Nat : m = edit[o].mission /\ v = edit[o].version
  BY <1>2 DEF Edit
<1>4. /\ mission' \in [Missions -> MissionRow \union {Unused}]
      /\ Lasting /\ SameMissions /\ StatusChangeIsEdge
  <2>1. CASE edit[o].op = "cancel"
    <3>1. mission' = UpdateMissionStatus(m, "cancelled", v)
      BY <1>3, <2>1 DEF EditWrite
    <3>2. MissionWhere(m, v) => CanTransition(mission[m].status, "cancelled")
      BY <1>2, <1>3, <2>1 DEF MissionWhere, CopyKnows, Target
    <3>3. "cancelled" \in MissionStatus
      BY DEF MissionStatus
    <3> QED
      BY <1>1, <3>1, <3>2, <3>3, Editing
  <2>2. CASE edit[o].op = "priority"
    <3>1. PICK p \in Priorities : mission' = UpdatePriority(m, p, v)
      BY <1>2, <1>3, <2>2 DEF EditWrite, Edit
    <3> QED
      BY <1>1, <3>1, Editing
  <2> QED
    BY <2>1, <2>2 DEF EditWrite
<1>5. edit' \in [Operators -> Edit \union {Done}]
      /\ edit'[o] = Done /\ \A x \in Operators \ {o} : edit'[x] = edit[x]
  BY <1>1 DEF EditWrite, TypeOK
<1>6. ASSUME TypeOK' PROVE EditsKnow'
  <2>1. \A d \in Edit : CopyKnows(d) => CopyKnows(d)'
    BY <1>1, <1>4, <1>6, CopiesKept
  <2> QED
    BY <1>1, <1>5, <2>1, RecordTypes DEF EditsKnow, CopyKnows
<1> QED
  BY <1>1, <1>4, <1>5, <1>6, EditKeeps DEF TypeOK, EditWrite

LEMMA AdvanceKeeps ==
  ASSUME IInv, AdvanceStep
  PROVE  IInv' /\ StatusChangeIsEdge
<1>1. TypeOK /\ EditsKnow
  BY DEF IInv
<1>2. UNCHANGED <<quota, call, record, handover, sub, edit, faults, backward, ledger, stranded>>
  BY DEF AdvanceStep, AdvanceRead, AdvanceWrite, rowVars, history
<1>3. ASSUME TypeOK', Lasting PROVE \A d \in Edit : CopyKnows(d) => CopyKnows(d)'
  BY <1>1, <1>3, CopiesKept
<1>4. CASE AdvanceRead
  <2>1. PICK m \in Missions : /\ Exists(m)
                              /\ CanTransition(mission[m].status, Target("advance"))
                              /\ promote' = Copy("advance", m, mission[m].priority)
    BY <1>4 DEF AdvanceRead, QueuedMissions, Target
  <2>2. UNCHANGED mission
    BY <1>4 DEF AdvanceRead, rowVars
  <2>3. Lasting /\ SameMissions /\ StatusChangeIsEdge
    BY <1>1, <2>2, StandingLasts
  <2>4. mission[m].priority \in Priorities
    BY <1>1, <2>1, RecordTypes DEF MissionRow
  <2>5. PICK c \in Edit : promote' = c /\ c.op = "advance" /\ CopyKnows(c)
    BY <1>1, <2>1, <2>4, Copied
  <2>6. ASSUME TypeOK' PROVE EditsKnow'
    <3>1. \A d \in Edit : CopyKnows(d) => CopyKnows(d)'
      BY <1>3, <2>3, <2>6
    <3> QED
      BY <1>1, <1>2, <2>5, <3>1, RecordTypes DEF EditsKnow, CopyKnows
  <2> QED
    BY <1>1, <1>2, <2>2, <2>3, <2>5, <2>6, EditKeeps DEF TypeOK
<1>5. CASE AdvanceWrite
  <2>1. promote # Done /\ promote' = Done
        /\ mission' = UpdateMissionStatus(promote.mission, "scheduled", promote.version)
    BY <1>5 DEF AdvanceWrite
  <2>2. promote \in Edit /\ promote.op = "advance" /\ CopyKnows(promote)
    BY <1>1, <2>1, RecordTypes DEF EditsKnow
  <2>3. PICK m \in Missions, v \in Nat : m = promote.mission /\ v = promote.version
    BY <2>2 DEF Edit
  <2>4. MissionWhere(m, v) => CanTransition(mission[m].status, "scheduled")
    BY <2>2, <2>3 DEF MissionWhere, CopyKnows, Target
  <2>5. "scheduled" \in MissionStatus
    BY DEF MissionStatus
  <2>6. /\ mission' \in [Missions -> MissionRow \union {Unused}]
        /\ Lasting /\ SameMissions /\ StatusChangeIsEdge
    BY <1>1, <2>1, <2>3, <2>4, <2>5, Editing
  <2>7. ASSUME TypeOK' PROVE EditsKnow'
    BY <1>1, <1>2, <1>3, <2>1, <2>6, <2>7, RecordTypes DEF EditsKnow, CopyKnows
  <2> QED
    BY <1>1, <1>2, <2>1, <2>6, <2>7, EditKeeps DEF TypeOK
<1> QED
  BY <1>4, <1>5 DEF AdvanceStep

LEMMA EndpointKeeps ==
  ASSUME IInv, EndpointStep
  PROVE  IInv' /\ StatusChangeIsEdge
<1>1. UNCHANGED <<mission, record, handover, sub, edit, promote, faults, stranded>>
  BY DEF EndpointStep, rowVars
<1>2. TypeOK /\ QuotaTypeOK /\ Unborn
  BY DEF IInv, TypeOK
<1>3. QuotaTypeOK' /\ Unborn'
  BY <1>2, EndpointTypes DEF EndpointStep
<1>4. \A q \in Quotas : /\ Held(q) \in Int /\ Held(q)' \in Int /\ ledger[q] \in Int
                        /\ stranded[q] \in Nat
  BY <1>2, <1>3 DEF TypeOK, QuotaTypeOK, QuotaRow, Held
<1>5. ledger' \in [Quotas -> Int] /\ \A q \in Quotas : Own(q)' = Own(q)
  <2>1. ledger' = [q \in Quotas |-> ledger[q] + Held(q)' - Held(q)]
    BY DEF EndpointStep
  <2>2. ASSUME NEW q \in Quotas PROVE ledger'[q] \in Int /\ Own(q)' = Own(q)
    BY <1>1, <1>4, <2>1 DEF Own
  <2> QED
    BY <2>1, <2>2
<1>6. TypeOK'
  BY <1>1, <1>2, <1>3, <1>5 DEF TypeOK
<1>7. Lasting /\ SameMissions /\ StatusChangeIsEdge
  BY <1>1, <1>2, StandingLasts
<1>8. \A x \in Submitters : SubKnows(x)'
  BY <1>1, <1>2, <1>7, KnowsKept DEF IInv
<1>9. AnswersTruthful' /\ EditsKnow'
  BY <1>1, <1>2, <1>6, <1>7, AnswersKept, EditsKept DEF IInv
<1>10. EnergyAccounted'
  BY <1>1, <1>2, <1>5, <1>6, <1>7, AccountsKept DEF IInv, Holding
<1> QED
  BY <1>3, <1>6, <1>7, <1>8, <1>9, <1>10 DEF IInv

-----------------------------------------------------------------------------
(* Failed statements and crashes.                                           *)

LEMMA SubmitFailsKeeps ==
  ASSUME IInv, NEW s \in Submitters, SubmitFails(s)
  PROVE  IInv' /\ StatusChangeIsEdge
<1>1. sub[s] # Done
  BY DEF SubmitFails
<1>2. UNCHANGED <<quota, mission, record, handover, call, edit, promote, backward, ledger>>
  BY DEF SubmitFails, rowVars
<1>3. faults' \in 0 .. MaxFaults
  BY <1>1, Given, IntakeAssumption DEF SubmitFails, Fault
<1>4. QuotaTypeOK' /\ Unborn' /\ \A q \in Quotas : Held(q)' = Held(q)
  BY <1>1, <1>2, Given, SameQuota
<1>5. CASE sub[s].pc = "insert"
  <2>1. Moved(s) /\ SubKnows(s)' /\ Holding(s) /\ Holding(s)'
    BY <1>1, <1>5, Given, Going DEF SubmitFails, AfterFailure, SubKnows, Holding, SubPc, Done
  <2>2. Strand({})
    BY <1>5 DEF SubmitFails
  <2>3. UNCHANGED stranded
    BY <1>1, <2>2, Given, StrandNone
  <2> QED
    BY <1>1, <1>2, <1>3, <1>4, <2>1, <2>3, Given, QuietRequestKeeps
<1>6. CASE sub[s].pc \in {"reread", "compensate"}
  <2>1. Moved(s) /\ sub'[s] = Done /\ SubKnows(s)' /\ Holding(s) /\ ~Holding(s)'
    BY <1>1, <1>6, Given, Ending DEF SubmitFails, AfterFailure, SubKnows, Holding
  <2>2. Strand({s})
    BY <1>6 DEF SubmitFails
  <2>3. PICK p \in Quotas, n \in Nat : p = sub[s].quota /\ n = sub[s].energy
    BY <1>1, Given
  <2>4. /\ stranded' \in [Quotas -> Nat]
        /\ stranded'[p] = stranded[p] + n
        /\ \A q \in Quotas \ {p} : stranded'[q] = stranded[q]
    BY <1>1, <2>1, <2>2, <2>3, Given, StrandOne
  <2>5. Own(p)' = Own(p) - n /\ \A q \in Quotas \ {p} : Own(q)' = Own(q)
    <3>1. ledger[p] \in Int /\ Held(p) \in Int /\ stranded[p] \in Nat
      BY <1>1, Given, SpokenTypes
    <3> QED
      BY <1>2, <1>4, <2>4, <3>1 DEF Own
  <2>6. TypeOK' /\ SameMissions
    BY <1>1, <1>2, <1>3, <1>4, <2>1, <2>4, Given, StandingLasts DEF TypeOK, Moved
  <2>7. EnergyAccounted'
    BY <2>1, <2>3, <2>5, <2>6, AccountsReturned DEF IInv, Moved
  <2> QED
    BY <1>1, <1>2, <1>3, <1>4, <2>1, <2>4, <2>7, Given, RequestKeeps
<1>7. CASE sub[s].pc \notin {"insert", "reread", "compensate"}
  <2>1. ~Holding(s)
    BY <1>7 DEF Holding
  <2>2. UNCHANGED stranded
    <3>1. Strand({s}) /\ \A q \in Quotas : {s} \intersect HoldersOf(q) = {}
      BY <1>7, <2>1 DEF SubmitFails, HoldersOf
    <3> QED
      BY <1>1, <3>1, Given, StrandNone
  <2>3. Moved(s) /\ SubKnows(s)' /\ ~Holding(s)'
    <3>1. CASE sub[s].pc = "handover"
      <4>1. MissionMade(s) /\ sub[s].answer \in {"accepted", "queued", "rejected"}
        BY <1>1, <3>1, Given DEF SubKnows, Sub
      <4>2. Store(s, sub[s].answer)
        BY <3>1 DEF SubmitFails, AfterFailure
      <4>3. /\ Moved(s)
            /\ sub'[s] # Done => /\ sub'[s].pc = "cache" /\ sub'[s].key \in Keys
                                 /\ sub'[s].mission = sub[s].mission
        BY <1>1, <4>1, <4>2, Given, Storing
      <4>4. sub'[s] # Done => MissionMade(s)'
        BY <1>1, <1>2, <4>1, <4>3, Given, MadeKept, StandingLasts DEF Moved
      <4> QED
        BY <4>3, <4>4 DEF SubKnows, Holding
    <3>2. CASE sub[s].pc # "handover"
      BY <1>1, <1>7, <3>2, Given, Ending DEF SubmitFails, AfterFailure, SubKnows, Holding
    <3> QED
      BY <3>1, <3>2
  <2> QED
    BY <1>1, <1>2, <1>3, <1>4, <2>1, <2>2, <2>3, Given, QuietRequestKeeps
<1> QED
  BY <1>5, <1>6, <1>7

LEMMA CrashKeeps ==
  ASSUME IInv, Crash
  PROVE  IInv' /\ StatusChangeIsEdge
<1>1. /\ call' = [c \in Callers |-> Done]
      /\ sub' = [s \in Submitters |-> Done]
      /\ edit' = [o \in Operators |-> Done]
      /\ promote' = Done
      /\ UNCHANGED <<quota, mission, record, handover, backward, ledger>>
  BY DEF Crash, rowVars
<1>2. TypeOK /\ faults' \in 0 .. MaxFaults
  BY IntakeAssumption DEF IInv, TypeOK, Crash, Fault
<1>3. /\ stranded' \in [Quotas -> Nat]
      /\ \A q \in Quotas : stranded'[q] = stranded[q] + SpokenByRequests(q)
  BY <1>2, StrandAll DEF Crash
<1>4. TypeOK' /\ Unborn'
  BY <1>1, <1>2, <1>3 DEF IInv, TypeOK, QuotaTypeOK, Unborn
<1>5. ASSUME NEW q \in Quotas PROVE Own(q)' = Own(q) - SpokenByRequests(q)
  <2>1. Held(q)' = Held(q) /\ ledger'[q] = ledger[q]
    BY <1>1 DEF Held
  <2> QED
    BY <1>2, <1>3, <2>1, SpokenTypes DEF Own
<1>6. Lasting /\ SameMissions /\ StatusChangeIsEdge
  BY <1>1, <1>2, StandingLasts
<1>7. \A x \in Submitters : SubKnows(x)' /\ ~Holding(x)'
  BY <1>1 DEF SubKnows, Holding
<1>8. AnswersTruthful' /\ EditsKnow'
  BY <1>1, <1>6, AnswersKept DEF IInv, EditsKnow
<1>9. EnergyAccounted'
  BY <1>2, <1>4, <1>5, <1>6, <1>7, AccountsStranded DEF IInv
<1> QED
  BY <1>4, <1>6, <1>7, <1>8, <1>9 DEF IInv

LEMMA StutterKeeps ==
  ASSUME IInv, UNCHANGED vars
  PROVE  IInv' /\ StatusChangeIsEdge
<1>1. UNCHANGED <<quota, call, mission, record, handover, sub, edit, promote, faults, backward, ledger, stranded>>
  BY DEF vars, history
<1>2. TypeOK
  BY DEF IInv
<1>3. TypeOK' /\ Unborn' /\ \A q \in Quotas : Own(q)' = Own(q)
  BY <1>1, <1>2 DEF IInv, TypeOK, QuotaTypeOK, Unborn, Own, Held
<1>4. Lasting /\ SameMissions /\ StatusChangeIsEdge
  BY <1>1, <1>2, StandingLasts
<1>5. \A x \in Submitters : SubKnows(x)'
  BY <1>1, <1>2, <1>4, KnowsKept DEF IInv
<1>6. AnswersTruthful' /\ EditsKnow'
  BY <1>1, <1>2, <1>3, <1>4, AnswersKept, EditsKept DEF IInv
<1>7. EnergyAccounted'
  BY <1>1, <1>2, <1>3, <1>4, AccountsKept DEF IInv, Holding
<1> QED
  BY <1>3, <1>4, <1>5, <1>6, <1>7 DEF IInv

-----------------------------------------------------------------------------
(* The theorems.                                                            *)

\* The invariant holds of empty tables.
LEMMA IntakeInit == Init => IInv
<1> SUFFICES ASSUME Init PROVE IInv
  OBVIOUS
<1>1. QuotaTypeOK /\ Unborn
  BY QuotaInitInv DEF Init, QInv, Rows, QuotaTypeOK
<1>2. record \in [Keys -> Record]
  BY DEF Init, NoRecord, Record
<1>3. TypeOK
  <2>1. ledger \in [Quotas -> Int] /\ stranded \in [Quotas -> Nat] /\ faults \in 0 .. MaxFaults
    BY IntakeAssumption DEF Init
  <2>2. /\ mission \in [Missions -> MissionRow \union {Unused}]
        /\ handover \subseteq Missions
        /\ sub \in [Submitters -> Sub \union {Done}]
        /\ edit \in [Operators -> Edit \union {Done}]
        /\ promote \in Edit \union {Done}
    BY DEF Init
  <2> QED
    BY <1>1, <1>2, <2>1, <2>2 DEF TypeOK
<1>4. \A s \in Submitters : SubKnows(s)
  BY DEF Init, SubKnows
<1>5. AnswersTruthful /\ EditsKnow
  BY DEF Init, NoRecord, AnswersTruthful, EditsKnow, Exists
<1>6. ASSUME NEW q \in Quotas
      PROVE  Own(q) = SpokenByMissions(q) + SpokenByRequests(q)
  <2>1. MissionsOf(q) = {} /\ HoldersOf(q) = {}
    BY DEF Init, MissionsOf, HoldersOf, Exists, Holding
  <2>2. UnitsOf(mission, {}) = {} /\ UnitsOf(sub, {}) = {}
    BY DEF UnitsOf
  <2>3. SpokenByMissions(q) = 0 /\ SpokenByRequests(q) = 0
    BY <2>1, <2>2, FS_EmptySet DEF SpokenByMissions, SpokenByRequests
  <2>4. Own(q) = 0
    BY DEF Init, QuotaInit, NoQuota, Own, Held
  <2> QED
    BY <2>3, <2>4
<1>7. EnergyAccounted
  BY <1>3, <1>6, AccountsByRow DEF AccountedByRow
<1> QED
  BY <1>1, <1>3, <1>4, <1>5, <1>7 DEF IInv

\* Every step of a request keeps it.
LEMMA SubmitStepKeeps ==
  ASSUME IInv, NEW s \in Submitters, SubmitStep(s)
  PROVE  IInv' /\ StatusChangeIsEdge
<1>1. UNCHANGED <<call, edit, promote, faults, backward, ledger>>
  BY DEF SubmitStep
<1>2. CASE Compensate(s)
  <2>1. Strand(IF quota' = quota THEN {s} ELSE {})
    BY <1>2 DEF SubmitStep, Compensate
  <2> QED
    BY <1>1, <1>2, <2>1, CompensateKeeps
<1>3. CASE ~Compensate(s)
  <2>1. sub[s].pc # "compensate"
    BY <1>3 DEF SubmitStep, Proceed, Submit, LookUp, ReserveLook, ReserveTake, ReserveRefused,
       Reread, Insert, OpenHandover, Cache, Done
  <2>2. Strand({})
    BY <2>1 DEF SubmitStep
  <2>3. UNCHANGED stranded
    BY <2>2, StrandNone DEF IInv
  <2>4. Elsewhere
    BY <1>1, <2>3 DEF Elsewhere
  <2> QED
    BY <1>3, <2>4, SubmitKeeps, LookUpKeeps, ReserveLookKeeps, ReserveTakeKeeps,
       ReserveRefusedKeeps, RereadKeeps, InsertKeeps, OpenHandoverKeeps, CacheKeeps
       DEF SubmitStep, Proceed
<1> QED
  BY <1>2, <1>3

\* And so does every other step; none changes a status beyond an edge.
LEMMA IntakeNextKeeps ==
  ASSUME IInv, [Next]_vars
  PROVE  IInv' /\ StatusChangeIsEdge
<1>1. CASE UNCHANGED vars
  BY <1>1, StutterKeeps
<1>2. ASSUME NEW s \in Submitters, SubmitStep(s) \/ SubmitFails(s)
      PROVE  IInv' /\ StatusChangeIsEdge
  BY <1>2, SubmitStepKeeps, SubmitFailsKeeps
<1>3. ASSUME NEW o \in Operators, EditStep(o)
      PROVE  IInv' /\ StatusChangeIsEdge
  <2>1. UNCHANGED <<quota, call, sub, promote, faults, backward, ledger, stranded>>
    BY <1>3 DEF EditStep, history
  <2>2. CASE EditWrite(o)
    BY <2>1, <2>2, EditWriteKeeps
  <2>3. ASSUME NEW m \in Missions, CancelRead(o, m) PROVE IInv' /\ StatusChangeIsEdge
    <3>1. mission[m].priority \in Priorities
      BY <2>3, RecordTypes DEF CancelRead, IInv, MissionRow
    <3> QED
      BY <2>1, <2>3, <3>1, ReadKeeps
  <2>4. ASSUME NEW m \in Missions, NEW p \in Priorities, PriorityRead(o, m, p)
        PROVE  IInv' /\ StatusChangeIsEdge
    BY <2>1, <2>4, ReadKeeps
  <2> QED
    BY <1>3, <2>2, <2>3, <2>4 DEF EditStep
<1>4. CASE AdvanceStep
  BY <1>4, AdvanceKeeps
<1>5. CASE ExpireStep
  BY <1>5, ExpireKeeps DEF ExpireStep, history
<1>6. CASE EndpointStep
  BY <1>6, EndpointKeeps
<1>7. CASE Crash
  BY <1>7, CrashKeeps
<1> QED
  BY <1>1, <1>2, <1>3, <1>4, <1>5, <1>6, <1>7 DEF Next

\* What is known of rows, requests and copies holds in every state.
LEMMA IntakeInvariant == Spec => []IInv
<1>1. IInv /\ [Next]_vars => IInv'
  BY IntakeNextKeeps
<1> QED
  BY <1>1, IntakeInit, PTL DEF Spec

\* Rows, local copies and history stay within their domains.
THEOREM IntakeTypeCorrect == Spec => []TypeOK
<1>1. IInv => TypeOK
  BY DEF IInv
<1> QED
  BY <1>1, IntakeInvariant, PTL

\* The energy of a day is accounted for to the unit: lost races and refused
\* inserts leave nothing unexplained, what compensations with a stale version,
\* failed statements and crashes leave on a row is counted, and no mission is
\* uncovered, whatever signs the amounts of the endpoints have.
THEOREM EnergyAlwaysAccounted == Spec => []EnergyAccounted
<1>1. IInv => EnergyAccounted
  BY DEF IInv
<1> QED
  BY <1>1, IntakeInvariant, PTL

\* An acceptance that is stored, in whatever order requests with the same key
\* inserted, failed and stored, names a mission that exists under the key; and
\* however often a client asks again, its key has one mission.
THEOREM AnswersAreTruthful == Spec => []AnswersTruthful
<1>1. IInv => AnswersTruthful
  BY DEF IInv
<1> QED
  BY <1>1, IntakeInvariant, PTL

\* A cancellation, a change of priority and a promotion that race on copies of
\* one mission change its status only along the state machine, one version at
\* a time.
THEOREM MissionMachineFollowed == Spec => MissionFollowsMachine
<1>1. IInv /\ [Next]_vars => StatusChangeIsEdge
  BY IntakeNextKeeps
<1> QED
  BY <1>1, IntakeInvariant, PTL DEF Spec, MissionFollowsMachine

-----------------------------------------------------------------------------
(* The quota rows under the whole intake.                                   *)

\* The statements a request runs on quota rows are steps of the allowance.
LEMMA IntakeRowStep ==
  ASSUME IInv, Rows, [Next]_vars
  PROVE  Rows' /\ AllowanceStep
<1>1. QInv
  BY DEF QInv, IInv, TypeOK, QuotaTypeOK
<1>2. ASSUME UNCHANGED <<quota, backward>> PROVE Rows' /\ AllowanceStep
  BY <1>1, <1>2, UnchangedRows DEF QInv
<1>3. ASSUME NEW s \in Submitters, SubmitStep(s) PROVE Rows' /\ AllowanceStep
  <2>0. UNCHANGED backward
    BY <1>3 DEF SubmitStep
  <2>1. CASE ReserveLook(s)
    <3>1. sub[s] # Done
      BY <2>1 DEF ReserveLook, Done
    <3> QED
      BY <1>1, <2>0, <2>1, <3>1, Given, GetOrCreateRows
         DEF ReserveLook, QInv, Unborn, AllowanceStep
  <2>2. CASE ReserveTake(s)
    <3>1. sub[s] # Done
      BY <2>2 DEF ReserveTake, Done
    <3>2. sub[s].quota \in Quotas /\ sub[s].energy \in Nat \ {0}
      BY <3>1, Given
    <3> QED
      BY <2>0, <2>2, <3>2, ReserveRows DEF ReserveTake
  <2>3. CASE Compensate(s)
    <3>1. sub[s] # Done
      BY <2>3 DEF Compensate, Done
    <3>2. PICK p \in Quotas, n \in Int : p = sub[s].quota /\ n = sub[s].energy /\ ~(n < 0)
      BY <3>1, Given
    <3>3. quota' = ReleaseQuota(p, n, sub[s].version + 1)
      BY <2>3, <3>2 DEF Compensate, GivenBack
    <3>4. Note(p, "release", n)
      BY <2>0, <3>2, NothingNoted
    <3> QED
      BY <3>2, <3>3, <3>4, ReleaseRows
  <2>4. CASE ~(ReserveLook(s) \/ ReserveTake(s) \/ Compensate(s))
    <3>1. UNCHANGED quota
      BY <1>3, <2>4 DEF SubmitStep, Proceed, Submit, LookUp, ReserveRefused, Reread, Insert,
         OpenHandover, Cache
    <3> QED
      BY <1>2, <2>0, <3>1
  <2> QED
    BY <2>1, <2>2, <2>3, <2>4
<1>4. CASE EndpointStep
  BY <1>1, <1>4, QuotaStep DEF EndpointStep, QInv
<1>5. CASE ~(EndpointStep \/ \E s \in Submitters : SubmitStep(s))
  <2>1. UNCHANGED <<quota, backward>>
    BY <1>5 DEF Next, vars, history, EditStep, AdvanceStep, ExpireStep, Expire, SubmitFails, Crash
  <2> QED
    BY <1>2, <2>1
<1> QED
  BY <1>3, <1>4, <1>5

\* Reservations made by missions, with their retries and compensations, share
\* the day's rows with the endpoints and keep its limit too: only clients'
\* negative amounts take a row past its bounds.
THEOREM IntakeLimitKept == Spec => []WithinLimit
<1>1. Init => IInv /\ Rows
  BY IntakeInit, QuotaInitInv DEF Init, QInv
<1>2. IInv /\ Rows /\ [Next]_vars => (IInv /\ Rows)'
  BY IntakeNextKeeps, IntakeRowStep
<1>3. IInv /\ Rows => WithinLimit
  BY DEF Rows
<1> QED
  BY <1>1, <1>2, <1>3, PTL DEF Spec

\* The mission service and the endpoints together implement the allowance, for
\* amounts of either sign.
THEOREM IntakeRefinement == Spec => AllowanceSpec
<1>1. Init => IInv /\ Rows
  BY IntakeInit, QuotaInitInv DEF Init, QInv
<1>2. IInv /\ Rows /\ [Next]_vars => (IInv /\ Rows)'
  BY IntakeNextKeeps, IntakeRowStep
<1>3. Init => Allowed!AllowanceInit
  BY DEF Init, QuotaInit, Allowed!AllowanceInit, NoQuota, Op
<1>4. IInv /\ Rows /\ [Next]_vars => [Allowed!AllowanceNext]_Allowed!allowanceVars
  BY IntakeRowStep DEF AllowanceStep, Allowed!allowanceVars, allUnits, reservedUnits, usedUnits,
     recalledUnits, overdrawnUnits
<1> QED
  BY <1>1, <1>2, <1>3, <1>4, PTL DEF Spec, AllowanceSpec, Allowed!AllowanceSpec
=============================================================================
