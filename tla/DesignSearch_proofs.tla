------------------------ MODULE DesignSearch_proofs ------------------------
(***************************************************************************)
(* For every configuration and every evaluation: a retained result is one  *)
(* evaluation of what was saved with it, the search is exhaustive and      *)
(* keeps the best, no global wire tried improves a result, and what main   *)
(* reports is the best of all cells, with the tag array of the same cell.  *)
(***************************************************************************)
EXTENDS DesignSearch, TLAPS

USE ZenonT(20), SMTT(20)

OutcomeType == [lat : Nat, en : Nat, invalid : BOOLEAN]

(***************************************************************************)
(* What compareAndUpdate keeps.                                            *)
(***************************************************************************)

\* The result r of an array of this kind is one of the evaluations e.
Faithful(e, kind, r) ==
    Real(r) => \E k \in DOMAIN e : EvaluationOf(k, kind, r) /\ e[k] = Metrics(r.bank)

\* A score is a number.
LEMMA ScoreIsNat ==
    ASSUME NEW t \in TargetSet, NEW b, b.lat \in Nat, b.en \in Nat
    PROVE  Score(t, b) \in Nat
BY SMTT(20) DEF Score, TargetSet

\* compareAndUpdate returns the old result or a copy of the new one that keeps
\* the old limits.
LEMMA UpdateChooses ==
    ASSUME NEW t, NEW old, NEW new
    PROVE  compareAndUpdate(t, old, new) \in {old, Copied(old, new)}
BY DEF compareAndUpdate

\* A copy is a result, as reproducible as its original.
LEMMA CopyIsFaithful ==
    ASSUME NEW old \in ResultType, NEW new \in ResultType, NEW e, NEW kind,
           Faithful(e, kind, new)
    PROVE  /\ Copied(old, new) \in ResultType
           /\ Faithful(e, kind, Copied(old, new))
           /\ Copied(old, new).limit = old.limit
           /\ Copied(old, new).bank = new.bank
<1>1. /\ Copied(old, new) \in ResultType /\ Copied(old, new).limit = old.limit
      /\ Copied(old, new).bank = new.bank
  BY DEF Copied, ResultType
<1>2. \A k : EvaluationOf(k, kind, new) => EvaluationOf(k, kind, Copied(old, new))
  BY DEF Copied, EvaluationOf
<1>. QED
  BY <1>1, <1>2 DEF Faithful, Real

\* So compareAndUpdate keeps types, limits and reproducibility.
LEMMA UpdateIsFaithful ==
    ASSUME NEW t, NEW old \in ResultType, NEW new \in ResultType, NEW e, NEW kind,
           Faithful(e, kind, old), Faithful(e, kind, new)
    PROVE  /\ compareAndUpdate(t, old, new) \in ResultType
           /\ Faithful(e, kind, compareAndUpdate(t, old, new))
           /\ compareAndUpdate(t, old, new).limit = old.limit
BY SMTT(20), UpdateChooses, CopyIsFaithful

\* compareAndUpdate never makes the result of its target worse, and makes it
\* at least as good as a candidate within the limits.
LEMMA UpdateIsBest ==
    ASSUME NEW t \in TargetSet, NEW old \in ResultType, NEW new \in ResultType
    PROVE  /\ Score(t, compareAndUpdate(t, old, new).bank) <= Score(t, old.bank)
           /\ WithinLimits(old.limit, new.bank) =>
                Score(t, compareAndUpdate(t, old, new).bank) <= Score(t, new.bank)
<1>1. Score(t, old.bank) \in Nat /\ Score(t, new.bank) \in Nat
  BY ScoreIsNat DEF ResultType, BankType
<1>2. Copied(old, new).bank = new.bank
  BY DEF Copied
<1>3. CASE Improves(t, old, new)
  BY SMTT(20), <1>1, <1>2, <1>3 DEF compareAndUpdate, Improves
<1>4. CASE ~Improves(t, old, new)
  BY SMTT(20), <1>1, <1>4 DEF compareAndUpdate, Improves
<1>. QED
  BY <1>3, <1>4

\* What a tempResult holds is the evaluation just made.
LEMMA TempIsFaithful ==
    ASSUME NEW c \in Nat, NEW kind, NEW d \in Nat, NEW l \in AnyWire, NEW g \in AnyWire,
           NEW n \in Nat, NEW o \in OutcomeType, NEW e,
           Key(c, kind, d, l, g, n) \in DOMAIN e,
           e[Key(c, kind, d, l, g, n)] = o
    PROVE  /\ TempResult(Key(c, kind, d, l, g, n), o) \in ResultType
           /\ Faithful(e, kind, TempResult(Key(c, kind, d, l, g, n), o))
<1>. DEFINE k == Key(c, kind, d, l, g, n)
            r == TempResult(k, o)
<1>1. NoLimit \in [TargetSet -> Nat]
  BY SMTT(20) DEF NoLimit, invalid_value
<1>2. r \in ResultType
  BY <1>1 DEF TempResult, Key, ResultType, BankType, OutcomeType
<1>3. EvaluationOf(k, kind, r)
  BY DEF EvaluationOf, TempResult, Key
<1>4. o = [lat |-> o.lat, en |-> o.en, invalid |-> o.invalid]
  BY DEF OutcomeType
<1>5. Metrics(r.bank) = o
  BY <1>4 DEF TempResult, Metrics
<1>. HIDE DEF k, r
<1>6. k \in DOMAIN e /\ e[k] = o
  BY DEF k
<1>7. Faithful(e, kind, r)
  BY <1>3, <1>5, <1>6 DEF Faithful
<1>. QED
  BY <1>2, <1>7 DEF k, r

\* An evaluation leaves the earlier ones as they were.
LEMMA CalculateKeeps ==
    ASSUME NEW k, NEW o, Calculate(k, o)
    PROVE  /\ o \in Outcomes
           /\ DOMAIN eval' = DOMAIN eval \cup {k}
           /\ eval'[k] = o
           /\ \A j \in DOMAIN eval : eval'[j] = eval[j]
BY DEF Calculate

\* and every result that was reproducible still is.
LEMMA StaysFaithful ==
    ASSUME NEW k, NEW o, Calculate(k, o), NEW kind, NEW r, Faithful(eval, kind, r)
    PROVE  Faithful(eval', kind, r)
BY CalculateKeeps DEF Faithful

(***************************************************************************)
(* The invariant.                                                          *)
(***************************************************************************)

Searching == {"tag", "data", "limit"}

\* Which bounds are loaded, and for which cells there are results.
Where ==
    /\ stage = "tag" => space = "reduced"
    /\ stage \in {"data", "limit"} => space = "user"
    /\ ~cfg.cache => space = "user"
    /\ stage = "cell" => DOMAIN best = 1..(cellIdx - 1) /\ cellIdx <= cfg.cells + 1
    /\ stage \in Searching => DOMAIN best = 1..cellIdx /\ cellIdx <= cfg.cells
    /\ stage \in {"merge", "done"} => DOMAIN best = 1..cfg.cells

Reproducible ==
    \A c \in DOMAIN best, kind \in Kinds, t \in TargetSet :
        Faithful(eval, kind, best[c][kind][t])

Basis == TypeOK /\ Where /\ Reproducible

\* Replacing the results of one array of one cell by faithful ones.
LEMMA RowKeeps ==
    ASSUME TypeOK, Reproducible, NEW c \in DOMAIN best, NEW kind \in Kinds,
           NEW row \in [TargetSet -> ResultType],
           \A t \in TargetSet : Faithful(eval', kind, row[t]),
           \A kd \in Kinds, r \in ResultType : Faithful(eval, kd, r) => Faithful(eval', kd, r),
           best' = [best EXCEPT ![c][kind] = row]
    PROVE  /\ DOMAIN best' = DOMAIN best
           /\ best' \in [DOMAIN best -> ResultsType]
           /\ Reproducible'
           /\ best'[c][kind] = row
<1>1. best \in [DOMAIN best -> ResultsType]
  BY DEF TypeOK
<1>2. DOMAIN best' = DOMAIN best /\ best' \in [DOMAIN best -> ResultsType]
  BY <1>1 DEF ResultsType
<1>3. /\ best'[c][kind] = row
      /\ \A x \in DOMAIN best, kd \in Kinds :
            <<x, kd>> # <<c, kind>> => best'[x][kd] = best[x][kd]
  BY <1>1 DEF ResultsType
<1>4. ASSUME NEW x \in DOMAIN best', NEW kd \in Kinds, NEW t \in TargetSet
      PROVE  Faithful(eval', kd, best'[x][kd][t])
  <2>1. CASE <<x, kd>> = <<c, kind>>
    BY <2>1, <1>3
  <2>2. CASE <<x, kd>> # <<c, kind>>
    <3>1. best'[x][kd][t] = best[x][kd][t] /\ x \in DOMAIN best
      BY <2>2, <1>2, <1>3
    <3>2. best[x][kd][t] \in ResultType
      BY SMTT(20), <3>1, <1>1 DEF ResultsType
    <3>3. Faithful(eval, kd, best[x][kd][t])
      BY <3>1 DEF Reproducible
    <3>. QED
      BY <3>1, <3>2, <3>3
  <2>. QED
    BY <2>1, <2>2
<1>. QED
  BY <1>2, <1>3, <1>4 DEF Reproducible

\* The outcomes are typed.
LEMMA OutcomeTyped ==
    ASSUME NEW o \in Outcomes
    PROVE  o \in OutcomeType
BY OutcomeAssumption DEF OutcomeType

\* The bounds loaded are a search space.
LEMMA SpaceTyped ==
    ASSUME TypeOK
    PROVE  /\ Space \in SearchSpace
           /\ Space.designs \in Seq(Design)
           /\ Space.local.basic \in Wire /\ Space.local.refine \in Seq(Wire)
           /\ Space.global.basic \in Wire /\ Space.global.refine \in Seq(Wire)
<1>1. cfg.space \in [SpaceNames -> SearchSpace] /\ space \in SpaceNames
  BY DEF TypeOK, ConfigType
<1>2. Space \in SearchSpace
  BY <1>1 DEF Space
<1>. QED
  BY <1>2 DEF SearchSpace, WireRange

\* Offering an evaluation with the basic wires to every target.
LEMMA OfferKeeps ==
    ASSUME TypeOK, Reproducible, cellIdx \in DOMAIN best, NEW kind \in Kinds,
           NEW d \in Nat, NEW n \in Nat, NEW o \in Outcomes,
           Calculate(BasicKey(kind, d, n), o),
           UpdateBest(kind, TempResult(BasicKey(kind, d, n), o))
    PROVE  /\ DOMAIN best' = DOMAIN best
           /\ best' \in [DOMAIN best -> ResultsType]
           /\ Reproducible'
           /\ best'[cellIdx][kind] =
                [t \in TargetSet |->
                    compareAndUpdate(t, best[cellIdx][kind][t],
                                     TempResult(BasicKey(kind, d, n), o))]
<1>. DEFINE k == BasicKey(kind, d, n)
            r == TempResult(k, o)
            row == [t \in TargetSet |-> compareAndUpdate(t, best[cellIdx][kind][t], r)]
<1>1. /\ k \in DOMAIN eval' /\ eval'[k] = o
      /\ \A kd \in Kinds, x \in ResultType : Faithful(eval, kd, x) => Faithful(eval', kd, x)
  <2>1. Calculate(k, o)
    OBVIOUS
  <2>. HIDE DEF k
  <2>2. k \in DOMAIN eval' /\ eval'[k] = o
    <3>1. DOMAIN eval' = DOMAIN eval \cup {k} /\ eval'[k] = o
      BY <2>1, CalculateKeeps, Zenon
    <3>. QED BY <3>1
  <2>3. \A kd \in Kinds, x \in ResultType : Faithful(eval, kd, x) => Faithful(eval', kd, x)
    BY <2>1, StaysFaithful, Zenon
  <2>. QED BY <2>2, <2>3
<1>2. r \in ResultType /\ Faithful(eval', kind, r)
  <2>1. cellIdx \in Nat /\ o \in OutcomeType
    BY OutcomeTyped DEF TypeOK
  <2>2. Space.local.basic \in AnyWire /\ Space.global.basic \in AnyWire
    BY SpaceTyped DEF AnyWire
  <2>3. k = Key(cellIdx, kind, d, Space.local.basic, Space.global.basic, n)
    BY DEF BasicKey
  <2>. QED
    BY <1>1, <2>1, <2>2, <2>3, TempIsFaithful
<1>3. \A t \in TargetSet :
        /\ best[cellIdx][kind][t] \in ResultType
        /\ Faithful(eval', kind, best[cellIdx][kind][t])
  BY SMTT(20), <1>1 DEF TypeOK, ResultsType, Reproducible
<1>4. /\ row \in [TargetSet -> ResultType]
      /\ \A t \in TargetSet : Faithful(eval', kind, row[t])
  BY <1>2, <1>3, UpdateIsFaithful
<1>5. best' = [best EXCEPT ![cellIdx][kind] = row]
  <2>1. best \in [DOMAIN best -> ResultsType]
    BY DEF TypeOK
  <2>. QED
    BY <2>1 DEF UpdateBest, ResultsType
<1>. HIDE DEF row
<1>6. /\ DOMAIN best' = DOMAIN best
      /\ best' \in [DOMAIN best -> ResultsType]
      /\ Reproducible'
      /\ best'[cellIdx][kind] = row
  BY <1>1, <1>4, <1>5, RowKeeps
<1>. QED
  BY <1>6 DEF row

\* One trial of a refinement loop.
LEMMA TrialKeeps ==
    ASSUME TypeOK, Reproducible, cellIdx \in DOMAIN best, NEW kind \in Kinds,
           NEW t \in TargetSet, NEW l \in AnyWire, NEW g \in AnyWire,
           TryAndUpdate(kind, t, l, g)
    PROVE  /\ DOMAIN best' = DOMAIN best
           /\ best' \in [DOMAIN best -> ResultsType]
           /\ Reproducible'
           /\ \A k \in DOMAIN eval' : eval'[k] \in Outcomes
           /\ \A k \in DOMAIN eval : k \in DOMAIN eval' /\ eval'[k] = eval[k]
           /\ \A u \in TargetSet :
                /\ Score(u, best'[cellIdx][kind][u].bank)
                        <= Score(u, best[cellIdx][kind][u].bank)
                /\ best'[cellIdx][kind][u].limit = best[cellIdx][kind][u].limit
           /\ \A kd \in Kinds : kd # kind => best'[cellIdx][kd] = best[cellIdx][kd]
<1>. DEFINE old == best[cellIdx][kind][t]
            k == Key(cellIdx, kind, old.bank.design, l, g, layerCount)
<1>1. PICK o \in Outcomes :
        /\ Calculate(k, o)
        /\ best' = [best EXCEPT ![cellIdx][kind][t] =
                        compareAndUpdate(t, @, TempResult(k, o))]
  BY DEF TryAndUpdate
<1>. DEFINE new == compareAndUpdate(t, old, TempResult(k, o))
            row == [best[cellIdx][kind] EXCEPT ![t] = new]
<1>2. best \in [DOMAIN best -> ResultsType] /\ best[cellIdx] \in ResultsType
      /\ best[cellIdx][kind] \in [TargetSet -> ResultType] /\ old \in ResultType
  BY SMTT(20) DEF TypeOK, ResultsType
<1>3. /\ k \in DOMAIN eval' /\ eval'[k] = o
      /\ DOMAIN eval' = DOMAIN eval \cup {k}
      /\ \A j \in DOMAIN eval : eval'[j] = eval[j]
      /\ \A kd \in Kinds, x \in ResultType : Faithful(eval, kd, x) => Faithful(eval', kd, x)
  <2>1. Calculate(k, o)
    BY <1>1
  <2>. HIDE DEF k
  <2>2. /\ k \in DOMAIN eval' /\ eval'[k] = o
        /\ DOMAIN eval' = DOMAIN eval \cup {k}
        /\ \A j \in DOMAIN eval : eval'[j] = eval[j]
    BY <2>1, CalculateKeeps, Zenon
  <2>3. \A kd \in Kinds, x \in ResultType : Faithful(eval, kd, x) => Faithful(eval', kd, x)
    BY <2>1, StaysFaithful, Zenon
  <2>. QED
    BY <2>2, <2>3
<1>4. TempResult(k, o) \in ResultType /\ Faithful(eval', kind, TempResult(k, o))
  <2>1. cellIdx \in Nat /\ layerCount \in Nat /\ o \in OutcomeType /\ old.bank.design \in Nat
    BY <1>2, OutcomeTyped DEF TypeOK, ResultType, BankType
  <2>. QED
    BY <1>3, <2>1, TempIsFaithful
<1>5. \A u \in TargetSet : /\ best[cellIdx][kind][u] \in ResultType
                            /\ Faithful(eval', kind, best[cellIdx][kind][u])
  BY <1>2, <1>3 DEF Reproducible
<1>6. /\ new \in ResultType /\ Faithful(eval', kind, new) /\ new.limit = old.limit
      /\ Score(t, new.bank) <= Score(t, old.bank)
  BY <1>2, <1>4, <1>5, UpdateIsFaithful, UpdateIsBest
<1>. HIDE DEF new, old, k
<1>7. /\ row \in [TargetSet -> ResultType]
      /\ row[t] = new /\ \A u \in TargetSet : u # t => row[u] = best[cellIdx][kind][u]
  BY <1>2, <1>6
<1>8. \A u \in TargetSet : Faithful(eval', kind, row[u])
  BY <1>5, <1>6, <1>7
<1>9. best' = [best EXCEPT ![cellIdx][kind] = row]
  BY <1>1, <1>2 DEF ResultsType, new, old
<1>10. \A kd \in Kinds : kd # kind => best'[cellIdx][kd] = best[cellIdx][kd]
  BY <1>2, <1>9 DEF ResultsType
<1>. HIDE DEF row
<1>11. /\ DOMAIN best' = DOMAIN best
       /\ best' \in [DOMAIN best -> ResultsType]
       /\ Reproducible'
       /\ best'[cellIdx][kind] = row
  <2>1. row \in [TargetSet -> ResultType]
    BY <1>7
  <2>2. \A kd \in Kinds, x \in ResultType : Faithful(eval, kd, x) => Faithful(eval', kd, x)
    BY <1>3
  <2>. QED
    BY <2>1, <2>2, <1>8, <1>9, RowKeeps
<1>12. \A u \in TargetSet : Score(u, best[cellIdx][kind][u].bank) \in Nat
  BY <1>5, ScoreIsNat DEF ResultType, BankType
<1>13. \A u \in TargetSet :
         /\ Score(u, best'[cellIdx][kind][u].bank) <= Score(u, best[cellIdx][kind][u].bank)
         /\ best'[cellIdx][kind][u].limit = best[cellIdx][kind][u].limit
  BY SMTT(20), <1>6, <1>7, <1>11, <1>12 DEF old
<1>14. \A j \in DOMAIN eval' : eval'[j] \in Outcomes
  BY <1>3 DEF TypeOK
<1>. QED
  BY <1>3, <1>10, <1>11, <1>13, <1>14

(***************************************************************************)
(* Coverage of the search space.                                           *)
(***************************************************************************)

\* Organisation d was evaluated and, when valid, offered to every target.
Covered(kind, d) ==
    \E k \in BasicEvaluations(kind, d) :
        eval[k].invalid \/
        \A t \in TargetSet :
            Score(t, best[cellIdx][kind][t].bank) <= Score(t, eval[k])

SearchedSoFar ==
    \A kind \in Kinds : stage = kind =>
        \A d \in Searchable(kind) : loop # "design" \/ d < at => Covered(kind, d)

\* Limits appear only when the constraints are applied.
Unlimited ==
    stage \in Kinds =>
        \A kind \in Kinds, t \in TargetSet : best[cellIdx][kind][t].limit = NoLimit

IInv == Basis /\ Unlimited /\ SearchedSoFar

\* Coverage persists while evaluations are added and results improve.
LEMMA CoveredPersists ==
    ASSUME NEW kind \in Kinds, NEW d, Covered(kind, d),
           cellIdx' = cellIdx, cfg' = cfg,
           \A k \in DOMAIN eval : eval[k] \in Outcomes,
           \A k \in DOMAIN eval : k \in DOMAIN eval' /\ eval'[k] = eval[k],
           \A t \in TargetSet :
               /\ Score(t, best[cellIdx][kind][t].bank) \in Nat
               /\ Score(t, best'[cellIdx][kind][t].bank) \in Nat
               /\ Score(t, best'[cellIdx][kind][t].bank)
                      <= Score(t, best[cellIdx][kind][t].bank)
    PROVE  Covered(kind, d)'
<1>1. PICK k \in BasicEvaluations(kind, d) :
        eval[k].invalid \/
        \A t \in TargetSet : Score(t, best[cellIdx][kind][t].bank) <= Score(t, eval[k])
  BY DEF Covered
<1>2. k \in DOMAIN eval /\ eval'[k] = eval[k] /\ k \in BasicEvaluations(kind, d)'
  BY <1>1 DEF BasicEvaluations, SpaceOf
<1>3. \A t \in TargetSet : Score(t, eval[k]) \in Nat
  BY <1>2, OutcomeTyped, ScoreIsNat DEF OutcomeType
<1>4. eval'[k].invalid \/
      \A t \in TargetSet : Score(t, best'[cellIdx][kind][t].bank) <= Score(t, eval'[k])
  BY SMTT(20), <1>1, <1>2, <1>3
<1>. QED
  BY <1>2, <1>4 DEF Covered

\* The results of a cell have numeric scores.
LEMMA ScoresAreNat ==
    ASSUME NEW b, NEW D, b \in [D -> ResultsType]
    PROVE  \A c \in D, kind \in Kinds, t \in TargetSet :
             b[c][kind][t] \in ResultType /\ Score(t, b[c][kind][t].bank) \in Nat
BY SMTT(20), ScoreIsNat DEF ResultsType, ResultType, BankType

\* The bounds a search runs with are those of its array.
LEMMA SpaceIsOwn ==
    ASSUME Where
    PROVE  /\ stage = "tag" => Space = SpaceOf("tag")
           /\ stage \in {"data", "limit"} => Space = SpaceOf("data")
BY DEF Where, Space, SpaceOf

\* The organisations of a search space are numbered from 1.
LEMMA SearchableIsIndex ==
    ASSUME TypeOK
    PROVE  \A kind \in Kinds : \A d \in Searchable(kind) :
             d \in Nat /\ d >= 1 /\ d <= Len(SpaceOf(kind).designs)
<1>1. cfg.space \in [SpaceNames -> SearchSpace]
  BY DEF TypeOK, ConfigType
<1>2. \A kind \in Kinds : SpaceOf(kind) \in SearchSpace
  BY <1>1 DEF SpaceOf, SpaceNames
<1>3. \A kind \in Kinds : SpaceOf(kind).designs \in Seq(Design)
  BY <1>2 DEF SearchSpace
<1>. QED
  BY SMTT(20), <1>3 DEF Searchable

\* A valid outcome passes the limits of a search without constraints.
LEMMA ValidIsUnlimited ==
    ASSUME NEW o \in Outcomes, ~o.invalid
    PROVE  WithinLimits(NoLimit, o)
<1>1. /\ o.lat < invalid_value /\ o.en < invalid_value /\ o.lat * o.en < invalid_value
      /\ o.lat \in Nat /\ o.en \in Nat
  BY OutcomeAssumption
<1>2. o.lat * o.en \in Nat
  BY SMTT(20), <1>1
<1>3. Score("lat", o) = o.lat /\ Score("en", o) = o.en /\ Score("edp", o) = o.lat * o.en
  BY DEF Score
<1>4. \A t \in TargetSet : NoLimit[t] = invalid_value
  BY DEF NoLimit
<1>5. Score("lat", o) <= invalid_value /\ Score("en", o) <= invalid_value
      /\ Score("edp", o) <= invalid_value
  BY SMTT(20), <1>1, <1>2, <1>3 DEF invalid_value
<1>. QED
  BY <1>4, <1>5 DEF WithinLimits, TargetSet

\* The exploration starts in the invariant.
LEMMA InitHolds == Init => IInv
<1>. SUFFICES ASSUME Init PROVE IInv
  OBVIOUS
<1>1. TypeOK
  BY SMTT(20), ConfigAssumption DEF Init, TypeOK, SpaceNames, InitialLayers
<1>2. Where
  <2>1. cfg.cells \in Nat
    BY ConfigAssumption DEF Init, ConfigType
  <2>. QED
    BY SMTT(20), <2>1 DEF Init, Where, Searching
<1>3. Reproducible
  BY DEF Init, Reproducible
<1>4. Unlimited /\ SearchedSoFar
  BY DEF Init, Unlimited, SearchedSoFar, Kinds
<1>. QED
  BY <1>1, <1>2, <1>3, <1>4 DEF IInv, Basis

\* The results of a cell nobody searched are empty.
LEMMA FreshIsFaithful ==
    ASSUME NEW c \in Nat
    PROVE  /\ FreshResults(c) \in ResultsType
           /\ \A kind \in Kinds, t \in TargetSet :
                /\ FreshResults(c)[kind][t].limit = NoLimit
                /\ ~Real(FreshResults(c)[kind][t])
<1>1. NoLimit \in [TargetSet -> Nat] /\ NoBank \in BankType
  BY SMTT(20) DEF NoLimit, invalid_value, NoBank, BankType
<1>2. NewResult(c) \in ResultType /\ NewResult(c).limit = NoLimit
  BY <1>1 DEF NewResult, ResultType, AnyWire
<1>3. ~Real(NewResult(c))
  BY SMTT(20) DEF Real, NewResult, NoBank, invalid_value
<1>. QED
  BY <1>2, <1>3 DEF FreshResults, ResultsType

\* A new cell starts with empty results.
LEMMA StartKeeps == IInv /\ StartCell => IInv'
<1>. SUFFICES ASSUME IInv, StartCell PROVE IInv'
  OBVIOUS
<1>. USE DEF IInv, Basis
<1>1. cellIdx \in Nat \ {0} /\ cfg.cells \in Nat /\ DOMAIN best = 1..(cellIdx - 1)
  BY DEF TypeOK, Where, StartCell, ConfigType
<1>2. DOMAIN best' = 1..cellIdx /\ best'[cellIdx] = FreshResults(cellIdx)
      /\ \A c \in DOMAIN best : best'[c] = best[c]
  BY SMTT(20), <1>1 DEF StartCell
<1>3. best' \in [DOMAIN best' -> ResultsType]
  <2>1. \A c \in DOMAIN best' : c = cellIdx \/ c \in DOMAIN best
    BY SMTT(20), <1>1, <1>2
  <2>2. \A c \in DOMAIN best' : best'[c] \in ResultsType
    BY <1>1, <1>2, <2>1, FreshIsFaithful DEF TypeOK
  <2>3. best' = [c \in DOMAIN best \cup {cellIdx} |->
                    IF c = cellIdx THEN FreshResults(c) ELSE best[c]]
    BY DEF StartCell
  <2>. QED
    BY <2>2, <2>3
<1>4. TypeOK'
  <2>1. stage' \in {"tag", "data"} /\ at' = 1 /\ tgt' = 1 /\ space' \in SpaceNames
    BY DEF StartCell, GoTo, TypeOK, SpaceNames
  <2>2. UNCHANGED <<cfg, layerCount, cellIdx, eval>>
    BY DEF StartCell
  <2>. QED
    BY SMTT(20), <1>3, <2>1, <2>2 DEF TypeOK
<1>5. Where'
  BY <1>1, <1>2 DEF StartCell, GoTo, Where, Searching, TypeOK, SpaceNames
<1>6. Reproducible'
  <2>1. ASSUME NEW c \in DOMAIN best', NEW kind \in Kinds, NEW t \in TargetSet
        PROVE  Faithful(eval', kind, best'[c][kind][t])
    <3>1. CASE c = cellIdx
      BY <3>1, <1>1, <1>2, FreshIsFaithful DEF Faithful
    <3>2. CASE c # cellIdx
      <4>1. c \in DOMAIN best
        BY SMTT(20), <3>2, <1>1, <1>2
      <4>. QED
        BY <4>1, <1>2 DEF Reproducible, StartCell
    <3>. QED
      BY <3>1, <3>2
  <2>. QED
    BY <2>1 DEF Reproducible
<1>7. Unlimited'
  BY <1>1, <1>2, FreshIsFaithful DEF Unlimited, StartCell
<1>8. SearchedSoFar'
  <2>1. cfg' = cfg /\ loop' = "design" /\ at' = 1
    BY DEF StartCell, GoTo
  <2>2. \A kind \in Kinds : \A d \in Searchable(kind) : d \in Nat /\ d >= 1
    BY SearchableIsIndex
  <2>3. \A kind \in Kinds : Searchable(kind)' = Searchable(kind)
    BY <2>1 DEF Searchable, SpaceOf
  <2>. QED
    BY SMTT(20), <2>1, <2>2, <2>3 DEF SearchedSoFar
<1>. QED
  BY <1>4, <1>5, <1>6, <1>7, <1>8

\* One organisation of the tag or data search.
LEMMA SearchKeeps ==
    ASSUME NEW kind \in Kinds, IInv, SearchDesign(kind)
    PROVE  IInv'
<1>. USE DEF IInv, Basis
<1>0. PICK d : d = at
  OBVIOUS
<1>1. /\ stage = kind /\ loop = "design" /\ at <= Len(Space.designs)
      /\ at \in Nat \ {0} /\ at' = at + 1
      /\ UNCHANGED <<cfg, space, cellIdx, stage, loop, tgt>>
  BY DEF SearchDesign, TypeOK
<1>2. /\ stage \in Searching /\ DOMAIN best = 1..cellIdx /\ cellIdx \in DOMAIN best
      /\ Space = SpaceOf(kind)
  BY SMTT(20), <1>1, SpaceIsOwn DEF Where, Searching, Kinds, TypeOK
<1>3. layerCount' \in Nat
  <2>1. Space.designs[at] \in Design
    BY SMTT(20), <1>1, SpaceTyped
  <2>. QED
    BY <2>1 DEF SearchDesign, SetLayerCount, TypeOK, Design
<1>4. /\ DOMAIN best' = DOMAIN best /\ best' \in [DOMAIN best -> ResultsType]
      /\ Reproducible'
      /\ \A k \in DOMAIN eval' : eval'[k] \in Outcomes
      /\ \A k \in DOMAIN eval : k \in DOMAIN eval' /\ eval'[k] = eval[k]
      /\ \A u \in TargetSet :
            /\ Score(u, best'[cellIdx][kind][u].bank) <= Score(u, best[cellIdx][kind][u].bank)
            /\ best'[cellIdx][kind][u].limit = best[cellIdx][kind][u].limit
      /\ \A kd \in Kinds : kd # kind => best'[cellIdx][kd] = best[cellIdx][kd]
      /\ d \in Searchable(kind) => Covered(kind, d)'
  <2>0. /\ best \in [DOMAIN best -> ResultsType]
        /\ \A t \in TargetSet : /\ best[cellIdx][kind][t] \in ResultType
                                 /\ Score(t, best[cellIdx][kind][t].bank) \in Nat
                                 /\ best[cellIdx][kind][t].limit = NoLimit
    BY <1>1, <1>2, ScoresAreNat DEF TypeOK, Unlimited
  <2>1. CASE Skipped(kind, at)
    <3>1. UNCHANGED <<eval, best>>
      BY <2>1 DEF SearchDesign
    <3>2. Reproducible'
      BY <3>1 DEF Reproducible
    <3>3. d \notin Searchable(kind)
      BY <1>0, <1>2, <2>1 DEF Skipped, Searchable
    <3>. QED
      BY SMTT(20), <2>0, <3>1, <3>2, <3>3 DEF TypeOK
  <2>2. CASE ~Skipped(kind, at)
    <3>. DEFINE k == BasicKey(kind, d, layerCount')
    <3>1. PICK o \in Outcomes :
            /\ Calculate(k, o)
            /\ o.invalid => UNCHANGED best
            /\ ~o.invalid => UpdateBest(kind, TempResult(k, o))
      BY <1>0, <2>2 DEF SearchDesign
    <3>2. /\ DOMAIN eval' = DOMAIN eval \cup {k} /\ eval'[k] = o
          /\ \A j \in DOMAIN eval : eval'[j] = eval[j]
      BY <3>1, CalculateKeeps
    <3>3. \A j \in DOMAIN eval' : eval'[j] \in Outcomes
      BY <3>2 DEF TypeOK
    <3>4. k \in BasicEvaluations(kind, d)'
      BY <1>1, <1>2, <3>2 DEF BasicKey, Key, BasicEvaluations, SpaceOf
    <3>5. CASE o.invalid
      <4>1. best' = best
        BY <3>1, <3>5
      <4>2. Reproducible'
        BY <3>1, <4>1, StaysFaithful DEF Reproducible
      <4>3. Covered(kind, d)'
        BY <3>2, <3>4, <3>5 DEF Covered
      <4>. QED
        BY SMTT(20), <2>0, <3>2, <3>3, <4>1, <4>2, <4>3
    <3>6. CASE ~o.invalid
      <4>. DEFINE r == TempResult(k, o)
      <4>1. /\ DOMAIN best' = DOMAIN best /\ best' \in [DOMAIN best -> ResultsType]
            /\ Reproducible'
            /\ best'[cellIdx][kind] =
                 [t \in TargetSet |-> compareAndUpdate(t, best[cellIdx][kind][t], r)]
        BY SMTT(20), <1>0, <1>1, <1>2, <1>3, <3>1, <3>6, OfferKeeps
      <4>2. r \in ResultType /\ Faithful(eval', kind, r)
        <5>1. cellIdx \in Nat /\ o \in OutcomeType /\ d \in Nat
          BY <1>0, <1>1, OutcomeTyped DEF TypeOK
        <5>2. Space.local.basic \in AnyWire /\ Space.global.basic \in AnyWire
          BY SpaceTyped DEF AnyWire
        <5>3. k = Key(cellIdx, kind, d, Space.local.basic, Space.global.basic, layerCount')
          BY DEF BasicKey
        <5>. QED
          BY <1>3, <3>2, <5>1, <5>2, <5>3, TempIsFaithful
      <4>3. r.bank.lat = o.lat /\ r.bank.en = o.en
        BY DEF TempResult
      <4>4. \A t \in TargetSet : Score(t, r.bank) = Score(t, o)
        BY <4>3 DEF Score
      <4>5. WithinLimits(NoLimit, r.bank)
        BY <3>6, <4>4, ValidIsUnlimited DEF WithinLimits
      <4>6. \A t \in TargetSet :
              /\ Score(t, best'[cellIdx][kind][t].bank) <= Score(t, best[cellIdx][kind][t].bank)
              /\ Score(t, best'[cellIdx][kind][t].bank) <= Score(t, r.bank)
              /\ best'[cellIdx][kind][t].limit = best[cellIdx][kind][t].limit
        <5>. SUFFICES ASSUME NEW t \in TargetSet
                      PROVE  /\ Score(t, best'[cellIdx][kind][t].bank)
                                    <= Score(t, best[cellIdx][kind][t].bank)
                             /\ Score(t, best'[cellIdx][kind][t].bank) <= Score(t, r.bank)
                             /\ best'[cellIdx][kind][t].limit = best[cellIdx][kind][t].limit
          OBVIOUS
        <5>. DEFINE old == best[cellIdx][kind][t]
        <5>1. best'[cellIdx][kind][t] = compareAndUpdate(t, old, r)
          BY <4>1
        <5>2. old \in ResultType /\ old.limit = NoLimit
          BY <2>0
        <5>. HIDE DEF old, r, k
        <5>3. compareAndUpdate(t, old, r) \in {old, Copied(old, r)}
          BY UpdateChooses
        <5>4. compareAndUpdate(t, old, r).limit = old.limit
          BY SMTT(20), <5>3 DEF Copied
        <5>5. /\ Score(t, compareAndUpdate(t, old, r).bank) <= Score(t, old.bank)
              /\ Score(t, compareAndUpdate(t, old, r).bank) <= Score(t, r.bank)
          BY <4>2, <4>5, <5>2, UpdateIsBest
        <5>. QED
          BY <5>1, <5>4, <5>5 DEF old
      <4>7. \A kd \in Kinds : kd # kind => best'[cellIdx][kd] = best[cellIdx][kd]
        BY <1>2, <2>0, <3>1, <3>6 DEF UpdateBest, ResultsType
      <4>8. Covered(kind, d)'
        <5>1. \A t \in TargetSet :
                 Score(t, best'[cellIdx][kind][t].bank) <= Score(t, eval'[k])
          BY <3>2, <4>4, <4>6
        <5>. QED
          BY <1>1, <3>4, <5>1 DEF Covered
      <4>. QED
        BY <3>2, <3>3, <4>1, <4>6, <4>7, <4>8
    <3>. QED
      BY <3>5, <3>6
  <2>. QED
    BY <2>1, <2>2
<1>5. TypeOK'
  BY SMTT(20), <1>1, <1>3, <1>4 DEF TypeOK
<1>6. Where'
  BY <1>1, <1>2, <1>4 DEF Where
<1>7. Unlimited'
  BY SMTT(20), <1>1, <1>2, <1>4 DEF Unlimited
<1>8. SearchedSoFar'
  <2>1. \A e \in Searchable(kind) : e < at => Covered(kind, e)'
    <3>1. \A t \in TargetSet : /\ Score(t, best[cellIdx][kind][t].bank) \in Nat
                               /\ Score(t, best'[cellIdx][kind][t].bank) \in Nat
      BY <1>2, <1>4, ScoresAreNat DEF TypeOK
    <3>2. \A e \in Searchable(kind) : e < at => Covered(kind, e)
      BY <1>1 DEF SearchedSoFar
    <3>3. \A k \in DOMAIN eval : eval[k] \in Outcomes
      BY DEF TypeOK
    <3>. QED
      BY <1>1, <1>4, <3>1, <3>2, <3>3, CoveredPersists
  <2>2. Searchable(kind)' = Searchable(kind)
    BY <1>1 DEF Searchable, SpaceOf
  <2>3. \A e \in Searchable(kind) : e < at' => Covered(kind, e)'
    <3>1. \A e \in Searchable(kind) : e \in Nat /\ (e < at' => e < at \/ e = d)
      BY SMTT(20), <1>0, <1>1, SearchableIsIndex
    <3>. QED
      BY <1>4, <2>1, <3>1
  <2>. QED
    BY <1>1, <2>2, <2>3 DEF SearchedSoFar
<1>. QED
  BY <1>4, <1>5, <1>6, <1>7, <1>8

\* One trial of either refinement loop.
LEMMA RefineKeeps ==
    ASSUME NEW kind \in Kinds, IInv, RefineLocalWire(kind) \/ RefineGlobalWire(kind)
    PROVE  IInv'
<1>. USE DEF IInv, Basis
<1>1. /\ stage = kind /\ loop # "design"
      /\ UNCHANGED <<cfg, space, layerCount, cellIdx, stage, loop>>
  BY DEF RefineLocalWire, RefineGlobalWire
<1>2. /\ stage \in Searching /\ DOMAIN best = 1..cellIdx /\ cellIdx \in DOMAIN best
      /\ best \in [DOMAIN best -> ResultsType]
  BY SMTT(20), <1>1 DEF Where, Searching, Kinds, TypeOK
<1>3. at' \in Nat \ {0} /\ tgt' \in 1..3
  BY SMTT(20) DEF RefineLocalWire, RefineGlobalWire, NextTrial, Targets, TypeOK
<1>4. /\ Targets[tgt] \in TargetSet
      /\ best[cellIdx][kind][Targets[tgt]].localWire \in AnyWire
      /\ best[cellIdx][kind][Targets[tgt]].globalWire \in AnyWire
  <2>1. Targets[tgt] \in TargetSet
    BY SMTT(20) DEF Targets, TargetSet, TypeOK
  <2>2. best[cellIdx][kind][Targets[tgt]] \in ResultType
    BY SMTT(20), <1>2, <2>1 DEF ResultsType
  <2>. QED
    BY <2>1, <2>2 DEF ResultType
<1>5. \E l \in AnyWire, g \in AnyWire : TryAndUpdate(kind, Targets[tgt], l, g)
  <2>1. CASE RefineLocalWire(kind)
    <3>1. Space.local.refine[at] \in AnyWire
      BY SMTT(20), <2>1, SpaceTyped DEF RefineLocalWire, TypeOK, AnyWire
    <3>. QED
      BY <1>4, <2>1, <3>1 DEF RefineLocalWire
  <2>2. CASE RefineGlobalWire(kind)
    <3>1. Space.global.refine[at] \in AnyWire
      BY SMTT(20), <2>2, SpaceTyped DEF RefineGlobalWire, TypeOK, AnyWire
    <3>. QED
      BY <1>4, <2>2, <3>1 DEF RefineGlobalWire
  <2>. QED
    BY <2>1, <2>2
<1>6. /\ DOMAIN best' = DOMAIN best /\ best' \in [DOMAIN best -> ResultsType]
      /\ Reproducible'
      /\ \A k \in DOMAIN eval' : eval'[k] \in Outcomes
      /\ \A k \in DOMAIN eval : k \in DOMAIN eval' /\ eval'[k] = eval[k]
      /\ \A u \in TargetSet :
            /\ Score(u, best'[cellIdx][kind][u].bank) <= Score(u, best[cellIdx][kind][u].bank)
            /\ best'[cellIdx][kind][u].limit = best[cellIdx][kind][u].limit
      /\ \A kd \in Kinds : kd # kind => best'[cellIdx][kd] = best[cellIdx][kd]
  BY <1>2, <1>4, <1>5, TrialKeeps
<1>7. TypeOK'
  BY <1>1, <1>3, <1>6 DEF TypeOK
<1>8. Where'
  BY <1>1, <1>2, <1>6 DEF Where
<1>9. Unlimited'
  BY SMTT(20), <1>1, <1>2, <1>6 DEF Unlimited
<1>10. SearchedSoFar'
  <2>1. \A t \in TargetSet : /\ Score(t, best[cellIdx][kind][t].bank) \in Nat
                             /\ Score(t, best'[cellIdx][kind][t].bank) \in Nat
    BY <1>2, <1>6, ScoresAreNat
  <2>2. \A d \in Searchable(kind) : Covered(kind, d)
    BY <1>1 DEF SearchedSoFar
  <2>3. \A k \in DOMAIN eval : eval[k] \in Outcomes
    BY DEF TypeOK
  <2>4. \A d \in Searchable(kind) : Covered(kind, d)'
    BY <1>1, <1>6, <2>1, <2>2, <2>3, CoveredPersists
  <2>5. Searchable(kind)' = Searchable(kind)
    BY <1>1 DEF Searchable, SpaceOf
  <2>. QED
    BY <1>1, <2>4, <2>5 DEF SearchedSoFar
<1>. QED
  BY <1>6, <1>7, <1>8, <1>9, <1>10

\* The steps that only move on leave results and evaluations alone.
LEMMA MoveKeeps ==
    ASSUME IInv,
           \/ \E kind \in Kinds : SearchDone(kind) \/ RefineDone(kind)
           \/ TagFailed \/ TagDone \/ CellDone \/ StartMerge \/ Report
    PROVE  IInv'
<1>. USE DEF IInv, Basis
<1>1. UNCHANGED <<cfg, layerCount, best, eval>> /\ at' = 1 /\ tgt' = 1
  BY DEF SearchDone, RefineDone, TagFailed, TagDone, CellDone, StartMerge, Report, GoTo
<1>2. Reproducible'
  BY <1>1 DEF Reproducible
<1>3. cellIdx \in Nat \ {0} /\ cfg.cells \in Nat /\ cfg \in ConfigType
  BY DEF TypeOK, ConfigType
<1>4. TypeOK'
  <2>1. space' = space \/ space' = "user"
    BY DEF SearchDone, RefineDone, TagFailed, TagDone, CellDone, StartMerge, Report
  <2>2. cellIdx' \in {cellIdx, cellIdx + 1, 2}
    BY DEF SearchDone, RefineDone, TagFailed, TagDone, CellDone, StartMerge, Report
  <2>3. stage' \in {"cell", "tag", "data", "merge", "done"}
    BY DEF SearchDone, RefineDone, TagFailed, TagDone, CellDone, StartMerge, Report, GoTo, Kinds
  <2>4. space' \in SpaceNames /\ cellIdx' \in Nat \ {0}
    BY SMTT(20), <1>3, <2>1, <2>2 DEF TypeOK, SpaceNames
  <2>. QED
    BY SMTT(20), <1>1, <2>3, <2>4 DEF TypeOK
<1>5. ASSUME NEW kind \in Kinds, SearchDone(kind) \/ RefineDone(kind)
      PROVE  Where' /\ Unlimited' /\ SearchedSoFar'
  <2>1. /\ stage = kind /\ stage' = kind /\ loop' # "design"
        /\ UNCHANGED <<space, cellIdx>>
        /\ loop # "design" \/ at > Len(Space.designs)
    BY <1>5 DEF SearchDone, RefineDone, GoTo
  <2>2. Where' /\ Unlimited'
    BY <1>1, <2>1 DEF Where, Unlimited
  <2>3. Space = SpaceOf(kind)
    BY <2>1, SpaceIsOwn DEF Kinds
  <2>4. \A d \in Searchable(kind) : Covered(kind, d)
    <3>1. \A d \in Searchable(kind) : d \in Nat /\ d <= Len(SpaceOf(kind).designs)
      BY SearchableIsIndex
    <3>2. at \in Nat /\ Len(SpaceOf(kind).designs) \in Nat
      BY SMTT(20), <2>3, SpaceTyped DEF TypeOK
    <3>3. \A d \in Searchable(kind) : loop # "design" \/ d < at
      BY SMTT(20), <2>1, <2>3, <3>1, <3>2
    <3>. QED
      BY <2>1, <3>3 DEF SearchedSoFar
  <2>5. \A d \in Searchable(kind) : Covered(kind, d)'
    BY <1>1, <2>1, <2>4 DEF Covered, BasicEvaluations, SpaceOf
  <2>6. Searchable(kind)' = Searchable(kind)
    BY <1>1 DEF Searchable, SpaceOf
  <2>. QED
    BY <2>1, <2>2, <2>5, <2>6 DEF SearchedSoFar
<1>6. ASSUME TagDone
      PROVE  Where' /\ Unlimited' /\ SearchedSoFar'
  <2>1. /\ stage = "tag" /\ stage' = "data" /\ loop' = "design" /\ space' = "user"
        /\ UNCHANGED cellIdx
    BY <1>6 DEF TagDone, GoTo
  <2>2. Where' /\ Unlimited'
    BY <1>1, <1>3, <2>1 DEF Where, Unlimited, Searching, Kinds
  <2>3. \A kind \in Kinds : \A d \in Searchable(kind)' : d \in Nat /\ d >= 1
    <3>1. \A kind \in Kinds : Searchable(kind)' = Searchable(kind)
      BY <1>1 DEF Searchable, SpaceOf
    <3>. QED
      BY <3>1, SearchableIsIndex
  <2>4. SearchedSoFar'
    BY SMTT(20), <1>1, <2>1, <2>3 DEF SearchedSoFar
  <2>. QED
    BY <2>2, <2>4
<1>7. ASSUME TagFailed \/ CellDone \/ StartMerge \/ Report
      PROVE  Where' /\ Unlimited' /\ SearchedSoFar'
  <2>1. stage' \in {"cell", "merge", "done"} /\ space' = space
    BY <1>7 DEF TagFailed, CellDone, StartMerge, Report, GoTo
  <2>2. Unlimited' /\ SearchedSoFar'
    BY <2>1 DEF Unlimited, SearchedSoFar, Kinds
  <2>3. CASE TagFailed \/ CellDone
    <3>1. stage \in Searching /\ stage' = "cell" /\ cellIdx' = cellIdx + 1
      BY <2>3 DEF TagFailed, CellDone, GoTo, Searching
    <3>. QED
      BY SMTT(20), <1>1, <1>3, <2>1, <2>2, <3>1 DEF Where, Searching
  <2>4. CASE StartMerge \/ Report
    <3>1. DOMAIN best = 1..cfg.cells /\ stage' \in {"merge", "done"}
      <4>1. CASE StartMerge
        <5>1. /\ stage' = "merge" /\ DOMAIN best = 1..(cellIdx - 1)
              /\ cellIdx <= cfg.cells + 1 /\ cellIdx > cfg.cells
          BY <4>1 DEF StartMerge, GoTo, Where
        <5>2. cellIdx - 1 = cfg.cells
          BY SMTT(20), <1>3, <5>1
        <5>. QED
          BY <5>1, <5>2
      <4>2. CASE Report
        BY <4>2 DEF Report, GoTo, Where
      <4>. QED
        BY <2>4, <4>1, <4>2
    <3>. QED
      BY <1>1, <2>1, <2>2, <3>1 DEF Where, Searching
  <2>. QED
    BY <1>7, <2>3, <2>4
<1>. QED
  BY <1>2, <1>4, <1>5, <1>6, <1>7

\* A bank without metrics is a bank.
LEMMA EmptiedBank ==
    ASSUME NEW b \in BankType, NEW v \in Nat
    PROVE  /\ [b EXCEPT !.lat = v, !.en = v] \in BankType
           /\ [b EXCEPT !.lat = v, !.en = v].lat = v
<1>. DEFINE c == [b EXCEPT !.lat = v]
<1>1. c \in BankType /\ c.lat = v
  BY DEF BankType
<1>. HIDE DEF c
<1>2. [c EXCEPT !.en = v] \in BankType /\ [c EXCEPT !.en = v].lat = v
  BY <1>1 DEF BankType
<1>. QED
  BY <1>2 DEF c

\* APPLY_LIMIT empties the results and gives them limits.
LEMMA LimitsAreFaithful ==
    ASSUME TypeOK, NEW row \in [TargetSet -> ResultType]
    PROVE  /\ ApplyLimit(row) \in [TargetSet -> ResultType]
           /\ \A t \in TargetSet : /\ ~Real(ApplyLimit(row)[t])
                                    /\ ApplyLimit(row)[t].limit = Allowed(row)
<1>1. \A t \in TargetSet : Score(t, row[t].bank) \in Nat
  BY ScoreIsNat DEF ResultType, BankType
<1>2. \A t \in TargetSet : cfg.constraint[t] \in Nat
  BY DEF TypeOK, ConfigType
<1>3. Allowed(row) \in [TargetSet -> Nat]
  <2>1. \A t \in TargetSet : Score(t, row[t].bank) * (cfg.constraint[t] + 1) \in Nat
    BY SMTT(20), <1>1, <1>2
  <2>. QED
    BY <2>1 DEF Allowed
<1>4. ASSUME NEW t \in TargetSet
      PROVE  /\ ApplyLimit(row)[t] \in ResultType
             /\ ~Real(ApplyLimit(row)[t])
             /\ ApplyLimit(row)[t].limit = Allowed(row)
  <2>. DEFINE r == row[t]
              q == reset(r)
  <2>1. r \in ResultType
    OBVIOUS
  <2>2. q \in ResultType /\ q.bank.lat = invalid_value
    <3>1. r.bank \in BankType
      BY <2>1 DEF ResultType
    <3>. DEFINE b == [r.bank EXCEPT !.lat = invalid_value, !.en = invalid_value]
    <3>2. b \in BankType /\ b.lat = invalid_value
      <4>1. invalid_value \in Nat
        BY SMTT(20) DEF invalid_value
      <4>. QED
        BY <3>1, <4>1, EmptiedBank
    <3>3. q = [r EXCEPT !.bank = b]
      BY <2>1 DEF ResultType, reset
    <3>. HIDE DEF b
    <3>. QED
      BY <2>1, <3>2, <3>3 DEF ResultType
  <2>3. ApplyLimit(row)[t] = [q EXCEPT !.limit = Allowed(row)]
    BY DEF ApplyLimit
  <2>. HIDE DEF q
  <2>4. /\ [q EXCEPT !.limit = Allowed(row)] \in ResultType
        /\ [q EXCEPT !.limit = Allowed(row)].limit = Allowed(row)
        /\ [q EXCEPT !.limit = Allowed(row)].bank = q.bank
    BY <1>3, <2>2 DEF ResultType
  <2>. QED
    BY SMTT(20), <2>2, <2>3, <2>4 DEF Real, invalid_value
<1>5. ApplyLimit(row) = [t \in TargetSet |-> ApplyLimit(row)[t]]
  BY DEF ApplyLimit
<1>. QED
  BY <1>4, <1>5

\* Turning relative constraints into limits keeps every result reproducible.
LEMMA ConstrainKeeps == IInv /\ Constrain => IInv'
<1>. SUFFICES ASSUME IInv, Constrain PROVE IInv'
  OBVIOUS
<1>. USE DEF IInv, Basis
<1>1. /\ stage = "data" /\ stage' = "limit" /\ at' = 1 /\ tgt' = 1
      /\ UNCHANGED <<cfg, space, layerCount, cellIdx, eval>>
  BY DEF Constrain, GoTo
<1>2. /\ best \in [DOMAIN best -> ResultsType] /\ DOMAIN best = 1..cellIdx
      /\ cellIdx \in DOMAIN best
  BY SMTT(20), <1>1 DEF Where, TypeOK, Searching
<1>. DEFINE row == ApplyLimit(best[cellIdx]["data"])
<1>3. /\ row \in [TargetSet -> ResultType]
      /\ \A t \in TargetSet : Faithful(eval', "data", row[t])
  <2>1. best[cellIdx]["data"] \in [TargetSet -> ResultType]
    BY <1>2 DEF ResultsType, Kinds
  <2>. QED
    BY <2>1, LimitsAreFaithful DEF Faithful
<1>4. best' = [best EXCEPT ![cellIdx]["data"] = row]
  BY <1>2 DEF Constrain, ResultsType, Kinds
<1>. HIDE DEF row
<1>5. /\ DOMAIN best' = DOMAIN best /\ best' \in [DOMAIN best -> ResultsType]
      /\ Reproducible'
  <2>1. "data" \in Kinds
    BY DEF Kinds
  <2>2. \A kd \in Kinds, r \in ResultType : Faithful(eval, kd, r) => Faithful(eval', kd, r)
    BY <1>1
  <2>. QED
    BY <1>2, <1>3, <1>4, <2>1, <2>2, RowKeeps
<1>6. TypeOK' /\ Where'
  BY SMTT(20), <1>1, <1>2, <1>5 DEF TypeOK, Where, Searching
<1>7. Unlimited' /\ SearchedSoFar'
  BY <1>1 DEF Unlimited, SearchedSoFar, Kinds
<1>. QED
  BY <1>5, <1>6, <1>7

\* One organisation of the constrained search.
LEMMA ConstrainedKeeps == IInv /\ ConstrainedDesign => IInv'
<1>. SUFFICES ASSUME IInv, ConstrainedDesign PROVE IInv'
  OBVIOUS
<1>. USE DEF IInv, Basis
<1>0. "data" \in Kinds
  BY DEF Kinds
<1>1. /\ stage = "limit" /\ at' = at + 1 /\ at \in Nat \ {0} /\ layerCount \in Nat
      /\ UNCHANGED <<cfg, space, layerCount, cellIdx, stage, tgt>>
  BY DEF ConstrainedDesign, TypeOK
<1>2. /\ best \in [DOMAIN best -> ResultsType] /\ DOMAIN best = 1..cellIdx
      /\ cellIdx \in DOMAIN best
  BY SMTT(20), <1>1 DEF Where, TypeOK, Searching
<1>3. /\ DOMAIN best' = DOMAIN best /\ best' \in [DOMAIN best -> ResultsType]
      /\ Reproducible'
      /\ \A k \in DOMAIN eval' : eval'[k] \in Outcomes
  <2>1. CASE Skipped("data", at)
    BY <1>2, <2>1 DEF ConstrainedDesign, Reproducible, TypeOK
  <2>2. CASE ~Skipped("data", at)
    <3>. DEFINE k == BasicKey("data", at, layerCount)
    <3>1. PICK o \in Outcomes :
            Calculate(k, o) /\ (UNCHANGED best \/ UpdateBest("data", TempResult(k, o)))
      BY <2>2 DEF ConstrainedDesign
    <3>2. \A j \in DOMAIN eval' : eval'[j] \in Outcomes
      BY <3>1, CalculateKeeps DEF TypeOK
    <3>3. CASE UNCHANGED best
      <4>1. Reproducible'
        BY <3>1, <3>3, StaysFaithful DEF Reproducible
      <4>. QED
        BY <1>2, <3>2, <3>3, <4>1
    <3>4. CASE UpdateBest("data", TempResult(k, o))
      <4>1. at \in Nat
        BY <1>1
      <4>. QED
        BY <1>0, <1>1, <1>2, <3>1, <3>2, <3>4, <4>1, OfferKeeps
    <3>. QED
      BY <3>1, <3>3, <3>4
  <2>. QED
    BY <2>1, <2>2
<1>4. TypeOK' /\ Where'
  BY SMTT(20), <1>1, <1>2, <1>3 DEF TypeOK, Where, Searching
<1>5. Unlimited' /\ SearchedSoFar'
  BY <1>1 DEF Unlimited, SearchedSoFar, Kinds
<1>. QED
  BY <1>3, <1>4, <1>5

\* The comparison of the cells copies reproducible results.
LEMMA MergeKeeps == IInv /\ MergeCell => IInv'
<1>. SUFFICES ASSUME IInv, MergeCell PROVE IInv'
  OBVIOUS
<1>. USE DEF IInv, Basis
<1>1. /\ stage = "merge" /\ cellIdx <= cfg.cells /\ cellIdx' = cellIdx + 1
      /\ UNCHANGED <<cfg, space, layerCount, stage, at, tgt, eval>>
      /\ cfg.cells \in Nat \ {0} /\ cellIdx \in Nat \ {0}
  BY DEF MergeCell, TypeOK, ConfigType
<1>2. /\ best \in [DOMAIN best -> ResultsType] /\ DOMAIN best = 1..cfg.cells
      /\ 1 \in DOMAIN best /\ cellIdx \in DOMAIN best
  BY SMTT(20), <1>1 DEF Where, TypeOK
<1>3. \A c \in DOMAIN best, t \in TargetSet :
        /\ best[c].tag[t] \in ResultType /\ Faithful(eval, "tag", best[c].tag[t])
        /\ best[c].data[t] \in ResultType /\ Faithful(eval, "data", best[c].data[t])
  <2>1. "tag" \in Kinds /\ "data" \in Kinds
    BY DEF Kinds
  <2>. QED
    BY SMTT(20), <1>2, <2>1 DEF Reproducible, ResultsType
<1>. DEFINE tags == [t \in TargetSet |-> MergedTag(t)]
            data == [t \in TargetSet |->
                        compareAndUpdate(t, best[1].data[t], best[cellIdx].data[t])]
<1>4. /\ tags \in [TargetSet -> ResultType]
      /\ \A t \in TargetSet : Faithful(eval, "tag", tags[t])
  BY <1>2, <1>3, UpdateIsFaithful, CopyIsFaithful DEF MergedTag
<1>5. /\ data \in [TargetSet -> ResultType]
      /\ \A t \in TargetSet : Faithful(eval, "data", data[t])
  BY <1>2, <1>3, UpdateIsFaithful
<1>6. best' = [best EXCEPT ![1] = [tag |-> tags, data |-> data]]
  BY DEF MergeCell
<1>. HIDE DEF tags, data
<1>7. [tag |-> tags, data |-> data] \in ResultsType
  BY SMTT(20), <1>4, <1>5 DEF ResultsType, Kinds
<1>8. DOMAIN best' = DOMAIN best /\ best' \in [DOMAIN best -> ResultsType]
  BY <1>2, <1>6, <1>7
<1>9. ASSUME NEW c \in DOMAIN best', NEW kind \in Kinds, NEW t \in TargetSet
      PROVE  Faithful(eval', kind, best'[c][kind][t])
  <2>1. CASE c = 1
    <3>1. best'[c] = [tag |-> tags, data |-> data]
      BY <1>2, <1>6, <2>1
    <3>2. kind = "tag" \/ kind = "data"
      BY DEF Kinds
    <3>. QED
      BY SMTT(20), <1>1, <1>4, <1>5, <3>1, <3>2
  <2>2. CASE c # 1
    BY <1>1, <1>2, <1>6, <1>8, <2>2 DEF Reproducible
  <2>. QED
    BY <2>1, <2>2
<1>10. TypeOK' /\ Where' /\ Unlimited' /\ SearchedSoFar'
  <2>1. TypeOK'
    BY SMTT(20), <1>1, <1>8 DEF TypeOK
  <2>2. Where'
    BY <1>1, <1>2, <1>8 DEF Where, Searching
  <2>. QED
    BY <1>1, <2>1, <2>2 DEF Unlimited, SearchedSoFar, Kinds
<1>. QED
  BY <1>9, <1>10 DEF Reproducible

\* The steps that end the program leave every result as it is.
LEMMA ExitKeeps ==
    ASSUME IInv, RejectCell \/ \E kind \in Kinds : VerifyFailed(kind)
    PROVE  IInv'
<1>. USE DEF IInv, Basis
<1>1. /\ stage' = "exit" /\ loop' = "none" /\ at' = 1 /\ tgt' = 1
      /\ UNCHANGED <<cfg, space, cellIdx, best>>
  BY DEF RejectCell, VerifyFailed, GoTo
<1>2. /\ layerCount' \in Nat /\ \A k \in DOMAIN eval' : eval'[k] \in Outcomes
      /\ Reproducible'
  <2>1. CASE RejectCell
    BY <2>1 DEF RejectCell, TypeOK, Reproducible
  <2>2. ASSUME NEW kind \in Kinds, VerifyFailed(kind)
        PROVE  /\ layerCount' \in Nat /\ \A k \in DOMAIN eval' : eval'[k] \in Outcomes
               /\ Reproducible'
    <3>1. layerCount' \in Nat
      <4>1. at \in Nat \ {0} /\ at <= Len(Space.designs)
        BY <2>2 DEF VerifyFailed, TypeOK
      <4>2. Space.designs[at] \in Design
        BY SMTT(20), <4>1, SpaceTyped
      <4>. QED
        BY <2>2, <4>2 DEF VerifyFailed, SetLayerCount, TypeOK, Design
    <3>2. PICK o \in Outcomes : Calculate(BasicKey(kind, at, layerCount'), o)
      BY <2>2 DEF VerifyFailed
    <3>3. \A k \in DOMAIN eval' : eval'[k] \in Outcomes
      BY <3>2, CalculateKeeps DEF TypeOK
    <3>4. \A kd, x : Faithful(eval, kd, x) => Faithful(eval', kd, x)
      BY <3>2, StaysFaithful, Zenon
    <3>. QED
      BY <1>1, <3>1, <3>3, <3>4 DEF Reproducible
  <2>. QED
    BY <2>1, <2>2
<1>3. TypeOK'
  BY SMTT(20), <1>1, <1>2 DEF TypeOK
<1>4. Where'
  BY <1>1 DEF Where, Searching
<1>5. Unlimited' /\ SearchedSoFar'
  BY <1>1 DEF Unlimited, SearchedSoFar, Kinds
<1>. QED
  BY <1>2, <1>3, <1>4, <1>5

\* Every step keeps the invariant.
LEMMA StepKeeps == IInv /\ [Next]_vars => IInv'
<1>. SUFFICES ASSUME IInv, [Next]_vars PROVE IInv'
  OBVIOUS
<1>0. "tag" \in Kinds /\ "data" \in Kinds
  BY DEF Kinds
<1>1. CASE UNCHANGED vars
  <2>1. UNCHANGED <<cfg, space, layerCount, cellIdx, stage, loop, at, tgt, best, eval>>
    BY <1>1 DEF vars
  <2>2. TypeOK' /\ Where'
    BY <2>1 DEF IInv, Basis, TypeOK, Where
  <2>3. Reproducible'
    BY <2>1 DEF IInv, Basis, Reproducible
  <2>4. Unlimited' /\ SearchedSoFar'
    BY SMTT(20), <2>1
       DEF IInv, Unlimited, SearchedSoFar, Covered, BasicEvaluations, Searchable, SpaceOf
  <2>. QED
    BY <2>2, <2>3, <2>4 DEF IInv, Basis
<1>2. CASE StartCell
  BY <1>2, StartKeeps
<1>3. ASSUME NEW kind \in Kinds,
             \/ SearchDesign(kind) \/ SearchDone(kind) \/ RefineLocalWire(kind)
             \/ RefineGlobalWire(kind) \/ RefineDone(kind)
      PROVE  IInv'
  BY <1>3, SearchKeeps, RefineKeeps, MoveKeeps
<1>4. CASE TagFailed \/ TagDone \/ CellDone \/ StartMerge \/ Report
  BY <1>4, MoveKeeps
<1>5. CASE Constrain
  BY <1>5, ConstrainKeeps
<1>6. CASE ConstrainedDesign
  BY <1>6, ConstrainedKeeps
<1>7. CASE MergeCell
  BY <1>7, MergeKeeps
<1>8. CASE RejectCell \/ VerifyFailed("tag") \/ VerifyFailed("data")
  BY <1>0, <1>8, ExitKeeps
<1>. QED
  BY <1>0, <1>1, <1>2, <1>3, <1>4, <1>5, <1>6, <1>7, <1>8 DEF Next

\* The search state keeps its type.
THEOREM SearchTypeCorrect == Spec => []TypeOK
<1>1. IInv => TypeOK
  BY DEF IInv, Basis
<1>. QED
  BY <1>1, InitHolds, StepKeeps, PTL DEF Spec

\* Whatever the evaluations return, every result the exploration retains or
\* reports has the metrics of one evaluation, and the organisation, wires and
\* cell saved with it are those of this evaluation.  The layer count that the
\* TSV tables had in it is saved nowhere.
THEOREM ResultsAreReproducible == Spec => []SnapshotIsFaithful
<1>1. IInv => SnapshotIsFaithful
  BY DEF IInv, Basis, Reproducible, Faithful, SnapshotIsFaithful
<1>. QED
  BY <1>1, InitHolds, StepKeeps, PTL DEF Spec

\* For every search space the tag and the data search are exhaustive and keep
\* the best valid organisation of every target.
THEOREM SearchIsExhaustive == Spec => []BestOfSpace
<1>1. IInv => BestOfSpace
  BY DEF IInv, SearchedSoFar, Covered, BestOfSpace
<1>. QED
  BY <1>1, InitHolds, StepKeeps, PTL DEF Spec

(***************************************************************************)
(* The search under limits.                                                *)
(***************************************************************************)

LimitedBest(t) == best[cellIdx]["data"][t]

\* Organisation d was evaluated, and offered to target t if it fits.
CoveredWithin(d, t) ==
    \E k \in BasicEvaluations("data", d) :
        \/ eval[k].invalid
        \/ ~WithinLimits(LimitedBest(t).limit, eval[k])
        \/ Score(t, LimitedBest(t).bank) <= Score(t, eval[k])

Limited ==
    stage = "limit" =>
        \A t \in TargetSet :
            /\ LimitedBest(t).limit = LimitedBest("lat").limit
            /\ Real(LimitedBest(t)) =>
                  /\ ~LimitedBest(t).bank.invalid
                  /\ WithinLimits(LimitedBest(t).limit, LimitedBest(t).bank)
            /\ \A d \in Searchable("data") : d < at => CoveredWithin(d, t)

\* Coverage within the limits persists like coverage.
LEMMA CoveredWithinPersists ==
    ASSUME NEW t \in TargetSet, NEW d, CoveredWithin(d, t),
           cellIdx' = cellIdx, cfg' = cfg,
           \A k \in DOMAIN eval : eval[k] \in Outcomes,
           \A k \in DOMAIN eval : k \in DOMAIN eval' /\ eval'[k] = eval[k],
           Score(t, LimitedBest(t).bank) \in Nat,
           Score(t, LimitedBest(t)'.bank) \in Nat,
           Score(t, LimitedBest(t)'.bank) <= Score(t, LimitedBest(t).bank),
           LimitedBest(t)'.limit = LimitedBest(t).limit
    PROVE  CoveredWithin(d, t)'
<1>1. PICK k \in BasicEvaluations("data", d) :
        \/ eval[k].invalid
        \/ ~WithinLimits(LimitedBest(t).limit, eval[k])
        \/ Score(t, LimitedBest(t).bank) <= Score(t, eval[k])
  BY DEF CoveredWithin
<1>2. k \in DOMAIN eval /\ eval'[k] = eval[k] /\ k \in BasicEvaluations("data", d)'
  BY <1>1 DEF BasicEvaluations, SpaceOf
<1>3. Score(t, eval[k]) \in Nat
  BY <1>2, OutcomeTyped, ScoreIsNat DEF OutcomeType
<1>4. \/ eval'[k].invalid
      \/ ~WithinLimits(LimitedBest(t)'.limit, eval'[k])
      \/ Score(t, LimitedBest(t)'.bank) <= Score(t, eval'[k])
  BY SMTT(20), <1>1, <1>2, <1>3
<1>. QED
  BY <1>2, <1>4 DEF CoveredWithin

\* Applying the constraints starts a search with nothing retained.
LEMMA ConstrainLimits == IInv /\ Constrain => Limited'
<1>. SUFFICES ASSUME IInv, Constrain PROVE Limited'
  OBVIOUS
<1>. USE DEF IInv, Basis
<1>1. /\ stage = "data" /\ at' = 1 /\ UNCHANGED <<cfg, cellIdx>>
      /\ best \in [DOMAIN best -> ResultsType] /\ cellIdx \in DOMAIN best
  BY SMTT(20) DEF Constrain, GoTo, Where, TypeOK, Searching
<1>. DEFINE row == best[cellIdx]["data"]
<1>2. row \in [TargetSet -> ResultType]
  BY <1>1 DEF ResultsType, Kinds
<1>3. best'[cellIdx]["data"] = ApplyLimit(row)
  BY <1>1 DEF Constrain, ResultsType, Kinds
<1>. HIDE DEF row
<1>4. \A t \in TargetSet : /\ ~Real(ApplyLimit(row)[t])
                           /\ ApplyLimit(row)[t].limit = Allowed(row)
  BY <1>2, LimitsAreFaithful
<1>5. \A t \in TargetSet : LimitedBest(t)' = ApplyLimit(row)[t]
  BY <1>1, <1>3 DEF LimitedBest
<1>6. "lat" \in TargetSet
  BY DEF TargetSet
<1>7. \A d \in Searchable("data")' : d \in Nat /\ d >= 1
  <2>1. Searchable("data")' = Searchable("data") /\ "data" \in Kinds
    BY <1>1 DEF Searchable, SpaceOf, Kinds
  <2>. QED
    BY <2>1, SearchableIsIndex
<1>8. \A t \in TargetSet : /\ LimitedBest(t)'.limit = LimitedBest("lat")'.limit
                           /\ ~Real(LimitedBest(t)')
  BY <1>4, <1>5, <1>6
<1>. QED
  BY SMTT(20), <1>1, <1>7, <1>8 DEF Limited

\* A search under limits retains only valid banks within them, the best ones.
LEMMA ConstrainedCovers == IInv /\ Limited /\ ConstrainedDesign => Limited'
<1>. SUFFICES ASSUME IInv, Limited, ConstrainedDesign PROVE Limited'
  OBVIOUS
<1>. USE DEF IInv, Basis
<1>0. PICK d : d = at
  OBVIOUS
<1>1. /\ stage = "limit" /\ stage' = "limit" /\ at' = at + 1 /\ at \in Nat \ {0}
      /\ layerCount \in Nat /\ UNCHANGED <<cfg, space, cellIdx>>
      /\ "data" \in Kinds /\ "lat" \in TargetSet
  BY DEF ConstrainedDesign, TypeOK, Kinds, TargetSet
<1>2. /\ best \in [DOMAIN best -> ResultsType] /\ cellIdx \in DOMAIN best
      /\ Space = SpaceOf("data")
  BY SMTT(20), <1>1, SpaceIsOwn DEF Where, TypeOK, Searching
<1>3. \A t \in TargetSet :
        /\ LimitedBest(t) \in ResultType /\ Score(t, LimitedBest(t).bank) \in Nat
        /\ LimitedBest(t).limit = LimitedBest("lat").limit
        /\ Real(LimitedBest(t)) =>
              /\ ~LimitedBest(t).bank.invalid
              /\ WithinLimits(LimitedBest(t).limit, LimitedBest(t).bank)
        /\ \A e \in Searchable("data") : e < at => CoveredWithin(e, t)
  BY <1>1, <1>2, ScoresAreNat DEF Limited, LimitedBest
<1>4. /\ \A k \in DOMAIN eval : k \in DOMAIN eval' /\ eval'[k] = eval[k]
      /\ \A t \in TargetSet :
            /\ LimitedBest(t)' \in ResultType
            /\ LimitedBest(t)'.limit = LimitedBest(t).limit
            /\ Score(t, LimitedBest(t)'.bank) <= Score(t, LimitedBest(t).bank)
            /\ Real(LimitedBest(t)') =>
                  /\ ~LimitedBest(t)'.bank.invalid
                  /\ WithinLimits(LimitedBest(t).limit, LimitedBest(t)'.bank)
            /\ d \in Searchable("data") => CoveredWithin(d, t)'
  <2>1. CASE Skipped("data", at)
    <3>1. UNCHANGED <<eval, best>> /\ d \notin Searchable("data")
      BY <1>0, <1>2, <2>1 DEF ConstrainedDesign, Skipped, Searchable
    <3>2. \A t \in TargetSet : LimitedBest(t)' = LimitedBest(t)
      BY <1>1, <3>1 DEF LimitedBest
    <3>. QED
      BY SMTT(20), <1>3, <3>1, <3>2
  <2>2. CASE ~Skipped("data", at)
    <3>. DEFINE k == BasicKey("data", d, layerCount)
                r(o) == TempResult(k, o)
    <3>1. PICK o \in Outcomes :
            /\ Calculate(k, o)
            /\ IF o.invalid \/ ~WithinLimits(LimitedBest("lat").limit, o)
                  THEN UNCHANGED best
                  ELSE UpdateBest("data", r(o))
      BY <1>0, <2>2 DEF ConstrainedDesign, LimitedBest
    <3>2. /\ DOMAIN eval' = DOMAIN eval \cup {k} /\ eval'[k] = o
          /\ \A j \in DOMAIN eval : eval'[j] = eval[j]
      BY <3>1, CalculateKeeps
    <3>3. k \in BasicEvaluations("data", d)'
      BY <1>1, <1>2, <3>2 DEF BasicKey, Key, BasicEvaluations, SpaceOf
    <3>4. CASE o.invalid \/ ~WithinLimits(LimitedBest("lat").limit, o)
      <4>1. \A t \in TargetSet : LimitedBest(t)' = LimitedBest(t)
        BY <1>1, <3>1, <3>4 DEF LimitedBest
      <4>2. \A t \in TargetSet : CoveredWithin(d, t)'
        BY <1>3, <3>2, <3>3, <3>4, <4>1 DEF CoveredWithin
      <4>3. \A j \in DOMAIN eval : j \in DOMAIN eval' /\ eval'[j] = eval[j]
        BY <3>2
      <4>4. \A t \in TargetSet :
              /\ LimitedBest(t) \in ResultType
              /\ Score(t, LimitedBest(t).bank) <= Score(t, LimitedBest(t).bank)
              /\ Real(LimitedBest(t)) =>
                    /\ ~LimitedBest(t).bank.invalid
                    /\ WithinLimits(LimitedBest(t).limit, LimitedBest(t).bank)
        BY SMTT(20), <1>3
      <4>. QED
        BY <4>1, <4>2, <4>3, <4>4, Zenon
    <3>5. CASE ~o.invalid /\ WithinLimits(LimitedBest("lat").limit, o)
      <4>1. UpdateBest("data", r(o)) /\ d \in Nat
        BY <1>0, <1>1, <3>1, <3>5
      <4>2. best'[cellIdx]["data"] =
              [t \in TargetSet |-> compareAndUpdate(t, best[cellIdx]["data"][t], r(o))]
        BY SMTT(20), <1>1, <1>2, <3>1, <4>1, OfferKeeps
      <4>3. r(o) \in ResultType /\ Faithful(eval', "data", r(o))
        <5>1. cellIdx \in Nat /\ o \in OutcomeType /\ d \in Nat
          BY <4>1, OutcomeTyped DEF TypeOK
        <5>2. Space.local.basic \in AnyWire /\ Space.global.basic \in AnyWire
          BY SpaceTyped DEF AnyWire
        <5>3. k = Key(cellIdx, "data", d, Space.local.basic, Space.global.basic, layerCount)
          BY DEF BasicKey
        <5>. QED
          BY <1>1, <3>2, <5>1, <5>2, <5>3, TempIsFaithful
      <4>4. r(o).bank.lat = o.lat /\ r(o).bank.en = o.en /\ r(o).bank.invalid = o.invalid
        BY DEF TempResult
      <4>5. \A t \in TargetSet : Score(t, r(o).bank) = Score(t, o)
        BY <4>4 DEF Score
      <4>6. PICK n : n = r(o)
        OBVIOUS
      <4>7. \A t \in TargetSet : WithinLimits(LimitedBest(t).limit, n.bank)
        BY <1>3, <3>5, <4>5, <4>6 DEF WithinLimits
      <4>8. ASSUME NEW t \in TargetSet
            PROVE  /\ LimitedBest(t)' \in ResultType
                   /\ LimitedBest(t)'.limit = LimitedBest(t).limit
                   /\ Score(t, LimitedBest(t)'.bank) <= Score(t, LimitedBest(t).bank)
                   /\ Score(t, LimitedBest(t)'.bank) <= Score(t, n.bank)
                   /\ LimitedBest(t)'.bank \in {LimitedBest(t).bank, n.bank}
        <5>. DEFINE old == LimitedBest(t)
                    upd == compareAndUpdate(t, old, n)
        <5>1. LimitedBest(t)' = upd
          BY <1>1, <4>2, <4>6 DEF LimitedBest
        <5>2. old \in ResultType /\ n \in ResultType /\ WithinLimits(old.limit, n.bank)
          BY <1>3, <4>3, <4>6, <4>7
        <5>. HIDE DEF old
        <5>3. Copied(old, n) \in ResultType /\ Copied(old, n).limit = old.limit
              /\ Copied(old, n).bank = n.bank
          BY <5>2 DEF Copied, ResultType
        <5>4. upd \in {old, Copied(old, n)}
          BY UpdateChooses
        <5>5. Score(t, upd.bank) <= Score(t, old.bank) /\ Score(t, upd.bank) <= Score(t, n.bank)
          BY <5>2, UpdateIsBest
        <5>. HIDE DEF upd
        <5>6. upd \in ResultType /\ upd.limit = old.limit /\ upd.bank \in {old.bank, n.bank}
          BY <5>2, <5>3, <5>4
        <5>. QED
          BY <5>1, <5>5, <5>6 DEF old
      <4>9. \A t \in TargetSet : CoveredWithin(d, t)'
        <5>1. \A t \in TargetSet : Score(t, LimitedBest(t)'.bank) <= Score(t, eval'[k])
          BY <3>2, <4>5, <4>6, <4>8
        <5>. QED
          BY <3>3, <5>1 DEF CoveredWithin
      <4>10. ASSUME NEW t \in TargetSet, Real(LimitedBest(t)')
             PROVE  /\ ~LimitedBest(t)'.bank.invalid
                    /\ WithinLimits(LimitedBest(t).limit, LimitedBest(t)'.bank)
        <5>1. CASE LimitedBest(t)'.bank = n.bank
          BY <3>5, <4>4, <4>6, <4>7, <5>1
        <5>2. CASE LimitedBest(t)'.bank = LimitedBest(t).bank
          BY <1>3, <4>10, <5>2 DEF Real
        <5>. QED
          BY <4>8, <5>1, <5>2
      <4>. QED
        BY <3>2, <4>8, <4>9, <4>10
    <3>. QED
      BY <3>4, <3>5
  <2>. QED
    BY <2>1, <2>2
<1>5. ASSUME NEW t \in TargetSet, NEW e \in Searchable("data"), e < at'
      PROVE  CoveredWithin(e, t)'
  <2>1. e \in Nat /\ (e < at \/ e = d)
    BY SMTT(20), <1>0, <1>1, <1>5, SearchableIsIndex
  <2>2. CASE e = d
    BY <1>4, <2>2
  <2>3. CASE e < at
    <3>1. CoveredWithin(e, t)
      BY <1>3, <2>3
    <3>2. Score(t, LimitedBest(t)'.bank) \in Nat
      BY <1>4, ScoreIsNat DEF ResultType, BankType
    <3>3. \A k \in DOMAIN eval : eval[k] \in Outcomes
      BY DEF TypeOK
    <3>. QED
      BY <1>1, <1>3, <1>4, <3>1, <3>2, <3>3, CoveredWithinPersists
  <2>. QED
    BY <2>1, <2>2, <2>3
<1>6. Searchable("data")' = Searchable("data")
  BY <1>1 DEF Searchable, SpaceOf
<1>. QED
  BY <1>1, <1>3, <1>4, <1>5, <1>6 DEF Limited

\* For every search space and every constraint, a result of the constrained
\* search is valid and within the limits, and no worse than any organisation
\* within them as it was evaluated with the basic wires; there is a result when
\* there is such an organisation.
THEOREM ConstrainedSearchIsBest == Spec => []BestWithinLimits
<1>1. Init => Limited
  BY DEF Init, Limited
<1>2. IInv /\ Limited /\ [Next]_vars => Limited'
  <2>. SUFFICES ASSUME IInv, Limited, [Next]_vars PROVE Limited'
    OBVIOUS
  <2>1. CASE Constrain
    BY <2>1, ConstrainLimits
  <2>2. CASE ConstrainedDesign
    BY <2>2, ConstrainedCovers
  <2>3. CASE UNCHANGED vars
    <3>1. UNCHANGED <<cfg, cellIdx, stage, at, best, eval>>
      BY <2>3 DEF vars
    <3>2. \A t : LimitedBest(t)' = LimitedBest(t)
      BY <3>1, Zenon DEF LimitedBest
    <3>3. Searchable("data")' = Searchable("data")
      BY <3>1, Zenon DEF Searchable, SpaceOf
    <3>4. \A d : BasicEvaluations("data", d)' = BasicEvaluations("data", d)
      BY <3>1, Zenon DEF BasicEvaluations, SpaceOf
    <3>5. \A d, t : CoveredWithin(d, t) => CoveredWithin(d, t)'
      BY <3>1, <3>2, <3>4 DEF CoveredWithin
    <3>. QED
      BY <3>1, <3>2, <3>3, <3>5 DEF Limited
  <2>4. CASE \/ RejectCell \/ VerifyFailed("tag") \/ VerifyFailed("data")
             \/ StartCell \/ TagFailed \/ TagDone \/ CellDone \/ StartMerge \/ MergeCell
             \/ Report
             \/ \E kind \in Kinds : \/ SearchDesign(kind) \/ SearchDone(kind)
                                     \/ RefineLocalWire(kind) \/ RefineGlobalWire(kind)
                                     \/ RefineDone(kind)
    <3>1. stage' # "limit"
      BY <2>4 DEF RejectCell, VerifyFailed, StartCell, TagFailed, TagDone, CellDone, StartMerge, MergeCell, Report,
                  SearchDesign, SearchDone, RefineLocalWire, RefineGlobalWire, RefineDone,
                  GoTo, Kinds
    <3>. QED
      BY <3>1 DEF Limited
  <2>. QED
    BY <2>1, <2>2, <2>3, <2>4 DEF Next, Kinds
<1>3. IInv /\ Limited => BestWithinLimits
  <2>. SUFFICES ASSUME IInv, Limited, stage = "limit", at > Len(Space.designs),
                       NEW t \in TargetSet
                PROVE  /\ Real(LimitedBest(t)) =>
                             /\ ~LimitedBest(t).bank.invalid
                             /\ WithinLimits(LimitedBest(t).limit, LimitedBest(t).bank)
                       /\ \A d \in Searchable("data") : CoveredWithin(d, t)
    BY DEF BestWithinLimits, LimitedBest, CoveredWithin
  <2>1. TypeOK /\ Where /\ "data" \in Kinds
    BY DEF IInv, Basis, Kinds
  <2>2. Space = SpaceOf("data") /\ at \in Nat /\ Len(Space.designs) \in Nat
    BY SMTT(20), <2>1, SpaceIsOwn, SpaceTyped DEF TypeOK
  <2>3. \A d \in Searchable("data") : d < at
    BY SMTT(20), <2>1, <2>2, SearchableIsIndex
  <2>. QED
    BY <2>3 DEF Limited
<1>. QED
  BY <1>1, <1>2, <1>3, InitHolds, StepKeeps, PTL DEF Spec

(***************************************************************************)
(* What is retained, counted and merged.                                   *)
(***************************************************************************)

\* The metrics of a bank, or of an evaluation, are finite, or all invalid_value.
Finite(b) == b.lat < invalid_value /\ b.en < invalid_value /\ b.lat * b.en < invalid_value
Blank(b) == b.lat = invalid_value /\ b.en = invalid_value

\* The result retained for one array of cell c and one target.
Kept(c, kind, t) == best[c][kind][t]

Merging == {"merge", "done"}

\* A result belongs to the cell it was found for; main puts the results of
\* other cells only into those of the first one, from the second one on.
OwnCell ==
    /\ \A c \in DOMAIN best, kind \in Kinds, t \in TargetSet :
          stage \notin Merging \/ c # 1 => Kept(c, kind, t).cellTech = c
    /\ stage = "merge" => cellIdx >= 2
    /\ stage = "done" => cellIdx > cfg.cells

\* The merged tag result is the one of the cell of the merged data result.
Following ==
    stage \in Merging /\ ~cfg.allowDifferentTagTech =>
        \A t \in TargetSet : \E c \in DOMAIN best :
            /\ Kept(1, "data", t).cellTech = c
            /\ Kept(1, "tag", t).cellTech = c
            /\ Kept(1, "tag", t).bank = Kept(c, "tag", t).bank

\* A retained bank has metrics or none; limits come only from the constraints.
Definite ==
    \A c \in DOMAIN best, kind \in Kinds, t \in TargetSet :
        /\ Finite(Kept(c, kind, t).bank) \/ Blank(Kept(c, kind, t).bank)
        /\ kind = "tag" \/ ~cfg.isConstraintApplied => Kept(c, kind, t).limit = NoLimit

\* A solution counted is a solution retained, for every target.
Found ==
    /\ numSolution \in Nat /\ totalSolutions \in Nat
    /\ stage \in Kinds =>
          /\ loop \in {"local", "global"} => numSolution > 0
          /\ numSolution > 0 => \A t \in TargetSet : Finite(Kept(cellIdx, stage, t).bank)
    /\ stage \in {"data", "limit"} /\ cfg.cache =>
          \A t \in TargetSet : Finite(Kept(cellIdx, "tag", t).bank)

\* Beside the data array of a cache there is a tag array.
Paired ==
    cfg.cache =>
        \A c \in DOMAIN best, t \in TargetSet :
            Finite(Kept(c, "data", t).bank) => Finite(Kept(c, "tag", t).bank)

\* The key of organisation d of the current cell with the basic wires.
Base(d) ==
    Key(cellIdx, "data", d, SpaceOf("data").local.basic, SpaceOf("data").global.basic,
        layerCount)

\* The data organisations retained were evaluated with the basic wires, and no
\* cell has data evaluations before its data search.
Anchored ==
    /\ stage = "data" =>
          \A t \in TargetSet :
              Finite(Kept(cellIdx, "data", t).bank) =>
                  Base(Kept(cellIdx, "data", t).bank.design) \in DOMAIN eval
    /\ \A k \in DOMAIN eval : k.kind = "data" =>
          k.cell \in DOMAIN best /\ (stage = "tag" => k.cell # cellIdx)

\* Without constraints, no valid data evaluation with the basic wires beats the
\* result of its cell and, once that cell was merged, the merged result.
Beaten ==
    ~cfg.isConstraintApplied =>
        /\ stage # "limit"
        /\ \A k \in ValidBasicData, t \in TargetSet :
              /\ stage \notin Merging \/ k.cell # 1 =>
                    Score(t, Kept(k.cell, "data", t).bank) <= Score(t, eval[k])
              /\ stage \in Merging /\ k.cell < cellIdx =>
                    Score(t, Kept(1, "data", t).bank) <= Score(t, eval[k])

\* Without constraints, solutions are counted exactly when there are valid data
\* evaluations, and main reports what was counted.
Counted ==
    /\ ~cfg.isConstraintApplied =>
          (totalSolutions > 0 \/ (stage = "data" /\ numSolution > 0) <=> ValidBasicData # {})
    /\ stage = "done" => (printed = "result" <=> totalSolutions > 0)

\* Global wire i was tried on the result of target t, which is not worse.
Tried(kind, t, i) ==
    LET r == Kept(cellIdx, kind, t)
        k == Key(cellIdx, kind, r.bank.design, r.localWire,
                 SpaceOf(kind).global.refine[i], layerCount) IN
    k \in DOMAIN eval /\ Score(t, r.bank) <= Score(t, eval[k])

\* The trial of wire i for target j comes before the next one.
Before(i, j) == i < at \/ (i = at /\ j < tgt)

\* The global loop has tried every wire before its position.
TriedSoFar ==
    \A kind \in Kinds : stage = kind =>
        \A i \in DOMAIN SpaceOf(kind).global.refine, j \in 1..3 :
            (loop = "end" /\ numSolution > 0) \/ (loop = "global" /\ Before(i, j))
                => Tried(kind, Targets[j], i)

\* An evaluation has metrics or none, and a valid one has them.
LEMMA OutcomeIsDefinite ==
    ASSUME NEW o \in Outcomes
    PROVE  /\ o.lat \in Nat /\ o.en \in Nat /\ o.invalid \in BOOLEAN
           /\ Finite(o) \/ Blank(o)
           /\ ~o.invalid => Finite(o)
BY OutcomeAssumption DEF Finite, Blank

\* Finite metrics are the ones below invalid_value, in every score; a bank
\* without metrics has the worst score there is.
LEMMA Scores ==
    ASSUME NEW t \in TargetSet, NEW b, b.lat \in Nat, b.en \in Nat
    PROVE  /\ Score(t, b) \in Nat
           /\ Finite(b) => Score(t, b) < invalid_value
           /\ Blank(b) => Score(t, b) = Score(t, NoBank)
           /\ Score(t, NoBank) \in Nat /\ Score(t, NoBank) >= invalid_value
<1>1. Score(t, b) \in Nat
  BY ScoreIsNat
<1>2. NoBank.lat = invalid_value /\ NoBank.en = invalid_value
  BY DEF NoBank
<1>3. CASE t = "lat"
  BY SMTT(20), <1>1, <1>2, <1>3 DEF Score, Finite, Blank, invalid_value
<1>4. CASE t = "en"
  BY SMTT(20), <1>1, <1>2, <1>4 DEF Score, Finite, Blank, invalid_value
<1>5. CASE t = "edp"
  BY SMTT(20), <1>1, <1>2, <1>5 DEF Score, Finite, Blank, invalid_value
<1>. QED
  BY <1>3, <1>4, <1>5 DEF TargetSet

\* A bank is finite as soon as one of its scores is at most a finite one, or
\* better than that of another bank.
LEMMA FiniteByScore ==
    ASSUME NEW t \in TargetSet, NEW a, NEW b, a.lat \in Nat, a.en \in Nat,
           b.lat \in Nat, b.en \in Nat, Finite(a) \/ Blank(a), Finite(b) \/ Blank(b),
           (Finite(b) /\ Score(t, a) <= Score(t, b)) \/ Score(t, a) < Score(t, b)
    PROVE  Finite(a)
<1>1. SUFFICES ASSUME Blank(a) PROVE FALSE
  OBVIOUS
<1>2. /\ Score(t, a) = Score(t, NoBank) /\ Score(t, NoBank) \in Nat
      /\ Score(t, NoBank) >= invalid_value
  BY <1>1, Scores
<1>3. /\ Score(t, b) \in Nat /\ (Finite(b) => Score(t, b) < invalid_value)
      /\ (Blank(b) => Score(t, b) = Score(t, NoBank))
  BY Scores
<1>4. invalid_value \in Nat
  BY SMTT(20) DEF invalid_value
<1>. QED
  BY SMTT(20), <1>2, <1>3, <1>4

\* Only finite metrics pass the limits of a search without constraints.
LEMMA UnlimitedIsFinite ==
    ASSUME NEW b, b.lat \in Nat, b.en \in Nat, Finite(b) \/ Blank(b)
    PROVE  WithinLimits(NoLimit, b) <=> Finite(b)
<1>1. \A t \in TargetSet : NoLimit[t] = invalid_value
  BY DEF NoLimit
<1>2. invalid_value \in Nat
  BY SMTT(20) DEF invalid_value
<1>3. CASE Finite(b)
  <2>1. \A t \in TargetSet : Score(t, b) \in Nat /\ Score(t, b) < invalid_value
    BY <1>3, Scores
  <2>. QED
    BY SMTT(20), <1>1, <1>2, <1>3, <2>1 DEF WithinLimits
<1>4. CASE ~Finite(b)
  <2>1. Blank(b)
    BY <1>4
  <2>2. Score("edp", b) = b.lat * b.en
    BY DEF Score
  <2>3. Score("edp", b) = 1000000
    BY SMTT(20), <2>1, <2>2 DEF Blank, invalid_value
  <2>4. "edp" \in TargetSet
    BY DEF TargetSet
  <2>. QED
    BY SMTT(20), <1>1, <1>4, <2>3, <2>4 DEF WithinLimits, invalid_value
<1>. QED
  BY <1>3, <1>4

\* What compareAndUpdate returns is the old result, or the new one with the
\* old limits when it is better.
LEMMA UpdateCases ==
    ASSUME NEW t, NEW old, NEW new, NEW r, r = compareAndUpdate(t, old, new)
    PROVE  \/ r = old /\ ~Improves(t, old, new)
           \/ /\ Improves(t, old, new)
              /\ r.bank = new.bank /\ r.localWire = new.localWire
              /\ r.globalWire = new.globalWire /\ r.cellTech = new.cellTech
              /\ r.limit = old.limit
BY DEF compareAndUpdate, Copied

\* The tempResult of an evaluation, seen through its fields.
LEMMA TempFields ==
    ASSUME NEW c, NEW kind, NEW d, NEW l, NEW g, NEW n, NEW o, NEW k,
           k = Key(c, kind, d, l, g, n)
    PROVE  /\ TempResult(k, o).bank.design = d
           /\ TempResult(k, o).bank.lat = o.lat /\ TempResult(k, o).bank.en = o.en
           /\ TempResult(k, o).localWire = l /\ TempResult(k, o).globalWire = g
           /\ TempResult(k, o).cellTech = c
           /\ \A t : Score(t, TempResult(k, o).bank) = Score(t, o)
           /\ Finite(TempResult(k, o).bank) <=> Finite(o)
           /\ Blank(TempResult(k, o).bank) <=> Blank(o)
<1>1. /\ TempResult(k, o).bank.lat = o.lat /\ TempResult(k, o).bank.en = o.en
      /\ TempResult(k, o).bank.design = d
      /\ TempResult(k, o).localWire = l /\ TempResult(k, o).globalWire = g
      /\ TempResult(k, o).cellTech = c
  BY DEF TempResult, Key
<1>. QED
  BY <1>1 DEF Score, Finite, Blank

\* The results retained are typed.
LEMMA KeptTyped ==
    ASSUME TypeOK
    PROVE  \A c \in DOMAIN best, kind \in Kinds, t \in TargetSet :
             /\ Kept(c, kind, t) \in ResultType
             /\ Kept(c, kind, t).bank.lat \in Nat /\ Kept(c, kind, t).bank.en \in Nat
             /\ Kept(c, kind, t).bank.design \in Nat
             /\ Kept(c, kind, t).localWire \in AnyWire
<1>1. \A c \in DOMAIN best, kind \in Kinds, t \in TargetSet : Kept(c, kind, t) \in ResultType
  BY SMTT(20) DEF TypeOK, ResultsType, Kept
<1>. QED
  BY <1>1 DEF ResultType, BankType

\* An evaluation whose result is offered to the targets T of one array of the
\* current cell.
Evaluates(kind, T, k, o) ==
    /\ o \in Outcomes /\ Calculate(k, o)
    /\ DOMAIN best' = DOMAIN best
    /\ \A c \in DOMAIN best, kd \in Kinds, u \in TargetSet :
          Kept(c, kd, u)' =
              IF c = cellIdx /\ kd = kind /\ u \in T
              THEN compareAndUpdate(u, Kept(c, kd, u), TempResult(k, o))
              ELSE Kept(c, kd, u)

\* What such an evaluation does to one retained result.
LEMMA EvaluatesOne ==
    ASSUME TypeOK, NEW kind \in Kinds, NEW T, NEW d \in Nat, NEW l \in AnyWire,
           NEW g \in AnyWire, NEW n \in Nat, NEW o, NEW k,
           k = Key(cellIdx, kind, d, l, g, n), Evaluates(kind, T, k, o),
           NEW c \in DOMAIN best, NEW kd \in Kinds, NEW u \in TargetSet
    PROVE  /\ Kept(c, kd, u)'.limit = Kept(c, kd, u).limit
           /\ Score(u, Kept(c, kd, u)'.bank) <= Score(u, Kept(c, kd, u).bank)
           /\ \/ Kept(c, kd, u)' = Kept(c, kd, u)
              \/ /\ c = cellIdx /\ kd = kind /\ u \in T
                 /\ WithinLimits(Kept(c, kd, u).limit, o)
                 /\ Kept(c, kd, u)'.bank.lat = o.lat /\ Kept(c, kd, u)'.bank.en = o.en
                 /\ Kept(c, kd, u)'.bank.design = d /\ Kept(c, kd, u)'.localWire = l
                 /\ Kept(c, kd, u)'.cellTech = cellIdx
           /\ /\ c = cellIdx /\ kd = kind /\ u \in T
              /\ WithinLimits(Kept(c, kd, u).limit, o)
              => Score(u, Kept(c, kd, u)'.bank) <= Score(u, o)
<1>. DEFINE old == Kept(c, kd, u)
            new == TempResult(k, o)
            r   == Kept(c, kd, u)'
<1>1. /\ r = IF c = cellIdx /\ kd = kind /\ u \in T THEN compareAndUpdate(u, old, new)
                                                  ELSE old
      /\ o \in Outcomes
  BY Zenon DEF Evaluates
<1>2. old \in ResultType /\ Score(u, old.bank) \in Nat
  BY KeptTyped, ScoreIsNat
<1>3. /\ new.bank.design = d /\ new.bank.lat = o.lat /\ new.bank.en = o.en
      /\ new.localWire = l /\ new.cellTech = cellIdx
      /\ \A t : Score(t, new.bank) = Score(t, o)
  BY SMTT(20), TempFields
<1>4. WithinLimits(old.limit, new.bank) <=> WithinLimits(old.limit, o)
  BY <1>3 DEF WithinLimits
<1>5. Score(u, o) \in Nat
  BY <1>1, OutcomeIsDefinite, ScoreIsNat
<1>. HIDE DEF old, new, r
<1>6. CASE r = old
  <2>1. /\ c = cellIdx /\ kd = kind /\ u \in T
        /\ WithinLimits(old.limit, o)
        => Score(u, old.bank) <= Score(u, o)
    <3>. SUFFICES ASSUME c = cellIdx, kd = kind, u \in T, WithinLimits(old.limit, o)
                  PROVE  Score(u, old.bank) <= Score(u, o)
      OBVIOUS
    <3>1. old = compareAndUpdate(u, old, new)
      BY <1>1, <1>6
    <3>2. ~Improves(u, old, new) \/ old.bank = new.bank
      BY SMTT(20), <3>1, UpdateCases
    <3>3. CASE ~Improves(u, old, new)
      BY SMTT(20), <1>2, <1>3, <1>4, <1>5, <3>3 DEF Improves
    <3>4. CASE old.bank = new.bank
      BY SMTT(20), <1>2, <1>3, <1>5, <3>4
    <3>. QED
      BY <3>2, <3>3, <3>4
  <2>2. Score(u, old.bank) <= Score(u, old.bank)
    BY SMTT(20), <1>2
  <2>. QED
    BY <1>6, <2>1, <2>2 DEF old, r
<1>7. CASE r # old
  <2>1. c = cellIdx /\ kd = kind /\ u \in T /\ r = compareAndUpdate(u, old, new)
    BY <1>1, <1>7
  <2>2. /\ Improves(u, old, new) /\ r.bank = new.bank /\ r.localWire = new.localWire
        /\ r.cellTech = new.cellTech /\ r.limit = old.limit
    BY SMTT(20), <1>7, <2>1, UpdateCases
  <2>3. /\ WithinLimits(old.limit, o) /\ Score(u, o) < Score(u, old.bank)
        /\ Score(u, r.bank) = Score(u, o)
    BY <1>3, <1>4, <2>2 DEF Improves
  <2>4. /\ r.bank.lat = o.lat /\ r.bank.en = o.en /\ r.bank.design = d
        /\ r.localWire = l /\ r.cellTech = cellIdx
    BY <1>3, <2>2
  <2>5. Score(u, r.bank) <= Score(u, old.bank) /\ Score(u, r.bank) <= Score(u, o)
    BY SMTT(20), <1>2, <1>5, <2>3
  <2>. QED
    BY <2>1, <2>2, <2>3, <2>4, <2>5 DEF old, r
<1>. QED
  BY <1>6, <1>7

\* One organisation of the tag or data search, as such an evaluation.
LEMMA SearchEvaluates ==
    ASSUME NEW kind \in Kinds, IInv, SearchDesign(kind)
    PROVE  /\ stage = kind /\ loop = "design" /\ cellIdx \in DOMAIN best /\ at \in Nat
           /\ UNCHANGED <<cfg, space, cellIdx, stage, loop, tgt, totalSolutions, printed>>
           /\ kind = "data" => layerCount' = layerCount
           /\ layerCount' \in Nat
           /\ \/ UNCHANGED <<best, eval, numSolution>>
              \/ \E o \in Outcomes :
                    LET k == Key(cellIdx, kind, at, SpaceOf(kind).local.basic,
                                 SpaceOf(kind).global.basic, layerCount') IN
                    \/ o.invalid /\ Evaluates(kind, {}, k, o) /\ UNCHANGED numSolution
                    \/ /\ ~o.invalid /\ Evaluates(kind, TargetSet, k, o)
                       /\ numSolution' = numSolution + 1
<1>. USE DEF IInv, Basis
<1>1. /\ stage = kind /\ loop = "design" /\ at <= Len(Space.designs) /\ at \in Nat \ {0}
      /\ UNCHANGED <<cfg, space, cellIdx, stage, loop, tgt, totalSolutions, printed>>
  BY DEF SearchDesign, TypeOK
<1>2. /\ cellIdx \in DOMAIN best /\ Space = SpaceOf(kind)
      /\ best \in [DOMAIN best -> ResultsType]
  BY SMTT(20), <1>1, SpaceIsOwn DEF Where, Searching, Kinds, TypeOK
<1>3. (kind = "data" => layerCount' = layerCount) /\ layerCount' \in Nat
  <2>1. Space.designs[at] \in Design
    BY SMTT(20), <1>1, SpaceTyped
  <2>. QED
    BY <2>1 DEF SearchDesign, SetLayerCount, TypeOK, Design
<1>4. CASE Skipped(kind, at)
  BY <1>1, <1>2, <1>3, <1>4 DEF SearchDesign
<1>5. CASE ~Skipped(kind, at)
  <2>. DEFINE k == Key(cellIdx, kind, at, SpaceOf(kind).local.basic,
                       SpaceOf(kind).global.basic, layerCount')
  <2>1. BasicKey(kind, at, layerCount') = k
    BY <1>2 DEF BasicKey
  <2>2. PICK o \in Outcomes :
          /\ Calculate(k, o)
          /\ o.invalid => UNCHANGED <<best, numSolution>>
          /\ ~o.invalid => numSolution' = numSolution + 1 /\ UpdateBest(kind, TempResult(k, o))
    BY <1>5, <2>1 DEF SearchDesign
  <2>. HIDE DEF k
  <2>3. CASE o.invalid
    <3>1. UNCHANGED best
      BY <2>2, <2>3
    <3>2. Evaluates(kind, {}, k, o)
      BY <2>2, <3>1 DEF Evaluates, Kept
    <3>. QED
      BY <1>1, <1>2, <1>3, <2>2, <2>3, <3>2 DEF k
  <2>4. CASE ~o.invalid
    <3>. DEFINE n == TempResult(k, o)
    <3>1. best' = [best EXCEPT ![cellIdx][kind] =
                     [t \in TargetSet |-> compareAndUpdate(t, @[t], n)]]
      BY <2>2, <2>4 DEF UpdateBest
    <3>. HIDE DEF n
    <3>2. DOMAIN best' = DOMAIN best
      BY <1>2, <3>1
    <3>3. \A c \in DOMAIN best, kd \in Kinds, u \in TargetSet :
            best'[c][kd][u] =
              IF c = cellIdx /\ kd = kind /\ u \in TargetSet
              THEN compareAndUpdate(u, best[c][kd][u], n)
              ELSE best[c][kd][u]
      BY <1>2, <3>1 DEF ResultsType
    <3>4. Evaluates(kind, TargetSet, k, o)
      BY <2>2, <3>2, <3>3 DEF Evaluates, Kept, n
    <3>. QED
      BY <1>1, <1>2, <1>3, <2>2, <2>4, <3>4 DEF k
  <2>. QED
    BY <2>3, <2>4
<1>. QED
  BY <1>4, <1>5

\* One trial of a refinement loop, as such an evaluation.
LEMMA TrialEvaluates ==
    ASSUME NEW kind \in Kinds, TypeOK, cellIdx \in DOMAIN best, NEW t \in TargetSet,
           NEW l, NEW g, TryAndUpdate(kind, t, l, g)
    PROVE  \E o \in Outcomes :
             Evaluates(kind, {t},
                       Key(cellIdx, kind, Kept(cellIdx, kind, t).bank.design, l, g, layerCount),
                       o)
<1>. DEFINE k == Key(cellIdx, kind, Kept(cellIdx, kind, t).bank.design, l, g, layerCount)
<1>1. PICK o \in Outcomes :
        /\ Calculate(k, o)
        /\ best' = [best EXCEPT ![cellIdx][kind][t] =
                        compareAndUpdate(t, @, TempResult(k, o))]
  BY DEF TryAndUpdate, Kept
<1>. DEFINE n == TempResult(k, o)
<1>. HIDE DEF n, k
<1>2. best \in [DOMAIN best -> ResultsType]
  BY DEF TypeOK
<1>3. best' = [best EXCEPT ![cellIdx][kind][t] = compareAndUpdate(t, @, n)]
  BY <1>1 DEF n
<1>4. DOMAIN best' = DOMAIN best
  BY <1>2, <1>3
<1>5. \A c \in DOMAIN best, kd \in Kinds, u \in TargetSet :
        best'[c][kd][u] =
          IF c = cellIdx /\ kd = kind /\ u \in {t}
          THEN compareAndUpdate(u, best[c][kd][u], n)
          ELSE best[c][kd][u]
  BY SMTT(20), <1>2, <1>3 DEF ResultsType
<1>6. Evaluates(kind, {t}, k, o)
  BY <1>1, <1>4, <1>5 DEF Evaluates, Kept, n
<1>. QED
  BY <1>1, <1>6 DEF k

\* The wires tried by the refinement loops.
LEMMA RefineEvaluates ==
    ASSUME NEW kind \in Kinds, IInv, RefineLocalWire(kind) \/ RefineGlobalWire(kind)
    PROVE  /\ stage = kind /\ loop \in {"local", "global"} /\ cellIdx \in DOMAIN best
           /\ UNCHANGED <<cfg, space, layerCount, cellIdx, stage, loop, numSolution,
                          totalSolutions, printed>>
           /\ Targets[tgt] \in TargetSet
           /\ \E o \in Outcomes, l \in AnyWire, g \in AnyWire :
                /\ Evaluates(kind, {Targets[tgt]},
                       Key(cellIdx, kind, Kept(cellIdx, kind, Targets[tgt]).bank.design,
                           l, g, layerCount), o)
                /\ loop = "global" =>
                     /\ l = Kept(cellIdx, kind, Targets[tgt]).localWire
                     /\ g = SpaceOf(kind).global.refine[at]
<1>. USE DEF IInv, Basis
<1>1. /\ stage = kind /\ loop \in {"local", "global"}
      /\ UNCHANGED <<cfg, space, layerCount, cellIdx, stage, loop, numSolution,
                     totalSolutions, printed>>
  BY DEF RefineLocalWire, RefineGlobalWire
<1>2. cellIdx \in DOMAIN best /\ Space = SpaceOf(kind)
  BY SMTT(20), <1>1, SpaceIsOwn DEF Where, Searching, Kinds, TypeOK
<1>. DEFINE t == Targets[tgt]
<1>3. t \in TargetSet
  BY SMTT(20) DEF Targets, TargetSet, TypeOK
<1>. HIDE DEF t
<1>4. Kept(cellIdx, kind, t).localWire \in AnyWire /\ Kept(cellIdx, kind, t).globalWire \in AnyWire
  <2>1. Kept(cellIdx, kind, t) \in ResultType
    BY <1>2, <1>3, KeptTyped
  <2>. QED
    BY <2>1 DEF ResultType
<1>5. CASE loop = "local"
  <2>1. RefineLocalWire(kind) /\ Space.local.refine[at] \in AnyWire
    BY SMTT(20), <1>5, SpaceTyped DEF RefineLocalWire, RefineGlobalWire, TypeOK, AnyWire
  <2>2. TryAndUpdate(kind, t, Space.local.refine[at], Kept(cellIdx, kind, t).globalWire)
    BY <2>1 DEF RefineLocalWire, Kept, t
  <2>3. \E o \in Outcomes :
           Evaluates(kind, {t},
              Key(cellIdx, kind, Kept(cellIdx, kind, t).bank.design,
                  Space.local.refine[at], Kept(cellIdx, kind, t).globalWire, layerCount), o)
    BY <1>2, <1>3, <2>2, TrialEvaluates
  <2>. QED
    BY <1>1, <1>2, <1>3, <1>4, <1>5, <2>1, <2>3 DEF t
<1>6. CASE loop = "global"
  <2>1. RefineGlobalWire(kind) /\ Space.global.refine[at] \in AnyWire
    BY SMTT(20), <1>6, SpaceTyped DEF RefineLocalWire, RefineGlobalWire, TypeOK, AnyWire
  <2>2. TryAndUpdate(kind, t, Kept(cellIdx, kind, t).localWire, Space.global.refine[at])
    BY <2>1 DEF RefineGlobalWire, Kept, t
  <2>3. \E o \in Outcomes :
           Evaluates(kind, {t},
              Key(cellIdx, kind, Kept(cellIdx, kind, t).bank.design,
                  Kept(cellIdx, kind, t).localWire, Space.global.refine[at], layerCount), o)
    BY <1>2, <1>3, <2>2, TrialEvaluates
  <2>. QED
    BY <1>1, <1>2, <1>3, <1>4, <1>6, <2>1, <2>3 DEF t
<1>. QED
  BY <1>1, <1>5, <1>6

\* One organisation of the constrained search.
LEMMA ConstrainedEvaluates ==
    ASSUME IInv, ConstrainedDesign
    PROVE  /\ stage = "limit" /\ cellIdx \in DOMAIN best /\ at \in Nat
           /\ UNCHANGED <<cfg, space, layerCount, cellIdx, stage, loop, tgt,
                          totalSolutions, printed>>
           /\ numSolution' \in {numSolution, numSolution + 1}
           /\ \/ UNCHANGED <<best, eval>>
              \/ \E o \in Outcomes, T \in {{}, TargetSet} :
                    Evaluates("data", T,
                        Key(cellIdx, "data", at, SpaceOf("data").local.basic,
                            SpaceOf("data").global.basic, layerCount), o)
<1>. USE DEF IInv, Basis
<1>1. /\ stage = "limit" /\ at \in Nat
      /\ UNCHANGED <<cfg, space, layerCount, cellIdx, stage, loop, tgt,
                     totalSolutions, printed>>
  BY DEF ConstrainedDesign, TypeOK
<1>2. /\ cellIdx \in DOMAIN best /\ Space = SpaceOf("data") /\ "data" \in Kinds
      /\ best \in [DOMAIN best -> ResultsType]
  BY SMTT(20), <1>1, SpaceIsOwn DEF Where, Searching, Kinds, TypeOK
<1>3. CASE Skipped("data", at)
  BY <1>1, <1>2, <1>3 DEF ConstrainedDesign
<1>4. CASE ~Skipped("data", at)
  <2>. DEFINE k == Key(cellIdx, "data", at, SpaceOf("data").local.basic,
                       SpaceOf("data").global.basic, layerCount)
  <2>1. BasicKey("data", at, layerCount) = k
    BY <1>2 DEF BasicKey
  <2>2. PICK o \in Outcomes :
          /\ Calculate(k, o)
          /\ numSolution' \in {numSolution, numSolution + 1}
          /\ UNCHANGED best \/ UpdateBest("data", TempResult(k, o))
    BY <1>4, <2>1 DEF ConstrainedDesign
  <2>. DEFINE n == TempResult(k, o)
  <2>. HIDE DEF k, n
  <2>3. CASE UNCHANGED best
    <3>1. Evaluates("data", {}, k, o)
      BY <2>2, <2>3 DEF Evaluates, Kept
    <3>. QED
      BY <1>1, <1>2, <2>2, <3>1 DEF k
  <2>4. CASE UpdateBest("data", n)
    <3>1. best' = [best EXCEPT ![cellIdx]["data"] =
                     [t \in TargetSet |-> compareAndUpdate(t, @[t], n)]]
      BY <2>4 DEF UpdateBest
    <3>2. DOMAIN best' = DOMAIN best
      BY <1>2, <3>1
    <3>3. \A c \in DOMAIN best, kd \in Kinds, u \in TargetSet :
            best'[c][kd][u] =
              IF c = cellIdx /\ kd = "data" /\ u \in TargetSet
              THEN compareAndUpdate(u, best[c][kd][u], n)
              ELSE best[c][kd][u]
      BY <1>2, <3>1 DEF ResultsType
    <3>4. Evaluates("data", TargetSet, k, o)
      BY <2>2, <3>2, <3>3 DEF Evaluates, Kept, n
    <3>. QED
      BY <1>1, <1>2, <2>2, <3>4 DEF k
  <2>. QED
    BY <2>2, <2>3, <2>4 DEF n
<1>. QED
  BY <1>3, <1>4

JInv ==
    /\ OwnCell /\ Following /\ Definite /\ Found /\ Paired
    /\ Anchored /\ Beaten /\ Counted /\ TriedSoFar

\* The results retained after a step are typed.
LEMMA KeptTypedNext ==
    ASSUME TypeOK'
    PROVE  \A c \in DOMAIN best', kind \in Kinds, t \in TargetSet :
             /\ Kept(c, kind, t)' \in ResultType
             /\ Kept(c, kind, t)'.bank.lat \in Nat /\ Kept(c, kind, t)'.bank.en \in Nat
             /\ Kept(c, kind, t)'.bank.design \in Nat
             /\ Kept(c, kind, t)'.localWire \in AnyWire
<1>1. \A c \in DOMAIN best', kind \in Kinds, t \in TargetSet : Kept(c, kind, t)' \in ResultType
  BY SMTT(20) DEF TypeOK, ResultsType, Kept
<1>. QED
  BY <1>1 DEF ResultType, BankType

\* An evaluation and the comparison keep what holds of every single result.
LEMMA EvaluationKeeps ==
    ASSUME IInv, TypeOK', JInv, cellIdx \in DOMAIN best,
           NEW kind \in Kinds, stage = kind \/ (stage = "limit" /\ kind = "data"),
           NEW T, NEW d \in Nat, NEW l \in AnyWire, NEW g \in AnyWire, NEW n \in Nat,
           NEW o \in Outcomes, NEW k, k = Key(cellIdx, kind, d, l, g, n),
           Evaluates(kind, T, k, o), UNCHANGED <<cfg, cellIdx, stage>>
    PROVE  /\ OwnCell' /\ Following' /\ Definite' /\ Paired'
           /\ \A c \in DOMAIN best, kd \in Kinds, u \in TargetSet :
                /\ Finite(Kept(c, kd, u).bank) => Finite(Kept(c, kd, u)'.bank)
                /\ Score(u, Kept(c, kd, u)'.bank) <= Score(u, Kept(c, kd, u).bank)
           /\ \A u \in T \cap TargetSet :
                Finite(o) /\ Kept(cellIdx, kind, u).limit = NoLimit =>
                    /\ Finite(Kept(cellIdx, kind, u)'.bank)
                    /\ Score(u, Kept(cellIdx, kind, u)'.bank) <= Score(u, o)
<1>0. TypeOK /\ Where /\ "tag" \in Kinds /\ "data" \in Kinds
  BY DEF IInv, Basis, Kinds
<1>1. DOMAIN best' = DOMAIN best /\ stage' \notin Merging /\ stage' # "merge" /\ stage' # "done"
  BY DEF Evaluates, Kinds, Merging
<1>2. ASSUME NEW c \in DOMAIN best, NEW kd \in Kinds, NEW u \in TargetSet
      PROVE  /\ Kept(c, kd, u)'.limit = Kept(c, kd, u).limit
             /\ Score(u, Kept(c, kd, u)'.bank) <= Score(u, Kept(c, kd, u).bank)
             /\ \/ Kept(c, kd, u)' = Kept(c, kd, u)
                \/ /\ c = cellIdx /\ kd = kind /\ u \in T
                   /\ Kept(c, kd, u)'.bank.lat = o.lat /\ Kept(c, kd, u)'.bank.en = o.en
                   /\ Kept(c, kd, u)'.cellTech = cellIdx
             /\ /\ c = cellIdx /\ kd = kind /\ u \in T
                /\ WithinLimits(Kept(c, kd, u).limit, o)
                => Score(u, Kept(c, kd, u)'.bank) <= Score(u, o)
  BY SMTT(20), <1>0, EvaluatesOne
<1>3. OwnCell'
  <2>1. ASSUME NEW c \in DOMAIN best, NEW kd \in Kinds, NEW u \in TargetSet
        PROVE  Kept(c, kd, u)'.cellTech = c
    <3>1. Kept(c, kd, u).cellTech = c
      BY DEF JInv, OwnCell, Kinds, Merging
    <3>. QED
      BY SMTT(20), <1>2, <3>1
  <2>. QED
    BY <1>1, <2>1 DEF OwnCell
<1>4. Following'
  BY <1>1 DEF Following
<1>5. ASSUME NEW c \in DOMAIN best, NEW kd \in Kinds, NEW u \in TargetSet
      PROVE  Finite(Kept(c, kd, u)'.bank) \/ Blank(Kept(c, kd, u)'.bank)
  <2>1. Finite(Kept(c, kd, u).bank) \/ Blank(Kept(c, kd, u).bank)
    BY DEF JInv, Definite
  <2>2. Finite(o) \/ Blank(o)
    BY OutcomeIsDefinite
  <2>3. CASE Kept(c, kd, u)' = Kept(c, kd, u)
    BY <2>1, <2>3
  <2>4. CASE Kept(c, kd, u)'.bank.lat = o.lat /\ Kept(c, kd, u)'.bank.en = o.en
    BY <2>2, <2>4 DEF Finite, Blank
  <2>. QED
    BY <1>2, <2>3, <2>4
<1>6. ASSUME NEW c \in DOMAIN best, NEW kd \in Kinds, NEW u \in TargetSet,
             Finite(Kept(c, kd, u).bank)
      PROVE  Finite(Kept(c, kd, u)'.bank)
  <2>1. /\ Kept(c, kd, u).bank.lat \in Nat /\ Kept(c, kd, u).bank.en \in Nat
        /\ Kept(c, kd, u)'.bank.lat \in Nat /\ Kept(c, kd, u)'.bank.en \in Nat
    BY <1>0, <1>1, KeptTyped, KeptTypedNext
  <2>2. Score(u, Kept(c, kd, u)'.bank) <= Score(u, Kept(c, kd, u).bank)
    BY <1>2
  <2>. QED
    BY <1>5, <1>6, <2>1, <2>2, FiniteByScore
<1>7. Definite'
  <2>1. \A c \in DOMAIN best, kd \in Kinds, u \in TargetSet :
           kd = "tag" \/ ~cfg.isConstraintApplied => Kept(c, kd, u).limit = NoLimit
    BY DEF JInv, Definite
  <2>2. \A c \in DOMAIN best, kd \in Kinds, u \in TargetSet :
           kd = "tag" \/ ~cfg.isConstraintApplied => Kept(c, kd, u)'.limit = NoLimit
    <3>1. \A c \in DOMAIN best, kd \in Kinds, u \in TargetSet :
             Kept(c, kd, u)'.limit = Kept(c, kd, u).limit
      BY <1>2
    <3>. QED
      BY SMTT(20), <2>1, <3>1
  <2>. QED
    BY <1>1, <1>5, <2>2 DEF Definite
<1>8. Paired'
  <2>. SUFFICES ASSUME cfg.cache, NEW c \in DOMAIN best, NEW u \in TargetSet,
                       Finite(Kept(c, "data", u)'.bank)
                PROVE  Finite(Kept(c, "tag", u)'.bank)
    BY <1>1 DEF Paired
  <2>1. CASE Finite(Kept(c, "data", u).bank)
    <3>1. Finite(Kept(c, "tag", u).bank)
      BY <2>1 DEF JInv, Paired
    <3>. QED
      BY <1>0, <1>6, <3>1
  <2>2. CASE ~Finite(Kept(c, "data", u).bank)
    <3>1. c = cellIdx /\ kind = "data"
      BY ZenonT(30), <1>0, <1>2, <2>2
    <3>2. Finite(Kept(c, "tag", u).bank)
      BY <3>1 DEF JInv, Found
    <3>. QED
      BY <1>0, <1>6, <3>2
  <2>. QED
    BY <2>1, <2>2
<1>9. ASSUME NEW u \in T \cap TargetSet, Finite(o), Kept(cellIdx, kind, u).limit = NoLimit
      PROVE  /\ Finite(Kept(cellIdx, kind, u)'.bank)
             /\ Score(u, Kept(cellIdx, kind, u)'.bank) <= Score(u, o)
  <2>1. o.lat \in Nat /\ o.en \in Nat
    BY OutcomeIsDefinite
  <2>2. WithinLimits(NoLimit, o)
    BY <1>9, <2>1, UnlimitedIsFinite
  <2>3. Score(u, Kept(cellIdx, kind, u)'.bank) <= Score(u, o)
    BY <1>2, <1>9, <2>2
  <2>4. Kept(cellIdx, kind, u)'.bank.lat \in Nat /\ Kept(cellIdx, kind, u)'.bank.en \in Nat
    BY <1>1, KeptTypedNext
  <2>. QED
    BY <1>5, <1>9, <2>1, <2>3, <2>4, FiniteByScore
<1>. QED
  BY <1>2, <1>3, <1>4, <1>6, <1>7, <1>8, <1>9

\* The valid data evaluations with the basic wires, after an evaluation.
LEMMA DataGrows ==
    ASSUME NEW k, NEW o, Calculate(k, o), cfg' = cfg
    PROVE  /\ ValidBasicData \subseteq ValidBasicData'
           /\ \A j \in ValidBasicData' :
                \/ j \in ValidBasicData
                \/ /\ j = k /\ k \notin DOMAIN eval /\ ~o.invalid /\ k.kind = "data"
                   /\ k.local = SpaceOf("data").local.basic
                   /\ k.global = SpaceOf("data").global.basic
           /\ \A j \in ValidBasicData : eval'[j] = eval[j]
           /\ /\ ~o.invalid /\ k.kind = "data"
              /\ k.local = SpaceOf("data").local.basic
              /\ k.global = SpaceOf("data").global.basic
              => k \in ValidBasicData'
<1>1. /\ DOMAIN eval' = DOMAIN eval \cup {k} /\ eval'[k] = o
      /\ \A j \in DOMAIN eval : eval'[j] = eval[j]
  BY CalculateKeeps
<1>2. SpaceOf("data")' = SpaceOf("data")
  BY DEF SpaceOf
<1>. QED
  BY <1>1, <1>2 DEF ValidBasicData

\* An evaluation that is offered to every target, or is no new valid data
\* evaluation with the basic wires, leaves none that beats its cell.
LEMMA EvaluationBeaten ==
    ASSUME IInv, TypeOK', JInv, cellIdx \in DOMAIN best,
           NEW kind \in Kinds, stage = kind,
           NEW T, NEW d \in Nat, NEW l \in AnyWire, NEW g \in AnyWire, NEW n \in Nat,
           NEW o \in Outcomes, NEW k, k = Key(cellIdx, kind, d, l, g, n),
           Evaluates(kind, T, k, o), UNCHANGED <<cfg, cellIdx, stage>>,
           \/ k \in DOMAIN eval \/ o.invalid \/ kind # "data" \/ TargetSet \subseteq T
           \/ l # SpaceOf("data").local.basic \/ g # SpaceOf("data").global.basic
    PROVE  /\ Beaten'
           /\ \A j \in DOMAIN eval' : j.kind = "data" =>
                 j.cell \in DOMAIN best' /\ (stage' = "tag" => j.cell # cellIdx')
<1>0. /\ TypeOK /\ "data" \in Kinds /\ stage' \notin Merging /\ stage' # "limit"
      /\ stage \notin Merging
  BY DEF IInv, Basis, Kinds, Merging
<1>1. /\ k.cell = cellIdx /\ k.kind = kind /\ k.local = l /\ k.global = g
  BY DEF Key
<1>2. /\ Calculate(k, o) /\ DOMAIN best' = DOMAIN best
      /\ DOMAIN eval' = DOMAIN eval \cup {k} /\ eval'[k] = o
  BY CalculateKeeps DEF Evaluates
<1>3. \A j \in DOMAIN eval' : j.kind = "data" =>
         j.cell \in DOMAIN best' /\ (stage' = "tag" => j.cell # cellIdx')
  <2>1. \A j \in DOMAIN eval : j.kind = "data" =>
           j.cell \in DOMAIN best /\ (stage = "tag" => j.cell # cellIdx)
    BY DEF JInv, Anchored
  <2>2. stage = "tag" => k.kind # "data"
    BY <1>1
  <2>. QED
    BY <1>1, <1>2, <2>1, <2>2
<1>4. Beaten'
  <2>. SUFFICES ASSUME ~cfg.isConstraintApplied, NEW j \in ValidBasicData', NEW t \in TargetSet
                PROVE  Score(t, Kept(j.cell, "data", t)'.bank) <= Score(t, eval'[j])
    <3>1. UNCHANGED <<cfg, stage, cellIdx>>
      OBVIOUS
    <3>. QED
      BY <1>0, <3>1 DEF Beaten, Kept
  <2>1. CASE j \in ValidBasicData
    <3>1. j \in DOMAIN eval /\ j.kind = "data" /\ eval'[j] = eval[j]
      BY <1>2, <2>1, DataGrows DEF ValidBasicData
    <3>2. j.cell \in DOMAIN best
      BY <3>1 DEF JInv, Anchored
    <3>3. Score(t, Kept(j.cell, "data", t).bank) <= Score(t, eval[j])
      BY <1>0, <2>1 DEF JInv, Beaten
    <3>4. Score(t, Kept(j.cell, "data", t)'.bank) <= Score(t, Kept(j.cell, "data", t).bank)
      BY <1>0, <3>2, EvaluationKeeps
    <3>5. Score(t, Kept(j.cell, "data", t).bank) \in Nat
      BY <1>0, <3>2, KeptTyped, ScoreIsNat
    <3>6. Score(t, Kept(j.cell, "data", t)'.bank) \in Nat
      BY <1>0, <1>2, <3>2, KeptTypedNext, ScoreIsNat
    <3>7. Score(t, eval[j]) \in Nat
      <4>1. eval[j] \in Outcomes
        BY <1>0, <3>1 DEF TypeOK
      <4>. QED
        BY <4>1, OutcomeIsDefinite, ScoreIsNat
    <3>. QED
      BY SMTT(20), <3>1, <3>3, <3>4, <3>5, <3>6, <3>7
  <2>2. CASE j \notin ValidBasicData
    <3>1. /\ j = k /\ k \notin DOMAIN eval /\ ~o.invalid /\ kind = "data"
          /\ l = SpaceOf("data").local.basic /\ g = SpaceOf("data").global.basic
      BY <1>1, <1>2, <2>2, DataGrows
    <3>2. t \in T \cap TargetSet /\ Finite(o)
      BY <3>1, OutcomeIsDefinite
    <3>3. Kept(cellIdx, kind, t).limit = NoLimit
      BY <1>0, <3>1 DEF JInv, Definite
    <3>4. Score(t, Kept(cellIdx, kind, t)'.bank) <= Score(t, o)
      BY <3>2, <3>3, EvaluationKeeps
    <3>. QED
      BY <1>1, <1>2, <3>1, <3>4
  <2>. QED
    BY <2>1, <2>2
<1>. QED
  BY <1>3, <1>4

\* A step that changes neither results nor evaluations nor what they are
\* compared with.
LEMMA SameResults ==
    ASSUME UNCHANGED <<cfg, best, eval>>
    PROVE  /\ \A c, kind, t : Kept(c, kind, t)' = Kept(c, kind, t)
           /\ ValidBasicData' = ValidBasicData /\ SpaceOf("data")' = SpaceOf("data")
           /\ Definite => Definite'
           /\ Paired => Paired'
<1>1. /\ \A c, kind, t : Kept(c, kind, t)' = Kept(c, kind, t)
      /\ SpaceOf("data")' = SpaceOf("data")
  BY Zenon DEF Kept, SpaceOf
<1>2. ValidBasicData' = ValidBasicData
  BY <1>1 DEF ValidBasicData
<1>3. Definite => Definite'
  BY <1>1 DEF Definite
<1>4. Paired => Paired'
  BY <1>1 DEF Paired
<1>. QED
  BY <1>1, <1>2, <1>3, <1>4

\* One organisation of the tag or data search.
LEMMA SearchKeepsJ ==
    ASSUME NEW kind \in Kinds, IInv, IInv', JInv, SearchDesign(kind)
    PROVE  JInv'
<1>0. TypeOK /\ TypeOK' /\ Unlimited /\ "data" \in Kinds /\ "tag" \in Kinds
  BY DEF IInv, Basis, Kinds
<1>1. /\ stage = kind /\ loop = "design" /\ cellIdx \in DOMAIN best /\ at \in Nat
      /\ UNCHANGED <<cfg, space, cellIdx, stage, loop, tgt, totalSolutions, printed>>
      /\ kind = "data" => layerCount' = layerCount
      /\ layerCount' \in Nat
      /\ \/ UNCHANGED <<best, eval, numSolution>>
         \/ \E o \in Outcomes :
               LET k == Key(cellIdx, kind, at, SpaceOf(kind).local.basic,
                            SpaceOf(kind).global.basic, layerCount') IN
               \/ o.invalid /\ Evaluates(kind, {}, k, o) /\ UNCHANGED numSolution
               \/ /\ ~o.invalid /\ Evaluates(kind, TargetSet, k, o)
                  /\ numSolution' = numSolution + 1
  BY SearchEvaluates
<1>2. stage \notin Merging /\ stage # "done" /\ stage # "merge" /\ stage # "limit"
  BY <1>1 DEF Kinds, Merging
<1>3. TriedSoFar'
  BY <1>1 DEF TriedSoFar
<1>4. CASE UNCHANGED <<best, eval, numSolution>>
  <2>1. /\ \A c, kd, t : Kept(c, kd, t)' = Kept(c, kd, t)
        /\ ValidBasicData' = ValidBasicData /\ SpaceOf("data")' = SpaceOf("data")
        /\ Definite' /\ Paired'
    BY <1>1, <1>4, SameResults DEF JInv
  <2>2. OwnCell' /\ Following'
    BY <1>1, <1>2, <1>4, <2>1 DEF JInv, OwnCell, Following
  <2>3. Found'
    BY <1>1, <1>4, <2>1 DEF JInv, Found
  <2>4. Anchored'
    <3>1. stage = "data" => \A d : Base(d)' = Base(d)
      BY <1>1, <2>1 DEF Base
    <3>. QED
      BY <1>1, <1>4, <2>1, <3>1 DEF JInv, Anchored
  <2>5. Beaten' /\ Counted'
    BY <1>1, <1>2, <1>4, <2>1 DEF JInv, Beaten, Counted
  <2>. QED
    BY <1>3, <2>1, <2>2, <2>3, <2>4, <2>5 DEF JInv
<1>5. CASE ~UNCHANGED <<best, eval, numSolution>>
  <2>. DEFINE l == SpaceOf(kind).local.basic
              g == SpaceOf(kind).global.basic
              k == Key(cellIdx, kind, at, l, g, layerCount')
  <2>1. PICK o \in Outcomes :
          \/ o.invalid /\ Evaluates(kind, {}, k, o) /\ UNCHANGED numSolution
          \/ /\ ~o.invalid /\ Evaluates(kind, TargetSet, k, o)
             /\ numSolution' = numSolution + 1
    BY <1>1, <1>5
  <2>2. PICK T : /\ Evaluates(kind, T, k, o)
                 /\ o.invalid => T = {} /\ UNCHANGED numSolution
                 /\ ~o.invalid => T = TargetSet /\ numSolution' = numSolution + 1
    BY <2>1
  <2>3. l \in AnyWire /\ g \in AnyWire
    <3>1. SpaceOf(kind) = Space
      BY <1>1, SpaceIsOwn DEF IInv, Basis, Kinds
    <3>. QED
      BY <1>0, <3>1, SpaceTyped DEF AnyWire
  <2>4. k.kind = kind /\ k.local = l /\ k.global = g /\ k.cell = cellIdx
    BY DEF Key
  <2>5. Calculate(k, o) /\ DOMAIN eval' = DOMAIN eval \cup {k} /\ DOMAIN best' = DOMAIN best
    BY Zenon, <2>2, CalculateKeeps DEF Evaluates
  <2>. HIDE DEF l, g
  <2>6. PICK q : q = k
    BY Zenon
  <2>7. /\ OwnCell' /\ Following' /\ Definite' /\ Paired'
        /\ \A c \in DOMAIN best, kd \in Kinds, u \in TargetSet :
             /\ Finite(Kept(c, kd, u).bank) => Finite(Kept(c, kd, u)'.bank)
             /\ Score(u, Kept(c, kd, u)'.bank) <= Score(u, Kept(c, kd, u).bank)
        /\ \A u \in T \cap TargetSet :
             Finite(o) /\ Kept(cellIdx, kind, u).limit = NoLimit =>
                 /\ Finite(Kept(cellIdx, kind, u)'.bank)
                 /\ Score(u, Kept(cellIdx, kind, u)'.bank) <= Score(u, o)
    BY Zenon, <1>0, <1>1, <2>1, <2>2, <2>3, <2>6, EvaluationKeeps
  <2>8. /\ Beaten'
        /\ \A j \in DOMAIN eval' : j.kind = "data" =>
              j.cell \in DOMAIN best' /\ (stage' = "tag" => j.cell # cellIdx')
    BY <1>0, <1>1, <2>1, <2>2, <2>3, <2>6, EvaluationBeaten
  <2>9. Found'
    <3>1. \A u \in TargetSet : Kept(cellIdx, kind, u).limit = NoLimit
      BY <1>0, <1>1 DEF Unlimited, Kept
    <3>2. numSolution' > 0 => \A u \in TargetSet : Finite(Kept(cellIdx, kind, u)'.bank)
      <4>1. CASE o.invalid
        <5>1. numSolution > 0 => \A u \in TargetSet : Finite(Kept(cellIdx, kind, u).bank)
          BY <1>1 DEF JInv, Found
        <5>. QED
          BY <1>1, <2>2, <2>7, <4>1, <5>1
      <4>2. CASE ~o.invalid
        BY <2>1, <2>2, <2>7, <3>1, <4>2, OutcomeIsDefinite
      <4>. QED
        BY <4>1, <4>2
    <3>3. stage = "data" /\ cfg.cache =>
             \A u \in TargetSet : Finite(Kept(cellIdx, "tag", u)'.bank)
      BY <1>0, <1>1, <2>7 DEF JInv, Found
    <3>4. numSolution' \in Nat /\ totalSolutions' \in Nat
      BY SMTT(20), <1>1, <2>2 DEF JInv, Found
    <3>. QED
      BY <1>1, <1>2, <3>2, <3>3, <3>4 DEF Found
  <2>10. Anchored'
    <3>1. ASSUME stage = "data", NEW u \in TargetSet, Finite(Kept(cellIdx, "data", u)'.bank)
          PROVE  (Base(Kept(cellIdx, "data", u).bank.design) \in DOMAIN eval)'
      <4>1. kind = "data" /\ SpaceOf("data")' = SpaceOf("data") /\ layerCount' = layerCount
        BY <1>1, <3>1 DEF SpaceOf
      <4>2. Base(at) = k
        BY <1>1, <4>1 DEF Base, l, g
      <4>3. PICK d : d = Kept(cellIdx, "data", u)'.bank.design
        BY Zenon
      <4>4. Kept(cellIdx, "data", u)' = Kept(cellIdx, "data", u) \/ d = at
        BY SMTT(20), <1>0, <1>1, <2>2, <2>3, <2>6, <4>3, EvaluatesOne
      <4>5. Base(d) \in DOMAIN eval'
        <5>1. CASE Kept(cellIdx, "data", u)' = Kept(cellIdx, "data", u)
          <6>1. Base(Kept(cellIdx, "data", u).bank.design) \in DOMAIN eval
            BY <3>1, <5>1 DEF JInv, Anchored
          <6>. QED
            BY <2>5, <4>3, <5>1, <6>1
        <5>2. CASE d = at
          BY <2>5, <4>2, <5>2
        <5>. QED
          BY <4>4, <5>1, <5>2
      <4>. QED
        BY <1>1, <4>1, <4>3, <4>5 DEF Base
    <3>. QED
      BY <1>1, <2>8, <3>1 DEF Anchored
  <2>11. Counted'
    <3>1. /\ ValidBasicData \subseteq ValidBasicData'
          /\ \A j \in ValidBasicData' :
               j \in ValidBasicData \/ (~o.invalid /\ kind = "data")
          /\ ~o.invalid /\ kind = "data" => k \in ValidBasicData'
      BY <1>1, <2>4, <2>5, DataGrows DEF l, g
    <3>2. numSolution \in Nat /\ numSolution' \in Nat
      BY SMTT(20), <2>2 DEF JInv, Found
    <3>3. ~cfg.isConstraintApplied =>
            (totalSolutions > 0 \/ (stage = "data" /\ numSolution > 0) <=> ValidBasicData # {})
      BY DEF JInv, Counted
    <3>4. CASE ~o.invalid /\ kind = "data"
      <4>1. numSolution' > 0 /\ ValidBasicData' # {}
        BY SMTT(20), <2>2, <3>1, <3>2, <3>4
      <4>. QED
        BY <1>1, <1>2, <3>4, <4>1 DEF Counted
    <3>5. CASE ~(~o.invalid /\ kind = "data")
      <4>1. ValidBasicData' = ValidBasicData
        BY <3>1, <3>5
      <4>2. stage = "data" => numSolution' = numSolution
        BY <1>1, <2>2, <3>5
      <4>. QED
        BY <1>1, <1>2, <3>3, <4>1, <4>2 DEF Counted
    <3>. QED
      BY <3>4, <3>5
  <2>. QED
    BY <1>3, <2>7, <2>8, <2>9, <2>10, <2>11 DEF JInv
<1>. QED
  BY <1>4, <1>5

\* That a wire was tried, after a step.
LEMMA TriedNext ==
    ASSUME UNCHANGED <<cfg, cellIdx, layerCount>>, NEW kind, NEW t, NEW i, NEW r, NEW k,
           r = Kept(cellIdx, kind, t)',
           k = Key(cellIdx, kind, r.bank.design, r.localWire,
                   SpaceOf(kind).global.refine[i], layerCount),
           k \in DOMAIN eval', Score(t, r.bank) <= Score(t, eval'[k])
    PROVE  Tried(kind, t, i)'
<1>1. SpaceOf(kind)' = SpaceOf(kind)
  BY DEF SpaceOf
<1>. QED
  BY <1>1 DEF Tried

\* A trial of the global loop: the wire tried, and the wires tried before, do
\* not beat what is retained.
LEMMA TrialTries ==
    ASSUME IInv, TypeOK', JInv, cellIdx \in DOMAIN best, loop = "global",
           NEW kind \in Kinds, stage = kind, NEW t \in TargetSet, NEW o \in Outcomes,
           NEW g \in AnyWire, NEW k,
           k = Key(cellIdx, kind, Kept(cellIdx, kind, t).bank.design,
                   Kept(cellIdx, kind, t).localWire, g, layerCount),
           Evaluates(kind, {t}, k, o), UNCHANGED <<cfg, cellIdx, layerCount>>
    PROVE  /\ \A i : g = SpaceOf(kind).global.refine[i] => Tried(kind, t, i)'
           /\ \A u \in TargetSet : \A i : Tried(kind, u, i) => Tried(kind, u, i)'
<1>0. TypeOK
  BY DEF IInv, Basis
<1>1. /\ DOMAIN best' = DOMAIN best /\ DOMAIN eval' = DOMAIN eval \cup {k} /\ eval'[k] = o
      /\ \A j \in DOMAIN eval : eval'[j] = eval[j]
  BY CalculateKeeps DEF Evaluates
<1>2. /\ Kept(cellIdx, kind, t).bank.design \in Nat
      /\ Kept(cellIdx, kind, t).localWire \in AnyWire /\ layerCount \in Nat
  BY <1>0, KeptTyped DEF TypeOK
<1>3. ASSUME NEW u \in TargetSet
      PROVE  /\ Kept(cellIdx, kind, u)'.bank.design = Kept(cellIdx, kind, u).bank.design
             /\ Kept(cellIdx, kind, u)'.localWire = Kept(cellIdx, kind, u).localWire
             /\ Score(u, Kept(cellIdx, kind, u)'.bank) <= Score(u, Kept(cellIdx, kind, u).bank)
             /\ u = t /\ WithinLimits(Kept(cellIdx, kind, u).limit, o) =>
                  Score(u, Kept(cellIdx, kind, u)'.bank) <= Score(u, o)
             /\ Score(u, Kept(cellIdx, kind, u)'.bank) \in Nat
             /\ Score(u, Kept(cellIdx, kind, u).bank) \in Nat
  <2>1. /\ Score(u, Kept(cellIdx, kind, u)'.bank) <= Score(u, Kept(cellIdx, kind, u).bank)
        /\ \/ Kept(cellIdx, kind, u)' = Kept(cellIdx, kind, u)
           \/ /\ u \in {t}
              /\ Kept(cellIdx, kind, u)'.bank.design = Kept(cellIdx, kind, t).bank.design
              /\ Kept(cellIdx, kind, u)'.localWire = Kept(cellIdx, kind, t).localWire
        /\ u \in {t} /\ WithinLimits(Kept(cellIdx, kind, u).limit, o) =>
             Score(u, Kept(cellIdx, kind, u)'.bank) <= Score(u, o)
    BY SMTT(20), <1>0, <1>2, EvaluatesOne
  <2>2. Score(u, Kept(cellIdx, kind, u)'.bank) \in Nat
    BY <1>1, KeptTypedNext, ScoreIsNat
  <2>3. Score(u, Kept(cellIdx, kind, u).bank) \in Nat
    BY <1>0, KeptTyped, ScoreIsNat
  <2>. QED
    BY <2>1, <2>2, <2>3
<1>4. Score(t, Kept(cellIdx, kind, t)'.bank) <= Score(t, o)
  <2>0. o.lat \in Nat /\ o.en \in Nat /\ (Finite(o) \/ Blank(o))
    BY OutcomeIsDefinite
  <2>1. CASE Finite(o)
    <3>1. WithinLimits(NoLimit, o)
      BY <2>0, <2>1, UnlimitedIsFinite
    <3>2. Kept(cellIdx, kind, t).limit = NoLimit
      BY DEF IInv, Unlimited, Kept
    <3>. QED
      BY <1>3, <3>1, <3>2
  <2>2. CASE Blank(o)
    <3>1. Finite(Kept(cellIdx, kind, t).bank)
      BY DEF JInv, Found
    <3>2. Kept(cellIdx, kind, t).bank.lat \in Nat /\ Kept(cellIdx, kind, t).bank.en \in Nat
      BY <1>0, KeptTyped
    <3>3. Score(t, Kept(cellIdx, kind, t).bank) < invalid_value
      BY <3>1, <3>2, Scores
    <3>4. Score(t, o) >= invalid_value /\ Score(t, o) \in Nat
      BY <2>0, <2>2, Scores
    <3>5. invalid_value \in Nat
      BY SMTT(20) DEF invalid_value
    <3>. QED
      BY SMTT(20), <1>3, <3>3, <3>4, <3>5
  <2>. QED
    BY <2>0, <2>1, <2>2
<1>5. ASSUME NEW i, g = SpaceOf(kind).global.refine[i]
      PROVE  Tried(kind, t, i)'
  <2>1. PICK r : r = Kept(cellIdx, kind, t)'
    OBVIOUS
  <2>2. k = Key(cellIdx, kind, r.bank.design, r.localWire,
                SpaceOf(kind).global.refine[i], layerCount)
    BY <1>3, <1>5, <2>1
  <2>3. k \in DOMAIN eval' /\ Score(t, r.bank) <= Score(t, eval'[k])
    BY <1>1, <1>4, <2>1
  <2>. QED
    BY <2>1, <2>2, <2>3, TriedNext
<1>6. ASSUME NEW u \in TargetSet, NEW i, Tried(kind, u, i)
      PROVE  Tried(kind, u, i)'
  <2>1. PICK r : r = Kept(cellIdx, kind, u)'
    OBVIOUS
  <2>. DEFINE j == Key(cellIdx, kind, r.bank.design, r.localWire,
                       SpaceOf(kind).global.refine[i], layerCount)
  <2>2. j \in DOMAIN eval /\ Score(u, Kept(cellIdx, kind, u).bank) <= Score(u, eval[j])
    BY <1>3, <1>6, <2>1 DEF Tried
  <2>3. Score(u, eval[j]) \in Nat
    <3>1. eval[j] \in Outcomes
      BY <1>0, <2>2 DEF TypeOK
    <3>. QED
      BY <3>1, OutcomeIsDefinite, ScoreIsNat
  <2>. HIDE DEF j
  <2>4. j \in DOMAIN eval' /\ Score(u, r.bank) <= Score(u, eval'[j])
    BY SMTT(20), <1>1, <1>3, <2>1, <2>2, <2>3
  <2>5. j = Key(cellIdx, kind, r.bank.design, r.localWire,
                SpaceOf(kind).global.refine[i], layerCount)
    BY DEF j
  <2>. QED
    BY <2>1, <2>4, <2>5, TriedNext
<1>. QED
  BY <1>5, <1>6

\* One trial of either refinement loop.
LEMMA RefineKeepsJ ==
    ASSUME NEW kind \in Kinds, IInv, IInv', JInv,
           RefineLocalWire(kind) \/ RefineGlobalWire(kind)
    PROVE  JInv'
<1>0. TypeOK /\ TypeOK' /\ "data" \in Kinds /\ "tag" \in Kinds
  BY DEF IInv, Basis, Kinds
<1>t. PICK t : t = Targets[tgt]
  BY Zenon
<1>1. /\ stage = kind /\ loop \in {"local", "global"} /\ cellIdx \in DOMAIN best
      /\ UNCHANGED <<cfg, space, layerCount, cellIdx, stage, loop, numSolution,
                     totalSolutions, printed>>
      /\ t \in TargetSet
      /\ \E o \in Outcomes, l \in AnyWire, g \in AnyWire :
           /\ Evaluates(kind, {t},
                  Key(cellIdx, kind, Kept(cellIdx, kind, t).bank.design, l, g, layerCount), o)
           /\ loop = "global" =>
                /\ l = Kept(cellIdx, kind, t).localWire
                /\ g = SpaceOf(kind).global.refine[at]
  BY Zenon, <1>t, RefineEvaluates
<1>2. stage \notin Merging /\ stage # "done" /\ stage # "merge" /\ stage # "limit"
  BY <1>1 DEF Kinds, Merging
<1>. DEFINE d == Kept(cellIdx, kind, t).bank.design
<1>3. PICK o \in Outcomes, l \in AnyWire, g \in AnyWire :
        /\ Evaluates(kind, {t}, Key(cellIdx, kind, d, l, g, layerCount), o)
        /\ loop = "global" =>
             /\ l = Kept(cellIdx, kind, t).localWire
             /\ g = SpaceOf(kind).global.refine[at]
  BY <1>1
<1>4. d \in Nat /\ layerCount \in Nat
  BY <1>0, <1>1, KeptTyped DEF TypeOK
<1>. HIDE DEF d
<1>5. PICK k : k = Key(cellIdx, kind, d, l, g, layerCount)
  BY Zenon
<1>6. k.kind = kind /\ k.local = l /\ k.global = g /\ k.cell = cellIdx
  BY <1>5 DEF Key
<1>7. Evaluates(kind, {t}, k, o) /\ Calculate(k, o) /\ DOMAIN eval' = DOMAIN eval \cup {k}
      /\ DOMAIN best' = DOMAIN best
  BY Zenon, <1>3, <1>5, CalculateKeeps DEF Evaluates
<1>8. /\ OwnCell' /\ Following' /\ Definite' /\ Paired'
      /\ \A c \in DOMAIN best, kd \in Kinds, u \in TargetSet :
           /\ Finite(Kept(c, kd, u).bank) => Finite(Kept(c, kd, u)'.bank)
           /\ Score(u, Kept(c, kd, u)'.bank) <= Score(u, Kept(c, kd, u).bank)
  BY Zenon, <1>0, <1>1, <1>4, <1>5, <1>7, EvaluationKeeps
<1>9. numSolution > 0 /\ \A u \in TargetSet : Finite(Kept(cellIdx, kind, u).bank)
  BY <1>1 DEF JInv, Found
<1>10. \A u \in TargetSet :
         Kept(cellIdx, kind, u)'.bank.design = Kept(cellIdx, kind, u).bank.design
  <2>0. cellIdx \in DOMAIN best /\ cellIdx' = cellIdx
    BY <1>1
  <2>1. ASSUME NEW u \in TargetSet
        PROVE  \/ Kept(cellIdx, kind, u)' = Kept(cellIdx, kind, u)
               \/ u \in {t} /\ Kept(cellIdx, kind, u)'.bank.design = d
    <3>1. PICK c \in DOMAIN best : c = cellIdx
      BY <2>0
    <3>2. \/ Kept(c, kind, u)' = Kept(c, kind, u)
          \/ u \in {t} /\ Kept(c, kind, u)'.bank.design = d
      <4>1. TypeOK /\ Evaluates(kind, {t}, k, o)
        BY <1>0, <1>7
      <4>. QED
        BY SMTT(20), <4>1, <1>4, <1>5, EvaluatesOne
    <3>. QED
      BY <2>0, <3>1, <3>2
  <2>. QED
    BY <2>1 DEF d
<1>11. k \in DOMAIN eval \/ kind # "data" \/ l # SpaceOf("data").local.basic
       \/ g # SpaceOf("data").global.basic
  <2>. SUFFICES ASSUME kind = "data", l = SpaceOf("data").local.basic,
                       g = SpaceOf("data").global.basic
                PROVE  k \in DOMAIN eval
    OBVIOUS
  <2>1. k = Base(d)
    BY <1>5 DEF Base
  <2>2. Base(d) \in DOMAIN eval
    BY <1>1, <1>9 DEF JInv, Anchored, d
  <2>. QED
    BY <2>1, <2>2
<1>12. /\ Beaten'
       /\ \A j \in DOMAIN eval' : j.kind = "data" =>
             j.cell \in DOMAIN best' /\ (stage' = "tag" => j.cell # cellIdx')
  BY ZenonT(30), <1>0, <1>1, <1>4, <1>5, <1>7, <1>11, EvaluationBeaten
<1>13. Found'
  <2>1. \A u \in TargetSet : Finite(Kept(cellIdx, kind, u)'.bank)
    BY <1>1, <1>8, <1>9
  <2>2. stage = "data" /\ cfg.cache =>
           \A u \in TargetSet : Finite(Kept(cellIdx, "tag", u)'.bank)
    BY <1>0, <1>1, <1>8 DEF JInv, Found
  <2>3. numSolution \in Nat /\ totalSolutions \in Nat
    BY DEF JInv, Found
  <2>. QED
    BY <1>1, <1>2, <1>9, <2>1, <2>2, <2>3 DEF Found
<1>14. Anchored'
  <2>1. ASSUME stage = "data", NEW u \in TargetSet
        PROVE  (Base(Kept(cellIdx, "data", u).bank.design) \in DOMAIN eval)'
    <3>1. kind = "data" /\ SpaceOf("data")' = SpaceOf("data")
      BY <1>1, <2>1 DEF SpaceOf
    <3>2. PICK e : e = Kept(cellIdx, "data", u)'.bank.design
      BY Zenon
    <3>3. Base(e) \in DOMAIN eval'
      <4>1. Base(Kept(cellIdx, "data", u).bank.design) \in DOMAIN eval
        BY <1>1, <1>9, <3>1 DEF JInv, Anchored
      <4>. QED
        BY <1>7, <1>10, <3>1, <3>2, <4>1
    <3>. QED
      BY <1>1, <3>1, <3>2, <3>3 DEF Base
  <2>. QED
    BY <1>1, <1>12, <2>1 DEF Anchored
<1>15. Counted'
  <2>1. ValidBasicData' = ValidBasicData
    BY <1>1, <1>6, <1>7, <1>11, DataGrows
  <2>. QED
    BY <1>1, <1>2, <2>1 DEF JInv, Counted
<1>16. TriedSoFar'
  <2>. SUFFICES ASSUME loop = "global", NEW i \in DOMAIN SpaceOf(kind).global.refine,
                       NEW j \in 1..3, Before(i, j)'
                PROVE  Tried(kind, Targets[j], i)'
    <3>1. SpaceOf(kind)' = SpaceOf(kind)
      BY <1>1 DEF SpaceOf
    <3>. QED
      BY <1>1, <3>1 DEF TriedSoFar
  <2>1. /\ \A x : g = SpaceOf(kind).global.refine[x] => Tried(kind, t, x)'
        /\ \A u \in TargetSet : \A x : Tried(kind, u, x) => Tried(kind, u, x)'
    <3>1. k = Key(cellIdx, kind, Kept(cellIdx, kind, t).bank.design,
                  Kept(cellIdx, kind, t).localWire, g, layerCount)
      BY <1>3, <1>5 DEF d
    <3>. QED
      BY Zenon, <1>0, <1>1, <1>7, <3>1, TrialTries
  <2>2. Targets[j] \in TargetSet
    BY SMTT(20) DEF Targets, TargetSet
  <2>3. NextTrial /\ at \in Nat /\ tgt \in 1..3 /\ i \in Nat /\ Len(Targets) = 3
    <3>1. SpaceOf(kind) = Space
      BY <1>1, SpaceIsOwn DEF IInv, Basis, Kinds
    <3>2. i \in Nat
      BY SMTT(20), <1>0, <3>1, SpaceTyped
    <3>. QED
      BY <1>0, <3>2 DEF RefineLocalWire, RefineGlobalWire, TypeOK, Targets
  <2>4. Before(i, j) \/ (i = at /\ j = tgt)
    BY SMTT(20), <2>3 DEF NextTrial, Before
  <2>5. CASE Before(i, j)
    <3>1. Tried(kind, Targets[j], i)
      BY <1>1, <2>5 DEF JInv, TriedSoFar
    <3>. QED
      BY <2>1, <2>2, <3>1
  <2>6. CASE i = at /\ j = tgt
    BY <1>3, <1>t, <2>1, <2>6
  <2>. QED
    BY <2>4, <2>5, <2>6
<1>. QED
  BY <1>8, <1>12, <1>13, <1>14, <1>15, <1>16 DEF JInv

\* One organisation of the constrained search.
LEMMA ConstrainedKeepsJ ==
    ASSUME IInv, IInv', JInv, ConstrainedDesign
    PROVE  JInv'
<1>0. TypeOK /\ TypeOK' /\ "data" \in Kinds /\ "tag" \in Kinds
  BY DEF IInv, Basis, Kinds
<1>1. /\ stage = "limit" /\ cellIdx \in DOMAIN best /\ at \in Nat
      /\ UNCHANGED <<cfg, space, layerCount, cellIdx, stage, loop, tgt,
                     totalSolutions, printed>>
      /\ numSolution' \in {numSolution, numSolution + 1}
      /\ \/ UNCHANGED <<best, eval>>
         \/ \E o \in Outcomes, T \in {{}, TargetSet} :
               Evaluates("data", T,
                   Key(cellIdx, "data", at, SpaceOf("data").local.basic,
                       SpaceOf("data").global.basic, layerCount), o)
  BY Zenon, ConstrainedEvaluates
<1>2. cfg.isConstraintApplied
  BY <1>1 DEF JInv, Beaten
<1>3. TriedSoFar' /\ Beaten' /\ Counted'
  BY <1>1, <1>2 DEF TriedSoFar, Beaten, Counted, Kinds
<1>4. numSolution' \in Nat /\ totalSolutions' \in Nat
  BY SMTT(20), <1>1 DEF JInv, Found
<1>5. CASE UNCHANGED <<best, eval>>
  <2>1. (\A c, kd, t : Kept(c, kd, t)' = Kept(c, kd, t)) /\ Definite' /\ Paired'
    BY <1>1, <1>5, SameResults DEF JInv
  <2>2. OwnCell' /\ Following'
    BY SMTT(20), <1>1, <1>5, <2>1 DEF JInv, OwnCell, Following, Merging
  <2>3. Found' /\ Anchored'
    BY <1>1, <1>4, <1>5, <2>1 DEF JInv, Found, Anchored, Kinds
  <2>. QED
    BY <1>3, <2>1, <2>2, <2>3 DEF JInv
<1>6. ASSUME NEW o \in Outcomes, NEW T,
             Evaluates("data", T,
                 Key(cellIdx, "data", at, SpaceOf("data").local.basic,
                     SpaceOf("data").global.basic, layerCount), o)
      PROVE  JInv'
  <2>1. PICK k : k = Key(cellIdx, "data", at, SpaceOf("data").local.basic,
                         SpaceOf("data").global.basic, layerCount)
    BY Zenon
  <2>2. SpaceOf("data").local.basic \in AnyWire /\ SpaceOf("data").global.basic \in AnyWire
        /\ layerCount \in Nat
    <3>1. SpaceOf("data") = Space
      BY <1>1, SpaceIsOwn DEF IInv, Basis
    <3>. QED
      BY <1>0, <3>1, SpaceTyped DEF AnyWire, TypeOK
  <2>3. /\ OwnCell' /\ Following' /\ Definite' /\ Paired'
        /\ \A c \in DOMAIN best, kd \in Kinds, u \in TargetSet :
             /\ Finite(Kept(c, kd, u).bank) => Finite(Kept(c, kd, u)'.bank)
             /\ Score(u, Kept(c, kd, u)'.bank) <= Score(u, Kept(c, kd, u).bank)
    BY Zenon, <1>0, <1>1, <1>6, <2>1, <2>2, EvaluationKeeps
  <2>4. Found'
    <3>1. cfg.cache => \A u \in TargetSet : Finite(Kept(cellIdx, "tag", u)'.bank)
      BY <1>0, <1>1, <2>3 DEF JInv, Found
    <3>. QED
      BY <1>1, <1>4, <3>1 DEF Found, Kinds
  <2>5. Anchored'
    <3>1. DOMAIN eval' = DOMAIN eval \cup {k} /\ DOMAIN best' = DOMAIN best
      BY Zenon, <1>6, <2>1, CalculateKeeps DEF Evaluates
    <3>2. k.cell = cellIdx
      BY <2>1 DEF Key
    <3>. QED
      BY <1>1, <3>1, <3>2 DEF JInv, Anchored
  <2>. QED
    BY <1>3, <2>3, <2>4, <2>5 DEF JInv
<1>. QED
  BY <1>1, <1>5, <1>6

\* APPLY_LIMIT leaves a result without metrics, for the same cell.
LEMMA LimitFields ==
    ASSUME NEW row \in [TargetSet -> ResultType], NEW t \in TargetSet
    PROVE  /\ Blank(ApplyLimit(row)[t].bank)
           /\ ApplyLimit(row)[t].cellTech = row[t].cellTech
<1>. DEFINE r == row[t]
            b == [r.bank EXCEPT !.lat = invalid_value, !.en = invalid_value]
            q == [r EXCEPT !.bank = b]
<1>1. r \in ResultType /\ r.bank \in BankType
  BY DEF ResultType
<1>2. b.lat = invalid_value /\ b.en = invalid_value
  <2>. DEFINE a == [r.bank EXCEPT !.lat = invalid_value]
  <2>1. a \in BankType /\ a.lat = invalid_value
    BY SMTT(20), <1>1 DEF BankType, invalid_value
  <2>2. b = [a EXCEPT !.en = invalid_value]
    BY <1>1 DEF BankType
  <2>. HIDE DEF a
  <2>. QED
    BY <2>1, <2>2 DEF BankType
<1>3. ApplyLimit(row)[t] = [q EXCEPT !.limit = Allowed(row)]
  BY <1>1 DEF ApplyLimit, reset
<1>. HIDE DEF b
<1>4. q.bank = b /\ q.cellTech = r.cellTech
  BY <1>1 DEF ResultType
<1>5. ApplyLimit(row)[t].bank = b /\ ApplyLimit(row)[t].cellTech = r.cellTech
  BY <1>1, <1>3, <1>4 DEF ResultType
<1>. QED
  BY <1>2, <1>5 DEF Blank

\* Blank metrics are not finite.
LEMMA BlankIsNotFinite ==
    ASSUME NEW b, Blank(b)
    PROVE  ~Finite(b)
BY SMTT(20) DEF Blank, Finite, invalid_value

\* Turning relative constraints into limits.
LEMMA ConstrainKeepsJ ==
    ASSUME IInv, IInv', JInv, Constrain
    PROVE  JInv'
<1>0. TypeOK /\ "data" \in Kinds /\ "tag" \in Kinds
  BY DEF IInv, Basis, Kinds
<1>1. /\ stage = "data" /\ stage' = "limit" /\ cfg.isConstraintApplied /\ numSolution' = 0
      /\ UNCHANGED <<cfg, space, layerCount, cellIdx, totalSolutions, printed, eval>>
  BY DEF Constrain, GoTo
<1>2. best \in [DOMAIN best -> ResultsType] /\ cellIdx \in DOMAIN best
  BY SMTT(20), <1>1 DEF IInv, Basis, Where, TypeOK, Searching
<1>. DEFINE row == best[cellIdx]["data"]
<1>3. row \in [TargetSet -> ResultType]
  BY <1>0, <1>2 DEF ResultsType
<1>4. best' = [best EXCEPT ![cellIdx]["data"] = ApplyLimit(row)]
  BY <1>2 DEF Constrain, ResultsType, Kinds
<1>. HIDE DEF row
<1>5. /\ DOMAIN best' = DOMAIN best
      /\ \A c \in DOMAIN best, kd \in Kinds, u \in TargetSet :
            \/ Kept(c, kd, u)' = Kept(c, kd, u)
            \/ /\ c = cellIdx /\ kd = "data"
               /\ Kept(c, kd, u)' = ApplyLimit(row)[u] /\ Kept(c, kd, u) = row[u]
      /\ \A c \in DOMAIN best, u \in TargetSet : Kept(c, "tag", u)' = Kept(c, "tag", u)
  BY <1>0, <1>2, <1>4 DEF ResultsType, Kept, row
<1>6. \A c \in DOMAIN best, kd \in Kinds, u \in TargetSet :
         /\ Kept(c, kd, u)'.cellTech = Kept(c, kd, u).cellTech
         /\ \/ Kept(c, kd, u)' = Kept(c, kd, u)
            \/ kd = "data" /\ Blank(Kept(c, kd, u)'.bank)
  BY <1>3, <1>5, LimitFields
<1>7. OwnCell' /\ Following'
  <2>1. \A c \in DOMAIN best, kd \in Kinds, u \in TargetSet : Kept(c, kd, u).cellTech = c
    BY <1>1 DEF JInv, OwnCell, Merging
  <2>. QED
    BY SMTT(20), <1>1, <1>5, <1>6, <2>1 DEF OwnCell, Following, Merging
<1>8. Definite'
  <2>1. \A c \in DOMAIN best, kd \in Kinds, u \in TargetSet :
          /\ Finite(Kept(c, kd, u).bank) \/ Blank(Kept(c, kd, u).bank)
          /\ kd = "tag" => Kept(c, kd, u).limit = NoLimit
    BY DEF JInv, Definite
  <2>. QED
    BY SMTT(20), <1>1, <1>5, <1>6, <2>1 DEF Definite
<1>9. Paired'
  <2>. SUFFICES ASSUME cfg.cache, NEW c \in DOMAIN best, NEW u \in TargetSet,
                       Finite(Kept(c, "data", u)'.bank)
                PROVE  Finite(Kept(c, "tag", u)'.bank)
    BY <1>1, <1>5 DEF Paired
  <2>1. Kept(c, "data", u)' = Kept(c, "data", u)
    BY <1>0, <1>6, BlankIsNotFinite
  <2>. QED
    BY <1>5, <2>1 DEF JInv, Paired
<1>10. Found'
  <2>1. cfg.cache => \A u \in TargetSet : Finite(Kept(cellIdx, "tag", u)'.bank)
    BY <1>1, <1>2, <1>5 DEF JInv, Found
  <2>2. totalSolutions \in Nat
    BY DEF JInv, Found
  <2>. QED
    BY <1>1, <2>1, <2>2 DEF Found, Kinds
<1>11. Anchored'
  BY <1>1, <1>5 DEF JInv, Anchored
<1>12. Beaten' /\ Counted' /\ TriedSoFar'
  BY <1>1 DEF Beaten, Counted, TriedSoFar, Kinds
<1>. QED
  BY <1>7, <1>8, <1>9, <1>10, <1>11, <1>12 DEF JInv

\* No worse than a result that is no worse than a third.
LEMMA AtMostTransitive == \A a, b, c \in Nat : a <= b /\ b <= c => a <= c
BY SMTT(20)

\* A new cell starts with empty results and without data evaluations.
LEMMA StartKeepsJ ==
    ASSUME IInv, IInv', JInv, StartCell
    PROVE  JInv'
<1>0. TypeOK /\ "data" \in Kinds /\ "tag" \in Kinds
  BY DEF IInv, Basis, Kinds
<1>1. /\ stage = "cell" /\ loop' = "design" /\ numSolution' = 0
      /\ UNCHANGED <<cfg, layerCount, cellIdx, totalSolutions, printed, eval>>
      /\ stage' \in {"tag", "data"}
      /\ cfg.cache => stage' = "tag"
      /\ ~cfg.cache => stage' = "data"
  BY DEF StartCell, GoTo
<1>2. cellIdx \in Nat \ {0} /\ DOMAIN best = 1..(cellIdx - 1)
  BY <1>1 DEF IInv, Basis, Where, TypeOK
<1>3. /\ DOMAIN best' = DOMAIN best \cup {cellIdx} /\ cellIdx \notin DOMAIN best
      /\ best'[cellIdx] = FreshResults(cellIdx)
      /\ \A c \in DOMAIN best : best'[c] = best[c]
  BY SMTT(20), <1>2 DEF StartCell
<1>4. \A c \in DOMAIN best : \A kd, u : Kept(c, kd, u)' = Kept(c, kd, u)
  BY <1>3 DEF Kept
<1>x. PICK x : x = cellIdx
  BY Zenon
<1>d. DOMAIN best' = DOMAIN best \cup {x} /\ best'[x] = FreshResults(x)
  BY <1>3, <1>x
<1>5. \A kd \in Kinds, u \in TargetSet :
         /\ Kept(x, kd, u)'.cellTech = x
         /\ Kept(x, kd, u)'.limit = NoLimit
         /\ Blank(Kept(x, kd, u)'.bank)
  BY SMTT(20), <1>d DEF Kept, FreshResults, NewResult, NoBank, Blank
<1>6. OwnCell' /\ Following'
  <2>1. stage \notin Merging /\ stage' \notin Merging /\ stage' # "merge" /\ stage' # "done"
    BY <1>1 DEF Merging
  <2>. QED
    BY SMTT(20), <1>4, <1>5, <1>d, <2>1 DEF JInv, OwnCell, Following
<1>7. Definite'
  <2>1. cfg' = cfg
    BY <1>1
  <2>. QED
    BY SMTT(20), <1>4, <1>5, <1>d, <2>1 DEF JInv, Definite
<1>8. Paired'
  <2>1. cfg' = cfg
    BY <1>1
  <2>. QED
    BY SMTT(20), <1>0, <1>4, <1>5, <1>d, <2>1, BlankIsNotFinite DEF JInv, Paired
<1>9. Found'
  BY SMTT(20), <1>1 DEF JInv, Found, Kinds
<1>10. Anchored'
  BY <1>0, <1>1, <1>3, <1>5, <1>x, BlankIsNotFinite DEF JInv, Anchored
<1>11. SpaceOf("data")' = SpaceOf("data") /\ ValidBasicData' = ValidBasicData
  BY <1>1 DEF SpaceOf, ValidBasicData
<1>12. Beaten'
  <2>1. \A k \in ValidBasicData : k.cell \in DOMAIN best
    BY DEF ValidBasicData, JInv, Anchored
  <2>. QED
    BY <1>1, <1>4, <1>11, <2>1 DEF JInv, Beaten, Merging
<1>13. Counted' /\ TriedSoFar'
  BY SMTT(20), <1>1, <1>11 DEF JInv, Counted, TriedSoFar
<1>. QED
  BY <1>6, <1>7, <1>8, <1>9, <1>10, <1>12, <1>13 DEF JInv

\* The end of a loop over organisations or wires.
LEMMA LoopDoneKeepsJ ==
    ASSUME NEW kind \in Kinds, IInv, IInv', JInv, SearchDone(kind) \/ RefineDone(kind)
    PROVE  JInv'
<1>1. /\ stage = kind /\ stage' = kind /\ at' = 1 /\ tgt' = 1
      /\ UNCHANGED <<cfg, space, layerCount, cellIdx, best, numSolution, totalSolutions,
                     printed, eval>>
  BY DEF SearchDone, RefineDone, GoTo
<1>2. /\ \A c, kd, t : Kept(c, kd, t)' = Kept(c, kd, t)
      /\ ValidBasicData' = ValidBasicData /\ SpaceOf("data")' = SpaceOf("data")
      /\ Definite' /\ Paired'
  BY <1>1, SameResults DEF JInv
<1>3. OwnCell' /\ Following'
  BY SMTT(20), <1>1, <1>2 DEF JInv, OwnCell, Following, Merging
<1>4. Anchored'
  <2>1. \A d : Base(d)' = Base(d)
    BY <1>1, <1>2 DEF Base
  <2>. QED
    BY <1>1, <1>2, <2>1 DEF JInv, Anchored
<1>5. Beaten' /\ Counted'
  BY <1>1, <1>2 DEF JInv, Beaten, Counted, Merging, Kinds
<1>6. Found'
  <2>1. loop' \in {"local", "global"} => numSolution > 0
    BY <1>1 DEF SearchDone, RefineDone, GoTo, JInv, Found
  <2>. QED
    BY <1>1, <1>2, <2>1 DEF JInv, Found
<1>7. TriedSoFar'
  <2>0. TypeOK /\ numSolution \in Nat
    BY DEF IInv, Basis, JInv, Found
  <2>1. SpaceOf(kind)' = SpaceOf(kind) /\ Space = SpaceOf(kind)
    BY <1>1, SpaceIsOwn DEF SpaceOf, IInv, Basis, Kinds
  <2>2. SpaceOf(kind).global.refine \in Seq(Wire)
    BY <2>0, <2>1, SpaceTyped
  <2>3. \A t, i : Tried(kind, t, i) => Tried(kind, t, i)'
    BY <1>1, <1>2, <2>1 DEF Tried
  <2>. SUFFICES ASSUME NEW i \in DOMAIN SpaceOf(kind).global.refine, NEW j \in 1..3,
                       \/ loop' = "end" /\ numSolution > 0
                       \/ loop' = "global" /\ Before(i, j)'
                PROVE  Tried(kind, Targets[j], i)'
    BY <1>1, <2>1 DEF TriedSoFar
  <2>4. i \in Nat /\ i >= 1 /\ i <= Len(SpaceOf(kind).global.refine)
        /\ Len(SpaceOf(kind).global.refine) \in Nat /\ at \in Nat
    BY SMTT(20), <2>0, <2>2 DEF TypeOK
  <2>5. ~Before(i, j)'
    BY SMTT(20), <1>1, <2>4 DEF Before
  <2>6. loop = "global" /\ at > Len(SpaceOf(kind).global.refine)
    BY <2>0, <2>1, <2>5 DEF SearchDone, RefineDone, GoTo
  <2>7. Before(i, j)
    BY SMTT(20), <2>4, <2>6 DEF Before
  <2>8. Tried(kind, Targets[j], i)
    BY <1>1, <2>6, <2>7 DEF JInv, TriedSoFar
  <2>. QED
    BY <2>3, <2>8
<1>. QED
  BY <1>2, <1>3, <1>4, <1>5, <1>6, <1>7 DEF JInv

\* The end of a cell, and the step from its tags to its data.
LEMMA CellKeepsJ ==
    ASSUME IInv, IInv', JInv, TagFailed \/ TagDone \/ CellDone
    PROVE  JInv'
<1>0. TypeOK /\ "data" \in Kinds /\ "tag" \in Kinds
  BY DEF IInv, Basis, Kinds
<1>1. /\ stage' \in {"cell", "data"} /\ loop' \in {"none", "design"}
      /\ stage \in {"tag", "data", "limit"}
      /\ UNCHANGED <<cfg, layerCount, best, printed, eval>>
  BY DEF TagFailed, TagDone, CellDone, GoTo
<1>2. /\ \A c, kd, t : Kept(c, kd, t)' = Kept(c, kd, t)
      /\ ValidBasicData' = ValidBasicData /\ SpaceOf("data")' = SpaceOf("data")
      /\ Definite' /\ Paired'
  BY <1>1, SameResults DEF JInv
<1>3. OwnCell' /\ Following' /\ TriedSoFar'
  BY SMTT(20), <1>1, <1>2 DEF JInv, OwnCell, Following, Merging, TriedSoFar
<1>4. Beaten'
  BY <1>1, <1>2 DEF JInv, Beaten, Merging
<1>5. numSolution \in Nat /\ totalSolutions \in Nat
  BY DEF JInv, Found
<1>6. CASE TagFailed \/ CellDone
  <2>1. /\ stage' = "cell"
        /\ \/ TagFailed /\ UNCHANGED <<totalSolutions, numSolution>> /\ stage = "tag"
           \/ /\ CellDone /\ totalSolutions' = totalSolutions + numSolution
              /\ UNCHANGED numSolution
              /\ stage = "data" \/ stage = "limit"
    BY <1>6 DEF TagFailed, CellDone, GoTo
  <2>2. Found'
    BY SMTT(20), <1>5, <2>1 DEF Found, Kinds
  <2>3. Anchored'
    BY <1>1, <2>1 DEF JInv, Anchored
  <2>4. Counted'
    <3>1. stage = "limit" => cfg.isConstraintApplied
      BY DEF JInv, Beaten
    <3>2. ~cfg.isConstraintApplied =>
            (totalSolutions > 0 \/ (stage = "data" /\ numSolution > 0) <=> ValidBasicData # {})
      BY DEF JInv, Counted
    <3>3. CASE stage = "limit"
      BY <1>1, <2>1, <3>1, <3>3 DEF Counted
    <3>4. CASE stage = "tag"
      BY <1>1, <1>2, <2>1, <3>2, <3>4 DEF Counted
    <3>5. CASE stage = "data"
      <4>1. totalSolutions' > 0 <=> totalSolutions > 0 \/ numSolution > 0
        BY SMTT(20), <1>5, <2>1, <3>5
      <4>. QED
        BY <1>1, <1>2, <2>1, <3>2, <3>5, <4>1 DEF Counted
    <3>. QED
      BY <1>1, <3>3, <3>4, <3>5
  <2>. QED
    BY <1>2, <1>3, <1>4, <2>2, <2>3, <2>4 DEF JInv
<1>7. CASE TagDone
  <2>1. /\ stage = "tag" /\ stage' = "data" /\ loop' = "design" /\ numSolution > 0
        /\ numSolution' = 0 /\ UNCHANGED <<cellIdx, totalSolutions>>
    BY <1>7 DEF TagDone, GoTo
  <2>2. cellIdx \in DOMAIN best
    BY SMTT(20), <2>1 DEF IInv, Basis, Where, Searching, TypeOK
  <2>3. Found'
    <3>1. \A t \in TargetSet : Finite(Kept(cellIdx, "tag", t)'.bank)
      BY <1>0, <1>2, <2>1 DEF JInv, Found
    <3>. QED
      BY SMTT(20), <1>5, <2>1, <3>1 DEF Found
  <2>4. \A t \in TargetSet : ~Finite(Kept(cellIdx, "data", t)'.bank)
    <3>. SUFFICES ASSUME NEW t \in TargetSet, Finite(Kept(cellIdx, "data", t).bank)
                  PROVE  FALSE
      BY <1>2, <2>1
    <3>. DEFINE r == Kept(cellIdx, "data", t)
    <3>1. Faithful(eval, "data", r) /\ r.cellTech = cellIdx
      BY <1>0, <2>1, <2>2 DEF IInv, Basis, Reproducible, JInv, OwnCell, Merging, Kept
    <3>2. PICK k \in DOMAIN eval : EvaluationOf(k, "data", r)
      BY <3>1 DEF Faithful, Finite, Real
    <3>3. k.kind = "data" /\ k.cell = cellIdx
      BY <3>1, <3>2 DEF EvaluationOf
    <3>. HIDE DEF r
    <3>. QED
      BY <2>1, <3>2, <3>3 DEF JInv, Anchored
  <2>5. Anchored'
    BY <1>1, <2>1, <2>4 DEF JInv, Anchored
  <2>6. Counted'
    BY SMTT(20), <1>1, <1>2, <2>1 DEF JInv, Counted
  <2>. QED
    BY <1>2, <1>3, <1>4, <2>3, <2>5, <2>6 DEF JInv
<1>. QED
  BY <1>6, <1>7

\* The start and the end of the comparison of the cells.
LEMMA MergingKeepsJ ==
    ASSUME IInv, IInv', JInv, StartMerge \/ Report
    PROVE  JInv'
<1>0. TypeOK /\ "data" \in Kinds /\ "tag" \in Kinds
  BY DEF IInv, Basis, Kinds
<1>1. /\ stage' \in Merging /\ loop' = "none" /\ stage \in {"cell", "merge"}
      /\ UNCHANGED <<cfg, layerCount, best, numSolution, totalSolutions, eval>>
  BY DEF StartMerge, Report, GoTo, Merging
<1>2. /\ \A c, kd, t : Kept(c, kd, t)' = Kept(c, kd, t)
      /\ ValidBasicData' = ValidBasicData /\ SpaceOf("data")' = SpaceOf("data")
      /\ Definite' /\ Paired'
  BY <1>1, SameResults DEF JInv
<1>3. TriedSoFar' /\ Found' /\ Anchored'
  BY <1>1 DEF JInv, Found, Anchored, TriedSoFar, Kinds, Merging
<1>4. CASE StartMerge
  <2>1. stage = "cell" /\ stage' = "merge" /\ cellIdx' = 2 /\ cellIdx > cfg.cells
    BY <1>4 DEF StartMerge, GoTo
  <2>2. cellIdx \in Nat /\ cfg.cells \in Nat \ {0} /\ DOMAIN best = 1..(cellIdx - 1)
    BY <2>1 DEF IInv, Basis, Where, TypeOK, ConfigType
  <2>3. 1 \in DOMAIN best
    BY SMTT(20), <2>1, <2>2
  <2>4. \A c \in DOMAIN best, kd \in Kinds, t \in TargetSet : Kept(c, kd, t).cellTech = c
    BY <2>1 DEF JInv, OwnCell, Merging
  <2>5. OwnCell' /\ Following'
    BY SMTT(20), <1>0, <1>1, <1>2, <2>1, <2>3, <2>4 DEF OwnCell, Following
  <2>6. Beaten'
    <3>1. \A k \in ValidBasicData : k.cell \in DOMAIN best
      BY DEF ValidBasicData, JInv, Anchored
    <3>2. \A k \in ValidBasicData : k.cell < 2 => k.cell = 1
      BY SMTT(20), <2>2, <3>1
    <3>3. ~cfg.isConstraintApplied =>
            \A k \in ValidBasicData, t \in TargetSet :
                Score(t, Kept(k.cell, "data", t).bank) <= Score(t, eval[k])
      BY <2>1 DEF JInv, Beaten, Merging
    <3>. QED
      BY <1>1, <1>2, <2>1, <3>2, <3>3 DEF Beaten
  <2>7. Counted'
    BY <1>1, <1>2, <2>1 DEF JInv, Counted
  <2>. QED
    BY <1>2, <1>3, <2>5, <2>6, <2>7 DEF JInv
<1>5. CASE Report
  <2>1. /\ stage = "merge" /\ stage' = "done" /\ cellIdx > cfg.cells /\ UNCHANGED cellIdx
        /\ printed' = IF totalSolutions > 0 THEN "result" ELSE "No valid solutions."
    BY <1>5 DEF Report, GoTo
  <2>2. OwnCell' /\ Following'
    BY <1>1, <1>2, <2>1 DEF JInv, OwnCell, Following, Merging
  <2>3. Beaten'
    BY <1>1, <1>2, <2>1 DEF JInv, Beaten, Merging
  <2>4. Counted'
    BY <1>1, <1>2, <2>1 DEF JInv, Counted
  <2>. QED
    BY <1>2, <1>3, <2>2, <2>3, <2>4 DEF JInv
<1>. QED
  BY <1>4, <1>5

\* What comparing a cell with the first one does to the merged results.
LEMMA MergeFields ==
    ASSUME TypeOK, Where, JInv, MergeCell
    PROVE  /\ cellIdx >= 2 /\ cellIdx \in DOMAIN best /\ 1 \in DOMAIN best
           /\ DOMAIN best' = DOMAIN best
           /\ \A c \in DOMAIN best, kd \in Kinds, t \in TargetSet :
                 c # 1 => Kept(c, kd, t)' = Kept(c, kd, t)
           /\ \A t \in TargetSet :
                 /\ Kept(1, "data", t)' =
                       compareAndUpdate(t, Kept(1, "data", t), Kept(cellIdx, "data", t))
                 /\ Kept(1, "tag", t)' =
                       IF cfg.allowDifferentTagTech
                       THEN compareAndUpdate(t, Kept(1, "tag", t), Kept(cellIdx, "tag", t))
                       ELSE IF Improves(t, Kept(1, "data", t), Kept(cellIdx, "data", t))
                       THEN Copied(Kept(1, "tag", t), Kept(cellIdx, "tag", t))
                       ELSE Kept(1, "tag", t)
<1>1. stage = "merge" /\ cellIdx <= cfg.cells
  BY DEF MergeCell
<1>2. DOMAIN best = 1..cfg.cells /\ cfg.cells \in Nat /\ cellIdx \in Nat /\ cellIdx >= 2
  BY <1>1 DEF Where, TypeOK, ConfigType, JInv, OwnCell
<1>3. cellIdx \in DOMAIN best /\ 1 \in DOMAIN best
  BY SMTT(20), <1>1, <1>2
<1>. DEFINE D == [t \in TargetSet |->
                     compareAndUpdate(t, best[1].data[t], best[cellIdx].data[t])]
            T == [t \in TargetSet |-> MergedTag(t)]
<1>4. best' = [best EXCEPT ![1] = [tag |-> T, data |-> D]]
  BY DEF MergeCell
<1>5. \A t \in TargetSet : T[t] = MergedTag(t)
  BY Zenon
<1>6. \A t \in TargetSet :
        D[t] = compareAndUpdate(t, best[1].data[t], best[cellIdx].data[t])
  BY Zenon
<1>. HIDE DEF D, T
<1>7. /\ DOMAIN best' = DOMAIN best /\ best'[1] = [tag |-> T, data |-> D]
      /\ \A c \in DOMAIN best : c # 1 => best'[c] = best[c]
  BY <1>3, <1>4
<1>8. best'[1].tag = T /\ best'[1].data = D
  BY SMTT(20), <1>7
<1>9. \A c \in DOMAIN best, kd \in Kinds, t \in TargetSet :
        c # 1 => Kept(c, kd, t)' = Kept(c, kd, t)
  BY Zenon, <1>7 DEF Kept
<1>10. \A t \in TargetSet :
         Kept(1, "data", t)' =
            compareAndUpdate(t, Kept(1, "data", t), Kept(cellIdx, "data", t))
  BY <1>6, <1>8 DEF Kept
<1>11. \A t \in TargetSet :
         Kept(1, "tag", t)' =
            IF cfg.allowDifferentTagTech
            THEN compareAndUpdate(t, Kept(1, "tag", t), Kept(cellIdx, "tag", t))
            ELSE IF Improves(t, Kept(1, "data", t), Kept(cellIdx, "data", t))
            THEN Copied(Kept(1, "tag", t), Kept(cellIdx, "tag", t))
            ELSE Kept(1, "tag", t)
  BY <1>5, <1>8 DEF Kept, MergedTag
<1>. QED
  BY <1>2, <1>3, <1>7, <1>9, <1>10, <1>11

\* A result that replaced another or was as good keeps finite metrics.
LEMMA UpdateStaysFinite ==
    ASSUME NEW t \in TargetSet, NEW old \in ResultType, NEW new \in ResultType,
           Finite(old.bank) \/ Blank(old.bank), Finite(new.bank) \/ Blank(new.bank), NEW r,
           r = compareAndUpdate(t, old, new)
    PROVE  /\ Finite(r.bank) \/ Blank(r.bank)
           /\ Finite(old.bank) => Finite(r.bank)
           /\ old.limit = NoLimit /\ Finite(new.bank) => Finite(r.bank)
           /\ r.limit = old.limit
           /\ Score(t, r.bank) <= Score(t, old.bank)
           /\ old.limit = NoLimit /\ Finite(new.bank) => Score(t, r.bank) <= Score(t, new.bank)
<1>1. /\ old.bank.lat \in Nat /\ old.bank.en \in Nat
      /\ new.bank.lat \in Nat /\ new.bank.en \in Nat
  BY DEF ResultType, BankType
<1>2. r.limit = old.limit /\ (r.bank = old.bank \/ r.bank = new.bank)
  BY SMTT(20), UpdateCases
<1>3. /\ Score(t, r.bank) <= Score(t, old.bank)
      /\ WithinLimits(old.limit, new.bank) => Score(t, r.bank) <= Score(t, new.bank)
  BY UpdateIsBest
<1>4. old.limit = NoLimit /\ Finite(new.bank) => Score(t, r.bank) <= Score(t, new.bank)
  BY <1>1, <1>3, UnlimitedIsFinite
<1>5. /\ r.bank.lat \in Nat /\ r.bank.en \in Nat
      /\ Finite(r.bank) \/ Blank(r.bank)
  BY <1>1, <1>2
<1>6. Finite(old.bank) => Finite(r.bank)
  BY <1>1, <1>3, <1>5, FiniteByScore
<1>7. old.limit = NoLimit /\ Finite(new.bank) => Finite(r.bank)
  BY <1>1, <1>4, <1>5, FiniteByScore
<1>. QED
  BY <1>2, <1>3, <1>4, <1>5, <1>6, <1>7

\* The comparison of one more cell with the first one.
LEMMA MergeKeepsJ ==
    ASSUME IInv, IInv', JInv, MergeCell
    PROVE  JInv'
<1>0. TypeOK /\ TypeOK' /\ Where /\ "data" \in Kinds /\ "tag" \in Kinds
  BY DEF IInv, Basis, Kinds
<1>1. /\ stage = "merge" /\ cellIdx' = cellIdx + 1
      /\ UNCHANGED <<cfg, space, layerCount, stage, loop, at, tgt, numSolution,
                     totalSolutions, printed, eval>>
  BY DEF MergeCell
<1>2. /\ cellIdx >= 2 /\ cellIdx \in DOMAIN best /\ 1 \in DOMAIN best
      /\ DOMAIN best' = DOMAIN best /\ cellIdx \in Nat
      /\ \A c \in DOMAIN best, kd \in Kinds, t \in TargetSet :
            c # 1 => Kept(c, kd, t)' = Kept(c, kd, t)
  BY <1>0, MergeFields DEF TypeOK
<1>3. ValidBasicData' = ValidBasicData
  BY <1>1 DEF ValidBasicData, SpaceOf
<1>4. \A c \in DOMAIN best, kd \in Kinds, t \in TargetSet :
        /\ Kept(c, kd, t) \in ResultType
        /\ Finite(Kept(c, kd, t).bank) \/ Blank(Kept(c, kd, t).bank)
        /\ kd = "tag" \/ ~cfg.isConstraintApplied => Kept(c, kd, t).limit = NoLimit
  BY <1>0, KeptTyped DEF JInv, Definite
<1>5. TriedSoFar' /\ Found' /\ Anchored' /\ Counted'
  BY <1>1, <1>2, <1>3 DEF JInv, Found, Anchored, TriedSoFar, Counted, Kinds
<1>6. OwnCell'
  BY SMTT(20), <1>1, <1>2 DEF JInv, OwnCell, Merging
<1>7. ASSUME NEW t \in TargetSet
      PROVE  /\ Finite(Kept(1, "data", t)'.bank) \/ Blank(Kept(1, "data", t)'.bank)
             /\ Kept(1, "data", t)'.limit = Kept(1, "data", t).limit
             /\ Score(t, Kept(1, "data", t)'.bank) <= Score(t, Kept(1, "data", t).bank)
             /\ Kept(1, "data", t).limit = NoLimit /\ Finite(Kept(cellIdx, "data", t).bank) =>
                   Score(t, Kept(1, "data", t)'.bank) <= Score(t, Kept(cellIdx, "data", t).bank)
             /\ Finite(Kept(1, "tag", t)'.bank) \/ Blank(Kept(1, "tag", t)'.bank)
             /\ Kept(1, "tag", t)'.limit = Kept(1, "tag", t).limit
             /\ cfg.cache /\ Finite(Kept(1, "data", t)'.bank) => Finite(Kept(1, "tag", t)'.bank)
             /\ ~cfg.allowDifferentTagTech =>
                   \/ /\ Kept(1, "data", t)' = Kept(1, "data", t)
                      /\ Kept(1, "tag", t)' = Kept(1, "tag", t)
                   \/ /\ Kept(1, "data", t)'.cellTech = cellIdx
                      /\ Kept(1, "tag", t)'.cellTech = cellIdx
                      /\ Kept(1, "tag", t)'.bank = Kept(cellIdx, "tag", t).bank
  <2>. DEFINE d1 == Kept(1, "data", t)
              dx == Kept(cellIdx, "data", t)
              t1 == Kept(1, "tag", t)
              tx == Kept(cellIdx, "tag", t)
  <2>1. PICK d : d = Kept(1, "data", t)'
    BY Zenon
  <2>2. PICK g : g = Kept(1, "tag", t)'
    BY Zenon
  <2>3. /\ d = compareAndUpdate(t, d1, dx)
        /\ g = IF cfg.allowDifferentTagTech THEN compareAndUpdate(t, t1, tx)
               ELSE IF Improves(t, d1, dx) THEN Copied(t1, tx) ELSE t1
    BY <1>0, <2>1, <2>2, MergeFields
  <2>4. /\ d1 \in ResultType /\ (Finite(d1.bank) \/ Blank(d1.bank))
        /\ dx \in ResultType /\ (Finite(dx.bank) \/ Blank(dx.bank))
        /\ t1 \in ResultType /\ (Finite(t1.bank) \/ Blank(t1.bank))
        /\ tx \in ResultType /\ (Finite(tx.bank) \/ Blank(tx.bank))
        /\ t1.limit = NoLimit
    BY <1>0, <1>2, <1>4
  <2>5. dx.cellTech = cellIdx /\ tx.cellTech = cellIdx
    BY SMTT(20), <1>0, <1>2 DEF JInv, OwnCell
  <2>6. cfg.cache => /\ Finite(d1.bank) => Finite(t1.bank)
                     /\ Finite(dx.bank) => Finite(tx.bank)
    BY <1>2 DEF JInv, Paired
  <2>. HIDE DEF d1, dx, t1, tx
  <2>7. /\ Finite(d.bank) \/ Blank(d.bank)
        /\ d.limit = d1.limit /\ Score(t, d.bank) <= Score(t, d1.bank)
        /\ d1.limit = NoLimit /\ Finite(dx.bank) => Score(t, d.bank) <= Score(t, dx.bank)
    BY SMTT(20), <2>3, <2>4, UpdateStaysFinite
  <2>8. \/ d = d1 /\ ~Improves(t, d1, dx)
        \/ Improves(t, d1, dx) /\ d.bank = dx.bank /\ d.cellTech = dx.cellTech
    BY SMTT(20), <2>3, UpdateCases
  <2>9. Copied(t1, tx).bank = tx.bank /\ Copied(t1, tx).cellTech = tx.cellTech
        /\ Copied(t1, tx).limit = t1.limit
    BY DEF Copied
  <2>10. CASE cfg.allowDifferentTagTech
    <3>1. /\ Finite(g.bank) \/ Blank(g.bank)
          /\ g.limit = t1.limit
          /\ Finite(t1.bank) => Finite(g.bank)
          /\ Finite(tx.bank) => Finite(g.bank)
      BY SMTT(20), <2>3, <2>4, <2>10, UpdateStaysFinite
    <3>. QED
      BY <2>1, <2>2, <2>6, <2>7, <2>8, <2>10, <3>1 DEF d1, dx, t1, tx
  <2>11. CASE ~cfg.allowDifferentTagTech
    <3>1. \/ d = d1 /\ g = t1
          \/ /\ d.bank = dx.bank /\ d.cellTech = cellIdx /\ g.bank = tx.bank
             /\ g.cellTech = cellIdx /\ g.limit = t1.limit
      BY <2>3, <2>5, <2>8, <2>9, <2>11
    <3>2. /\ Finite(g.bank) \/ Blank(g.bank)
          /\ g.limit = t1.limit
          /\ cfg.cache /\ Finite(d.bank) => Finite(g.bank)
      BY <2>4, <2>6, <3>1
    <3>. QED
      BY <2>1, <2>2, <2>7, <2>11, <3>1, <3>2 DEF d1, dx, t1, tx
  <2>. QED
    BY <2>10, <2>11
<1>8. Definite'
  <2>. SUFFICES ASSUME NEW c \in DOMAIN best, NEW kd \in Kinds, NEW t \in TargetSet
                PROVE  /\ Finite(Kept(c, kd, t)'.bank) \/ Blank(Kept(c, kd, t)'.bank)
                       /\ kd = "tag" \/ ~cfg.isConstraintApplied =>
                             Kept(c, kd, t)'.limit = NoLimit
    BY <1>1, <1>2 DEF Definite
  <2>1. CASE c # 1
    BY SMTT(20), <1>2, <1>4, <2>1
  <2>2. CASE c = 1 /\ kd = "data"
    BY <1>2, <1>4, <1>7, <2>2
  <2>3. CASE c = 1 /\ kd = "tag"
    BY <1>2, <1>4, <1>7, <2>3
  <2>. QED
    BY <2>1, <2>2, <2>3 DEF Kinds
<1>9. Paired'
  <2>. SUFFICES ASSUME cfg.cache, NEW c \in DOMAIN best, NEW t \in TargetSet,
                       Finite(Kept(c, "data", t)'.bank)
                PROVE  Finite(Kept(c, "tag", t)'.bank)
    BY <1>1, <1>2 DEF Paired
  <2>1. CASE c # 1
    BY <1>0, <1>2, <2>1 DEF JInv, Paired
  <2>2. CASE c = 1
    BY <1>7, <2>2
  <2>. QED
    BY <2>1, <2>2
<1>10. Following'
  <2>. SUFFICES ASSUME ~cfg.allowDifferentTagTech, NEW t \in TargetSet
                PROVE  \E c \in DOMAIN best : /\ Kept(1, "data", t)'.cellTech = c
                                              /\ Kept(1, "tag", t)'.cellTech = c
                                              /\ Kept(1, "tag", t)'.bank = Kept(c, "tag", t)'.bank
    BY <1>1, <1>2 DEF Following
  <2>1. CASE /\ Kept(1, "data", t)'.cellTech = cellIdx
             /\ Kept(1, "tag", t)'.cellTech = cellIdx
             /\ Kept(1, "tag", t)'.bank = Kept(cellIdx, "tag", t).bank
    <3>1. PICK x : x = cellIdx
      OBVIOUS
    <3>2. x \in DOMAIN best /\ Kept(x, "tag", t)' = Kept(x, "tag", t)
      BY SMTT(20), <1>0, <1>2, <3>1
    <3>. QED
      BY <2>1, <3>1, <3>2
  <2>2. CASE /\ Kept(1, "data", t)' = Kept(1, "data", t)
             /\ Kept(1, "tag", t)' = Kept(1, "tag", t)
    <3>1. PICK c \in DOMAIN best : /\ Kept(1, "data", t).cellTech = c
                                   /\ Kept(1, "tag", t).cellTech = c
                                   /\ Kept(1, "tag", t).bank = Kept(c, "tag", t).bank
      BY <1>1 DEF JInv, Following, Merging
    <3>2. Kept(c, "tag", t)' = Kept(c, "tag", t)
      BY <1>0, <1>2, <2>2
    <3>. QED
      BY <2>2, <3>1, <3>2
  <2>. QED
    BY <1>7, <2>1, <2>2
<1>11. Beaten'
  <2>. SUFFICES ASSUME ~cfg.isConstraintApplied, NEW k \in ValidBasicData,
                       NEW t \in TargetSet
                PROVE  /\ k.cell # 1 => Score(t, Kept(k.cell, "data", t)'.bank) <= Score(t, eval[k])
                       /\ k.cell < cellIdx + 1 =>
                             Score(t, Kept(1, "data", t)'.bank) <= Score(t, eval[k])
    BY <1>1, <1>3 DEF Beaten, Merging
  <2>1. /\ k.cell # 1 => Score(t, Kept(k.cell, "data", t).bank) <= Score(t, eval[k])
        /\ k.cell < cellIdx => Score(t, Kept(1, "data", t).bank) <= Score(t, eval[k])
    BY <1>1 DEF JInv, Beaten, Merging
  <2>2. k.cell \in DOMAIN best /\ k \in DOMAIN eval /\ ~eval[k].invalid
    BY DEF ValidBasicData, JInv, Anchored
  <2>3. k.cell \in Nat
    BY SMTT(20), <1>0, <1>1, <2>2 DEF Where, TypeOK, ConfigType
  <2>4. eval[k].lat \in Nat /\ eval[k].en \in Nat /\ Finite(eval[k])
    BY <1>0, <2>2, OutcomeIsDefinite DEF TypeOK
  <2>5. Score(t, eval[k]) \in Nat
    BY <2>4, ScoreIsNat
  <2>6. k.cell # 1 => Score(t, Kept(k.cell, "data", t)'.bank) <= Score(t, eval[k])
    BY <1>0, <1>2, <2>1, <2>2
  <2>7. /\ Score(t, Kept(1, "data", t)'.bank) \in Nat
        /\ Score(t, Kept(1, "data", t).bank) \in Nat
        /\ Score(t, Kept(cellIdx, "data", t).bank) \in Nat
        /\ Kept(cellIdx, "data", t).bank.lat \in Nat /\ Kept(cellIdx, "data", t).bank.en \in Nat
    BY <1>0, <1>2, KeptTyped, KeptTypedNext, ScoreIsNat
  <2>p. /\ Score(t, Kept(1, "data", t)'.bank) <= Score(t, Kept(1, "data", t).bank)
        /\ Kept(1, "data", t).limit = NoLimit /\ Finite(Kept(cellIdx, "data", t).bank) =>
             Score(t, Kept(1, "data", t)'.bank) <= Score(t, Kept(cellIdx, "data", t).bank)
    BY <1>7
  <2>8. CASE k.cell < cellIdx
    <3>1. Score(t, Kept(1, "data", t).bank) <= Score(t, eval[k])
      BY <2>1, <2>8
    <3>2. Score(t, Kept(1, "data", t)'.bank) <= Score(t, eval[k])
      BY <2>5, <2>7, <2>p, <3>1, AtMostTransitive
    <3>. QED
      BY <2>6, <3>2
  <2>9. CASE k.cell = cellIdx
    <3>1. Score(t, Kept(cellIdx, "data", t).bank) <= Score(t, eval[k])
      BY SMTT(20), <1>2, <2>1, <2>9
    <3>2. Finite(Kept(cellIdx, "data", t).bank)
      BY <1>0, <1>2, <1>4, <2>4, <2>7, <3>1, FiniteByScore
    <3>3. Kept(1, "data", t).limit = NoLimit
      BY <1>0, <1>2, <1>4
    <3>4. Score(t, Kept(1, "data", t)'.bank) <= Score(t, eval[k])
      BY <2>5, <2>7, <2>p, <3>1, <3>2, <3>3, AtMostTransitive
    <3>. QED
      BY <2>6, <3>4
  <2>. QED
    BY SMTT(20), <1>2, <2>3, <2>6, <2>8, <2>9
<1>. QED
  BY <1>5, <1>6, <1>8, <1>9, <1>10, <1>11 DEF JInv

\* The facts hold initially, when there are neither results nor evaluations.
LEMMA InitHoldsJ == Init => JInv
<1>. SUFFICES ASSUME Init PROVE JInv
  OBVIOUS
<1>1. /\ stage = "cell" /\ loop = "none" /\ DOMAIN best = {} /\ DOMAIN eval = {}
      /\ numSolution = 0 /\ totalSolutions = 0
  BY DEF Init
<1>2. ValidBasicData = {}
  BY <1>1 DEF ValidBasicData
<1>3. OwnCell /\ Following /\ Definite /\ Found /\ Paired
  BY <1>1 DEF OwnCell, Following, Definite, Found, Paired, Merging, Kinds
<1>4. Anchored /\ Beaten
  BY SMTT(20), <1>1, <1>2 DEF Anchored, Beaten, Kinds
<1>5. Counted
  BY SMTT(20), <1>1, <1>2 DEF Counted
<1>6. TriedSoFar
  BY SMTT(20), <1>1 DEF TriedSoFar, Kinds
<1>. QED
  BY <1>3, <1>4, <1>5, <1>6 DEF JInv

\* They hold until the program exits: the evaluation that fails the capacity
\* test is offered to no result.
Running == stage # "exit" => JInv

\* So they hold at the start.
LEMMA InitRuns == Init => Running
BY InitHoldsJ DEF Running

\* Every step keeps them.
LEMMA StepKeepsJ == IInv /\ IInv' /\ Running /\ [Next]_vars => Running'
<1>. SUFFICES ASSUME IInv, IInv', Running, [Next]_vars, stage' # "exit" PROVE JInv'
  BY DEF Running
<1>9. stage # "exit"
  BY DEF Next, vars, StartCell, RejectCell, VerifyFailed, SearchDesign, SearchDone,
         RefineLocalWire, RefineGlobalWire, RefineDone, TagFailed, TagDone, CellDone,
         StartMerge, Report, Constrain, ConstrainedDesign, MergeCell, Kinds
<1>10. JInv
  BY <1>9 DEF Running
<1>11. ~RejectCell /\ ~VerifyFailed("tag") /\ ~VerifyFailed("data")
  BY DEF RejectCell, VerifyFailed, GoTo
<1>0. "tag" \in Kinds /\ "data" \in Kinds
  BY DEF Kinds
<1>1. CASE UNCHANGED vars
  <2>1. UNCHANGED <<cfg, space, layerCount, cellIdx, stage, loop, at, tgt, best, numSolution,
                    totalSolutions, printed, eval>>
    BY <1>1 DEF vars
  <2>2. /\ \A c, kd, t : Kept(c, kd, t)' = Kept(c, kd, t)
        /\ ValidBasicData' = ValidBasicData /\ SpaceOf("data")' = SpaceOf("data")
        /\ Definite' /\ Paired'
    BY <1>10, <2>1, SameResults DEF JInv
  <2>3. OwnCell' /\ Following'
    BY ZenonT(30), <1>10, <2>1, <2>2 DEF JInv, OwnCell, Following
  <2>4. Found' /\ Beaten' /\ Counted'
    BY <1>10, <2>1, <2>2 DEF JInv, Found, Beaten, Counted
  <2>5. \A d : Base(d)' = Base(d)
    BY <2>1, <2>2 DEF Base
  <2>6. Anchored'
    BY <1>10, <2>1, <2>2, <2>5 DEF JInv, Anchored
  <2>7. \A kind : SpaceOf(kind)' = SpaceOf(kind)
    BY Zenon, <2>1 DEF SpaceOf
  <2>8. TriedSoFar'
    <3>1. \A kind, t, i : Tried(kind, t, i) => Tried(kind, t, i)'
      BY ZenonT(30), <2>1, <2>2, <2>7 DEF Tried
    <3>2. \A i, j : Before(i, j)' => Before(i, j)
      BY <2>1 DEF Before
    <3>. QED
      BY <1>10, <2>1, <2>7, <3>1, <3>2 DEF JInv, TriedSoFar
  <2>. QED
    BY <2>2, <2>3, <2>4, <2>6, <2>8 DEF JInv
<1>2. CASE StartCell
  BY <1>2, <1>10, StartKeepsJ
<1>3. ASSUME NEW kind \in Kinds,
             \/ SearchDesign(kind) \/ SearchDone(kind) \/ RefineLocalWire(kind)
             \/ RefineGlobalWire(kind) \/ RefineDone(kind)
      PROVE  JInv'
  BY <1>3, <1>10, SearchKeepsJ, RefineKeepsJ, LoopDoneKeepsJ
<1>4. CASE TagFailed \/ TagDone \/ CellDone
  BY <1>4, <1>10, CellKeepsJ
<1>5. CASE StartMerge \/ Report
  BY <1>5, <1>10, MergingKeepsJ
<1>6. CASE Constrain
  BY <1>6, <1>10, ConstrainKeepsJ
<1>7. CASE ConstrainedDesign
  BY <1>7, <1>10, ConstrainedKeepsJ
<1>8. CASE MergeCell
  BY <1>8, <1>10, MergeKeepsJ
<1>. QED
  BY <1>0, <1>1, <1>2, <1>3, <1>4, <1>5, <1>6, <1>7, <1>8, <1>11 DEF Next

\* For every search space and every table of evaluations: after the refinement
\* loops no global wire tried improves the retained result of any target.
THEOREM GlobalWiresAreRefined == Spec => []GlobalWireIsBest
<1>1. IInv /\ Running => GlobalWireIsBest
  <2>. SUFFICES ASSUME Running, NEW kind \in Kinds, stage = kind, loop = "end", numSolution > 0,
                       NEW t \in TargetSet, NEW i \in DOMAIN SpaceOf(kind).global.refine
                PROVE  Tried(kind, t, i)
    BY DEF GlobalWireIsBest, Tried, Kept
  <2>1. PICK j \in 1..3 : t = Targets[j]
    <3>1. Targets[1] = "lat" /\ Targets[2] = "en" /\ Targets[3] = "edp"
      BY DEF Targets
    <3>. QED
      BY SMTT(20), <3>1 DEF TargetSet
  <2>2. Tried(kind, Targets[j], i)
    BY DEF Running, JInv, TriedSoFar, Kinds
  <2>. QED
    BY <2>1, <2>2
<1>. QED
  BY <1>1, InitHolds, InitRuns, StepKeeps, StepKeepsJ, PTL DEF Spec

\* For any number of cells: the exploration without constraints reports a
\* result exactly when some data organisation was valid for some cell, and no
\* valid one of any cell is better than the data result reported.
THEOREM ReportsAreOptimal == Spec => []ReportIsOptimal
<1>1. IInv /\ Running => ReportIsOptimal
  <2>. SUFFICES ASSUME IInv, Running, stage = "done", ~cfg.isConstraintApplied
                PROVE  /\ printed = "result" <=> ValidBasicData # {}
                       /\ printed = "result" =>
                            \A t \in TargetSet :
                               /\ Real(Kept(1, "data", t))
                               /\ cfg.cache => Real(Kept(1, "tag", t))
                               /\ \A k \in ValidBasicData :
                                     Score(t, Kept(1, "data", t).bank) <= Score(t, eval[k])
    BY DEF ReportIsOptimal, Kept
  <2>0. JInv
    BY DEF Running
  <2>1. TypeOK /\ Where /\ "data" \in Kinds /\ "tag" \in Kinds
    BY DEF IInv, Basis, Kinds
  <2>2. DOMAIN best = 1..cfg.cells /\ cfg.cells \in Nat \ {0} /\ cellIdx > cfg.cells
        /\ cellIdx \in Nat
    BY <2>0, <2>1 DEF Where, TypeOK, ConfigType, JInv, OwnCell
  <2>3. printed = "result" <=> ValidBasicData # {}
    BY <2>0 DEF JInv, Counted
  <2>4. ASSUME NEW k \in ValidBasicData, NEW t \in TargetSet
        PROVE  /\ Score(t, Kept(1, "data", t).bank) <= Score(t, eval[k])
               /\ Finite(Kept(1, "data", t).bank)
               /\ cfg.cache => Finite(Kept(1, "tag", t).bank)
    <3>1. k.cell \in DOMAIN best /\ k \in DOMAIN eval /\ ~eval[k].invalid
      BY <2>0 DEF ValidBasicData, JInv, Anchored
    <3>2. k.cell < cellIdx /\ 1 \in DOMAIN best
      BY SMTT(20), <2>2, <3>1
    <3>3. Score(t, Kept(1, "data", t).bank) <= Score(t, eval[k])
      BY <2>0, <3>2 DEF JInv, Beaten, Merging
    <3>4. eval[k].lat \in Nat /\ eval[k].en \in Nat /\ Finite(eval[k])
      BY <2>1, <3>1, OutcomeIsDefinite DEF TypeOK
    <3>5. /\ Kept(1, "data", t).bank.lat \in Nat /\ Kept(1, "data", t).bank.en \in Nat
          /\ Finite(Kept(1, "data", t).bank) \/ Blank(Kept(1, "data", t).bank)
      BY <2>0, <2>1, <3>2, KeptTyped DEF JInv, Definite
    <3>6. Finite(Kept(1, "data", t).bank)
      BY <3>3, <3>4, <3>5, FiniteByScore
    <3>. QED
      BY <2>0, <3>2, <3>3, <3>6 DEF JInv, Paired
  <2>. QED
    BY <2>3, <2>4 DEF Real, Finite
<1>. QED
  BY <1>1, InitHolds, InitRuns, StepKeeps, StepKeepsJ, PTL DEF Spec

\* For any number of cells: unless the user allows different cells, the tag
\* array reported beside a data array is the one found for the same cell.
THEOREM TagsFollowData == Spec => []TagFollowsData
<1>1. Running => TagFollowsData
  BY DEF Running, JInv, Following, Merging, TagFollowsData, Kept
<1>. QED
  BY <1>1, InitHolds, InitRuns, StepKeeps, StepKeepsJ, PTL DEF Spec
=============================================================================
