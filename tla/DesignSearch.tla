---------------------------- MODULE DesignSearch ----------------------------
(***************************************************************************)
(* The design-space exploration of NS-Cache: main and nvsim of             *)
(* src/main.cpp, the loops of src/macros.h and the comparison of           *)
(* src/Result.cpp.                                                         *)
(*                                                                         *)
(* For each memory cell the tool searches tag organisations (of a cache)   *)
(* and then data organisations with the basic wires, refines the local and *)
(* then the global wire of every retained result, and, when the user gave  *)
(* relative constraints, turns the best metrics into absolute limits and   *)
(* repeats the data search under them.  main then compares the cells and   *)
(* prints the result for the user's target.                                *)
(*                                                                         *)
(* What an organisation costs comes out of the circuit models and is       *)
(* arbitrary here: an evaluation that was not made before may return any   *)
(* outcome of Outcomes, one that was made before returns the same again.   *)
(* Two metrics and their product stand for the ten of the tool.            *)
(***************************************************************************)
EXTENDS Integers, Sequences

CONSTANTS
    Wire,           \* the wires (type, repeaters, swing) a bank may use
    Configs,        \* the user's inputs: see ConfigType
    Outcomes        \* what evaluating a bank may return

\* invalid_value (1e41), and the layer count Technology::Initialize sets.
invalid_value == 1000
InitialLayers == 2

\* A Wire object nobody initialised.
NoWire == "none"

Kinds == {"tag", "data"}
Targets == <<"lat", "en", "edp">>
TargetSet == {"lat", "en", "edp"}

(***************************************************************************)
(* A wire range is the basic wire of INITIAL_BASIC_WIRE and the wires the  *)
(* refinement loop tries, in order; an organisation has the number of      *)
(* stacked dies, the number of active partitions a block is spread over,   *)
(* and whether its dimensions multiply to the capacity asked for.          *)
(* "reduced" is the space of REDUCE_SEARCH_SIZE, "user" the one read from  *)
(* the configuration file over RESTORE_SEARCH_SIZE.  BIGFOR doubles its    *)
(* counts: its organisations are a sequence, they end, when every count    *)
(* that doubles starts above zero, which the user has to see to.           *)
(*                                                                         *)
(* "rejected" are the cells with which applyConstraint ends the program:   *)
(* MLC NAND cells, and all cells for a CAM or for an H-tree with external  *)
(* sensing.                                                                *)
(***************************************************************************)
SpaceNames == {"reduced", "user"}
Design == [dies : Nat, parts : Nat \ {0}, exact : BOOLEAN]
WireRange == [basic : Wire, refine : Seq(Wire)]
SearchSpace == [designs : Seq(Design), local : WireRange, global : WireRange]
ConfigType ==
    [cells : Nat \ {0}, rejected : SUBSET Nat, cache : BOOLEAN,
     allowDifferentTagTech : BOOLEAN, isConstraintApplied : BOOLEAN,
     constraint : [TargetSet -> Nat],
     blockSize : [Kinds -> Nat], space : [SpaceNames -> SearchSpace]]

ASSUME ConfigAssumption == Configs \subseteq ConfigType

\* A bank has finite metrics, or the invalid_value in all of them, which makes
\* it invalid; one whose refresh takes longer than the cell retains its charge
\* is invalid with finite metrics.
ASSUME OutcomeAssumption ==
    /\ Outcomes \subseteq [lat : Nat, en : Nat, invalid : BOOLEAN]
    /\ \A o \in Outcomes :
          \/ /\ o.lat < invalid_value /\ o.en < invalid_value
             /\ o.lat * o.en < invalid_value
          \/ o.invalid /\ o.lat = invalid_value /\ o.en = invalid_value

VARIABLES
    cfg,            \* inputParameter
    space,          \* which search bounds inputParameter holds now
    layerCount,     \* tech->layerCount, the one the TSV tables were made for
    cellIdx,        \* the cell being searched, then the one being merged
    stage,          \* where main and nvsim stand
    loop,           \* the loop of the stage, its position
    at,
    tgt,            \* and the target refined next
    best,           \* bestTagResults and bestDataResults, per cell and target
    numSolution,
    totalSolutions,
    printed,        \* what main reports at the end
    eval            \* the evaluations made so far

vars == <<cfg, space, layerCount, cellIdx, stage, loop, at, tgt, best,
          numSolution, totalSolutions, printed, eval>>

(***************************************************************************)
(* Results.                                                                *)
(***************************************************************************)

Score(t, b) ==
    CASE t = "lat" -> b.lat
      [] t = "en"  -> b.en
      [] t = "edp" -> b.lat * b.en

NoLimit == [t \in TargetSet |-> invalid_value]

NoBank == [design |-> 0, lat |-> invalid_value, en |-> invalid_value, invalid |-> FALSE]

\* Result::Result(), while c is the current cell.
NewResult(c) == [bank |-> NoBank, localWire |-> NoWire, globalWire |-> NoWire,
                 cellTech |-> c, limit |-> NoLimit]

\* Result::reset(): the metrics only.
reset(r) ==
    [r EXCEPT !.bank = [r.bank EXCEPT !.lat = invalid_value, !.en = invalid_value]]

WithinLimits(limit, b) == \A t \in TargetSet : Score(t, b) <= limit[t]

Improves(t, old, new) ==
    /\ WithinLimits(old.limit, new.bank)
    /\ Score(t, new.bank) < Score(t, old.bank)

\* Mutant: the global wire is not copied.
Copied_NoGlobalWire(old, new) ==
    [bank |-> new.bank, localWire |-> new.localWire, globalWire |-> old.globalWire,
     cellTech |-> new.cellTech, limit |-> old.limit]

Copied(old, new) ==
    [bank |-> new.bank, localWire |-> new.localWire, globalWire |-> new.globalWire,
     cellTech |-> new.cellTech, limit |-> old.limit]

\* Result::compareAndUpdate for the result of target t; it does not look at
\* bank->invalid.
compareAndUpdate(t, old, new) == IF Improves(t, old, new) THEN Copied(old, new) ELSE old

(***************************************************************************)
(* The search bounds, and one evaluation.                                  *)
(***************************************************************************)

Space == cfg.space[space]

\* The guard on "too aggressive partitioning" at the head of every BIGFOR body.
Skipped(kind, d) == cfg.blockSize[kind] \div Space.designs[d].parts = 0

Key(c, kind, d, l, g, n) ==
    [cell |-> c, kind |-> kind, design |-> d, local |-> l, global |-> g, layers |-> n]

(***************************************************************************)
(* Initialize, CalculateArea, CalculateRC and CalculateLatencyAndPower of  *)
(* a fresh bank, which read the organisation, the global wires, the cell   *)
(* and the TSV tables.                                                     *)
(***************************************************************************)
Calculate(k, o) ==
    /\ o \in Outcomes
    /\ k \in DOMAIN eval => eval[k] = o
    /\ eval' = [j \in DOMAIN eval \cup {k} |-> IF j = k THEN o ELSE eval[j]]

\* A tempResult filled with the bank and the wires just evaluated.  A bank
\* has its own die count, and nothing of the TSV tables in force.
TempResult(k, o) ==
    [bank |-> [design |-> k.design, lat |-> o.lat, en |-> o.en, invalid |-> o.invalid],
     localWire |-> k.local, globalWire |-> k.global, cellTech |-> k.cell,
     limit |-> NoLimit]

\* UPDATE_BEST_TAG, UPDATE_BEST_DATA: offer a result to every target.
UpdateBest(kind, r) ==
    best' = [best EXCEPT ![cellIdx][kind] =
                [t \in TargetSet |-> compareAndUpdate(t, @[t], r)]]

BasicKey(kind, d, n) ==
    Key(cellIdx, kind, d, Space.local.basic, Space.global.basic, n)

GoTo(s, l) == stage' = s /\ loop' = l /\ at' = 1 /\ tgt' = 1

(***************************************************************************)
(* main: the loop over the cells, and the start of nvsim.                  *)
(***************************************************************************)

Init ==
    /\ cfg \in Configs
    /\ space = "user"
    /\ layerCount = InitialLayers
    /\ cellIdx = 1
    /\ stage = "cell" /\ loop = "none" /\ at = 1 /\ tgt = 1
    /\ best = [c \in {} |-> {}]
    /\ numSolution = 0
    /\ totalSolutions = 0
    /\ printed = "nothing"
    /\ eval = [k \in {} |-> {}]

FreshResults(c) == [k \in Kinds |-> [t \in TargetSet |-> NewResult(c)]]

\* applyConstraint at the head of nvsim: exit(-1), with what earlier cells gave.
RejectCell ==
    /\ stage = "cell" /\ cellIdx <= cfg.cells /\ cellIdx \in cfg.rejected
    /\ GoTo("exit", "none")
    /\ UNCHANGED <<cfg, space, layerCount, cellIdx, best, numSolution, totalSolutions,
                   printed, eval>>

StartCell ==
    /\ stage = "cell" /\ cellIdx <= cfg.cells /\ cellIdx \notin cfg.rejected
    /\ best' = [c \in DOMAIN best \cup {cellIdx} |->
                    IF c = cellIdx THEN FreshResults(c) ELSE best[c]]
    /\ numSolution' = 0
    /\ IF cfg.cache
          THEN space' = "reduced" /\ GoTo("tag", "design")
          ELSE space' = space /\ GoTo("data", "design")
    /\ UNCHANGED <<cfg, layerCount, cellIdx, totalSolutions, printed, eval>>

(***************************************************************************)
(* nvsim: one iteration of BIGFOR with the basic wires.  Only the tag loop *)
(* calls tech->SetLayerCount, before the partitioning test.                *)
(***************************************************************************)

SetLayerCount(kind, d) ==
    layerCount' = IF kind = "tag" THEN Space.designs[d].dies ELSE layerCount

\* Mutant: the test of bank->invalid is missing.
SearchDesign_KeepsInvalid(kind) ==
    /\ stage = kind /\ loop = "design" /\ at <= Len(Space.designs)
    /\ SetLayerCount(kind, at)
    /\ at' = at + 1
    /\ IF Skipped(kind, at)
          THEN UNCHANGED <<eval, best, numSolution>>
          ELSE LET k == BasicKey(kind, at, layerCount') IN
               \E o \in Outcomes :
                  /\ Calculate(k, o)
                  /\ numSolution' = numSolution + 1
                  /\ UpdateBest(kind, TempResult(k, o))
    /\ UNCHANGED <<cfg, space, cellIdx, stage, loop, tgt, totalSolutions, printed>>

SearchDesign(kind) ==
    /\ stage = kind /\ loop = "design" /\ at <= Len(Space.designs)
    /\ SetLayerCount(kind, at)
    /\ at' = at + 1
    /\ IF Skipped(kind, at)
          THEN UNCHANGED <<eval, best, numSolution>>
          ELSE LET k == BasicKey(kind, at, layerCount') IN
               \E o \in Outcomes :
                  /\ Calculate(k, o)
                  /\ IF o.invalid
                        THEN UNCHANGED <<best, numSolution>>
                        ELSE /\ Space.designs[at].exact
                             /\ numSolution' = numSolution + 1
                             /\ UpdateBest(kind, TempResult(k, o))
    /\ UNCHANGED <<cfg, space, cellIdx, stage, loop, tgt, totalSolutions, printed>>

\* VERIFY_TAG_CAPACITY and VERIFY_DATA_CAPACITY: a valid bank whose dimensions
\* do not make up the capacity ends the program.
VerifyFailed(kind) ==
    /\ stage = kind /\ loop = "design" /\ at <= Len(Space.designs)
    /\ ~Skipped(kind, at) /\ ~Space.designs[at].exact
    /\ SetLayerCount(kind, at)
    /\ \E o \in Outcomes : ~o.invalid /\ Calculate(BasicKey(kind, at, layerCount'), o)
    /\ GoTo("exit", "none")
    /\ UNCHANGED <<cfg, space, cellIdx, best, numSolution, totalSolutions, printed>>

\* The end of BIGFOR: refine when there is something to refine.
SearchDone(kind) ==
    /\ stage = kind /\ loop = "design" /\ at > Len(Space.designs)
    /\ GoTo(kind, IF numSolution > 0 THEN "local" ELSE "end")
    /\ UNCHANGED <<cfg, space, layerCount, cellIdx, best, numSolution,
                   totalSolutions, printed, eval>>

(***************************************************************************)
(* TRY_AND_UPDATE: the retained organisation of one target with one wire   *)
(* exchanged, offered to that target only, whatever trialBank->invalid is. *)
(***************************************************************************)
TryAndUpdate(kind, t, l, g) ==
    LET r == best[cellIdx][kind][t]
        k == Key(cellIdx, kind, r.bank.design, l, g, layerCount) IN
    \E o \in Outcomes :
        /\ Calculate(k, o)
        /\ best' = [best EXCEPT ![cellIdx][kind][t] =
                        compareAndUpdate(t, @, TempResult(k, o))]

\* The inner loop over the targets, within the loop over the wires.
NextTrial ==
    IF tgt < Len(Targets) THEN tgt' = tgt + 1 /\ at' = at
                          ELSE tgt' = 1 /\ at' = at + 1

RefineLocalWire(kind) ==
    /\ stage = kind /\ loop = "local" /\ at <= Len(Space.local.refine)
    /\ LET t == Targets[tgt] IN
       TryAndUpdate(kind, t, Space.local.refine[at], best[cellIdx][kind][t].globalWire)
    /\ NextTrial
    /\ UNCHANGED <<cfg, space, layerCount, cellIdx, stage, loop, numSolution,
                   totalSolutions, printed>>

\* Mutant: the trial uses the basic local wire.
RefineGlobalWire_BasicLocal(kind) ==
    /\ stage = kind /\ loop = "global" /\ at <= Len(Space.global.refine)
    /\ TryAndUpdate(kind, Targets[tgt], Space.local.basic, Space.global.refine[at])
    /\ NextTrial
    /\ UNCHANGED <<cfg, space, layerCount, cellIdx, stage, loop, numSolution,
                   totalSolutions, printed>>

RefineGlobalWire(kind) ==
    /\ stage = kind /\ loop = "global" /\ at <= Len(Space.global.refine)
    /\ LET t == Targets[tgt] IN
       TryAndUpdate(kind, t, best[cellIdx][kind][t].localWire, Space.global.refine[at])
    /\ NextTrial
    /\ UNCHANGED <<cfg, space, layerCount, cellIdx, stage, loop, numSolution,
                   totalSolutions, printed>>

RefineDone(kind) ==
    /\ stage = kind
    /\ \/ loop = "local" /\ at > Len(Space.local.refine) /\ GoTo(kind, "global")
       \/ loop = "global" /\ at > Len(Space.global.refine) /\ GoTo(kind, "end")
    /\ UNCHANGED <<cfg, space, layerCount, cellIdx, best, numSolution,
                   totalSolutions, printed, eval>>

(***************************************************************************)
(* After the tags: nvsim returns 1 when there is none, and otherwise       *)
(* restores the search bounds for the data array.  applyConstraint, called *)
(* again on the same input and cell, does not exit here.                   *)
(***************************************************************************)

TagFailed ==
    /\ stage = "tag" /\ loop = "end" /\ numSolution = 0
    /\ GoTo("cell", "none")
    /\ cellIdx' = cellIdx + 1
    /\ UNCHANGED <<cfg, space, layerCount, best, numSolution, totalSolutions, printed, eval>>

\* Mutant: RESTORE_SEARCH_SIZE is missing.
TagDone_NoRestore ==
    /\ stage = "tag" /\ loop = "end" /\ numSolution > 0
    /\ numSolution' = 0
    /\ space' = space
    /\ GoTo("data", "design")
    /\ UNCHANGED <<cfg, layerCount, cellIdx, best, totalSolutions, printed, eval>>

TagDone ==
    /\ stage = "tag" /\ loop = "end" /\ numSolution > 0
    /\ numSolution' = 0
    /\ space' = "user"
    /\ GoTo("data", "design")
    /\ UNCHANGED <<cfg, layerCount, cellIdx, best, totalSolutions, printed, eval>>

(***************************************************************************)
(* The relative constraints: allowed metrics from the best of each target, *)
(* APPLY_LIMIT on every data result, and the data search again.  An absent *)
(* constraint is invalid_value and allows everything.  A bank that fails   *)
(* VERIFY_DATA_CAPACITY here has failed it in the first data search, where *)
(* the same evaluation ended the program.                                  *)
(***************************************************************************)

Allowed(results) ==
    [t \in TargetSet |-> Score(t, results[t].bank) * (cfg.constraint[t] + 1)]

\* Mutant: APPLY_LIMIT without the reset.
ApplyLimit_Keep(results) ==
    [t \in TargetSet |-> [results[t] EXCEPT !.limit = Allowed(results)]]

ApplyLimit(results) ==
    [t \in TargetSet |-> [reset(results[t]) EXCEPT !.limit = Allowed(results)]]

Constrain ==
    /\ stage = "data" /\ loop = "end" /\ cfg.isConstraintApplied
    /\ best' = [best EXCEPT ![cellIdx].data = ApplyLimit(@)]
    /\ numSolution' = 0
    /\ GoTo("limit", "design")
    /\ UNCHANGED <<cfg, space, layerCount, cellIdx, totalSolutions, printed, eval>>

ConstrainedDesign ==
    /\ stage = "limit" /\ at <= Len(Space.designs)
    /\ at' = at + 1
    /\ IF Skipped("data", at)
          THEN UNCHANGED <<eval, best, numSolution>>
          ELSE LET k == BasicKey("data", at, layerCount)
                   allowed == best[cellIdx].data["lat"].limit IN
               \E o \in Outcomes :
                  /\ Calculate(k, o)
                  /\ IF o.invalid \/ ~WithinLimits(allowed, o)
                        THEN UNCHANGED <<best, numSolution>>
                        ELSE /\ Space.designs[at].exact
                             /\ numSolution' = numSolution + 1
                             /\ UpdateBest("data", TempResult(k, o))
    /\ UNCHANGED <<cfg, space, layerCount, cellIdx, stage, loop, tgt,
                   totalSolutions, printed>>

\* nvsim returns 0 and main goes to the next cell.
CellDone ==
    /\ \/ stage = "data" /\ loop = "end" /\ ~cfg.isConstraintApplied
       \/ stage = "limit" /\ at > Len(Space.designs)
    /\ totalSolutions' = totalSolutions + numSolution
    /\ cellIdx' = cellIdx + 1
    /\ GoTo("cell", "none")
    /\ UNCHANGED <<cfg, space, layerCount, best, numSolution, printed, eval>>

(***************************************************************************)
(* main: the best of the best goes into the results of the first cell; the *)
(* tag follows its data array unless they may use different cells.         *)
(***************************************************************************)

StartMerge ==
    /\ stage = "cell" /\ cellIdx > cfg.cells
    /\ cellIdx' = 2
    /\ GoTo("merge", "none")
    /\ UNCHANGED <<cfg, space, layerCount, best, numSolution, totalSolutions, printed, eval>>

\* Mutant: the tag does not follow its data array.
MergedTag_Stays(t) ==
    IF cfg.allowDifferentTagTech
    THEN compareAndUpdate(t, best[1].tag[t], best[cellIdx].tag[t])
    ELSE best[1].tag[t]

MergedTag(t) ==
    LET old == best[1].tag[t]
        new == best[cellIdx].tag[t] IN
    IF cfg.allowDifferentTagTech THEN compareAndUpdate(t, old, new)
    ELSE IF Improves(t, best[1].data[t], best[cellIdx].data[t])
    THEN Copied(old, new)
    ELSE old

MergeCell ==
    /\ stage = "merge" /\ cellIdx <= cfg.cells
    /\ best' = [best EXCEPT ![1] =
            [tag  |-> [t \in TargetSet |-> MergedTag(t)],
             data |-> [t \in TargetSet |->
                          compareAndUpdate(t, best[1].data[t], best[cellIdx].data[t])]]]
    /\ cellIdx' = cellIdx + 1
    /\ UNCHANGED <<cfg, space, layerCount, stage, loop, at, tgt, numSolution,
                   totalSolutions, printed, eval>>

Report ==
    /\ stage = "merge" /\ cellIdx > cfg.cells
    /\ printed' = IF totalSolutions > 0 THEN "result" ELSE "No valid solutions."
    /\ GoTo("done", "none")
    /\ UNCHANGED <<cfg, space, layerCount, cellIdx, best, numSolution, totalSolutions, eval>>

Next ==
    \/ RejectCell \/ StartCell
    \/ VerifyFailed("tag") \/ VerifyFailed("data")
    \/ SearchDesign("tag") \/ SearchDesign("data")
    \/ SearchDone("tag") \/ SearchDone("data")
    \/ RefineLocalWire("tag") \/ RefineLocalWire("data")
    \/ RefineGlobalWire("tag") \/ RefineGlobalWire("data")
    \/ RefineDone("tag") \/ RefineDone("data")
    \/ TagFailed
    \/ TagDone
    \/ Constrain
    \/ ConstrainedDesign
    \/ CellDone
    \/ StartMerge
    \/ MergeCell
    \/ Report

Spec == Init /\ [][Next]_vars

-----------------------------------------------------------------------------
(***************************************************************************)
(* Properties.                                                             *)
(***************************************************************************)

BankType == [design : Nat, lat : Nat, en : Nat, invalid : BOOLEAN]
AnyWire == Wire \cup {NoWire}
ResultType ==
    [bank : BankType, localWire : AnyWire, globalWire : AnyWire, cellTech : Nat,
     limit : [TargetSet -> Nat]]
ResultsType == [Kinds -> [TargetSet -> ResultType]]

\* The search state is well formed: positions are positive, every retained
\* result has a bank, wires, a cell and limits.
TypeOK ==
    /\ cfg \in ConfigType
    /\ space \in SpaceNames
    /\ layerCount \in Nat /\ cellIdx \in Nat \ {0} /\ at \in Nat \ {0}
    /\ tgt \in 1..3
    /\ stage \in {"cell", "tag", "data", "limit", "merge", "done", "exit"}
    /\ best \in [DOMAIN best -> ResultsType]
    /\ \A k \in DOMAIN eval : eval[k] \in Outcomes

Real(r) == r.bank.lat < invalid_value

Metrics(b) == [lat |-> b.lat, en |-> b.en, invalid |-> b.invalid]

\* The evaluation k is of what is saved with r: organisation, wires and cell.
EvaluationOf(k, kind, r) ==
    /\ k.cell = r.cellTech /\ k.kind = kind /\ k.design = r.bank.design
    /\ k.local = r.localWire /\ k.global = r.globalWire

\* The metrics of a retained result are its own: the circuit models gave them
\* for exactly the organisation, wires and cell saved with it, under the TSV
\* tables in force at that moment, through every refinement, constrained
\* search and comparison of cells (compareAndUpdate and the copies main makes
\* beside it).  Which tables those were is not saved: see OwnLayerCount.
SnapshotIsFaithful ==
    \A c \in DOMAIN best, kind \in Kinds, t \in TargetSet :
        LET r == best[c][kind][t] IN
        Real(r) => \E k \in DOMAIN eval :
                      EvaluationOf(k, kind, r) /\ eval[k] = Metrics(r.bank)

SpaceOf(kind) == cfg.space[IF kind = "tag" THEN "reduced" ELSE "user"]

\* What is saved with a result is enough to reproduce it: its metrics were
\* obtained under the TSV tables of its own organisation's die count, as the
\* comment on layerCount (it "will be changed in main loop later") and the
\* rule to call SetLayerCount with the intended count have it.
OwnLayerCount ==
    \A c \in DOMAIN best, kind \in Kinds, t \in TargetSet :
        LET r == best[c][kind][t] IN
        Real(r) => \E k \in DOMAIN eval :
                      /\ EvaluationOf(k, kind, r) /\ eval[k] = Metrics(r.bank)
                      /\ k.layers = SpaceOf(kind).designs[r.bank.design].dies

\* The evaluations of organisation d of the current cell with the basic wires.
BasicEvaluations(kind, d) ==
    {k \in DOMAIN eval :
        /\ k.cell = cellIdx /\ k.kind = kind /\ k.design = d
        /\ k.local = SpaceOf(kind).local.basic
        /\ k.global = SpaceOf(kind).global.basic}

Searchable(kind) ==
    {d \in DOMAIN SpaceOf(kind).designs :
        cfg.blockSize[kind] \div SpaceOf(kind).designs[d].parts # 0}

\* The search is exhaustive and keeps the best: once the BIGFOR loop of tags
\* or data is over, every organisation of that array's own search space was
\* evaluated, and no valid one beats the retained result of any target, also
\* while the wires are being refined.
BestOfSpace ==
    \A kind \in Kinds :
        stage = kind /\ loop \in {"local", "global", "end"} =>
            \A d \in Searchable(kind) :
                \E k \in BasicEvaluations(kind, d) :
                    eval[k].invalid \/
                    \A t \in TargetSet :
                        Score(t, best[cellIdx][kind][t].bank) <= Score(t, eval[k])

\* After the refinement no exchange of the global wire alone improves a
\* retained result: the global loop runs with the local wire the first loop
\* chose (LOAD_LOCAL_WIRE), not with the basic one.
GlobalWireIsBest ==
    \A kind \in Kinds :
        stage = kind /\ loop = "end" /\ numSolution > 0 =>
            \A t \in TargetSet, i \in DOMAIN SpaceOf(kind).global.refine :
                LET r == best[cellIdx][kind][t]
                    k == Key(cellIdx, kind, r.bank.design, r.localWire,
                             SpaceOf(kind).global.refine[i], layerCount) IN
                k \in DOMAIN eval /\ Score(t, r.bank) <= Score(t, eval[k])

\* The constrained search tries the basic wires alone: the result of every
\* target is valid, satisfies all limits and is the best of the valid
\* organisations that do with those wires.  It may be empty although a refined
\* organisation satisfies the limits: see EmptyMeansNone.
BestWithinLimits ==
    stage = "limit" /\ at > Len(Space.designs) =>
        \A t \in TargetSet :
            LET r == best[cellIdx].data[t] IN
            /\ Real(r) => ~r.bank.invalid /\ WithinLimits(r.limit, r.bank)
            /\ \A d \in Searchable("data") :
                  \E k \in BasicEvaluations("data", d) :
                      \/ eval[k].invalid
                      \/ ~WithinLimits(r.limit, eval[k])
                      \/ Score(t, r.bank) <= Score(t, eval[k])

\* "An empty result indicates that no evaluated organization satisfies all
\* validity conditions and constraints", those evaluated in the refinement of
\* the wires included.
EmptyMeansNone ==
    stage = "limit" /\ at > Len(Space.designs) /\ numSolution = 0 =>
        \A k \in DOMAIN eval :
            k.cell = cellIdx /\ k.kind = "data" =>
                eval[k].invalid \/ ~WithinLimits(best[cellIdx].data["lat"].limit, eval[k])

ValidBasicData ==
    {k \in DOMAIN eval :
        /\ k.kind = "data" /\ ~eval[k].invalid
        /\ k.local = SpaceOf("data").local.basic
        /\ k.global = SpaceOf("data").global.basic}

\* What main reports without constraints: a result exactly when some valid
\* data organisation was found for some cell; it is at least as good for its
\* target as all of them, over all cells, and its tag array is a real one.
ReportIsOptimal ==
    stage = "done" /\ ~cfg.isConstraintApplied =>
        /\ printed = "result" <=> ValidBasicData # {}
        /\ printed = "result" =>
              \A t \in TargetSet :
                  /\ Real(best[1].data[t])
                  /\ cfg.cache => Real(best[1].tag[t])
                  /\ \A k \in ValidBasicData :
                        Score(t, best[1].data[t].bank) <= Score(t, eval[k])

\* Unless the user allows different cells, the tag array reported beside a
\* data array is the tag array found for the same cell, also when the tag
\* search of an earlier cell failed.
TagFollowsData ==
    stage = "done" /\ cfg.cache /\ ~cfg.allowDifferentTagTech =>
        \A t \in TargetSet :
            LET c == best[1].data[t].cellTech IN
            /\ best[1].tag[t].cellTech = c
            /\ best[1].tag[t].bank = best[c].tag[t].bank
=============================================================================
