---------------------------- MODULE BankRouting ----------------------------
(***************************************************************************)
(* How NS-Cache divides one candidate array over its subarrays and mats:   *)
(* main.cpp fixes the width of the array, BankWithHtree walks an H-tree    *)
(* level by level (BankWithoutHtree divides in one step), SubArray derives *)
(* the rows and columns of a mat, Mat rejects the illegal ones, and the    *)
(* search verifies the capacity of what is left.                           *)
(*                                                                         *)
(* The search loops double every count, so a count of subarrays, mats,     *)
(* ways, rows per set, dies, mux inputs or wires is kept as its base-2     *)
(* logarithm: "> 1" reads "> 0", "/= 2" reads "- 1".  Widths in bits are   *)
(* numbers, halved as the code halves them.                                *)
(***************************************************************************)
EXTENDS Integers

CONSTANTS
    Inputs,            \* what the input file fixes
    MaxLevel,          \* log of the largest number of subarrays per row, column
    maxNumRowPerSet,   \* log of the rows a set may take
    MaxStack,          \* log of the largest number of stacked dies
    Mats,              \* the choices of mats and active mats
    Muxes,             \* the choices of the three mux levels
    TOTAL_ADDRESS_BIT

VARIABLES
    org,               \* the candidate: input, array kind and organisation
    pc,                \* where Initialize is
    h, v,              \* levels still to route
    columnToActive, rowToActive,
    address,           \* numAddressBitToRoute
    distribute,        \* numDataDistributeBitToRoute
    hWire, vWire,      \* the arrays per level
    sub,               \* what the bank hands to its subarrays
    mat                \* rows and columns of a mat

routing == <<h, v, columnToActive, rowToActive, address, distribute, hWire, vWire>>
vars == <<org, pc, routing, sub, mat>>

MuxType == [senseAmp : Nat, lev1 : Nat, lev2 : Nat]
MatsType == [rowMat : Nat, columnMat : Nat, activeMatPerRow : Nat, activeMatPerColumn : Nat]
Kinds == {"data", "tag"}
Modes == {"normal", "sequential", "fast", "RAM"}

\* blocks: log of capacity / wordWidth; offset: log of wordWidth in bytes.
InputType ==
    [blocks : Nat, offset : Nat, assoc : Nat, mode : Modes, dram : BOOLEAN,
     h_tree : BOOLEAN, internalSensing : BOOLEAN, repeated : BOOLEAN]

ASSUME RoutingAssumption ==
    /\ Inputs \subseteq InputType
    /\ \A i \in Inputs : /\ i.assoc <= i.blocks
                         /\ i.mode = "RAM" => i.assoc = 0
                         /\ i.h_tree => i.internalSensing
                         /\ i.blocks - i.assoc + i.offset <= TOTAL_ADDRESS_BIT
    /\ MaxLevel \in Nat /\ maxNumRowPerSet \in Nat /\ MaxStack \in Nat /\ TOTAL_ADDRESS_BIT \in Nat
    /\ Mats \subseteq MatsType /\ Muxes \subseteq MuxType

-----------------------------------------------------------------------------
(***************************************************************************)
(* The candidate.                                                          *)
(***************************************************************************)

\* (int)(x + 0.1) of a logarithm x: truncated towards zero.
IntLog2(x) == IF x < 0 THEN x + 1 ELSE x

\* One organisation of the search loops, for the array the loop searches.
Organization ==
    [input : Inputs, kind : Kinds, row : 0..MaxLevel, column : 0..MaxLevel,
     activePerRow : 0..MaxLevel, activePerColumn : 0..MaxLevel, mats : Mats,
     mux : Muxes, rowPerSet : 0..maxNumRowPerSet, stack : 0..MaxStack]

RowPerSetLimit(i, kind) ==
    IF kind = "tag" \/ i.mode = "normal" THEN 0 ELSE i.assoc

\* No loop starts an active count above the number of blocks it selects from.
\* A count of zero does not get as far as Initialize, which tests for it: the
\* active count would be zero too, and the partitioning test divides by it.
Looped(o) ==
    /\ o.activePerRow <= o.column /\ o.activePerColumn <= o.row
    /\ o.mats.activeMatPerRow <= o.mats.columnMat
    /\ o.mats.activeMatPerColumn <= o.mats.rowMat
    /\ o.rowPerSet <= RowPerSetLimit(o.input, o.kind)
    /\ o.kind = "tag" => o.input.mode # "RAM"

Shares(o) ==
    o.activePerRow + o.activePerColumn + o.mats.activeMatPerRow + o.mats.activeMatPerColumn

\* Tag, dirty and valid bits of one line.
TagWidth(i) == TOTAL_ADDRESS_BIT - IntLog2(i.blocks - i.assoc) - i.offset + 2

RoundUp(width, share) ==
    IF width % share = 0 THEN width ELSE (width \div share + 1) * share

WordWidth(i) == 2 ^ (i.offset + 3)

\* Mutant: the tag width is not rounded up to the active mats.
BlockSize_NoRoundUp(o) ==
    CASE o.kind = "tag" -> TagWidth(o.input)
      [] o.kind = "data" /\ o.input.mode = "fast" -> WordWidth(o.input) * 2 ^ o.input.assoc
      [] OTHER -> WordWidth(o.input)

\* The bits of one access.  A fast access loads the whole set as one word.
BlockSize(o) ==
    CASE o.kind = "tag" -> RoundUp(TagWidth(o.input), 2 ^ Shares(o))
      [] o.kind = "data" /\ o.input.mode = "fast" -> WordWidth(o.input) * 2 ^ o.input.assoc
      [] OTHER -> WordWidth(o.input)

\* The ways an access has to tell apart.
Associativity(o) ==
    IF o.kind = "data" /\ o.input.mode \in {"sequential", "fast"} THEN 0 ELSE o.input.assoc

\* capacity / blockSize.
Blocks(o) ==
    IF o.kind = "data" /\ o.input.mode = "fast" THEN o.input.blocks - o.input.assoc
                                                ELSE o.input.blocks

Capacity(o) == 2 ^ Blocks(o) * BlockSize(o)

\* "To aggressive partitioning": the loop skips such a candidate.
Skipped(o) ==
    LET width == IF o.kind = "tag" THEN TagWidth(o.input) ELSE BlockSize(o)
    IN  width \div 2 ^ Shares(o) = 0

Candidates == {o \in Organization : Looped(o) /\ ~Skipped(o)}

-----------------------------------------------------------------------------
(***************************************************************************)
(* What a bank has to route, and how it divides it without an H-tree.      *)
(***************************************************************************)

numAddressBit(o) == IntLog2(Blocks(o) - Associativity(o) - o.stack)

numDataDistributeBit(o) == IF o.kind = "data" THEN BlockSize(o) ELSE 2 ^ Associativity(o)

numDataBroadcastBit(o) == IF o.kind = "data" THEN Associativity(o) ELSE BlockSize(o)

Rejected == [rejected |-> TRUE]

Assigned(bits, data, way, mux) ==
    [rejected |-> FALSE, numAddressBit |-> bits, numDataBit |-> data, numWay |-> way, mux |-> mux]

\* Several ways in a row need extra mux levels.
WaysMuxed(o, numWayPerRow) ==
    IF o.input.dram
    THEN LET lev2 == numWayPerRow \div 2
         IN  [o.mux EXCEPT !.lev1 = @ + numWayPerRow - lev2, !.lev2 = @ + lev2]
    ELSE LET lev == numWayPerRow \div 3
         IN  [senseAmp |-> o.mux.senseAmp + numWayPerRow - 2 * lev,
              lev1 |-> o.mux.lev1 + lev, lev2 |-> o.mux.lev2 + lev]

\* Mutant: a tag subarray without a way is handed over.
HandedOver_NoWay(o, bits, data) ==
    IF o.kind = "data"
    THEN IF o.rowPerSet > Associativity(o) THEN Rejected
         ELSE Assigned(bits, data, 2 ^ Associativity(o), WaysMuxed(o, Associativity(o) - o.rowPerSet))
    ELSE IF o.rowPerSet > 0 THEN Rejected
         ELSE Assigned(bits, BlockSize(o), data, o.mux)

\* The subarray of a bank that routes `bits` address bits, `data` bits of a
\* word (data array) or `data` ways (tag array) to it.
HandedOver(o, bits, data) ==
    IF o.kind = "data"
    THEN IF o.rowPerSet > Associativity(o) THEN Rejected
         ELSE Assigned(bits, data, 2 ^ Associativity(o), WaysMuxed(o, Associativity(o) - o.rowPerSet))
    ELSE IF o.rowPerSet > 0 \/ data = 0 THEN Rejected
         ELSE Assigned(bits, BlockSize(o), data, o.mux)

ExternalSensingRejected(o) ==
    ~o.input.internalSensing /\ (o.input.dram \/ o.input.repeated)

\* BankWithoutHtree::Initialize.
Divided(o) ==
    IF ExternalSensingRejected(o) THEN Rejected
    ELSE LET gating == o.row + o.column - o.activePerColumn - o.activePerRow
         IN  HandedOver(o, numAddressBit(o) - gating,
                        (numDataDistributeBit(o) \div 2 ^ o.activePerColumn) \div 2 ^ o.activePerRow)

-----------------------------------------------------------------------------
(***************************************************************************)
(* SubArray::Initialize and Mat::Initialize.                               *)
(***************************************************************************)

EffectiveAddressBit(o, s) ==
    s.numAddressBit - (o.mats.rowMat + o.mats.columnMat
                       - o.mats.activeMatPerColumn - o.mats.activeMatPerRow)

MuxDegree(s) == s.mux.senseAmp + s.mux.lev1 + s.mux.lev2

numRow(o, s) ==
    (2 ^ EffectiveAddressBit(o, s) * (IF o.kind = "data" THEN s.numWay ELSE 1))
        \div 2 ^ MuxDegree(s)

ColumnsOfWord(o, s) ==
    s.numDataBit \div 2 ^ (o.mats.activeMatPerRow + o.mats.activeMatPerColumn)

numColumn(o, s) ==
    ColumnsOfWord(o, s) * 2 ^ MuxDegree(s) * (IF o.kind = "tag" THEN s.numWay ELSE 1)

\* Too aggressive a partitioning leaves no address bit, row or column.
TooSmall(o, s) ==
    \/ EffectiveAddressBit(o, s) <= 0
    \/ numRow(o, s) = 0
    \/ ColumnsOfWord(o, s) = 0

\* The checks of Mat on the organisation; those on currents and resistances
\* are left open.
IllegalMat(o, s) ==
    \/ o.input.mode \in {"normal", "fast"} /\ numColumn(o, s) < 2 ^ o.input.assoc
    \/ o.input.dram /\ s.mux.senseAmp > 0

\* More mux inputs than address bits: the row predecoder has nothing left.
NoRowAddress(o, s) == EffectiveAddressBit(o, s) - MuxDegree(s) < 0

-----------------------------------------------------------------------------
(***************************************************************************)
(* The H-tree.                                                             *)
(***************************************************************************)

levelHorizontal == org.column
levelVertical == org.row

\* Memory as `new` returns it.
Unrouted == [address |-> -1, distribute |-> -1, active |-> -1, sum |-> -1]

Root == [active |-> 0, sum |-> 0]

NoSub == Rejected
NoMat == [numRow |-> 0, numColumn |-> 0]

Init ==
    /\ org \in Candidates
    /\ pc = IF org.input.h_tree THEN "first" ELSE "divide"
    /\ h = levelHorizontal /\ v = levelVertical
    /\ columnToActive = org.activePerRow /\ rowToActive = org.activePerColumn
    /\ address = numAddressBit(org) /\ distribute = numDataDistributeBit(org)
    /\ hWire = [k \in 0..(levelHorizontal - 1) |-> Unrouted]
    /\ vWire = [k \in 0..(levelVertical - 1) |-> Unrouted]
    /\ sub = NoSub /\ mat = NoMat

NothingToRoute == distribute + numDataBroadcastBit(org) = 0 \/ address = 0

Goto(place) == pc' = place

\* Mutant: no address bit is used to select the branch.
Level_KeepsAddress(above, halves) ==
    [address |-> address,
     distribute |-> IF halves THEN distribute \div 2 ELSE distribute,
     active |-> IF halves THEN above.active + 1 ELSE above.active,
     sum |-> above.sum + 1]

\* One more level below `above`: the data bits are halved when both branches
\* are active, and an address bit selects the branch when one of them is.
Level(above, halves) ==
    [address |-> IF halves THEN address ELSE address - 1,
     distribute |-> IF halves THEN distribute \div 2 ELSE distribute,
     active |-> IF halves THEN above.active + 1 ELSE above.active,
     sum |-> above.sum + 1]

AddHorizontal(above) ==
    LET level == Level(above, columnToActive > 0) IN
    /\ hWire' = [hWire EXCEPT ![levelHorizontal - h] = level]
    /\ address' = level.address /\ distribute' = level.distribute
    /\ columnToActive' = IF columnToActive > 0 THEN columnToActive - 1 ELSE columnToActive
    /\ UNCHANGED <<rowToActive, vWire>>

\* Mutant: the level is stored one place too far.
AddVertical_OffByOne(above) ==
    LET level == Level(above, rowToActive > 0) IN
    /\ vWire' = [vWire EXCEPT ![levelVertical - v + 1] = level]
    /\ address' = level.address /\ distribute' = level.distribute
    /\ rowToActive' = IF rowToActive > 0 THEN rowToActive - 1 ELSE rowToActive
    /\ UNCHANGED <<columnToActive, hWire>>

AddVertical(above) ==
    LET level == Level(above, rowToActive > 0) IN
    /\ vWire' = [vWire EXCEPT ![levelVertical - v] = level]
    /\ address' = level.address /\ distribute' = level.distribute
    /\ rowToActive' = IF rowToActive > 0 THEN rowToActive - 1 ELSE rowToActive
    /\ UNCHANGED <<columnToActive, hWire>>

\* "Always route H as the first step."
RouteFirst ==
    /\ pc = "first" /\ h > 0 /\ ~NothingToRoute
    /\ hWire' = [hWire EXCEPT ![0] = [address |-> address, distribute |-> distribute,
                                      active |-> 0, sum |-> 0]]
    /\ h' = h - 1
    /\ Goto("wider")
    /\ UNCHANGED <<org, v, columnToActive, rowToActive, address, distribute, vWire, sub, mat>>

\* "If H is larger than V, then reduce H to V."
RouteHorizontal ==
    /\ pc = "wider" /\ h > v /\ ~NothingToRoute
    /\ AddHorizontal(hWire[levelHorizontal - h - 1])
    /\ h' = h - 1
    /\ UNCHANGED <<org, pc, v, sub, mat>>

\* "If V is larger than H, then reduce V to H."
RouteVertical ==
    /\ pc = "taller" /\ v > h /\ ~NothingToRoute
    /\ AddVertical(IF v = levelVertical THEN Root ELSE vWire[levelVertical - v - 1])
    /\ v' = v - 1
    /\ UNCHANGED <<org, pc, h, sub, mat>>

\* "Reduce H an V to zero": a horizontal level, then a vertical one below it.
RouteBothHorizontal ==
    /\ pc = "both" /\ h > 0 /\ ~NothingToRoute
    /\ AddHorizontal(IF v = levelVertical THEN hWire[levelHorizontal - h - 1]
                                          ELSE vWire[levelVertical - v - 1])
    /\ Goto("below")
    /\ UNCHANGED <<org, h, v, sub, mat>>

RouteBothVertical ==
    /\ pc = "below" /\ ~NothingToRoute
    /\ AddVertical(hWire[levelHorizontal - h])
    /\ h' = h - 1 /\ v' = v - 1
    /\ Goto("both")
    /\ UNCHANGED <<org, sub, mat>>

\* Mutant: the vertical loop ends one level early.
LoopDone_OneShort ==
    /\ \/ pc = "first" /\ h = 0 /\ Goto("wider")
       \/ pc = "wider" /\ h <= v /\ Goto("taller")
       \/ pc = "taller" /\ v <= h + 1 /\ Goto("both")
       \/ pc = "both" /\ h <= 0 /\ Goto("leaf")
    /\ UNCHANGED <<org, routing, sub, mat>>

LoopDone ==
    /\ \/ pc = "first" /\ h = 0 /\ Goto("wider")
       \/ pc = "wider" /\ h <= v /\ Goto("taller")
       \/ pc = "taller" /\ v <= h /\ Goto("both")
       \/ pc = "both" /\ h <= 0 /\ Goto("leaf")
    /\ UNCHANGED <<org, routing, sub, mat>>

Hand(s) ==
    /\ sub' = s
    /\ Goto(IF s.rejected THEN "unroutable" ELSE "subarray")

\* Mutant: the last level does not halve the data bits.
AssignSubArray_KeepsData ==
    /\ pc = "leaf" /\ ~NothingToRoute
    /\ LET bits == IF columnToActive = 0 /\ levelHorizontal > 0 THEN address - 1 ELSE address
       IN  Hand(HandedOver(org, bits, distribute))
    /\ UNCHANGED <<org, routing, mat>>

\* Below the last level: the choice the first horizontal level left open.
AssignSubArray ==
    /\ pc = "leaf" /\ ~NothingToRoute
    /\ LET halves == columnToActive > 0
           bits == IF ~halves /\ levelHorizontal > 0 THEN address - 1 ELSE address
           data == IF halves THEN distribute \div 2 ELSE distribute
       IN  Hand(HandedOver(org, bits, data))
    /\ UNCHANGED <<org, routing, mat>>

\* Each routing step first checks that there is something left to route.
GiveUp ==
    /\ \/ pc = "first" /\ h > 0
       \/ pc = "wider" /\ h > v
       \/ pc = "taller" /\ v > h
       \/ pc = "both" /\ h > 0
       \/ pc \in {"below", "leaf"}
    /\ NothingToRoute
    /\ Goto("unroutable")
    /\ UNCHANGED <<org, routing, sub, mat>>

-----------------------------------------------------------------------------
Divide ==
    /\ pc = "divide"
    /\ Hand(Divided(org))
    /\ UNCHANGED <<org, routing, mat>>

\* subarray.Initialize: the outcome of Mat's electrical checks is open.
InitializeSubArray ==
    /\ pc = "subarray"
    /\ \E electrical \in BOOLEAN :
          IF \/ TooSmall(org, sub) \/ IllegalMat(org, sub) \/ ~electrical
             \/ NoRowAddress(org, sub)
          THEN Goto("illegal") /\ UNCHANGED mat
          ELSE /\ mat' = [numRow |-> numRow(org, sub), numColumn |-> numColumn(org, sub)]
               /\ Goto("verify")
    /\ UNCHANGED <<org, routing, sub>>

BankCapacity ==
    mat.numColumn * mat.numRow
        * 2 ^ (org.row + org.column + org.mats.rowMat + org.mats.columnMat + org.stack)

\* VERIFY_DATA_CAPACITY, VERIFY_TAG_CAPACITY: a mismatch ends the program.
Verify ==
    /\ pc = "verify"
    /\ Goto(IF BankCapacity # Capacity(org) THEN "exit" ELSE "valid")
    /\ UNCHANGED <<org, routing, sub, mat>>

\* The candidate is compared or deleted and the loop goes on with another.
Returned == pc \in {"unroutable", "illegal", "valid", "exit"} /\ UNCHANGED vars

Next ==
    \/ RouteFirst \/ RouteHorizontal \/ RouteVertical
    \/ RouteBothHorizontal \/ RouteBothVertical
    \/ LoopDone \/ AssignSubArray \/ GiveUp
    \/ Divide \/ InitializeSubArray \/ Verify
    \/ Returned

Spec == Init /\ [][Next]_vars

-----------------------------------------------------------------------------
AfterRouting == {"leaf", "subarray", "illegal", "verify", "valid", "exit"}
Places == {"first", "wider", "taller", "both", "below", "unroutable", "divide"} \cup AfterRouting

\* The levels still to route never leave the ranges Initialize starts them in,
\* and the arrays keep their sizes.
TypeOK ==
    /\ org \in Candidates
    /\ pc \in Places
    /\ h \in 0..levelHorizontal /\ v \in 0..levelVertical
    /\ address \in Int
    /\ hWire = [k \in 0..(levelHorizontal - 1) |-> hWire[k]]
    /\ vWire = [k \in 0..(levelVertical - 1) |-> vWire[k]]

Routed(w, k) == k \in DOMAIN w /\ w[k] # Unrouted

\* The routing loops index their arrays with levelHorizontal - h and
\* levelVertical - v: they write inside the arrays, and the level above, which
\* may be in the other array, was routed before it is read.
LevelsInBounds ==
    /\ pc = "wider" /\ h > v =>
          Routed(hWire, levelHorizontal - h - 1) /\ levelHorizontal - h \in DOMAIN hWire
    /\ pc = "taller" /\ v > h =>
          /\ levelVertical - v \in DOMAIN vWire
          /\ v # levelVertical => Routed(vWire, levelVertical - v - 1)
    /\ pc = "both" /\ h > 0 =>
          /\ levelHorizontal - h \in DOMAIN hWire
          /\ IF v = levelVertical THEN Routed(hWire, levelHorizontal - h - 1)
                                  ELSE Routed(vWire, levelVertical - v - 1)
    /\ pc = "below" => Routed(hWire, levelHorizontal - h) /\ levelVertical - v \in DOMAIN vWire

\* CalculateArea and CalculateLatencyAndPower read every level of a bank that
\* Initialize accepted: the three loops together have routed all of them.
TreeIsComplete ==
    org.input.h_tree /\ pc \in {"leaf", "subarray", "illegal", "verify", "valid"} =>
        /\ \A k \in DOMAIN hWire : Routed(hWire, k)
        /\ \A k \in DOMAIN vWire : Routed(vWire, k)

Levels == {hWire[k] : k \in DOMAIN hWire} \cup {vWire[k] : k \in DOMAIN vWire}

\* At every level of the tree the address bits already used select the active
\* wires among all wires: the wire counts, kept by other assignments than the
\* address widths, agree with them.
AddressSelectsWires ==
    \A w \in Levels : w # Unrouted => w.sum = w.active + (numAddressBit(org) - w.address)

\* Where a bank is that was handed to its subarrays.
Delivered == {"subarray", "illegal", "verify", "valid"}

\* The active wires of every level of a bank that was handed to its subarrays
\* together carry the bits of one access (the ways of a set, in a tag array):
\* none of the halvings dropped a bit.  A tag bank with more active subarrays
\* than ways does drop them, and must not get this far.
BandwidthConserved ==
    org.input.h_tree /\ pc \in Delivered =>
        \A w \in Levels : w.distribute * 2 ^ w.active = numDataDistributeBit(org)

\* The routing mode does not change the organisation: the H-tree hands each
\* subarray what a bank without H-tree would, and gives up only on candidates
\* the other bank rejects too.
RoutingModesAgree ==
    org.input.h_tree =>
        /\ pc = "subarray" => sub = Divided(org)
        /\ pc = "unroutable" =>
              LET s == Divided(org) IN s.rejected \/ TooSmall(org, s)

\* "ERROR: DATA capacity violation. Shouldn't happen": the mats of a candidate
\* that passed all checks hold exactly the capacity asked for.
CapacityIsExact == pc # "exit"
=============================================================================
