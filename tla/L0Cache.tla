------------------------------ MODULE L0Cache ------------------------------
(***************************************************************************)
(* The L0 controller of a core, MESI_Three_Level-L0cache.sm.               *)
(*                                                                         *)
(* The instruction and the data cache share one entry here: the controller *)
(* asserts that a line is in at most one of them, and "side" says which.   *)
(* A load, fetch or store reaches the controller when it can act on it;    *)
(* the requests it would stall stay with the core.  A hit that changes no  *)
(* state is no step.  "data" is NoData while nothing reads the block       *)
(* before a message overwrites it.                                         *)
(***************************************************************************)
EXTENDS MersiBase

CONSTANTS
    CoreOps,      \* the requests of the cores, among Load, Ifetch, Store
    PrefetchOps   \* those of the prefetcher, among PF_Load, PF_Ifetch, PF_Store

ASSUME OpsAssumption ==
    /\ CoreOps \subseteq {"Load", "Ifetch", "Store"}
    /\ PrefetchOps \subseteq {"PF_Load", "PF_Ifetch", "PF_Store"}

VARIABLE l0

L0State == {"I", "S", "E", "M", "Inst_IS", "IS", "IM", "SM",
            "PF_Inst_IS", "PF_IS", "PF_IE"}

L0Invalid == [st |-> "I", side |-> "D", data |-> NoData, dirty |-> FALSE]

L0Init == l0 = [c \in Core |-> L0Invalid]

L0TypeOK ==
    l0 \in [Core -> [st : L0State, side : {"D", "I"},
                     data : Line \cup {NoData}, dirty : BOOLEAN]]

ToL1(c, class, data, dirty) ==
    up' = [up EXCEPT ![c] = Append(@, UpMsg(class, data, dirty))]

NothingToL1 == UNCHANGED up
PopFromL1(c) == down' = [down EXCEPT ![c] = Tail(@)]
KeepFromL1 == UNCHANGED down

(* A read becomes pending when it misses, and ends with the data. *)
ReadOp(op)  == op \in {"Load", "Ifetch"}
Begin(c)    == seen' = [seen EXCEPT ![c] = {latest}] /\ UNCHANGED latest
Finish(c)   == seen' = [seen EXCEPT ![c] = {}] /\ UNCHANGED latest
NoRead      == UNCHANGED <<seen, latest>>

(* What a request that finds the line invalid allocates and sends. *)
Miss(st, req, side) == [st |-> st, req |-> req, side |-> side]
MissOf == [Load      |-> Miss("IS", "GETS", "D"),
           Ifetch    |-> Miss("Inst_IS", "GETS", "I"),
           Store     |-> Miss("IM", "GETX", "D"),
           PF_Load   |-> Miss("PF_IS", "GETS", "D"),
           PF_Ifetch |-> Miss("PF_Inst_IS", "GETS", "I"),
           PF_Store  |-> Miss("PF_IE", "GETX", "D")]

L0_Miss(c, op) ==
    /\ l0[c].st = "I"
    /\ l0' = [l0 EXCEPT ![c] = [st |-> MissOf[op].st, side |-> MissOf[op].side,
                                data |-> NoData, dirty |-> FALSE]]
    /\ ToL1(c, MissOf[op].req, NoData, FALSE)
    /\ KeepFromL1
    /\ IF ReadOp(op) THEN Begin(c) ELSE NoRead

(* A core's request that finds the line being prefetched takes it over. *)
PrefetchOf == [Load |-> "PF_Load", Ifetch |-> "PF_Ifetch", Store |-> "PF_Store"]

L0_JoinPrefetch(c, op) ==
    /\ l0[c].st = MissOf[PrefetchOf[op]].st
    /\ l0' = [l0 EXCEPT ![c].st = MissOf[op].st]
    /\ NothingToL1 /\ KeepFromL1
    /\ IF ReadOp(op) THEN Begin(c) ELSE NoRead

L0_Upgrade(c) ==
    /\ l0[c].st = "S" /\ l0[c].side = "D"
    /\ l0' = [l0 EXCEPT ![c].st = "SM"]
    /\ ToL1(c, "UPGRADE", NoData, FALSE)
    /\ KeepFromL1 /\ NoRead

L0_StoreHit(c, w, v) ==
    /\ l0[c].st \in {"E", "M"} /\ l0[c].side = "D"
    /\ l0' = [l0 EXCEPT ![c].st = "M", ![c].data[w] = v, ![c].dirty = TRUE]
    /\ NothingToL1 /\ KeepFromL1
    /\ Written([x \in {w} |-> v])

(* L0_Replacement and PF_L0_Replacement: a shared copy goes silently. *)
L0_ReplaceShared(c) ==
    /\ l0[c].st = "S"
    /\ l0' = [l0 EXCEPT ![c] = L0Invalid]
    /\ NothingToL1 /\ KeepFromL1 /\ NoRead

L0_ReplaceOwned(c) ==
    /\ l0[c].st \in {"E", "M"}
    /\ l0' = [l0 EXCEPT ![c] = L0Invalid]
    /\ ToL1(c, "PUTX", IF l0[c].dirty THEN l0[c].data ELSE NoData, l0[c].dirty)
    /\ KeepFromL1 /\ NoRead

L0Head(c, classes) == down[c] # <<>> /\ Head(down[c]).class \in classes
InvClass == {"INV_OWN", "INV_ELSE"}

(* The invalidation finds a miss outstanding, or nothing. *)
L0_InvMissing(c) ==
    /\ L0Head(c, InvClass)
    /\ l0[c].st \in {"I", "IS", "IM", "Inst_IS", "PF_Inst_IS", "PF_IS", "PF_IE"}
    /\ ToL1(c, "INV_ACK", NoData, FALSE)
    /\ PopFromL1(c) /\ NoRead /\ UNCHANGED l0

\* Mutant: the upgrade in progress keeps its copy.
L0_InvUpgrading_Keeps(c) ==
    /\ L0Head(c, InvClass)
    /\ l0[c].st = "SM"
    /\ ToL1(c, "INV_ACK", NoData, FALSE)
    /\ PopFromL1(c) /\ NoRead /\ UNCHANGED l0

L0_InvUpgrading(c) ==
    /\ L0Head(c, InvClass)
    /\ l0[c].st = "SM"
    /\ l0' = [l0 EXCEPT ![c].st = "IM", ![c].data = NoData]
    /\ ToL1(c, "INV_ACK", NoData, FALSE)
    /\ PopFromL1(c) /\ NoRead

L0_InvClean(c) ==
    /\ L0Head(c, InvClass)
    /\ l0[c].st \in {"S", "E"}
    /\ l0' = [l0 EXCEPT ![c] = L0Invalid]
    /\ ToL1(c, "INV_ACK", NoData, FALSE)
    /\ PopFromL1(c) /\ NoRead

L0_InvModified(c) ==
    /\ L0Head(c, InvClass)
    /\ l0[c].st = "M"
    /\ l0' = [l0 EXCEPT ![c] = L0Invalid]
    /\ ToL1(c, "INV_DATA", l0[c].data, l0[c].dirty)
    /\ PopFromL1(c) /\ NoRead

(* u_writeDataToCache, u_writeInstToCache. *)
Fill(c, st) ==
    l0' = [l0 EXCEPT ![c].st = st, ![c].data = Head(down[c]).data]

L0_Data(c) ==
    /\ L0Head(c, {"DATA"})
    /\ l0[c].st \in {"IS", "Inst_IS", "PF_IS", "PF_Inst_IS"}
    /\ Fill(c, "S")
    /\ PopFromL1(c) /\ NothingToL1 /\ Finish(c)

L0_DataExclusive(c) ==
    /\ L0Head(c, {"DATA_EXCLUSIVE"})
    /\ l0[c].st \in {"IS", "Inst_IS", "PF_IS", "PF_Inst_IS", "PF_IE"}
    /\ Fill(c, "E")
    /\ PopFromL1(c) /\ NothingToL1 /\ Finish(c)

(* The pending read is answered, and the entry is gone again. *)
L0_DataStale(c) ==
    /\ L0Head(c, {"STALE_DATA"})
    /\ l0[c].st \in {"IS", "Inst_IS", "PF_IS"}
    /\ l0' = [l0 EXCEPT ![c] = L0Invalid]
    /\ PopFromL1(c) /\ NothingToL1 /\ Finish(c)

L0_DataToWrite(c, w, v) ==
    /\ L0Head(c, {"DATA_EXCLUSIVE"})
    /\ l0[c].st \in {"IM", "SM"}
    /\ l0' = [l0 EXCEPT ![c].st = "M", ![c].dirty = TRUE,
                        ![c].data = [Head(down[c]).data EXCEPT ![w] = v]]
    /\ PopFromL1(c) /\ NothingToL1
    /\ Written([x \in {w} |-> v])

(* What the core, its prefetcher and other lines may ask of the L0. *)
L0_Request(c) ==
    \/ \E op \in CoreOps \cup PrefetchOps : L0_Miss(c, op)
    \/ \E op \in CoreOps : L0_JoinPrefetch(c, op)
    \/ "Store" \in CoreOps /\ L0_Upgrade(c)
    \/ "Store" \in CoreOps /\ \E w \in Word, v \in Value : L0_StoreHit(c, w, v)
    \/ L0_ReplaceShared(c)
    \/ L0_ReplaceOwned(c)

(* What it does with the message at the head of bufferFromL1. *)
L0_Message(c) ==
    \/ L0_InvMissing(c) \/ L0_InvUpgrading(c) \/ L0_InvClean(c)
    \/ L0_InvModified(c)
    \/ L0_Data(c) \/ L0_DataExclusive(c) \/ L0_DataStale(c)
    \/ \E w \in Word, v \in Value : L0_DataToWrite(c, w, v)
=============================================================================
