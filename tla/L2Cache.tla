------------------------------ MODULE L2Cache ------------------------------
(***************************************************************************)
(* The shared L2 (the last-level cache) of a cluster,                      *)
(* MERSI_Two_Level-L2cache_v2.sm, with one action per transition.          *)
(*                                                                         *)
(* "data" and "dirty" are those of the cache entry, or of the TBE once the *)
(* entry is gone (a replacement).  A message recycled because a bank is    *)
(* busy stays in the network and is no step here; LlcBanks models when     *)
(* that happens and that it ends.  The L1s never send GET_INSTR, so its    *)
(* transitions are left out.                                               *)
(***************************************************************************)
EXTENDS MersiBase

VARIABLE l2

L2State == {"NP", "SS", "M", "MT", "M_I", "MT_I", "MCT_I", "I_I", "S_I",
            "ISS", "IS", "IM", "SS_MB", "MT_MB", "MT_IIB", "MT_IB", "MT_SB"}

NoCore == "none"

L2Absent == [st |-> "NP", sharers |-> {}, excl |-> NoCore, data |-> NoData,
             dirty |-> FALSE, gets |-> {}, getx |-> NoCore, acks |-> 0]

L2Init == l2 = [k \in Cluster |-> L2Absent]

L2TypeOK ==
    l2 \in [Cluster -> [st : L2State, sharers : SUBSET Core,
                        excl : Core \cup {NoCore}, data : Line \cup {NoData},
                        dirty : BOOLEAN, gets : SUBSET Core,
                        getx : Core \cup {NoCore}, acks : Int]]

L2Move(k, st) == l2' = [l2 EXCEPT ![k].st = st]

(* Pops m and sends; kd_wakeUpDependents when wake. *)
L2Handle(k, m, send, wake) == Exchange(k, {m}, send, wake) /\ UNCHANGED inv

isSharer(k, c) == c \in l2[k].sharers

(* L1Cache_request_type_to_event, without the busy banks. *)
L1_GETS(m)        == m.type = "GETS"
L1_UPGRADE(k, m)  == m.type = "UPGRADE" /\ isSharer(k, m.from)
L1_GETX(k, m)     == m.type = "GETX" \/ (m.type = "UPGRADE" /\ ~isSharer(k, m.from))
L1_GET(k, m)      == m.type \in {"GETS", "GETX", "UPGRADE"}
L1_PUTX(k, m)     == m.type = "PUTX" /\ isSharer(k, m.from)
L1_PUTX_old(k, m) == m.type = "PUTX" /\ ~isSharer(k, m.from)

(* What the L2 sends. *)
WBAck(k, m)  == Ctl("WB_ACK", k, m.from)
Fetch(k)     == Ctl("GETS", k, "Dir")
Others(k, c) == l2[k].sharers \ {c}
InvSharers(k)       == {Ctl("INV", k, c) : c \in l2[k].sharers}
InvOthers(k, m)     == {Ctl("INV", m.from, c) : c \in Others(k, m.from)}
SendBlock(k, type, c, data, acks) == DataMsg(type, k, c, data, FALSE, acks)
WriteMemory(k, data, dirty)       == DataMsg("MEMORY_DATA", k, "Dir", data, dirty, 0)
CleanReplacement(k)               == Ack(k, "Dir", 0)

----------------------------------------------------------------------------
(* Writebacks of the L1s. *)

L2_PUTX_Ack(k, m) ==
    /\ \/ L1_PUTX(k, m) /\ l2[k].st \in
            {"NP", "IS", "ISS", "IM", "SS", "M", "M_I", "I_I", "S_I", "MT_IB", "MT_SB"}
       \/ L1_PUTX_old(k, m) /\ l2[k].st \in
            {"NP", "SS", "M", "MT", "M_I", "I_I", "S_I", "IS", "ISS", "IM",
             "MT_IB", "MT_SB"}
    /\ L2Handle(k, m, {WBAck(k, m)}, FALSE)
    /\ UNCHANGED l2

(* mr_writeDataToCacheFromRequest *)
L2_MT_PUTX(k, m) ==
    /\ L1_PUTX(k, m) /\ l2[k].st = "MT"
    /\ l2' = [l2 EXCEPT ![k].st = "M", ![k].sharers = {},
                        ![k].data = IF m.dirty THEN m.data ELSE @,
                        ![k].dirty = @ \/ m.dirty]
    /\ L2Handle(k, m, {WBAck(k, m)}, FALSE)

L2_Stall(k, m) ==
    /\ \/ L1_GET(k, m) /\ l2[k].st \in
            {"SS_MB", "MT_MB", "MT_IIB", "MT_IB", "MT_SB",
             "I_I", "S_I", "MT_I", "MCT_I", "M_I"}
       \/ L1_GETX(k, m) /\ l2[k].st \in {"IS", "ISS", "IM"}
       \/ L1_GETS(m) /\ l2[k].st = "IM"
       \/ m.type = "PUTX" /\ l2[k].st \in {"MT_IIB", "MCT_I", "MT_I", "MT_MB", "SS_MB"}
    /\ Stall(m)
    /\ UNCHANGED <<l2, inv>>

----------------------------------------------------------------------------
(* Requests of the L1s. *)

(* i_allocateTBE counts the sharers as pending acks here too; only the      *)
(* replacements read the count.                                             *)
L2_NP_GETS(k, m) ==
    /\ L1_GETS(m) /\ l2[k].st = "NP"
    /\ l2' = [l2 EXCEPT ![k] = [L2Absent EXCEPT !.st = "ISS", !.sharers = {m.from},
                                                !.gets = {m.from}, !.acks = 1]]
    /\ L2Handle(k, m, {Fetch(k)}, FALSE)

L2_NP_GETX(k, m) ==
    /\ L1_GETX(k, m) /\ l2[k].st = "NP"
    /\ l2' = [l2 EXCEPT ![k] = [L2Absent EXCEPT !.st = "IM", !.getx = m.from]]
    /\ L2Handle(k, m, {Fetch(k)}, FALSE)

L2_IS_GETS(k, m) ==
    /\ L1_GETS(m) /\ l2[k].st \in {"IS", "ISS"}
    /\ l2' = [l2 EXCEPT ![k].st = "IS", ![k].sharers = @ \cup {m.from},
                        ![k].gets = @ \cup {m.from}]
    /\ L2Handle(k, m, {}, FALSE)

\* Mutant: nn_addSharer is missing.
L2_SS_GETS_Unrecorded(k, m) ==
    /\ L1_GETS(m) /\ l2[k].st = "SS"
    /\ L2Handle(k, m, {SendBlock(k, "DATA", m.from, l2[k].data, 0)}, FALSE)
    /\ UNCHANGED l2

L2_SS_GETS(k, m) ==
    /\ L1_GETS(m) /\ l2[k].st = "SS"
    /\ l2' = [l2 EXCEPT ![k].sharers = @ \cup {m.from}]
    /\ L2Handle(k, m, {SendBlock(k, "DATA", m.from, l2[k].data, 0)}, FALSE)

(* d_sendDataToRequestor, dd_: minus the acks the requestor will get. *)
AckCount(k, m) == -Cardinality(Others(k, m.from))

L2_SS_GETX(k, m) ==
    /\ L1_GETX(k, m) /\ l2[k].st = "SS"
    /\ L2Move(k, "SS_MB")
    /\ L2Handle(k, m, {SendBlock(k, "DATA", m.from, l2[k].data, AckCount(k, m))}
                        \cup InvOthers(k, m), FALSE)

L2_SS_UPGRADE(k, m) ==
    /\ L1_UPGRADE(k, m) /\ l2[k].st = "SS"
    /\ L2Move(k, "SS_MB")
    /\ L2Handle(k, m, {Ack(k, m.from, 1 - Cardinality(l2[k].sharers))}
                        \cup InvOthers(k, m), FALSE)

L2_M_GETX(k, m) ==
    /\ L1_GETX(k, m) /\ l2[k].st = "M"
    /\ L2Move(k, "MT_MB")
    /\ L2Handle(k, m, {SendBlock(k, "DATA", m.from, l2[k].data, AckCount(k, m))}, FALSE)

L2_M_GETS(k, m) ==
    /\ L1_GETS(m) /\ l2[k].st = "M"
    /\ L2Move(k, "MT_MB")
    /\ L2Handle(k, m, {SendBlock(k, "DATA_EXCLUSIVE", m.from, l2[k].data, AckCount(k, m))},
                FALSE)

(* b_forwardRequestToExclusive keeps the type and the requestor. *)
L2_MT_GETX(k, m) ==
    /\ L1_GETX(k, m) /\ l2[k].st = "MT"
    /\ L2Move(k, "MT_MB")
    /\ L2Handle(k, m, {Ctl(m.type, m.from, l2[k].excl)}, FALSE)

L2_MT_GETS(k, m) ==
    /\ L1_GETS(m) /\ l2[k].st = "MT"
    /\ L2Move(k, "MT_IIB")
    /\ L2Handle(k, m, {Ctl(m.type, m.from, l2[k].excl)}, FALSE)

----------------------------------------------------------------------------
(* Memory's answer to the fetch, and the unblocks. *)

(* m_writeDataToCache; the TBE goes. *)
Filled(k, st, m) ==
    l2' = [l2 EXCEPT ![k] = [l2[k] EXCEPT !.st = st, !.data = m.data,
                                          !.dirty = l2[k].dirty \/ m.dirty,
                                          !.gets = {}, !.getx = NoCore, !.acks = 0]]

L2_ISS_Mem_Data(k, m) ==
    /\ m.type = "MEMORY_DATA" /\ l2[k].st = "ISS"
    /\ Filled(k, "MT_MB", m)
    /\ L2Handle(k, m, {SendBlock(k, "DATA_EXCLUSIVE", c, m.data, 0) : c \in l2[k].gets},
                FALSE)

L2_IS_Mem_Data(k, m) ==
    /\ m.type = "MEMORY_DATA" /\ l2[k].st = "IS"
    /\ Filled(k, "SS", m)
    /\ L2Handle(k, m, {SendBlock(k, "DATA", c, m.data, 0) : c \in l2[k].gets}, TRUE)

L2_IM_Mem_Data(k, m) ==
    /\ m.type = "MEMORY_DATA" /\ l2[k].st = "IM"
    /\ Filled(k, "MT_MB", m)
    /\ L2Handle(k, m, {SendBlock(k, "DATA", l2[k].getx, m.data, 0)}, FALSE)

L2_Exclusive_Unblock(k, m) ==
    /\ m.type = "EXCLUSIVE_UNBLOCK" /\ l2[k].st \in {"SS_MB", "MT_MB"}
    /\ l2' = [l2 EXCEPT ![k].st = "MT", ![k].sharers = {m.from}, ![k].excl = m.from]
    /\ L2Handle(k, m, {}, TRUE)

L2_MT_IIB_Unblock(k, m) ==
    /\ m.type = "UNBLOCK" /\ l2[k].st = "MT_IIB"
    /\ l2' = [l2 EXCEPT ![k].st = "MT_IB", ![k].sharers = @ \cup {m.from}]
    /\ L2Handle(k, m, {}, FALSE)

L2_MT_SB_Unblock(k, m) ==
    /\ m.type = "UNBLOCK" /\ l2[k].st = "MT_SB"
    /\ l2' = [l2 EXCEPT ![k].st = "SS", ![k].sharers = @ \cup {m.from}]
    /\ L2Handle(k, m, {}, TRUE)

(* WB_Data and WB_Data_clean: the owner's copy, dirty or not. *)
WB(m)            == m.type = "DATA"
WB_Data(m)       == m.type = "DATA" /\ m.dirty
WB_Data_clean(m) == m.type = "DATA" /\ ~m.dirty

\* Mutant: m_writeDataToCache is missing.
L2_MT_IIB_WB_Unwritten(k, m) ==
    /\ WB(m) /\ l2[k].st = "MT_IIB"
    /\ L2Move(k, "MT_SB")
    /\ L2Handle(k, m, {}, FALSE)

L2_MT_IIB_WB(k, m) ==
    /\ WB(m) /\ l2[k].st = "MT_IIB"
    /\ Filled(k, "MT_SB", m)
    /\ L2Handle(k, m, {}, FALSE)

L2_MT_IB_WB(k, m) ==
    /\ WB(m) /\ l2[k].st = "MT_IB"
    /\ Filled(k, "SS", m)
    /\ L2Handle(k, m, {}, TRUE)

----------------------------------------------------------------------------
(* Replacements, and invalidations by the directory.  i_allocateTBE and     *)
(* rr_deallocateL2CacheBlock move the block to the TBE.                     *)

Evict(k, st) ==
    l2' = [l2 EXCEPT ![k] = [L2Absent EXCEPT !.st = st,
                                             !.data = l2[k].data, !.dirty = l2[k].dirty,
                                             !.acks = Cardinality(l2[k].sharers)]]

L2Send(k, send) == Exchange(k, {}, send, FALSE) /\ UNCHANGED inv

L2_Replacement_clean(k) == ~l2[k].dirty
L2_Replacement(k)       == l2[k].dirty
MEM_Inv(k)              == inv[k] > 0

L2_SS_Replace_clean(k) ==
    /\ l2[k].st = "SS" /\ L2_Replacement_clean(k)
    /\ Evict(k, "I_I")
    /\ L2Send(k, InvSharers(k))

L2_SS_Replace(k, evicts) ==
    /\ l2[k].st = "SS" /\ evicts
    /\ Evict(k, "S_I")
    /\ L2Send(k, InvSharers(k))

L2_M_Replace_clean(k) ==
    /\ l2[k].st = "M" /\ L2_Replacement_clean(k)
    /\ Evict(k, "M_I")
    /\ L2Send(k, {CleanReplacement(k)})

\* Mutant: the directory's invalidation is answered without the block.
L2_M_Replace_Unwritten(k, evicts) ==
    /\ l2[k].st = "M" /\ evicts
    /\ Evict(k, "M_I")
    /\ L2Send(k, {CleanReplacement(k)})

L2_M_Replace(k, evicts) ==
    /\ l2[k].st = "M" /\ evicts
    /\ Evict(k, "M_I")
    /\ L2Send(k, {WriteMemory(k, l2[k].data, l2[k].dirty)})

L2_MT_Replace_clean(k) ==
    /\ l2[k].st = "MT" /\ L2_Replacement_clean(k)
    /\ Evict(k, "MCT_I")
    /\ L2Send(k, InvSharers(k))

L2_MT_Replace(k, evicts) ==
    /\ l2[k].st = "MT" /\ evicts
    /\ Evict(k, "MT_I")
    /\ L2Send(k, InvSharers(k))

\* Mutant: the invalidation is popped once too often.
L2_PopInv_Twice(k) ==
    /\ MEM_Inv(k) /\ l2[k].st \in {"I_I", "S_I", "M_I", "MT_I", "MCT_I", "NP"}
    /\ inv' = [inv EXCEPT ![k] = @ - 2]
    /\ UNCHANGED <<l2, net, waiting>>

L2_PopInv(k) ==
    /\ MEM_Inv(k) /\ l2[k].st \in {"I_I", "S_I", "M_I", "MT_I", "MCT_I", "NP"}
    /\ inv' = [inv EXCEPT ![k] = @ - 1]
    /\ UNCHANGED <<l2, net, waiting>>

(* q_updateAck *)
L2_Ack(k, m) ==
    /\ m.type = "ACK" /\ l2[k].acks - m.acks # 0 /\ l2[k].st \in {"I_I", "S_I"}
    /\ l2' = [l2 EXCEPT ![k].acks = @ - m.acks]
    /\ L2Handle(k, m, {}, FALSE)

Ack_all(k, m) == m.type = "ACK" /\ l2[k].acks - m.acks = 0

L2_I_I_Ack_all(k, m) ==
    /\ Ack_all(k, m) /\ l2[k].st = "I_I"
    /\ L2Move(k, "M_I")
    /\ L2Handle(k, m, {CleanReplacement(k)}, FALSE)

L2_S_I_Ack_all(k, m) ==
    /\ Ack_all(k, m) /\ l2[k].st = "S_I"
    /\ L2Move(k, "M_I")
    /\ L2Handle(k, m, {WriteMemory(k, l2[k].data, l2[k].dirty)}, FALSE)

(* qq_writeDataToTBE *)
L2_MT_I_WB_Data(k, m) ==
    /\ WB_Data(m) /\ l2[k].st \in {"MT_I", "MCT_I"}
    /\ l2' = [l2 EXCEPT ![k].st = "M_I", ![k].data = m.data, ![k].dirty = m.dirty]
    /\ L2Handle(k, m, {WriteMemory(k, m.data, m.dirty)}, FALSE)

L2_MCT_I_Clean(k, m) ==
    /\ WB_Data_clean(m) \/ Ack_all(k, m)
    /\ l2[k].st = "MCT_I"
    /\ L2Move(k, "M_I")
    /\ L2Handle(k, m, {CleanReplacement(k)}, FALSE)

L2_MT_I_Clean(k, m) ==
    /\ WB_Data_clean(m) \/ Ack_all(k, m)
    /\ l2[k].st = "MT_I"
    /\ L2Move(k, "M_I")
    /\ L2Handle(k, m, {WriteMemory(k, l2[k].data, l2[k].dirty)}, FALSE)

\* Mutant: kd_wakeUpDependents is missing.
L2_Mem_Ack_NoWake(k, m) ==
    /\ m.type = "MEMORY_ACK" /\ l2[k].st = "M_I"
    /\ l2' = [l2 EXCEPT ![k] = L2Absent]
    /\ L2Handle(k, m, {}, FALSE)

L2_Mem_Ack(k, m) ==
    /\ m.type = "MEMORY_ACK" /\ l2[k].st = "M_I"
    /\ l2' = [l2 EXCEPT ![k] = L2Absent]
    /\ L2Handle(k, m, {}, TRUE)

----------------------------------------------------------------------------
L2_Request(k) ==
    \/ L2_SS_Replace_clean(k) \/ L2_SS_Replace(k, L2_Replacement(k))
    \/ L2_M_Replace_clean(k)  \/ L2_M_Replace(k, L2_Replacement(k))
    \/ L2_MT_Replace_clean(k) \/ L2_MT_Replace(k, L2_Replacement(k))

(* MEM_Inv is not popped by the transitions that start an eviction: it is   *)
(* seen again, and popped, in the state they lead to.                       *)
L2_DirInv(k) ==
    \/ L2_SS_Replace(k, MEM_Inv(k))
    \/ L2_M_Replace(k, MEM_Inv(k))
    \/ L2_MT_Replace(k, MEM_Inv(k))
    \/ L2_PopInv(k)

L2_Message(k, m) ==
    \/ L2_PUTX_Ack(k, m) \/ L2_MT_PUTX(k, m) \/ L2_Stall(k, m)
    \/ L2_NP_GETS(k, m) \/ L2_NP_GETX(k, m) \/ L2_IS_GETS(k, m)
    \/ L2_SS_GETS(k, m) \/ L2_SS_GETX(k, m) \/ L2_SS_UPGRADE(k, m)
    \/ L2_M_GETX(k, m) \/ L2_M_GETS(k, m)
    \/ L2_MT_GETX(k, m) \/ L2_MT_GETS(k, m)
    \/ L2_ISS_Mem_Data(k, m) \/ L2_IS_Mem_Data(k, m) \/ L2_IM_Mem_Data(k, m)
    \/ L2_Exclusive_Unblock(k, m) \/ L2_MT_IIB_Unblock(k, m) \/ L2_MT_SB_Unblock(k, m)
    \/ L2_MT_IIB_WB(k, m) \/ L2_MT_IB_WB(k, m)
    \/ L2_Ack(k, m) \/ L2_I_I_Ack_all(k, m) \/ L2_S_I_Ack_all(k, m)
    \/ L2_MT_I_WB_Data(k, m) \/ L2_MCT_I_Clean(k, m) \/ L2_MT_I_Clean(k, m)
    \/ L2_Mem_Ack(k, m)
=============================================================================
