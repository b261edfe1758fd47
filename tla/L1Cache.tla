------------------------------ MODULE L1Cache ------------------------------
(***************************************************************************)
(* The private L1 controller of a core, MESI_Three_Level-L1cache.sm, with  *)
(* one action per transition of its table.                                 *)
(*                                                                         *)
(* "data" and "dirty" are those of the cache entry, or of the TBE once the *)
(* entry is gone (M_I); "acks" is the TBE's pendingAcks.  The transitions  *)
(* only hardware transactional memory reaches are left out.                *)
(***************************************************************************)
EXTENDS MersiBase

VARIABLE l1

L1State == {"I", "S", "SS", "E", "EE", "M", "MM", "IS", "IM", "SM", "IS_I",
            "M_I", "SINK_WB_ACK", "S_IL0", "E_IL0", "M_IL0", "MM_IL0", "SM_IL0"}

L1Invalid == [st |-> "I", data |-> NoData, dirty |-> FALSE, acks |-> 0]

L1Init == l1 = [c \in Core |-> L1Invalid]

L1TypeOK ==
    l1 \in [Core -> [st : L1State, data : Line \cup {NoData},
                     dirty : BOOLEAN, acks : Int]]

L2Of(c) == ClusterOf[c]

ToL0(c, class, data) == <<DownMsg(class, data)>>
Tell(c, msgs) == down' = [down EXCEPT ![c] = @ \o msgs]

(* k_popL0RequestQueue; kd_wakeUpDependents puts the parked L0 request back *)
(* in the buffer and the parked L2 requests back in the network.            *)
FromL0(c, send, toL0, wake) ==
    /\ Exchange(c, {}, send, wake)
    /\ up' = [up EXCEPT ![c] = (IF wake THEN held[c] ELSE <<>>) \o Tail(@)]
    /\ held' = [held EXCEPT ![c] = IF wake THEN <<>> ELSE @]
    /\ Tell(c, toL0)

(* l_popL2RequestQueue, o_popL2ResponseQueue. *)
FromNet(c, m, send, toL0, wake) ==
    /\ Exchange(c, {m}, send, wake)
    /\ up' = [up EXCEPT ![c] = (IF wake THEN held[c] ELSE <<>>) \o @]
    /\ held' = [held EXCEPT ![c] = IF wake THEN <<>> ELSE @]
    /\ Tell(c, toL0)

Entry(c, st, data, dirty) ==
    l1' = [l1 EXCEPT ![c] = [st |-> st, data |-> data, dirty |-> dirty, acks |-> 0]]

Move(c, st) == l1' = [l1 EXCEPT ![c].st = st]
Drop(c)     == l1' = [l1 EXCEPT ![c] = L1Invalid]

----------------------------------------------------------------------------
(* Messages from the L0. *)

L0Asks(c, classes) == up[c] # <<>> /\ Head(up[c]).class \in classes
Load(c)  == L0Asks(c, {"GETS"})
Store(c) == L0Asks(c, {"GETX", "UPGRADE"})

L1_Stall(c) ==
    /\ L0Asks(c, {"GETS", "GETX", "UPGRADE"})
    /\ l1[c].st \in {"IS", "IM", "IS_I", "M_I", "SM", "SINK_WB_ACK",
                     "S_IL0", "M_IL0", "E_IL0", "MM_IL0"}
    /\ held' = [held EXCEPT ![c] = Append(@, Head(up[c]))]
    /\ up' = [up EXCEPT ![c] = Tail(@)]
    /\ UNCHANGED <<l1, net, waiting, down>>

L1_I_Load(c) ==
    /\ Load(c) /\ l1[c].st = "I"
    /\ Move(c, "IS")
    /\ FromL0(c, {Ctl("GETS", c, L2Of(c))}, <<>>, FALSE)

L1_I_Store(c) ==
    /\ Store(c) /\ l1[c].st = "I"
    /\ Move(c, "IM")
    /\ FromL0(c, {Ctl("GETX", c, L2Of(c))}, <<>>, FALSE)

L1_S_Load(c) ==
    /\ Load(c) /\ l1[c].st \in {"S", "SS"}
    /\ Move(c, "S")
    /\ FromL0(c, {}, ToL0(c, "DATA", l1[c].data), FALSE)

L1_S_Store(c) ==
    /\ Store(c) /\ l1[c].st \in {"S", "SS"}
    /\ Move(c, "SM")
    /\ FromL0(c, {Ctl("UPGRADE", c, L2Of(c))}, <<>>, FALSE)

L1_EE_Load(c) ==
    /\ Load(c) /\ l1[c].st \in {"EE", "E"}
    /\ Move(c, "E")
    /\ FromL0(c, {}, ToL0(c, "DATA_EXCLUSIVE", l1[c].data), FALSE)

L1_MM_Load(c) ==
    /\ Load(c) /\ l1[c].st \in {"MM", "M"}
    /\ Move(c, "M")
    /\ FromL0(c, {}, ToL0(c, "DATA_EXCLUSIVE", l1[c].data), FALSE)

L1_EM_Store(c) ==
    /\ Store(c) /\ l1[c].st \in {"EE", "MM", "E", "M"}
    /\ Move(c, "M")
    /\ FromL0(c, {}, ToL0(c, "DATA_EXCLUSIVE", l1[c].data), FALSE)

\* Mutant: the block that comes with the writeback is not copied.
TakeFromL0_Lost(c, st) == Entry(c, st, l1[c].data, Head(up[c]).dirty \/ l1[c].dirty)

(* u_writeDataFromL0Request, u_writeDataFromL0Response. *)
TakeFromL0(c, st) ==
    LET m == Head(up[c]) IN
    Entry(c, st, IF m.dirty THEN m.data ELSE l1[c].data, m.dirty \/ l1[c].dirty)

L1_WriteBack(c) ==
    /\ L0Asks(c, {"PUTX"}) /\ l1[c].st \in {"M", "E"}
    /\ TakeFromL0(c, "MM")
    /\ FromL0(c, {}, <<>>, FALSE)

L1_IL0_WriteBack(c) ==
    /\ L0Asks(c, {"PUTX"}) /\ l1[c].st \in {"M_IL0", "E_IL0"}
    /\ TakeFromL0(c, "MM_IL0")
    /\ FromL0(c, {}, <<>>, TRUE)

L1_IL0_DataAck(c) ==
    /\ L0Asks(c, {"INV_DATA"}) /\ l1[c].st \in {"M_IL0", "E_IL0"}
    /\ TakeFromL0(c, "MM")
    /\ FromL0(c, {}, <<>>, TRUE)

AfterInvAck == [M_IL0 |-> "MM", MM_IL0 |-> "MM", E_IL0 |-> "EE", S_IL0 |-> "SS"]

L1_IL0_Ack(c) ==
    /\ L0Asks(c, {"INV_ACK"}) /\ l1[c].st \in DOMAIN AfterInvAck
    /\ Move(c, AfterInvAck[l1[c].st])
    /\ FromL0(c, {}, <<>>, TRUE)

L1_SM_IL0_Ack(c) ==
    /\ L0Asks(c, {"INV_ACK"}) /\ l1[c].st = "SM_IL0"
    /\ l1' = [l1 EXCEPT ![c].st = "IM", ![c].data = NoData, ![c].dirty = FALSE]
    /\ FromL0(c, {}, <<>>, TRUE)

----------------------------------------------------------------------------
(* Requests for other lines that need this one's place. *)

L0Evicting == [S |-> "S_IL0", E |-> "E_IL0", M |-> "M_IL0"]

L1_InvalidateOwn(c) ==
    /\ l1[c].st \in DOMAIN L0Evicting
    /\ Move(c, L0Evicting[l1[c].st])
    /\ Tell(c, ToL0(c, "INV_OWN", NoData))
    /\ UNCHANGED <<net, waiting, up, held>>

\* Mutant: a clean exclusive copy goes silently too.
L1_ReplaceShared_Exclusive(c) ==
    /\ l1[c].st \in {"SS", "EE"}
    /\ Drop(c)
    /\ UNCHANGED <<net, waiting, up, held, down>>

L1_ReplaceShared(c) ==
    /\ l1[c].st = "SS"
    /\ Drop(c)
    /\ UNCHANGED <<net, waiting, up, held, down>>

L1_ReplaceOwned(c) ==
    /\ l1[c].st \in {"EE", "MM"}
    /\ Move(c, "M_I")
    /\ net' = net \cup {DataMsg("PUTX", c, L2Of(c),
                                IF l1[c].dirty THEN l1[c].data ELSE NoData,
                                l1[c].dirty, 0)}
    /\ UNCHANGED <<waiting, up, held, down>>

----------------------------------------------------------------------------
(* Requests from the L2: INV, GETS, GETX, UPGRADE. *)

Inv(m)      == m.type = "INV"
Fwd_GETX(m) == m.type \in {"GETX", "UPGRADE"}
Fwd_GETS(m) == m.type = "GETS"

(* L0_Invalidate_Else: the request stays where it is. *)
L1_InvalidateElse(c, m) ==
    /\ IsRequest(m) /\ l1[c].st \in {"S", "E", "M", "SM"}
    /\ Move(c, IF l1[c].st = "SM" THEN "SM_IL0" ELSE L0Evicting[l1[c].st])
    /\ Tell(c, ToL0(c, "INV_ELSE", NoData))
    /\ UNCHANGED <<net, waiting, up, held>>

L1_StallL2(c, m) ==
    /\ IsRequest(m) /\ l1[c].st \in {"S_IL0", "M_IL0", "E_IL0", "SM_IL0", "MM_IL0"}
    /\ Stall(m)
    /\ UNCHANGED <<l1, up, held, down>>

L1_Inv_Ack(c, m) ==
    /\ Inv(m) /\ l1[c].st \in {"I", "IM", "SINK_WB_ACK"}
    /\ FromNet(c, m, {Ack(c, m.from, 1)}, <<>>, FALSE)
    /\ UNCHANGED l1

L1_IS_Inv(c, m) ==
    /\ Inv(m) /\ l1[c].st \in {"IS", "IS_I"}
    /\ Move(c, "IS_I")
    /\ FromNet(c, m, {Ack(c, m.from, 1)}, <<>>, FALSE)

(* The owner of a clean line acks without data, as a sharer does. *)
L1_Clean_Inv(c, m) ==
    /\ Inv(m) /\ l1[c].st \in {"SS", "EE"}
    /\ Drop(c)
    /\ FromNet(c, m, {Ack(c, m.from, 1)}, <<>>, FALSE)

Block(c, to) == DataMsg("DATA", c, to, l1[c].data, l1[c].dirty, 0)

L1_MM_Inv(c, m) ==
    /\ Inv(m) /\ l1[c].st = "MM"
    /\ Drop(c)
    /\ FromNet(c, m, {Block(c, L2Of(c))}, <<>>, FALSE)

\* Mutant: the writeback that lost a race is forgotten.
Sink_Forgets(c) == Drop(c)

Sink(c) == l1' = [l1 EXCEPT ![c] = [L1Invalid EXCEPT !.st = "SINK_WB_ACK"]]

L1_M_I_Inv(c, m) ==
    /\ Inv(m) /\ l1[c].st = "M_I"
    /\ Sink(c)
    /\ FromNet(c, m, {Block(c, L2Of(c))}, <<>>, FALSE)

L1_Fwd_GETX(c, m) ==
    /\ Fwd_GETX(m) /\ l1[c].st \in {"EE", "MM"}
    /\ Drop(c)
    /\ FromNet(c, m, {Block(c, m.from)}, <<>>, FALSE)

L1_Fwd_GETS(c, m) ==
    /\ Fwd_GETS(m) /\ l1[c].st \in {"EE", "MM"}
    /\ Move(c, "SS")
    /\ FromNet(c, m, {Block(c, m.from), Block(c, L2Of(c))}, <<>>, FALSE)

L1_M_I_Fwd_GETX(c, m) ==
    /\ Fwd_GETX(m) /\ l1[c].st = "M_I"
    /\ Sink(c)
    /\ FromNet(c, m, {Block(c, m.from)}, <<>>, FALSE)

L1_M_I_Fwd_GETS(c, m) ==
    /\ Fwd_GETS(m) /\ l1[c].st = "M_I"
    /\ Sink(c)
    /\ FromNet(c, m, {Block(c, m.from), Block(c, L2Of(c))}, <<>>, FALSE)

----------------------------------------------------------------------------
(* Responses from the L2 and from other L1s. *)

FromL1(c, m)  == m.type = "DATA" /\ l1[c].st \in {"IS", "IS_I"} /\ m.from \in Core
AllAcks(c, m) == l1[c].acks - m.acks = 0
DataS_fromL1(c, m)  == FromL1(c, m)
Data_all_Acks(c, m) == m.type = "DATA" /\ ~FromL1(c, m) /\ AllAcks(c, m)
Data_(c, m)         == m.type = "DATA" /\ ~FromL1(c, m) /\ ~AllAcks(c, m)

L1_WB_Ack(c, m) ==
    /\ m.type = "WB_ACK" /\ l1[c].st \in {"M_I", "SINK_WB_ACK"}
    /\ Drop(c)
    /\ FromNet(c, m, {}, <<>>, TRUE)

L1_IS_Data(c, m) ==
    /\ Data_all_Acks(c, m) /\ l1[c].st = "IS"
    /\ Entry(c, "S", m.data, m.dirty)
    /\ FromNet(c, m, {}, ToL0(c, "DATA", m.data), TRUE)

L1_IS_I_Data(c, m) ==
    /\ Data_all_Acks(c, m) /\ l1[c].st = "IS_I"
    /\ Drop(c)
    /\ FromNet(c, m, {}, ToL0(c, "STALE_DATA", m.data), TRUE)

L1_IS_DataS_fromL1(c, m) ==
    /\ DataS_fromL1(c, m) /\ l1[c].st = "IS"
    /\ Entry(c, "S", m.data, m.dirty)
    /\ FromNet(c, m, {Ctl("UNBLOCK", c, L2Of(c))}, ToL0(c, "DATA", m.data), TRUE)

L1_IS_I_DataS_fromL1(c, m) ==
    /\ DataS_fromL1(c, m) /\ l1[c].st = "IS_I"
    /\ Drop(c)
    /\ FromNet(c, m, {Ctl("UNBLOCK", c, L2Of(c))}, ToL0(c, "STALE_DATA", m.data), TRUE)

L1_IS_Data_Exclusive(c, m) ==
    /\ m.type = "DATA_EXCLUSIVE" /\ l1[c].st \in {"IS", "IS_I"}
    /\ Entry(c, "E", m.data, m.dirty)
    /\ FromNet(c, m, {Ctl("EXCLUSIVE_UNBLOCK", c, L2Of(c))},
               ToL0(c, "DATA_EXCLUSIVE", m.data), TRUE)

\* Mutant: the acks that came before the data are forgotten.
L1_IM_Data_Resets(c, m) ==
    /\ Data_(c, m) /\ l1[c].st = "IM"
    /\ l1' = [l1 EXCEPT ![c] = [st |-> "SM", data |-> m.data, dirty |-> m.dirty,
                                acks |-> -m.acks]]
    /\ FromNet(c, m, {}, <<>>, FALSE)

(* q_updateAckCount *)
L1_IM_Data(c, m) ==
    /\ Data_(c, m) /\ l1[c].st = "IM"
    /\ l1' = [l1 EXCEPT ![c] = [st |-> "SM", data |-> m.data, dirty |-> m.dirty,
                                acks |-> @.acks - m.acks]]
    /\ FromNet(c, m, {}, <<>>, FALSE)

L1_IM_Data_all_Acks(c, m) ==
    /\ Data_all_Acks(c, m) /\ l1[c].st = "IM"
    /\ Entry(c, "M", m.data, m.dirty)
    /\ FromNet(c, m, {Ctl("EXCLUSIVE_UNBLOCK", c, L2Of(c))},
               ToL0(c, "DATA_EXCLUSIVE", m.data), TRUE)

L1_Ack(c, m) ==
    /\ m.type = "ACK" /\ ~AllAcks(c, m) /\ l1[c].st \in {"SM", "IM"}
    /\ l1' = [l1 EXCEPT ![c].acks = @ - m.acks]
    /\ FromNet(c, m, {}, <<>>, FALSE)

L1_SM_Ack_all(c, m) ==
    /\ m.type = "ACK" /\ AllAcks(c, m) /\ l1[c].st = "SM"
    /\ Entry(c, "M", l1[c].data, l1[c].dirty)
    /\ FromNet(c, m, {Ctl("EXCLUSIVE_UNBLOCK", c, L2Of(c))},
               ToL0(c, "DATA_EXCLUSIVE", l1[c].data), TRUE)

----------------------------------------------------------------------------
L1_Request(c) ==
    \/ L1_InvalidateOwn(c)
    \/ L1_ReplaceShared(c)
    \/ L1_ReplaceOwned(c)

L1_L0Message(c) ==
    \/ L1_Stall(c)
    \/ L1_I_Load(c) \/ L1_I_Store(c)
    \/ L1_S_Load(c) \/ L1_S_Store(c)
    \/ L1_EE_Load(c) \/ L1_MM_Load(c) \/ L1_EM_Store(c)
    \/ L1_WriteBack(c) \/ L1_IL0_WriteBack(c)
    \/ L1_IL0_DataAck(c) \/ L1_IL0_Ack(c) \/ L1_SM_IL0_Ack(c)

L1_NetMessage(c, m) ==
    \/ L1_InvalidateElse(c, m) \/ L1_StallL2(c, m)
    \/ L1_Inv_Ack(c, m) \/ L1_IS_Inv(c, m) \/ L1_Clean_Inv(c, m)
    \/ L1_MM_Inv(c, m) \/ L1_M_I_Inv(c, m)
    \/ L1_Fwd_GETX(c, m) \/ L1_Fwd_GETS(c, m)
    \/ L1_M_I_Fwd_GETX(c, m) \/ L1_M_I_Fwd_GETS(c, m)
    \/ L1_WB_Ack(c, m)
    \/ L1_IS_Data(c, m) \/ L1_IS_I_Data(c, m)
    \/ L1_IS_DataS_fromL1(c, m) \/ L1_IS_I_DataS_fromL1(c, m)
    \/ L1_IS_Data_Exclusive(c, m)
    \/ L1_IM_Data(c, m) \/ L1_IM_Data_all_Acks(c, m)
    \/ L1_Ack(c, m) \/ L1_SM_Ack_all(c, m)
=============================================================================
