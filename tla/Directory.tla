----------------------------- MODULE Directory -----------------------------
(***************************************************************************)
(* The directory and its memory, MESI_Two_Level-dir.sm, the memory queue   *)
(* it reaches memory through, and the DMA controller,                      *)
(* MESI_Two_Level-dma.sm.                                                  *)
(*                                                                         *)
(* A line has at most one request at the memory controller: the directory  *)
(* is in a transient state from the moment it sends one.  A DMA request    *)
(* recycled while the directory is busy stays in the network.              *)
(***************************************************************************)
EXTENDS MersiBase

CONSTANTS
    DmaOps,   \* what the DMA device asks for, among DMA_READ, DMA_WRITE
    MaxInv    \* bound: the invalidations that may be under way to one L2

VARIABLES
    dir,    \* the directory entry: state, Owner, and the TBE's DMA patch
    mem,    \* the line in memory
    memq,   \* the request at the memory controller or its answer
    dma     \* the state of the DMA controller

DirState == {"I", "ID", "ID_W", "M", "IM", "MI", "M_DRD", "M_DRDI", "M_DWR", "M_DWRI"}

Idle == [kind |-> "none", data |-> NoData, for |-> "Dir",
         aligned |-> TRUE, done |-> FALSE]

DirInit ==
    /\ dir = [st |-> "I", owner |-> "Dir", patch |-> NoData]
    /\ mem = InitLine
    /\ memq = Idle
    /\ dma = "READY"

DirTypeOK ==
    /\ dir \in [st : DirState, owner : Cluster \cup {"Dir"}, patch : Patch \cup {NoData}]
    /\ mem \in Line
    /\ memq \in [kind : {"none", "READ", "WB"}, data : Line \cup Patch \cup {NoData},
                 for : Cluster \cup {"Dir", "DMA"}, aligned : BOOLEAN, done : BOOLEAN]
    /\ dma \in {"READY", "BUSY_RD", "BUSY_WR"}

DirMove(st) == dir' = [dir EXCEPT !.st = st]

DirHandle(pop, send, wake) == Exchange("Dir", pop, send, wake)
Observed == UNCHANGED <<latest, seen>>

(* enqueue on memQueue_out; l_popMemQueue.  A partial write is queued at    *)
(* its own address, that of the line only if it starts with the first word. *)
MemRequest(kind, data, for) ==
    memq' = [kind |-> kind, data |-> data, for |-> for, done |-> FALSE,
             aligned |-> kind = "READ" \/ FirstWord \in DOMAIN data]
MemPop == memq' = Idle
Memory_Data == memq.kind = "READ" /\ memq.done
Memory_Ack  == memq.kind = "WB" /\ memq.done

(* serviceMemoryQueue and recvTimingResp: a READ is answered with the line, *)
(* a WB writes the words it carries, and the answer has the request's       *)
(* address.                                                                 *)
MemoryService ==
    /\ memq.kind # "none" /\ ~memq.done
    /\ memq' = [memq EXCEPT !.done = TRUE,
                            !.data = IF memq.kind = "READ" THEN mem ELSE NoData]
    /\ mem' = IF memq.kind = "WB" THEN Overlay(memq.data, mem) ELSE mem
    /\ UNCHANGED <<dir, dma, net, waiting, inv>> /\ Observed

(* inv_sendCacheInvalidate.  A request that would send one more than the    *)
(* bound stays in the network until the L2 has popped one.                  *)
Backlog(m) ==
    /\ m.type \in {"GETS", "DMA_READ", "DMA_WRITE"} /\ dir.st = "M"
    /\ inv[dir.owner] = MaxInv
Invalidate(m) == ~Backlog(m) /\ inv' = [inv EXCEPT ![dir.owner] = @ + 1]

----------------------------------------------------------------------------
(* Fetches and replacements of the L2s. *)

\* Mutant: memory answers although another L2 has the line.
Dir_I_Fetch_Owned(m) ==
    /\ m.type = "GETS" /\ dir.st \in {"I", "M"}
    /\ DirMove("IM")
    /\ MemRequest("READ", NoData, m.from)
    /\ DirHandle({m}, {}, FALSE)
    /\ UNCHANGED <<mem, dma, inv>> /\ Observed

Dir_I_Fetch(m) ==
    /\ m.type = "GETS" /\ dir.st = "I"
    /\ DirMove("IM")
    /\ MemRequest("READ", NoData, m.from)
    /\ DirHandle({m}, {}, FALSE)
    /\ UNCHANGED <<mem, dma, inv>> /\ Observed

Dir_M_Fetch(m) ==
    /\ m.type = "GETS" /\ dir.st = "M"
    /\ Invalidate(m)
    /\ Stall(m)
    /\ UNCHANGED <<dir, mem, memq, dma>> /\ Observed

\* Mutant: a writeback in progress is left out.
Dir_StallFetch_NotMI(m) ==
    /\ m.type = "GETS" /\ dir.st \in {"ID", "ID_W", "M_DRDI", "M_DWRI", "IM"}
    /\ Stall(m)
    /\ UNCHANGED <<dir, mem, memq, dma, inv>> /\ Observed

Dir_StallFetch(m) ==
    /\ m.type = "GETS" /\ dir.st \in {"ID", "ID_W", "M_DRDI", "M_DWRI", "IM", "MI"}
    /\ Stall(m)
    /\ UNCHANGED <<dir, mem, memq, dma, inv>> /\ Observed

(* d_sendData records the owner. *)
Dir_IM_Memory_Data ==
    /\ Memory_Data /\ dir.st = "IM"
    /\ dir' = [dir EXCEPT !.st = "M", !.owner = memq.for]
    /\ MemPop
    /\ DirHandle({}, {DataMsg("MEMORY_DATA", "Dir", memq.for, memq.data, FALSE, 0)}, TRUE)
    /\ UNCHANGED <<mem, dma, inv>> /\ Observed

Dir_M_CleanReplacement(m) ==
    /\ m.type = "ACK" /\ dir.st = "M"
    /\ DirMove("I")
    /\ DirHandle({m}, {Ctl("MEMORY_ACK", "Dir", m.from)}, TRUE)
    /\ UNCHANGED <<mem, memq, dma, inv>> /\ Observed

Dir_M_Data(m) ==
    /\ m.type = "MEMORY_DATA" /\ dir.st = "M"
    /\ DirMove("MI")
    /\ MemRequest("WB", m.data, m.from)
    /\ DirHandle({m}, {}, FALSE)
    /\ UNCHANGED <<mem, dma, inv>> /\ Observed

(* MI, and M_DRDI once a DMA read has been answered. *)
Dir_Memory_Ack ==
    /\ Memory_Ack /\ dir.st \in {"MI", "M_DRDI"}
    /\ DirMove("I")
    /\ MemPop
    /\ DirHandle({}, {Ctl("MEMORY_ACK", "Dir", memq.for)}, TRUE)
    /\ UNCHANGED <<mem, dma, inv>> /\ Observed

----------------------------------------------------------------------------
(* DMA. *)

ToDMA(type, data) == DataMsg(type, "Dir", "DMA", data, FALSE, 0)

\* Mutants: memory is read while a cache has the line; while it is written.
Dir_I_DMA_READ_Owned(m) ==
    /\ m.type = "DMA_READ" /\ dir.st \in {"I", "M"}
    /\ DirMove("ID")
    /\ MemRequest("READ", NoData, "DMA")
    /\ DirHandle({m}, {}, FALSE)
    /\ UNCHANGED <<mem, dma, inv>> /\ Observed

Dir_I_DMA_READ_Busy(m) ==
    /\ m.type = "DMA_READ" /\ dir.st \in {"I", "MI"}
    /\ DirMove("ID")
    /\ MemRequest("READ", NoData, "DMA")
    /\ DirHandle({m}, {}, FALSE)
    /\ UNCHANGED <<mem, dma, inv>> /\ Observed

Dir_I_DMA_READ(m) ==
    /\ m.type = "DMA_READ" /\ dir.st = "I"
    /\ DirMove("ID")
    /\ MemRequest("READ", NoData, "DMA")
    /\ DirHandle({m}, {}, FALSE)
    /\ UNCHANGED <<mem, dma, inv>> /\ Observed

\* Mutant: l_popMemQueue is missing.
Dir_ID_Memory_Data_NoPop ==
    /\ Memory_Data /\ dir.st = "ID"
    /\ DirMove("I")
    /\ DirHandle({}, {ToDMA("DATA", memq.data)}, TRUE)
    /\ UNCHANGED <<mem, memq, dma, inv>> /\ Observed

Dir_ID_Memory_Data ==
    /\ Memory_Data /\ dir.st = "ID"
    /\ DirMove("I")
    /\ MemPop
    /\ DirHandle({}, {ToDMA("DATA", memq.data)}, TRUE)
    /\ UNCHANGED <<mem, dma, inv>> /\ Observed

\* Mutant: memory is written while a cache has the line.
Dir_I_DMA_WRITE_Owned(m) ==
    /\ m.type = "DMA_WRITE" /\ dir.st \in {"I", "M"}
    /\ DirMove("ID_W")
    /\ MemRequest("WB", m.data, "Dir")
    /\ DirHandle({m}, {}, FALSE)
    /\ Written(m.data)
    /\ UNCHANGED <<mem, dma, inv>>

(* The line is in no cache: the write is ordered here. *)
Dir_I_DMA_WRITE(m) ==
    /\ m.type = "DMA_WRITE" /\ dir.st = "I"
    /\ DirMove("ID_W")
    /\ MemRequest("WB", m.data, "Dir")
    /\ DirHandle({m}, {}, FALSE)
    /\ Written(m.data)
    /\ UNCHANGED <<mem, dma, inv>>

(* da_sendDMAAck asserts the TBE that memQueue_in looked up under the       *)
(* address of the answer: there is one under the address of the line only.  *)
Dir_ID_W_Memory_Ack ==
    /\ Memory_Ack /\ dir.st = "ID_W" /\ memq.aligned
    /\ DirMove("I")
    /\ MemPop
    /\ DirHandle({}, {ToDMA("ACK", NoData)}, TRUE)
    /\ UNCHANGED <<mem, dma, inv>> /\ Observed

Dir_M_DMA(m) ==
    /\ m.type \in {"DMA_READ", "DMA_WRITE"} /\ dir.st = "M"
    /\ dir' = [dir EXCEPT !.st = IF m.type = "DMA_READ" THEN "M_DRD" ELSE "M_DWR",
                          !.patch = m.data]
    /\ Invalidate(m)
    /\ DirHandle({m}, {}, FALSE)
    /\ UNCHANGED <<mem, memq, dma>> /\ Observed

Dir_M_DRD_Data(m) ==
    /\ m.type = "MEMORY_DATA" /\ dir.st = "M_DRD"
    /\ DirMove("M_DRDI")
    /\ MemRequest("WB", m.data, m.from)
    /\ DirHandle({m}, {ToDMA("DATA", m.data)}, FALSE)
    /\ UNCHANGED <<mem, dma, inv>> /\ Observed

(* qw_queueMemoryWBRequest_partialTBE writes the DMA's words, and not the   *)
(* block the L2 sends back.                                                 *)
Dir_M_DWR_Data(m) ==
    /\ m.type = "MEMORY_DATA" /\ dir.st = "M_DWR"
    /\ DirMove("M_DWRI")
    /\ MemRequest("WB", dir.patch, m.from)
    /\ DirHandle({m}, {}, FALSE)
    /\ Written(dir.patch)
    /\ UNCHANGED <<mem, dma, inv>>

Dir_M_DWRI_Memory_Ack ==
    /\ Memory_Ack /\ dir.st = "M_DWRI" /\ memq.aligned
    /\ dir' = [dir EXCEPT !.st = "I", !.patch = NoData]
    /\ MemPop
    /\ DirHandle({}, {Ctl("MEMORY_ACK", "Dir", memq.for), ToDMA("ACK", NoData)}, TRUE)
    /\ UNCHANGED <<mem, dma, inv>> /\ Observed

DMA_ReadRequest ==
    /\ dma = "READY" /\ "DMA_READ" \in DmaOps
    /\ dma' = "BUSY_RD"
    /\ net' = net \cup {Ctl("DMA_READ", "DMA", "Dir")}
    /\ seen' = [seen EXCEPT !["DMA"] = {latest}]
    /\ UNCHANGED <<dir, mem, memq, waiting, inv, latest>>

DMA_WriteRequest(patch) ==
    /\ dma = "READY" /\ "DMA_WRITE" \in DmaOps
    /\ dma' = "BUSY_WR"
    /\ net' = net \cup {DataMsg("DMA_WRITE", "DMA", "Dir", patch, FALSE, 0)}
    /\ UNCHANGED <<dir, mem, memq, waiting, inv>> /\ Observed

DMA_Data(m) ==
    /\ m.type = "DATA" /\ dma = "BUSY_RD"
    /\ dma' = "READY"
    /\ net' = net \ {m}
    /\ seen' = [seen EXCEPT !["DMA"] = {}]
    /\ UNCHANGED <<dir, mem, memq, waiting, inv, latest>>

DMA_Ack(m) ==
    /\ m.type = "ACK" /\ dma = "BUSY_WR"
    /\ dma' = "READY"
    /\ net' = net \ {m}
    /\ UNCHANGED <<dir, mem, memq, waiting, inv>> /\ Observed

----------------------------------------------------------------------------
DMA_Request ==
    \/ DMA_ReadRequest
    \/ \E patch \in Patch : DOMAIN patch # {} /\ DMA_WriteRequest(patch)

DMA_Message(m) == DMA_Data(m) \/ DMA_Ack(m)

(* zz_recycleDMAQueue: the request goes back to the end of its queue. *)
Dir_Recycle(m) ==
    /\ m.type \in {"DMA_READ", "DMA_WRITE"}
    /\ dir.st \in {"ID", "ID_W", "M_DRD", "M_DRDI", "M_DWR", "M_DWRI", "IM", "MI"}

Dir_Memory ==
    \/ MemoryService
    \/ Dir_IM_Memory_Data \/ Dir_Memory_Ack \/ Dir_ID_Memory_Data
    \/ Dir_ID_W_Memory_Ack \/ Dir_M_DWRI_Memory_Ack

Dir_Message(m) ==
    \/ Dir_I_Fetch(m) \/ Dir_M_Fetch(m) \/ Dir_StallFetch(m)
    \/ Dir_M_CleanReplacement(m) \/ Dir_M_Data(m)
    \/ Dir_I_DMA_READ(m) \/ Dir_I_DMA_WRITE(m) \/ Dir_M_DMA(m)
    \/ Dir_M_DRD_Data(m) \/ Dir_M_DWR_Data(m)
=============================================================================
