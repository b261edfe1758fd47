-------------------------- MODULE MersiThreeLevel --------------------------
(***************************************************************************)
(* The X86_MERSI_Three_Level system for one cache line: the L0 and L1 of   *)
(* every core, one L2 per cluster, the directory with its memory, and a    *)
(* DMA controller, joined by the buffers of MersiBase.                     *)
(***************************************************************************)
EXTENDS L0Cache, L1Cache, L2Cache, Directory, FiniteSetsExt

vars == <<net, waiting, up, down, held, inv, latest, seen, l0, l1, l2, dir, mem, memq, dma>>

Init == BaseInit /\ L0Init /\ L1Init /\ L2Init /\ DirInit

(* What each controller leaves alone. *)
L0Frame  == UNCHANGED <<net, waiting, held, inv, l1, l2, dir, mem, memq, dma>>
L1Frame  == UNCHANGED <<inv, latest, seen, l0, l2, dir, mem, memq, dma>>
L2Frame  == UNCHANGED <<up, down, held, latest, seen, l0, l1, dir, mem, memq, dma>>
DirFrame == UNCHANGED <<up, down, held, l0, l1, l2>>

(* What cores, prefetchers, the DMA device and other lines may ask for. *)
Request ==
    \/ \E c \in Core : L0_Request(c) /\ L0Frame
    \/ \E c \in Core : L1_Request(c) /\ L1Frame
    \/ \E k \in Cluster : L2_Request(k) /\ L2Frame
    \/ DMA_Request /\ DirFrame

(* What a controller does with a message at one of its in-ports. *)
Receive(m) ==
    \/ m.to \in Core /\ L1_NetMessage(m.to, m) /\ L1Frame
    \/ m.to \in Cluster /\ L2_Message(m.to, m) /\ L2Frame
    \/ m.to = "Dir" /\ Dir_Message(m) /\ DirFrame
    \/ m.to = "DMA" /\ DMA_Message(m) /\ DirFrame

React ==
    \/ \E c \in Core : L0_Message(c) /\ L0Frame
    \/ \E c \in Core : L1_L0Message(c) /\ L1Frame
    \/ \E k \in Cluster : L2_DirInv(k) /\ L2Frame
    \/ Dir_Memory /\ DirFrame
    \/ \E m \in net : Receive(m)

Next == Request \/ React

Spec == Init /\ [][Next]_vars

----------------------------------------------------------------------------
(* The type of every variable.  In particular the L2 pops each of the       *)
(* directory's invalidations once.                                          *)
TypeOK == BaseTypeOK /\ L0TypeOK /\ L1TypeOK /\ L2TypeOK /\ DirTypeOK

(* What a core may do with the copy in its L0 (AccessPermission). *)
WritableStates == {"E", "M"}
ReadableStates == {"S", "SM"} \cup WritableStates
Readable(c) == l0[c].st \in ReadableStates
Writable(c) == l0[c].st \in WritableStates

(* While one L0 may write the line no other L0 may read it, whatever        *)
(* invalidations, upgrades, forwards and writebacks are under way.          *)
SingleWriter ==
    \A c, d \in Core : c # d /\ Writable(c) => ~Readable(d)

(* The L1 states that answer with the block of the L1. *)
CurrentStates == {"S", "SS", "SM", "S_IL0", "SM_IL0", "EE", "MM", "MM_IL0", "M_I"}

(* The block of an L1 whose L0 has no newer one is current, down to the     *)
(* writeback in M_I, whose block must serve forwards and invalidations      *)
(* until the L2 has taken the PUTX (its WB_ACK is then under way).          *)
L1sAreCurrent ==
    \A c \in Core :
        l1[c].st \in CurrentStates
            => l1[c].data = latest \/ Ctl("WB_ACK", ClusterOf[c], c) \in net

(* When no L1 owns the line the block of the L2 is current: a PUTX or the   *)
(* data of a downgraded owner has been merged before the L2 serves from it. *)
L2IsCurrent ==
    \A k \in Cluster : l2[k].st \in {"SS", "M", "I_I", "S_I"}
                          => l2[k].data = latest

(* "dir is the owner and memory is up-to-date": in I, and while a DMA read  *)
(* is at memory, memory holds the last value written by anyone.             *)
MemoryIsCurrent == dir.st \in {"I", "ID"} => mem = latest

AcksUnderWay(n) ==
    FoldSet(LAMBDA m, i : m.acks + i, 0, {m \in net : m.to = n /\ ~IsRequest(m)})
InvsUnderWay(n) ==
    Cardinality({m \in net \cup waiting : m.type = "INV" /\ m.from = n})

(* pendingAcks is conserved: at every moment what a node still counts on    *)
(* is exactly the acks under way to it (the negative count the L2 sends     *)
(* with the data included) plus the invalidations still to be acked to it.  *)
(* Neither the order of data and acks nor a stalled invalidation can make   *)
(* a writer proceed early or wait forever.                                  *)
AcksBalance ==
    /\ \A c \in Core : l1[c].acks = AcksUnderWay(c) + InvsUnderWay(c)
    /\ \A k \in Cluster : l2[k].st \in {"I_I", "S_I"} =>
                              l2[k].acks = AcksUnderWay(k) + InvsUnderWay(k)

OwnerStates == {"E", "EE", "M", "MM", "E_IL0", "M_IL0", "MM_IL0", "M_I"}
SharerStates == {"S", "SS", "SM", "S_IL0", "SM_IL0"}

(* The L1 to which an L2 in MT would forward a request does have the line,  *)
(* if only in its writeback: Exclusive is never out of date.                *)
OwnerIsRecorded ==
    \A k \in Cluster : l2[k].st = "MT" => l1[l2[k].excl].st \in OwnerStates

(* An L1 with a shared copy is in the sharer list of its L2, or is being    *)
(* invalidated, or is about to be recorded by its UNBLOCK, or is the writer *)
(* the L2 is blocked for: no copy escapes the next invalidation.            *)
SharersAreRecorded ==
    \A c \in Core : l1[c].st \in SharerStates =>
        \/ c \in l2[ClusterOf[c]].sharers
        \/ \E m \in net \cup waiting : m.type = "INV" /\ m.to = c
        \/ Ctl("UNBLOCK", c, ClusterOf[c]) \in net
        \/ l1[c].st = "SM" /\ l2[ClusterOf[c]].st = "SS_MB"

(* A load or fetch that misses ends with a value the line had at some       *)
(* moment after the miss was issued: the stale data of IS_I (h_stale_data)  *)
(* may be overtaken, but never predates the load.                           *)
LoadsAreCurrent ==
    [][\A c \in Core : seen[c] # {} /\ seen'[c] = {} => Head(down[c]).data \in seen[c]]_vars

(* The same for a DMA read, which the directory answers from memory in I    *)
(* and from the block the invalidated L2 sends in M.                        *)
DmaReadsAreCurrent ==
    [][seen["DMA"] # {} /\ seen'["DMA"] = {} =>
         \A m \in net \ net' : m.to = "DMA" => m.data \in seen["DMA"]]_vars

(* The directory has a request at memory exactly in the states that wait    *)
(* for Memory_Data or for Memory_Ack, and one of the kind they wait for.    *)
OneMemoryRequest ==
    /\ memq.kind = "READ" <=> dir.st \in {"IM", "ID"}
    /\ memq.kind = "WB"   <=> dir.st \in {"ID_W", "MI", "M_DRDI", "M_DWRI"}

(* What becomes of a request at memory: it is served and then popped. *)
Served == IF memq.done THEN memq' = Idle
          ELSE memq'.done /\ memq'.kind = memq.kind /\ memq'.for = memq.for

(* No request at memory is lost: no handler of the directory queues another *)
(* one for the line before the first has been served and popped.            *)
MemoryRequestsServed ==
    [][memq.kind # "none" /\ memq' # memq => Served]_vars

(* What a core sees of the hierarchy is CoherentMemory: the L0 copies, with *)
(* the observer "latest" as the line, take only its steps.                  *)
Mode(c) == IF Writable(c) THEN "write" ELSE IF Readable(c) THEN "read" ELSE "none"

Memory == INSTANCE CoherentMemory WITH
    line <- latest,
    mode <- [c \in Core |-> Mode(c)],
    copy <- [c \in Core |-> IF Readable(c) THEN l0[c].data ELSE NoData]

(* Every behaviour of the three levels, the directory and the DMA           *)
(* controller implements the atomic memory.                                 *)
ImplementsCoherentMemory == Memory!Spec

(* A message that has arrived has a transition (or is recycled, or waits    *)
(* for the bound MaxInv), in whatever state it finds the controller.        *)
NetworkHandled == \A m \in net : ENABLED Receive(m) \/ Dir_Recycle(m) \/ Backlog(m)
L0Handled      == \A c \in Core : down[c] # <<>> => ENABLED L0_Message(c)

(* The generated controllers panic with "Invalid transition" on a pair of   *)
(* state and event without a transition.  None is ever met: every message   *)
(* and every answer of memory has a transition.                             *)
NoInvalidTransition ==
    /\ NetworkHandled
    /\ L0Handled
    /\ \A c \in Core : up[c] # <<>> => ENABLED L1_L0Message(c)
    /\ memq.done => ENABLED Dir_Memory

(* Less than the panic asks for: an L0 and a controller of the network do   *)
(* not both face a pair without a transition.  A behaviour against it shows *)
(* two gaps in the tables at once.                                          *)
NotTwoGaps == NetworkHandled \/ L0Handled
=============================================================================
