-------------------------- MODULE Directory_proofs --------------------------
(***************************************************************************)
(* The directory and its memory queue, for any number of cores, clusters,  *)
(* words and values: the state of the directory says what is at memory, so *)
(* that one request suffices for the line and none is overwritten.         *)
(***************************************************************************)
EXTENDS MersiThreeLevel, TLAPS

(* OneMemoryRequest, with the shape of the two records it reads.  The kind  *)
(* has to be one of the three: outside the waiting states it is "none".     *)
MemoryInv ==
    /\ "st" \in DOMAIN dir
    /\ {"kind", "for", "done", "data"} \subseteq DOMAIN memq
    /\ memq.kind \in {"none", "READ", "WB"}
    /\ OneMemoryRequest

(* What a step may do to the request at memory. *)
KeepsRequest == memq.kind # "none" /\ memq' # memq => Served

(* The directory starts in I with nothing at memory. *)
LEMMA MemoryInvInit == Init => MemoryInv
BY DEF Init, DirInit, Idle, MemoryInv, OneMemoryRequest

(* Moving the directory sets its state. *)
LEMMA DirMoves ==
    ASSUME MemoryInv, NEW st, DirMove(st)
    PROVE  "st" \in DOMAIN dir' /\ dir'.st = st
BY DEF MemoryInv, DirMove

(* The handlers that queue a request do so from a state that waits for none,*)
(* into one that waits for its kind.                                        *)
LEMMA QueueStep ==
    ASSUME MemoryInv, NEW kind \in {"READ", "WB"}, NEW data, NEW for, NEW st,
           dir.st \in {"I", "M", "M_DRD", "M_DWR"},
           kind = "READ" => st \in {"IM", "ID"},
           kind = "WB" => st \in {"ID_W", "MI", "M_DRDI", "M_DWRI"},
           DirMove(st), MemRequest(kind, data, for)
    PROVE  MemoryInv' /\ KeepsRequest
<1>1. "st" \in DOMAIN dir' /\ dir'.st = st
  BY DirMoves
<1>2. /\ {"kind", "for", "done", "data"} \subseteq DOMAIN memq'
      /\ memq'.kind = kind
  BY DEF MemRequest
<1>3. memq.kind = "none"
  BY DEF MemoryInv, OneMemoryRequest
<1> QED
  BY <1>1, <1>2, <1>3 DEF MemoryInv, OneMemoryRequest, KeepsRequest

(* The handlers of an answer pop it and leave the waiting state.            *)
LEMMA PopStep ==
    ASSUME MemoryInv, memq.done, MemPop,
           "st" \in DOMAIN dir', dir'.st \in {"I", "M"}
    PROVE  MemoryInv' /\ KeepsRequest
BY DEF MemoryInv, OneMemoryRequest, KeepsRequest, Served, MemPop, Idle

(* The others leave the queue alone, and move between states that wait for  *)
(* nothing, if they move at all.                                            *)
LEMMA OtherStep ==
    ASSUME MemoryInv, UNCHANGED memq,
           \/ UNCHANGED dir
           \/ /\ dir.st \in {"I", "M", "M_DRD", "M_DWR"}
              /\ "st" \in DOMAIN dir' /\ dir'.st \in {"I", "M", "M_DRD", "M_DWR"}
    PROVE  MemoryInv' /\ KeepsRequest
BY DEF MemoryInv, OneMemoryRequest, KeepsRequest

(* Memory serves a request without changing its kind or its requestor. *)
LEMMA ServiceStep ==
    ASSUME MemoryInv, MemoryService
    PROVE  MemoryInv' /\ KeepsRequest
<1>1. /\ ~memq.done /\ UNCHANGED dir
      /\ memq' = [memq EXCEPT !.done = TRUE,
                              !.data = IF memq.kind = "READ" THEN mem ELSE NoData]
  BY DEF MemoryService
<1>2. /\ DOMAIN memq' = DOMAIN memq
      /\ memq'.done = TRUE /\ memq'.kind = memq.kind /\ memq'.for = memq.for
  BY <1>1 DEF MemoryInv
<1> QED
  BY <1>1, <1>2 DEF MemoryInv, OneMemoryRequest, KeepsRequest, Served

(* One step per handler of the directory for a message. *)
LEMMA DirMessageStep ==
    ASSUME MemoryInv, NEW m, Dir_Message(m)
    PROVE  MemoryInv' /\ KeepsRequest
<1>1. CASE Dir_I_Fetch(m)
  BY <1>1, QueueStep DEF Dir_I_Fetch
<1>2. CASE Dir_M_Fetch(m)
  BY <1>2, OtherStep DEF Dir_M_Fetch
<1>3. CASE Dir_StallFetch(m)
  BY <1>3, OtherStep DEF Dir_StallFetch
<1>4. CASE Dir_M_CleanReplacement(m)
  BY <1>4, DirMoves, OtherStep DEF Dir_M_CleanReplacement
<1>5. CASE Dir_M_Data(m)
  BY <1>5, QueueStep DEF Dir_M_Data
<1>6. CASE Dir_I_DMA_READ(m)
  BY <1>6, QueueStep DEF Dir_I_DMA_READ
<1>7. CASE Dir_I_DMA_WRITE(m)
  BY <1>7, QueueStep DEF Dir_I_DMA_WRITE
<1>8. CASE Dir_M_DMA(m)
  <2>1. /\ dir.st = "M" /\ UNCHANGED memq
        /\ dir' = [dir EXCEPT !.st = IF m.type = "DMA_READ" THEN "M_DRD" ELSE "M_DWR",
                              !.patch = m.data]
    BY <1>8 DEF Dir_M_DMA
  <2>2. "st" \in DOMAIN dir' /\ dir'.st \in {"M_DRD", "M_DWR"}
    BY <2>1 DEF MemoryInv
  <2> QED
    BY <2>1, <2>2, OtherStep
<1>9. CASE Dir_M_DRD_Data(m)
  BY <1>9, QueueStep DEF Dir_M_DRD_Data
<1>10. CASE Dir_M_DWR_Data(m)
  BY <1>10, QueueStep DEF Dir_M_DWR_Data
<1> QED
  BY <1>1, <1>2, <1>3, <1>4, <1>5, <1>6, <1>7, <1>8, <1>9, <1>10 DEF Dir_Message

(* One step per answer of memory. *)
LEMMA DirMemoryStep ==
    ASSUME MemoryInv, Dir_Memory
    PROVE  MemoryInv' /\ KeepsRequest
<1>1. CASE MemoryService
  BY <1>1, ServiceStep
<1>2. CASE Dir_IM_Memory_Data
  <2>1. /\ memq.done /\ MemPop
        /\ dir' = [dir EXCEPT !.st = "M", !.owner = memq.for]
    BY <1>2 DEF Dir_IM_Memory_Data, Memory_Data
  <2>2. "st" \in DOMAIN dir' /\ dir'.st = "M"
    BY <2>1 DEF MemoryInv
  <2> QED
    BY <2>1, <2>2, PopStep
<1>3. CASE Dir_Memory_Ack
  BY <1>3, DirMoves, PopStep DEF Dir_Memory_Ack, Memory_Ack
<1>4. CASE Dir_ID_Memory_Data
  BY <1>4, DirMoves, PopStep DEF Dir_ID_Memory_Data, Memory_Data
<1>5. CASE Dir_ID_W_Memory_Ack
  BY <1>5, DirMoves, PopStep DEF Dir_ID_W_Memory_Ack, Memory_Ack
<1>6. CASE Dir_M_DWRI_Memory_Ack
  <2>1. /\ memq.done /\ MemPop
        /\ dir' = [dir EXCEPT !.st = "I", !.patch = NoData]
    BY <1>6 DEF Dir_M_DWRI_Memory_Ack, Memory_Ack
  <2>2. "st" \in DOMAIN dir' /\ dir'.st = "I"
    BY <2>1 DEF MemoryInv
  <2> QED
    BY <2>1, <2>2, PopStep
<1> QED
  BY <1>1, <1>2, <1>3, <1>4, <1>5, <1>6 DEF Dir_Memory

(* The DMA controller and the caches touch neither the directory entry nor  *)
(* the memory queue.                                                        *)
LEMMA MemoryInvStep == MemoryInv /\ [Next]_vars => MemoryInv' /\ KeepsRequest
<1> SUFFICES ASSUME MemoryInv, [Next]_vars PROVE MemoryInv' /\ KeepsRequest
  OBVIOUS
<1>1. CASE UNCHANGED <<dir, memq>>
  BY <1>1, OtherStep
<1>2. CASE Request
  <2>1. UNCHANGED <<dir, memq>>
    BY <1>2 DEF Request, L0Frame, L1Frame, L2Frame, DMA_Request, DMA_ReadRequest,
                DMA_WriteRequest
  <2> QED
    BY <2>1, <1>1
<1>3. CASE React
  <2>1. CASE \E m \in net : Receive(m)
    <3>1. PICK m \in net : Receive(m)
      BY <2>1
    <3>2. CASE Dir_Message(m)
      BY <3>2, DirMessageStep
    <3>3. CASE ~Dir_Message(m)
      BY <3>1, <3>3, <1>1 DEF Receive, L1Frame, L2Frame, DMA_Message, DMA_Data, DMA_Ack
    <3> QED
      BY <3>2, <3>3
  <2>2. CASE Dir_Memory
    BY <2>2, DirMemoryStep
  <2>3. CASE ~Dir_Memory /\ ~(\E m \in net : Receive(m))
    BY <1>3, <2>3, <1>1 DEF React, L0Frame, L1Frame, L2Frame
  <2> QED
    BY <2>1, <2>2, <2>3
<1>4. CASE UNCHANGED vars
  BY <1>4, <1>1 DEF vars
<1> QED
  BY <1>2, <1>3, <1>4 DEF Next

(* The directory has a request at memory exactly in the states that wait    *)
(* for its answer, whatever fetches, replacements and DMA requests arrive   *)
(* meanwhile.                                                               *)
THEOREM DirectoryTracksMemory == Spec => []OneMemoryRequest
<1>1. MemoryInv => OneMemoryRequest
  BY DEF MemoryInv
<1> QED
  BY <1>1, MemoryInvInit, MemoryInvStep, PTL DEF Spec

(* No request at memory is overwritten before it has been served and popped.*)
THEOREM MemoryRequestsNotLost == Spec => MemoryRequestsServed
<1>1. MemoryInv /\ [Next]_vars => [memq.kind # "none" /\ memq' # memq => Served]_vars
  BY MemoryInvStep DEF KeepsRequest
<1> QED
  BY <1>1, MemoryInvInit, MemoryInvStep, PTL DEF Spec, MemoryRequestsServed
=============================================================================
