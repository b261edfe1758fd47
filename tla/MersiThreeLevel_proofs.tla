----------------------- MODULE MersiThreeLevel_proofs -----------------------
(***************************************************************************)
(* What every message in flight and every entry of the hierarchy looks     *)
(* like, for any number of cores, clusters, words and values.              *)
(***************************************************************************)
EXTENDS MersiThreeLevel, FiniteSetTheorems, TLAPS

USE SMTT(30), ZenonT(30)

Near(c, d) == ClusterOf[c] = ClusterOf[d]

(* Who may send what to whom. *)
ForL1(m) ==
    \/ /\ m.type \in {"GETS", "GETX", "UPGRADE"}
       /\ m.from \in Core /\ Near(m.from, m.to)
    \/ /\ m.type \in {"INV", "DATA", "ACK"}
       /\ m.from = ClusterOf[m.to] \/ (m.from \in Core /\ Near(m.from, m.to))
    \/ /\ m.type \in {"DATA_EXCLUSIVE", "WB_ACK"}
       /\ m.from = ClusterOf[m.to]

ForL2(m) ==
    \/ /\ m.type \in {"GETS", "GETX", "UPGRADE", "PUTX", "DATA", "ACK",
                      "UNBLOCK", "EXCLUSIVE_UNBLOCK"}
       /\ m.from \in Core /\ ClusterOf[m.from] = m.to
    \/ m.type \in {"MEMORY_DATA", "MEMORY_ACK"} /\ m.from = "Dir"

ForDir(m) ==
    \/ m.type \in {"GETS", "ACK", "MEMORY_DATA"} /\ m.from \in Cluster
    \/ m.type \in {"DMA_READ", "DMA_WRITE"} /\ m.from = "DMA"

ForDma(m) == m.type \in {"DATA", "ACK"} /\ m.from = "Dir"

(* What a message carries. *)
Carries(m) ==
    /\ m.type \in {"DATA", "DATA_EXCLUSIVE", "MEMORY_DATA"} => m.data \in Line
    /\ m.type = "PUTX" /\ m.dirty => m.data \in Line
    /\ m.type = "DMA_WRITE" => m.data \in Patch
    /\ m.type # "DMA_WRITE" => m.data \in Line \cup {NoData}
    /\ m.type = "UNBLOCK" => m = Ctl("UNBLOCK", m.from, m.to)
    /\ m.from \notin Cluster => m.acks = IF m.type = "ACK" /\ m.from \in Core THEN 1 ELSE 0

WellFormed == {m \in Message :
    /\ m.to \in Core => ForL1(m)
    /\ m.to \in Cluster => ForL2(m)
    /\ m.to = "Dir" => ForDir(m)
    /\ m.to = "DMA" => ForDma(m)
    /\ Carries(m)}

(* The messages between an L0 and its L1.  A dirty one has the block. *)
ForL1Queue == {u \in UpMessage : u.dirty => u.data \in Line}
ForL0Queue == {d \in DownMessage :
                  d.class \notin {"INV_OWN", "INV_ELSE"} => d.data \in Line}

NetInv == net \subseteq WellFormed /\ waiting \subseteq WellFormed

BufferInv ==
    /\ up \in [Core -> Seq(ForL1Queue)]
    /\ held \in [Core -> Seq(ForL1Queue)]
    /\ down \in [Core -> Seq(ForL0Queue)]

L0Inv ==
    /\ L0TypeOK
    /\ \A c \in Core : l0[c].st \in {"S", "SM", "E", "M"} => l0[c].data \in Line

L1Inv ==
    /\ L1TypeOK
    /\ \A c \in Core : l1[c].st \notin {"I", "IS", "IS_I", "IM", "SINK_WB_ACK"}
                          => l1[c].data \in Line

L2Inv ==
    /\ L2TypeOK
    /\ \A k \in Cluster :
         /\ l2[k].st \notin {"NP", "ISS", "IS", "IM"} => l2[k].data \in Line
         /\ \A c \in l2[k].sharers \cup l2[k].gets : ClusterOf[c] = k
         /\ l2[k].st = "MT" => l2[k].excl \in Core /\ ClusterOf[l2[k].excl] = k
         /\ l2[k].st = "IM" => l2[k].getx \in Core /\ ClusterOf[l2[k].getx] = k

DirInv ==
    /\ DirTypeOK
    /\ dir.st = "M_DWR" => dir.patch \in Patch
    /\ memq.kind = "WB" /\ ~memq.done => memq.data \in Patch
    /\ memq.kind = "READ" /\ memq.done => memq.data \in Line
    /\ dir.st \in {"IM", "MI", "M_DRDI", "M_DWRI"} => memq.for \in Cluster

ObserverInv ==
    /\ inv \in [Cluster -> Nat]
    /\ latest \in Line
    /\ seen \in [Reader -> SUBSET Line]

Typed == NetInv /\ BufferInv /\ L0Inv /\ L1Inv /\ L2Inv /\ DirInv /\ ObserverInv

(* Cores, clusters, the directory and the DMA controller have different   *)
(* names.                                                                 *)
LEMMA Names ==
    /\ \A c \in Core : /\ c \notin Cluster /\ c # "Dir" /\ c # "DMA"
                       /\ ClusterOf[c] \in Cluster /\ c \in Node
    /\ \A k \in Cluster : k \notin Core /\ k # "Dir" /\ k # "DMA" /\ k \in Node
    /\ "Dir" \in Node /\ "DMA" \in Node
BY MachineAssumption DEF Node

(* A whole line is a patch: memory may be written with either. *)
LEMMA LineIsPatch == Line \subseteq Patch
BY DEF Line, Patch

(* What an L1 sends is well-formed: its requests, its writeback (PUTX),   *)
(* the ack of an INV, and its block to a requestor or to its L2.          *)
LEMMA L1Sends ==
    ASSUME NEW c \in Core
    PROVE  /\ \A t \in {"GETS", "GETX", "UPGRADE", "UNBLOCK", "EXCLUSIVE_UNBLOCK"} :
                Ctl(t, c, L2Of(c)) \in WellFormed
           /\ \A data \in Line \cup {NoData}, dirty \in BOOLEAN : (dirty => data \in Line) =>
                DataMsg("PUTX", c, L2Of(c), data, dirty, 0) \in WellFormed
           /\ \A m \in WellFormed : m.to = c /\ m.type = "INV" =>
                Ack(c, m.from, 1) \in WellFormed
           /\ \A m \in WellFormed, data \in Line, dirty \in BOOLEAN :
                m.to = c /\ m.type \in {"GETS", "GETX", "UPGRADE"} =>
                DataMsg("DATA", c, m.from, data, dirty, 0) \in WellFormed
           /\ \A data \in Line, dirty \in BOOLEAN :
                DataMsg("DATA", c, L2Of(c), data, dirty, 0) \in WellFormed
<1> USE Names DEF WellFormed, Message, Ctl, Ack, DataMsg, ForL1, ForL2, Carries, L2Of,
                  RequestType, ResponseType, Near
<1>1. \A t \in {"GETS", "GETX", "UPGRADE", "UNBLOCK", "EXCLUSIVE_UNBLOCK"} :
                Ctl(t, c, L2Of(c)) \in WellFormed
  OBVIOUS
<1>2. \A data \in Line \cup {NoData}, dirty \in BOOLEAN : (dirty => data \in Line) =>
                DataMsg("PUTX", c, L2Of(c), data, dirty, 0) \in WellFormed
  OBVIOUS
<1>3. \A m \in WellFormed : m.to = c /\ m.type = "INV" =>
                Ack(c, m.from, 1) \in WellFormed
  OBVIOUS
<1>4. \A m \in WellFormed, data \in Line, dirty \in BOOLEAN :
                m.to = c /\ m.type \in {"GETS", "GETX", "UPGRADE"} =>
                DataMsg("DATA", c, m.from, data, dirty, 0) \in WellFormed
  OBVIOUS
<1>5. \A data \in Line, dirty \in BOOLEAN :
                DataMsg("DATA", c, L2Of(c), data, dirty, 0) \in WellFormed
  OBVIOUS
<1> QED
  BY Zenon, <1>1, <1>2, <1>3, <1>4, <1>5

(* What an L2 sends to the cores of its cluster is well-formed. *)
LEMMA L2Sends ==
    ASSUME NEW k \in Cluster, NEW c \in Core, ClusterOf[c] = k
    PROVE  /\ Ctl("WB_ACK", k, c) \in WellFormed
           /\ Ctl("INV", k, c) \in WellFormed
           /\ \A d \in Core : ClusterOf[d] = k => Ctl("INV", c, d) \in WellFormed
           /\ \A t \in {"GETS", "GETX", "UPGRADE"}, d \in Core : ClusterOf[d] = k =>
                Ctl(t, c, d) \in WellFormed
           /\ \A t \in {"DATA", "DATA_EXCLUSIVE"}, data \in Line, acks \in Int :
                DataMsg(t, k, c, data, FALSE, acks) \in WellFormed
           /\ \A acks \in Int : Ack(k, c, acks) \in WellFormed
<1> USE Names DEF WellFormed, Message, Ctl, Ack, DataMsg, ForL1, ForL2, Carries, L2Of,
                  RequestType, ResponseType, Near
<1>1. Ctl("WB_ACK", k, c) \in WellFormed /\ Ctl("INV", k, c) \in WellFormed
  OBVIOUS
<1>2. \A d \in Core : ClusterOf[d] = k => Ctl("INV", c, d) \in WellFormed
  OBVIOUS
<1>3. \A t \in {"GETS", "GETX", "UPGRADE"}, d \in Core : ClusterOf[d] = k =>
                Ctl(t, c, d) \in WellFormed
  OBVIOUS
<1>4. \A t \in {"DATA", "DATA_EXCLUSIVE"}, data \in Line, acks \in Int :
                DataMsg(t, k, c, data, FALSE, acks) \in WellFormed
  OBVIOUS
<1>5. \A acks \in Int : Ack(k, c, acks) \in WellFormed
  OBVIOUS
<1> QED
  BY Zenon, <1>1, <1>2, <1>3, <1>4, <1>5

(* What passes between an L2 and the directory is well-formed. *)
LEMMA DirectorySends ==
    ASSUME NEW k \in Cluster
    PROVE  /\ Ctl("GETS", k, "Dir") \in WellFormed
           /\ Ack(k, "Dir", 0) \in WellFormed
           /\ \A data \in Line, dirty \in BOOLEAN :
                DataMsg("MEMORY_DATA", k, "Dir", data, dirty, 0) \in WellFormed
           /\ \A data \in Line : DataMsg("MEMORY_DATA", "Dir", k, data, FALSE, 0) \in WellFormed
           /\ Ctl("MEMORY_ACK", "Dir", k) \in WellFormed
BY Names DEF WellFormed, Message, Ctl, Ack, DataMsg, ForL2, ForDir, Carries,
             RequestType, ResponseType

(* What passes between the directory and the DMA controller is            *)
(* well-formed.                                                           *)
LEMMA DmaSends ==
    /\ \A data \in Line : DataMsg("DATA", "Dir", "DMA", data, FALSE, 0) \in WellFormed
    /\ DataMsg("ACK", "Dir", "DMA", NoData, FALSE, 0) \in WellFormed
    /\ Ctl("DMA_READ", "DMA", "Dir") \in WellFormed
    /\ \A patch \in Patch : DataMsg("DMA_WRITE", "DMA", "Dir", patch, FALSE, 0) \in WellFormed
BY Names DEF WellFormed, Message, Ctl, Ack, DataMsg, ForDma, ForDir, Carries,
             RequestType, ResponseType

(* Popping, sending well-formed messages and waking up parked ones keep   *)
(* the network well-formed.                                               *)
LEMMA ExchangeTyped ==
    ASSUME NetInv, NEW n, NEW pop, NEW send, NEW wake \in BOOLEAN,
           send \subseteq WellFormed, Exchange(n, pop, send, wake)
    PROVE  NetInv'
BY DEF NetInv, Exchange, Parked

(* Handling a message of the L0 keeps the buffers between L0 and L1       *)
(* typed.                                                                 *)
LEMMA BuffersFromL0 ==
    ASSUME BufferInv, NEW c \in Core, NEW send, NEW toL0 \in Seq(ForL0Queue),
           NEW wake \in BOOLEAN, up[c] # <<>>, FromL0(c, send, toL0, wake)
    PROVE  BufferInv'
<1>1. Tail(up[c]) \in Seq(ForL1Queue)
  BY DEF BufferInv
<1>2. up' \in [Core -> Seq(ForL1Queue)]
  BY <1>1 DEF BufferInv, FromL0
<1>3. held' \in [Core -> Seq(ForL1Queue)]
  BY DEF BufferInv, FromL0
<1>4. down' \in [Core -> Seq(ForL0Queue)]
  BY DEF BufferInv, FromL0, Tell
<1> QED
  BY <1>2, <1>3, <1>4 DEF BufferInv

(* Handling a network message keeps the buffers between L0 and L1 typed. *)
LEMMA BuffersFromNet ==
    ASSUME BufferInv, NEW c \in Core, NEW m, NEW send, NEW toL0 \in Seq(ForL0Queue),
           NEW wake \in BOOLEAN, FromNet(c, m, send, toL0, wake)
    PROVE  BufferInv'
<1>2. up' \in [Core -> Seq(ForL1Queue)]
  BY DEF BufferInv, FromNet
<1>3. held' \in [Core -> Seq(ForL1Queue)]
  BY DEF BufferInv, FromNet
<1>4. down' \in [Core -> Seq(ForL0Queue)]
  BY DEF BufferInv, FromNet, Tell
<1> QED
  BY <1>2, <1>3, <1>4 DEF BufferInv

----------------------------------------------------------------------------
(* The L1. *)

NoBlock == {"I", "IS", "IS_I", "IM", "SINK_WB_ACK"}

(* Replacing one L1 entry by a well-typed one, with a block where its     *)
(* state needs one.                                                       *)
LEMMA L1Sets ==
    ASSUME L1Inv, NEW c \in Core, NEW e,
           e \in [st : L1State, data : Line \cup {NoData}, dirty : BOOLEAN, acks : Int],
           e.st \notin NoBlock => e.data \in Line, l1' = [l1 EXCEPT ![c] = e]
    PROVE  L1Inv'
BY DEF L1Inv, L1TypeOK, NoBlock

(* An entry written with a block. *)
LEMMA L1Entry ==
    ASSUME L1Inv, NEW c \in Core, NEW st \in L1State, NEW data \in Line,
           NEW dirty \in BOOLEAN, Entry(c, st, data, dirty)
    PROVE  L1Inv'
<1> DEFINE e == [st |-> st, data |-> data, dirty |-> dirty, acks |-> 0]
<1>1. e \in [st : L1State, data : Line \cup {NoData}, dirty : BOOLEAN, acks : Int]
  OBVIOUS
<1>2. e.data \in Line
  OBVIOUS
<1>3. l1' = [l1 EXCEPT ![c] = e]
  BY Zenon DEF Entry
<1> HIDE DEF e
<1> QED
  BY Zenon, <1>1, <1>2, <1>3, L1Sets

(* An entry dropped, or kept only to sink a WB_ACK, needs no block. *)
LEMMA L1Drop ==
    ASSUME L1Inv, NEW c \in Core, Drop(c) \/ Sink(c)
    PROVE  L1Inv'
<1>1. PICK st \in {"I", "SINK_WB_ACK"} :
        l1' = [l1 EXCEPT ![c] = [st |-> st, data |-> NoData, dirty |-> FALSE, acks |-> 0]]
  BY DEF Drop, Sink, L1Invalid
<1> DEFINE e == [st |-> st, data |-> NoData, dirty |-> FALSE, acks |-> 0]
<1>2. e \in [st : L1State, data : Line \cup {NoData}, dirty : BOOLEAN, acks : Int]
  BY DEF L1State
<1>3. e.st \in NoBlock
  BY DEF NoBlock
<1> QED
  BY Zenon, <1>1, <1>2, <1>3, L1Sets

(* A change of state alone, to a state that needs a block only if the old *)
(* one did.                                                               *)
LEMMA L1Move ==
    ASSUME L1Inv, NEW c \in Core, NEW st \in L1State, Move(c, st),
           st \notin NoBlock => l1[c].st \notin NoBlock
    PROVE  L1Inv'
<1> DEFINE e == [l1[c] EXCEPT !.st = st]
<1>1. /\ e \in [st : L1State, data : Line \cup {NoData}, dirty : BOOLEAN, acks : Int]
      /\ e.st \notin NoBlock => e.data \in Line
  BY DEF L1Inv, L1TypeOK, NoBlock
<1>2. l1' = [l1 EXCEPT ![c] = e]
  BY DEF Move, L1Inv, L1TypeOK
<1> QED
  BY Zenon, <1>1, <1>2, L1Sets

(* What an L1 tells its L0 is typed; all but the invalidations carry the  *)
(* line.                                                                  *)
LEMMA L0Gets ==
    /\ <<>> \in Seq(ForL0Queue)
    /\ \A c, data : data \in Line => \A class \in {"DATA", "DATA_EXCLUSIVE", "STALE_DATA"} :
         ToL0(c, class, data) \in Seq(ForL0Queue)
    /\ \A c : \A class \in {"INV_OWN", "INV_ELSE"} : ToL0(c, class, NoData) \in Seq(ForL0Queue)
BY DEF ToL0, DownMsg, ForL0Queue, DownMessage, DownClass

(* The message at the head of the L0's queue is typed. *)
LEMMA L0Asked ==
    ASSUME BufferInv, NEW c \in Core, up[c] # <<>>
    PROVE  Head(up[c]) \in ForL1Queue
BY DEF BufferInv

L1Typed == NetInv /\ BufferInv /\ L1Inv

(* The typing of network and buffers survives the handling of an L0       *)
(* message.                                                               *)
LEMMA FromL0Typed ==
    ASSUME NetInv, BufferInv, NEW c \in Core, up[c] # <<>>,
           NEW send \in SUBSET WellFormed, NEW toL0 \in Seq(ForL0Queue), NEW wake \in BOOLEAN,
           FromL0(c, send, toL0, wake)
    PROVE  NetInv' /\ BufferInv'
BY Zenon, ExchangeTyped, BuffersFromL0 DEF FromL0

(* The typing of network and buffers survives the handling of a network   *)
(* message.                                                               *)
LEMMA FromNetTyped ==
    ASSUME NetInv, BufferInv, NEW c \in Core, NEW m,
           NEW send \in SUBSET WellFormed, NEW toL0 \in Seq(ForL0Queue), NEW wake \in BOOLEAN,
           FromNet(c, m, send, toL0, wake)
    PROVE  NetInv' /\ BufferInv'
BY Zenon, ExchangeTyped, BuffersFromNet DEF FromNet

(* Every transition of the L1 on a message of its L0 preserves the        *)
(* typing.                                                                *)
LEMMA L1L0MessageTyped ==
    ASSUME L1Typed, NEW c \in Core, L1_L0Message(c)
    PROVE  L1Typed'
<1> USE DEF L1Typed
<1>0. up[c] # <<>> /\ Head(up[c]) \in ForL1Queue
  BY Zenon, L0Asked DEF L1_L0Message, L1_Stall, L1_I_Load, L1_I_Store, L1_S_Load, L1_S_Store,
                 L1_EE_Load, L1_MM_Load, L1_EM_Store, L1_WriteBack, L1_IL0_WriteBack,
                 L1_IL0_DataAck, L1_IL0_Ack, L1_SM_IL0_Ack, Load, Store, L0Asks
<1>e. {} \in SUBSET WellFormed /\ <<>> \in Seq(ForL0Queue) /\ TRUE \in BOOLEAN /\ FALSE \in BOOLEAN
  OBVIOUS
<1>t. /\ TakeFromL0(c, "MM") \/ TakeFromL0(c, "MM_IL0")
      /\ l1[c].st \in {"M", "E", "M_IL0", "E_IL0"}
      => L1Inv'
  <2> SUFFICES ASSUME NEW st \in {"MM", "MM_IL0"}, TakeFromL0(c, st),
                      l1[c].st \in {"M", "E", "M_IL0", "E_IL0"}
               PROVE  L1Inv'
    OBVIOUS
  <2> DEFINE data  == IF Head(up[c]).dirty THEN Head(up[c]).data ELSE l1[c].data
             dirty == Head(up[c]).dirty \/ l1[c].dirty
  <2>1. data \in Line /\ dirty \in BOOLEAN
    BY <1>0 DEF L1Inv, L1TypeOK, ForL1Queue, UpMessage
  <2>2. Entry(c, st, data, dirty) /\ st \in L1State
    BY DEF TakeFromL0, L1State
  <2> QED
    BY Zenon, <2>1, <2>2, L1Entry
<1>1. CASE L1_Stall(c)
  <2>1. held' \in [Core -> Seq(ForL1Queue)] /\ up' \in [Core -> Seq(ForL1Queue)]
    BY <1>0, <1>1 DEF L1_Stall, BufferInv
  <2> QED
    BY <1>1, <2>1 DEF L1_Stall, NetInv, BufferInv, L1Inv, L1TypeOK
<1>2. CASE L1_I_Load(c)
  <2>1. {Ctl("GETS", c, L2Of(c))} \in SUBSET WellFormed
    BY L1Sends
  <2>2. NetInv' /\ BufferInv'
    BY Zenon, <1>0, <1>2, <1>e, <2>1, FromL0Typed DEF L1_I_Load
  <2> QED
    BY <1>2, <2>2, L1Move DEF L1_I_Load, L1State, NoBlock
<1>3. CASE L1_I_Store(c)
  <2>1. {Ctl("GETX", c, L2Of(c))} \in SUBSET WellFormed
    BY L1Sends
  <2>2. NetInv' /\ BufferInv'
    BY Zenon, <1>0, <1>3, <1>e, <2>1, FromL0Typed DEF L1_I_Store
  <2> QED
    BY <1>3, <2>2, L1Move DEF L1_I_Store, L1State, NoBlock
<1>4. CASE L1_S_Store(c)
  <2>1. {Ctl("UPGRADE", c, L2Of(c))} \in SUBSET WellFormed
    BY L1Sends
  <2>2. NetInv' /\ BufferInv'
    BY Zenon, <1>0, <1>4, <1>e, <2>1, FromL0Typed DEF L1_S_Store
  <2> QED
    BY <1>4, <2>2, L1Move DEF L1_S_Store, L1State, NoBlock
<1>5. CASE L1_S_Load(c) \/ L1_EE_Load(c) \/ L1_MM_Load(c) \/ L1_EM_Store(c)
  <2>1. PICK class \in {"DATA", "DATA_EXCLUSIVE"}, st \in {"S", "E", "M"} :
           /\ l1[c].st \in {"S", "SS", "E", "EE", "M", "MM"}
           /\ Move(c, st) /\ FromL0(c, {}, ToL0(c, class, l1[c].data), FALSE)
    BY Zenon, <1>5 DEF L1_S_Load, L1_EE_Load, L1_MM_Load, L1_EM_Store
  <2>2. ToL0(c, class, l1[c].data) \in Seq(ForL0Queue)
    BY <2>1, L0Gets DEF L1Inv
  <2>3. NetInv' /\ BufferInv'
    BY Zenon, <1>0, <1>e, <2>1, <2>2, FromL0Typed
  <2> QED
    BY <2>1, <2>3, L1Move DEF L1State, NoBlock
<1>6. CASE L1_WriteBack(c) \/ L1_IL0_WriteBack(c) \/ L1_IL0_DataAck(c)
  <2>1. PICK wake \in BOOLEAN : FromL0(c, {}, <<>>, wake)
    BY Zenon, <1>6 DEF L1_WriteBack, L1_IL0_WriteBack, L1_IL0_DataAck
  <2>2. NetInv' /\ BufferInv'
    BY Zenon, <1>0, <1>e, <2>1, FromL0Typed
  <2> QED
    BY Zenon, <1>6, <1>t, <2>2 DEF L1_WriteBack, L1_IL0_WriteBack, L1_IL0_DataAck
<1>7. CASE L1_IL0_Ack(c)
  <2>2. NetInv' /\ BufferInv'
    BY Zenon, <1>0, <1>7, <1>e, FromL0Typed DEF L1_IL0_Ack
  <2>3. PICK st \in {"MM", "EE", "SS"} : Move(c, st) /\ l1[c].st \notin NoBlock
    BY <1>7 DEF L1_IL0_Ack, AfterInvAck, NoBlock
  <2> QED
    BY <2>2, <2>3, L1Move DEF L1State
<1>8. CASE L1_SM_IL0_Ack(c)
  <2>2. NetInv' /\ BufferInv'
    BY Zenon, <1>0, <1>8, <1>e, FromL0Typed DEF L1_SM_IL0_Ack
  <2> DEFINE e == [l1[c] EXCEPT !.st = "IM", !.data = NoData, !.dirty = FALSE]
  <2>3. /\ e \in [st : L1State, data : Line \cup {NoData}, dirty : BOOLEAN, acks : Int]
        /\ e.st \in NoBlock
    BY Zenon DEF L1Inv, L1TypeOK, NoBlock, L1State
  <2>4. l1' = [l1 EXCEPT ![c] = e]
    BY Zenon, <1>8 DEF L1_SM_IL0_Ack, L1Inv, L1TypeOK
  <2> QED
    BY Zenon, <2>2, <2>3, <2>4, L1Sets
<1> QED
  BY Zenon, <1>1, <1>2, <1>3, <1>4, <1>5, <1>6, <1>7, <1>8 DEF L1_L0Message
(* Every replacement in the L1 preserves the typing. *)
LEMMA L1RequestTyped ==
    ASSUME L1Typed, NEW c \in Core, L1_Request(c)
    PROVE  L1Typed'
<1> USE DEF L1Typed
<1>1. CASE L1_InvalidateOwn(c)
  <2>1. PICK st \in {"S_IL0", "E_IL0", "M_IL0"} : Move(c, st) /\ l1[c].st \notin NoBlock
    BY <1>1 DEF L1_InvalidateOwn, L0Evicting, NoBlock
  <2>2. down' \in [Core -> Seq(ForL0Queue)]
    BY <1>1, L0Gets DEF L1_InvalidateOwn, Tell, BufferInv
  <2> QED
    BY <1>1, <2>1, <2>2, L1Move DEF L1_InvalidateOwn, L1State, BufferInv, NetInv
<1>2. CASE L1_ReplaceShared(c)
  BY <1>2, L1Drop DEF L1_ReplaceShared, BufferInv, NetInv
<1>3. CASE L1_ReplaceOwned(c)
  <2>1. DataMsg("PUTX", c, L2Of(c), IF l1[c].dirty THEN l1[c].data ELSE NoData, l1[c].dirty, 0)
          \in WellFormed
    <3>1. l1[c].data \in Line /\ l1[c].dirty \in BOOLEAN
      BY <1>3 DEF L1_ReplaceOwned, L1Inv, L1TypeOK
    <3> QED
      BY <3>1, L1Sends
  <2>2. NetInv' /\ BufferInv'
    BY <1>3, <2>1 DEF L1_ReplaceOwned, NetInv, BufferInv
  <2> QED
    BY <1>3, <2>2, L1Move DEF L1_ReplaceOwned, L1State, NoBlock
<1> QED
  BY <1>1, <1>2, <1>3 DEF L1_Request

(* Every transition of the L1 on a network message preserves the typing. *)
LEMMA L1NetMessageTyped ==
    ASSUME L1Typed, NEW c \in Core, NEW m \in net, m.to = c, L1_NetMessage(c, m)
    PROVE  L1Typed'
<1> USE DEF L1Typed
<1>0. m \in WellFormed
  BY DEF NetInv
<1>e. {} \in SUBSET WellFormed /\ <<>> \in Seq(ForL0Queue) /\ TRUE \in BOOLEAN /\ FALSE \in BOOLEAN
  OBVIOUS
<1>d. /\ m.type \in {"DATA", "DATA_EXCLUSIVE"} => m.data \in Line
      /\ m.dirty \in BOOLEAN /\ m.acks \in Int
  BY <1>0 DEF WellFormed, Carries, Message
<1>b. l1[c].st \notin NoBlock => l1[c].data \in Line
  BY DEF L1Inv, NoBlock
<1>l. l1[c].dirty \in BOOLEAN /\ l1[c].acks \in Int
  BY DEF L1Inv, L1TypeOK
<1>a. Inv(m) => {Ack(c, m.from, 1)} \in SUBSET WellFormed
  BY <1>0, L1Sends DEF Inv
<1>u. /\ {Ctl("UNBLOCK", c, L2Of(c))} \in SUBSET WellFormed
      /\ {Ctl("EXCLUSIVE_UNBLOCK", c, L2Of(c))} \in SUBSET WellFormed
  BY L1Sends
<1>f. l1[c].st \notin NoBlock =>
        /\ {Block(c, L2Of(c))} \in SUBSET WellFormed
        /\ Fwd_GETX(m) \/ Fwd_GETS(m) =>
             {Block(c, m.from)} \in SUBSET WellFormed /\ {Block(c, m.from), Block(c, L2Of(c))} \in SUBSET WellFormed
  BY <1>0, <1>b, <1>l, L1Sends DEF Block, Fwd_GETX, Fwd_GETS
<1>1. CASE L1_InvalidateElse(c, m)
  <2>1. PICK st \in {"S_IL0", "E_IL0", "M_IL0", "SM_IL0"} : Move(c, st) /\ l1[c].st \notin NoBlock
    BY <1>1 DEF L1_InvalidateElse, L0Evicting, NoBlock
  <2>2. down' \in [Core -> Seq(ForL0Queue)]
    BY <1>1, L0Gets DEF L1_InvalidateElse, Tell, BufferInv
  <2> QED
    BY <1>1, <2>1, <2>2, L1Move DEF L1_InvalidateElse, L1State, BufferInv, NetInv
<1>2. CASE L1_StallL2(c, m)
  BY <1>0, <1>2 DEF L1_StallL2, Stall, NetInv, BufferInv, L1Inv, L1TypeOK
<1>3. CASE L1_Inv_Ack(c, m)
  <2>1. NetInv' /\ BufferInv'
    BY Zenon, <1>3, <1>a, <1>e, FromNetTyped DEF L1_Inv_Ack
  <2> QED
    BY <1>3, <2>1 DEF L1_Inv_Ack, L1Inv, L1TypeOK
<1>4. CASE L1_IS_Inv(c, m)
  <2>1. NetInv' /\ BufferInv'
    BY Zenon, <1>4, <1>a, <1>e, FromNetTyped DEF L1_IS_Inv
  <2> QED
    BY <1>4, <2>1, L1Move DEF L1_IS_Inv, L1State, NoBlock
<1>5. CASE L1_Clean_Inv(c, m)
  <2>1. NetInv' /\ BufferInv'
    BY Zenon, <1>5, <1>a, <1>e, FromNetTyped DEF L1_Clean_Inv
  <2> QED
    BY <1>5, <2>1, L1Drop DEF L1_Clean_Inv
<1>6. CASE L1_MM_Inv(c, m) \/ L1_M_I_Inv(c, m)
  <2>1. NetInv' /\ BufferInv'
    BY Zenon, <1>6, <1>f, <1>e, FromNetTyped DEF L1_MM_Inv, L1_M_I_Inv, NoBlock
  <2> QED
    BY Zenon, <1>6, <2>1, L1Drop DEF L1_MM_Inv, L1_M_I_Inv
<1>7. CASE L1_Fwd_GETX(c, m) \/ L1_M_I_Fwd_GETX(c, m)
  <2>1. NetInv' /\ BufferInv'
    BY Zenon, <1>7, <1>f, <1>e, FromNetTyped DEF L1_Fwd_GETX, L1_M_I_Fwd_GETX, NoBlock
  <2> QED
    BY Zenon, <1>7, <2>1, L1Drop DEF L1_Fwd_GETX, L1_M_I_Fwd_GETX
<1>8. CASE L1_Fwd_GETS(c, m) \/ L1_M_I_Fwd_GETS(c, m)
  <2>1. NetInv' /\ BufferInv'
    BY Zenon, <1>8, <1>f, <1>e, FromNetTyped DEF L1_Fwd_GETS, L1_M_I_Fwd_GETS, NoBlock
  <2> QED
    BY Zenon, <1>8, <2>1, L1Drop, L1Move DEF L1_Fwd_GETS, L1_M_I_Fwd_GETS, L1State, NoBlock
<1>9. CASE L1_WB_Ack(c, m)
  <2>1. NetInv' /\ BufferInv'
    BY Zenon, <1>9, <1>e, FromNetTyped DEF L1_WB_Ack
  <2> QED
    BY <1>9, <2>1, L1Drop DEF L1_WB_Ack
<1>10. CASE L1_IS_Data(c, m) \/ L1_IS_DataS_fromL1(c, m)
  <2>1. ToL0(c, "DATA", m.data) \in Seq(ForL0Queue) /\ m.data \in Line /\ Entry(c, "S", m.data, m.dirty)
    BY Zenon, <1>10, <1>d, L0Gets DEF L1_IS_Data, L1_IS_DataS_fromL1, Data_all_Acks, DataS_fromL1, FromL1
  <2>2. NetInv' /\ BufferInv'
    BY Zenon, <1>10, <1>e, <1>u, <2>1, FromNetTyped DEF L1_IS_Data, L1_IS_DataS_fromL1
  <2> QED
    BY <1>d, <2>1, <2>2, L1Entry DEF L1State
<1>11. CASE L1_IS_I_Data(c, m) \/ L1_IS_I_DataS_fromL1(c, m)
  <2>1. ToL0(c, "STALE_DATA", m.data) \in Seq(ForL0Queue) /\ Drop(c)
    BY Zenon, <1>11, <1>d, L0Gets DEF L1_IS_I_Data, L1_IS_I_DataS_fromL1, Data_all_Acks, DataS_fromL1, FromL1
  <2>2. NetInv' /\ BufferInv'
    BY Zenon, <1>11, <1>e, <1>u, <2>1, FromNetTyped DEF L1_IS_I_Data, L1_IS_I_DataS_fromL1
  <2> QED
    BY <2>1, <2>2, L1Drop
<1>12. CASE L1_IS_Data_Exclusive(c, m) \/ L1_IM_Data_all_Acks(c, m)
  <2>1. PICK st \in {"E", "M"} : Entry(c, st, m.data, m.dirty)
    BY Zenon, <1>12 DEF L1_IS_Data_Exclusive, L1_IM_Data_all_Acks
  <2>2. ToL0(c, "DATA_EXCLUSIVE", m.data) \in Seq(ForL0Queue) /\ m.data \in Line
    BY Zenon, <1>12, <1>d, L0Gets DEF L1_IS_Data_Exclusive, L1_IM_Data_all_Acks, Data_all_Acks
  <2>3. NetInv' /\ BufferInv'
    BY Zenon, <1>12, <1>e, <1>u, <2>2, FromNetTyped DEF L1_IS_Data_Exclusive, L1_IM_Data_all_Acks
  <2> QED
    BY <1>d, <2>1, <2>2, <2>3, L1Entry DEF L1State
<1>13. CASE L1_SM_Ack_all(c, m)
  <2>1. ToL0(c, "DATA_EXCLUSIVE", l1[c].data) \in Seq(ForL0Queue) /\ l1[c].data \in Line
    BY <1>13, <1>b, L0Gets DEF L1_SM_Ack_all, NoBlock
  <2>2. NetInv' /\ BufferInv'
    BY Zenon, <1>13, <1>e, <1>u, <2>1, FromNetTyped DEF L1_SM_Ack_all
  <2> QED
    BY Zenon, <1>13, <1>l, <2>1, <2>2, L1Entry DEF L1State, L1_SM_Ack_all
<1>14. CASE L1_IM_Data(c, m)
  <2>1. NetInv' /\ BufferInv'
    BY Zenon, <1>14, <1>e, FromNetTyped DEF L1_IM_Data
  <2> DEFINE a == l1[c].acks - m.acks
             e == [st |-> "SM", data |-> m.data, dirty |-> m.dirty, acks |-> a]
  <2>2. a \in Int /\ m.data \in Line
    BY <1>14, <1>d, <1>l DEF L1_IM_Data, Data_
  <2>3. l1' = [l1 EXCEPT ![c] = e]
    BY <1>14 DEF L1_IM_Data
  <2> HIDE DEF a
  <2>4. /\ e \in [st : L1State, data : Line \cup {NoData}, dirty : BOOLEAN, acks : Int]
        /\ e.data \in Line
    BY <1>d, <2>2 DEF L1State
  <2> QED
    BY Zenon, <2>1, <2>3, <2>4, L1Sets
<1>15. CASE L1_Ack(c, m)
  <2>1. NetInv' /\ BufferInv'
    BY Zenon, <1>15, <1>e, FromNetTyped DEF L1_Ack
  <2> DEFINE a == l1[c].acks - m.acks
  <2>2. a \in Int
    BY <1>d, <1>l
  <2>3. l1' = [l1 EXCEPT ![c].acks = a]
    BY <1>15 DEF L1_Ack
  <2> HIDE DEF a
  <2> QED
    BY <2>1, <2>2, <2>3 DEF L1Inv, L1TypeOK
<1> QED
  BY Zenon, <1>1, <1>2, <1>3, <1>4, <1>5, <1>6, <1>7, <1>8, <1>9, <1>10, <1>11, <1>12, <1>13, <1>14,
     <1>15 DEF L1_NetMessage

----------------------------------------------------------------------------
(* The L0. *)

(* Words written over a line give a line. *)
LEMMA OverlayTyped ==
    ASSUME NEW patch \in Patch, NEW line \in Line
    PROVE  Overlay(patch, line) \in Line
BY DEF Overlay, Patch, Line

(* One stored word is a patch. *)
LEMMA StoreIsPatch ==
    ASSUME NEW w \in Word, NEW v \in Value
    PROVE  [x \in {w} |-> v] \in Patch
<1>1. [x \in {w} |-> v] \in [{w} -> Value] /\ {w} \in SUBSET Word
  OBVIOUS
<1> QED
  BY Zenon, <1>1 DEF Patch

(* The observers stay typed when a write takes its place in the order. *)
LEMMA WrittenTyped ==
    ASSUME ObserverInv, NEW patch \in Patch, Written(patch), UNCHANGED inv
    PROVE  ObserverInv'
<1>1. Overlay(patch, latest) \in Line
  BY OverlayTyped DEF ObserverInv
<1> QED
  BY <1>1 DEF ObserverInv, Written

(* The observers stay typed when a read begins, ends, or is not           *)
(* concerned.                                                             *)
LEMMA ReadsTyped ==
    ASSUME ObserverInv, NEW c \in Core, Begin(c) \/ Finish(c) \/ NoRead, UNCHANGED inv
    PROVE  ObserverInv'
BY DEF ObserverInv, Begin, Finish, NoRead

(* A typed message sent to the L1, or none, keeps the buffers typed. *)
LEMMA UpTyped ==
    ASSUME BufferInv, NEW c \in Core, NEW u \in ForL1Queue,
           up' = [up EXCEPT ![c] = Append(@, u)], UNCHANGED held,
           UNCHANGED down \/ (down[c] # <<>> /\ down' = [down EXCEPT ![c] = Tail(@)])
    PROVE  BufferInv'
<1>1. up' \in [Core -> Seq(ForL1Queue)]
  BY DEF BufferInv
<1>2. CASE UNCHANGED down
  BY <1>1, <1>2 DEF BufferInv
<1>3. CASE down[c] # <<>> /\ down' = [down EXCEPT ![c] = Tail(@)]
  <2>1. Tail(down[c]) \in Seq(ForL0Queue)
    BY <1>3 DEF BufferInv
  <2> QED
    BY <1>1, <1>3, <2>1 DEF BufferInv
<1> QED
  BY <1>2, <1>3

(* Popping the head of bufferFromL1 keeps the buffers typed. *)
LEMMA DownTyped ==
    ASSUME BufferInv, NEW c \in Core, UNCHANGED <<up, held>>,
           UNCHANGED down \/ (down[c] # <<>> /\ down' = [down EXCEPT ![c] = Tail(@)])
    PROVE  BufferInv'
<1>2. CASE UNCHANGED down
  BY <1>2 DEF BufferInv
<1>3. CASE down[c] # <<>> /\ down' = [down EXCEPT ![c] = Tail(@)]
  <2>1. Tail(down[c]) \in Seq(ForL0Queue)
    BY <1>3 DEF BufferInv
  <2> QED
    BY <1>3, <2>1 DEF BufferInv
<1> QED
  BY <1>2, <1>3

HasBlock == {"S", "SM", "E", "M"}

(* Replacing one L0 entry by a well-typed one. *)
LEMMA L0Sets ==
    ASSUME L0Inv, NEW c \in Core, NEW e,
           e \in [st : L0State, side : {"D", "I"}, data : Line \cup {NoData}, dirty : BOOLEAN],
           e.st \in HasBlock => e.data \in Line, l0' = [l0 EXCEPT ![c] = e]
    PROVE  L0Inv'
BY DEF L0Inv, L0TypeOK, HasBlock

(* Dropping an L0 entry. *)
LEMMA L0Drops ==
    ASSUME L0Inv, NEW c \in Core, l0' = [l0 EXCEPT ![c] = L0Invalid]
    PROVE  L0Inv'
<1>1. /\ L0Invalid \in [st : L0State, side : {"D", "I"}, data : Line \cup {NoData}, dirty : BOOLEAN]
      /\ L0Invalid.st \notin HasBlock
  BY DEF L0Invalid, L0State, HasBlock
<1> QED
  BY Zenon, <1>1, L0Sets

(* Filling an L0 entry, field by field, with a state and the block that   *)
(* came.                                                                  *)
LEMMA L0Fills ==
    ASSUME L0Inv, NEW c \in Core, NEW st \in L0State, NEW d \in Line,
           \/ l0' = [l0 EXCEPT ![c].st = st, ![c].data = d]
           \/ l0' = [l0 EXCEPT ![c].st = st, ![c].data = d, ![c].dirty = TRUE]
           \/ l0' = [l0 EXCEPT ![c].st = st, ![c].dirty = TRUE, ![c].data = d]
    PROVE  L0Inv'
<1> DEFINE T  == [st : L0State, side : {"D", "I"}, data : Line \cup {NoData}, dirty : BOOLEAN]
           e1 == [l0[c] EXCEPT !.st = st]
           e2 == [e1 EXCEPT !.data = d]
           e3 == [e2 EXCEPT !.dirty = TRUE]
           f2 == [e1 EXCEPT !.dirty = TRUE]
           f3 == [f2 EXCEPT !.data = d]
<1>0. l0[c] \in T
  BY DEF L0Inv, L0TypeOK
<1>1. e1 \in T
  BY <1>0
<1>2. e2 \in T /\ e2.data = d /\ f2 \in T
  <2> HIDE DEF e1
  <2> QED BY Zenon, <1>1
<1>3. e3 \in T /\ e3.data = d
  <2> HIDE DEF e2
  <2> QED BY Zenon, <1>2
<1>4. f3 \in T /\ f3.data = d
  <2> HIDE DEF f2
  <2> QED BY <1>2
<1>5. \/ l0' = [l0 EXCEPT ![c] = e2]
      \/ l0' = [l0 EXCEPT ![c] = e3]
      \/ l0' = [l0 EXCEPT ![c] = f3]
  BY Zenon DEF L0Inv, L0TypeOK
<1> HIDE DEF e1, e2, e3, f2, f3
<1> QED
  BY <1>2, <1>3, <1>4, <1>5, L0Sets

L0Typed == BufferInv /\ L0Inv /\ ObserverInv

(* Every request of a core, its prefetcher or another line keeps the L0   *)
(* typed.                                                                 *)
LEMMA L0RequestTyped ==
    ASSUME L0Typed, NEW c \in Core, L0_Request(c), UNCHANGED <<held, inv>>
    PROVE  L0Typed'
<1> USE DEF L0Typed
<1>n. \A class \in {"GETS", "GETX", "UPGRADE"} : UpMsg(class, NoData, FALSE) \in ForL1Queue
  BY DEF UpMsg, ForL1Queue, UpMessage, UpClass
<1>1. ASSUME NEW op \in CoreOps \cup PrefetchOps, L0_Miss(c, op)
      PROVE  L0Typed'
  <2>1. PICK st \in {"IS", "Inst_IS", "IM", "PF_IS", "PF_Inst_IS", "PF_IE"}, side \in {"D", "I"},
             req \in {"GETS", "GETX"} : st = MissOf[op].st /\ side = MissOf[op].side /\ req = MissOf[op].req
    BY OpsAssumption DEF MissOf, Miss
  <2> DEFINE e == [st |-> st, side |-> side, data |-> NoData, dirty |-> FALSE]
  <2>2. l0' = [l0 EXCEPT ![c] = e]
    BY <1>1, <2>1 DEF L0_Miss
  <2>3. /\ e \in [st : L0State, side : {"D", "I"}, data : Line \cup {NoData}, dirty : BOOLEAN]
        /\ e.st \notin HasBlock
    BY DEF L0State, HasBlock
  <2> HIDE DEF e
  <2>4. L0Inv'
    BY Zenon, <2>2, <2>3, L0Sets
  <2>5. BufferInv'
    BY Zenon, <1>1, <1>n, <2>1, UpTyped DEF L0_Miss, ToL1, KeepFromL1
  <2>6. ObserverInv'
    BY Zenon, <1>1, ReadsTyped DEF L0_Miss
  <2> QED
    BY <2>4, <2>5, <2>6
<1>2. ASSUME NEW op \in CoreOps, L0_JoinPrefetch(c, op)
      PROVE  L0Typed'
  <2>1. PICK st \in {"IS", "Inst_IS", "IM"} : st = MissOf[op].st
    <3>1. op \in {"Load", "Ifetch", "Store"}
      BY OpsAssumption
    <3> QED
      BY <3>1 DEF MissOf, Miss
  <2>2. l0' = [l0 EXCEPT ![c].st = st]
    BY <1>2, <2>1 DEF L0_JoinPrefetch
  <2>3. L0Inv'
    BY <2>2 DEF L0Inv, L0TypeOK, L0State
  <2>5. BufferInv'
    BY <1>2, DownTyped DEF L0_JoinPrefetch, NothingToL1, KeepFromL1
  <2>6. ObserverInv'
    BY <1>2, ReadsTyped DEF L0_JoinPrefetch
  <2> QED
    BY <2>3, <2>5, <2>6
<1>3. CASE L0_Upgrade(c)
  <2>1. L0Inv'
    BY <1>3 DEF L0_Upgrade, L0Inv, L0TypeOK, L0State
  <2>2. BufferInv'
    BY Zenon, <1>3, <1>n, UpTyped DEF L0_Upgrade, ToL1, KeepFromL1
  <2> QED
    BY <1>3, <2>1, <2>2, ReadsTyped DEF L0_Upgrade
<1>4. ASSUME NEW w \in Word, NEW v \in Value, L0_StoreHit(c, w, v)
      PROVE  L0Typed'
  <2>0. l0[c].data \in Line
    BY <1>4 DEF L0_StoreHit, L0Inv
  <2> DEFINE d == [l0[c].data EXCEPT ![w] = v]
  <2>1. d \in Line
    BY <2>0 DEF Line
  <2>2. l0' = [l0 EXCEPT ![c].st = "M", ![c].data = d, ![c].dirty = TRUE]
    BY <1>4 DEF L0_StoreHit, L0Inv, L0TypeOK
  <2> HIDE DEF d
  <2>3. L0Inv'
    BY Zenon, <2>1, <2>2, L0Fills DEF L0State
  <2>4. BufferInv'
    BY <1>4, DownTyped DEF L0_StoreHit, NothingToL1, KeepFromL1
  <2>5. ObserverInv'
    BY Zenon, <1>4, StoreIsPatch, WrittenTyped DEF L0_StoreHit
  <2> QED
    BY <2>3, <2>4, <2>5
<1>5. CASE L0_ReplaceShared(c)
  <2>1. L0Inv'
    BY Zenon, <1>5, L0Drops DEF L0_ReplaceShared
  <2>2. BufferInv'
    BY <1>5, DownTyped DEF L0_ReplaceShared, NothingToL1, KeepFromL1
  <2> QED
    BY <1>5, <2>1, <2>2, ReadsTyped DEF L0_ReplaceShared
<1>6. CASE L0_ReplaceOwned(c)
  <2>1. L0Inv'
    BY Zenon, <1>6, L0Drops DEF L0_ReplaceOwned
  <2>2. UpMsg("PUTX", IF l0[c].dirty THEN l0[c].data ELSE NoData, l0[c].dirty) \in ForL1Queue
    <3>1. l0[c].dirty \in BOOLEAN /\ l0[c].data \in Line
      BY <1>6 DEF L0_ReplaceOwned, L0Inv, L0TypeOK
    <3> QED
      BY <3>1 DEF UpMsg, ForL1Queue, UpMessage, UpClass
  <2>3. BufferInv'
    BY Zenon, <1>6, <2>2, UpTyped DEF L0_ReplaceOwned, ToL1, KeepFromL1
  <2> QED
    BY <1>6, <2>1, <2>3, ReadsTyped DEF L0_ReplaceOwned
<1> QED
  BY <1>1, <1>2, <1>3, <1>4, <1>5, <1>6 DEF L0_Request

(* Every transition of the L0 on a message of its L1 preserves the        *)
(* typing.                                                                *)
LEMMA L0MessageTyped ==
    ASSUME L0Typed, NEW c \in Core, L0_Message(c), UNCHANGED <<held, inv>>
    PROVE  L0Typed'
<1> USE DEF L0Typed
<1>0. down[c] # <<>> /\ Head(down[c]) \in ForL0Queue
  <2>1. down[c] # <<>>
    BY Zenon DEF L0_Message, L0_InvMissing, L0_InvUpgrading, L0_InvClean, L0_InvModified, L0_Data,
           L0_DataExclusive, L0_DataStale, L0_DataToWrite, L0Head
  <2> QED
    BY <2>1 DEF BufferInv
<1>n. UpMsg("INV_ACK", NoData, FALSE) \in ForL1Queue
  BY DEF UpMsg, ForL1Queue, UpMessage, UpClass
<1>d. Head(down[c]).class \notin InvClass => Head(down[c]).data \in Line
  BY <1>0 DEF ForL0Queue, DownMessage, InvClass
<1>1. CASE L0_InvMissing(c)
  <2>1. BufferInv'
    BY Zenon, <1>0, <1>1, <1>n, UpTyped DEF L0_InvMissing, ToL1, PopFromL1
  <2> QED
    BY <1>1, <2>1, ReadsTyped DEF L0_InvMissing, L0Inv, L0TypeOK
<1>2. CASE L0_InvUpgrading(c)
  <2>1. BufferInv'
    BY Zenon, <1>0, <1>2, <1>n, UpTyped DEF L0_InvUpgrading, ToL1, PopFromL1
  <2>2. L0Inv'
    BY Zenon, <1>2 DEF L0_InvUpgrading, L0Inv, L0TypeOK, L0State
  <2> QED
    BY <1>2, <2>1, <2>2, ReadsTyped DEF L0_InvUpgrading
<1>3. CASE L0_InvClean(c)
  <2>1. BufferInv'
    BY Zenon, <1>0, <1>3, <1>n, UpTyped DEF L0_InvClean, ToL1, PopFromL1
  <2> QED
    BY Zenon, <1>3, <2>1, ReadsTyped, L0Drops DEF L0_InvClean
<1>4. CASE L0_InvModified(c)
  <2>0. UpMsg("INV_DATA", l0[c].data, l0[c].dirty) \in ForL1Queue
    <3>1. l0[c].dirty \in BOOLEAN /\ l0[c].data \in Line
      BY <1>4 DEF L0_InvModified, L0Inv, L0TypeOK
    <3> QED
      BY <3>1 DEF UpMsg, ForL1Queue, UpMessage, UpClass
  <2>1. BufferInv'
    BY Zenon, <1>0, <1>4, <2>0, UpTyped DEF L0_InvModified, ToL1, PopFromL1
  <2> QED
    BY Zenon, <1>4, <2>1, ReadsTyped, L0Drops DEF L0_InvModified
<1>5. CASE L0_Data(c) \/ L0_DataExclusive(c)
  <2>1. PICK st \in {"S", "E"} : Fill(c, st)
    BY <1>5 DEF L0_Data, L0_DataExclusive
  <2>2. Head(down[c]).data \in Line
    BY <1>5, <1>d DEF L0_Data, L0_DataExclusive, L0Head, InvClass
  <2>3. L0Inv'
    BY Zenon, <2>1, <2>2, L0Fills DEF Fill, L0State
  <2>4. BufferInv'
    BY <1>0, <1>5, DownTyped DEF L0_Data, L0_DataExclusive, NothingToL1, PopFromL1
  <2> QED
    BY <1>5, <2>3, <2>4, ReadsTyped DEF L0_Data, L0_DataExclusive
<1>6. CASE L0_DataStale(c)
  <2>1. BufferInv'
    BY Zenon, <1>0, <1>6, DownTyped DEF L0_DataStale, NothingToL1, PopFromL1
  <2> QED
    BY Zenon, <1>6, <2>1, ReadsTyped, L0Drops DEF L0_DataStale
<1>7. ASSUME NEW w \in Word, NEW v \in Value, L0_DataToWrite(c, w, v)
      PROVE  L0Typed'
  <2>0. Head(down[c]).data \in Line
    BY <1>7, <1>d DEF L0_DataToWrite, L0Head, InvClass
  <2> DEFINE d == [Head(down[c]).data EXCEPT ![w] = v]
  <2>1. d \in Line
    BY <2>0 DEF Line
  <2>2. l0' = [l0 EXCEPT ![c].st = "M", ![c].dirty = TRUE, ![c].data = d]
    BY <1>7 DEF L0_DataToWrite
  <2> HIDE DEF d
  <2>3. L0Inv'
    BY Zenon, <2>1, <2>2, L0Fills DEF L0State
  <2>4. BufferInv'
    BY Zenon, <1>0, <1>7, DownTyped DEF L0_DataToWrite, NothingToL1, PopFromL1
  <2>5. ObserverInv'
    BY Zenon, <1>7, StoreIsPatch, WrittenTyped DEF L0_DataToWrite
  <2> QED
    BY <2>3, <2>4, <2>5
<1> QED
  BY Zenon, <1>1, <1>2, <1>3, <1>4, <1>5, <1>6, <1>7 DEF L0_Message

----------------------------------------------------------------------------
(* The L2. *)

L2Rec == [st : L2State, sharers : SUBSET Core, excl : Core \cup {NoCore},
          data : Line \cup {NoData}, dirty : BOOLEAN, gets : SUBSET Core,
          getx : Core \cup {NoCore}, acks : Int]

L2Entry(k, e) ==
    /\ e.st \notin {"NP", "ISS", "IS", "IM"} => e.data \in Line
    /\ \A c \in e.sharers \cup e.gets : ClusterOf[c] = k
    /\ e.st = "MT" => e.excl \in Core /\ ClusterOf[e.excl] = k
    /\ e.st = "IM" => e.getx \in Core /\ ClusterOf[e.getx] = k

(* L2Inv, entry by entry. *)
LEMMA L2InvMeans == L2Inv <=> l2 \in [Cluster -> L2Rec] /\ \A k \in Cluster : L2Entry(k, l2[k])
BY DEF L2Inv, L2TypeOK, L2Rec, L2Entry

(* Replacing one L2 entry by a well-typed one. *)
LEMMA L2Sets ==
    ASSUME L2Inv, NEW k \in Cluster, NEW e \in L2Rec, L2Entry(k, e), l2' = [l2 EXCEPT ![k] = e]
    PROVE  L2Inv'
<1> USE L2InvMeans
<1>1. l2' \in [Cluster -> L2Rec] /\ \A j \in Cluster : L2Entry(j, l2'[j])
  OBVIOUS
<1> QED
  BY Zenon, <1>1 DEF L2Inv, L2TypeOK, L2Rec, L2Entry

(* An entry with one of its fields changed. *)
WithSt(r, x) == [r EXCEPT !.st = x]
WithSharers(r, x) == [r EXCEPT !.sharers = x]
WithExcl(r, x) == [r EXCEPT !.excl = x]
WithData(r, x) == [r EXCEPT !.data = x]
WithDirty(r, x) == [r EXCEPT !.dirty = x]
WithGets(r, x) == [r EXCEPT !.gets = x]
WithGetx(r, x) == [r EXCEPT !.getx = x]
WithAcks(r, x) == [r EXCEPT !.acks = x]

(* A new state keeps the entry a record with the other fields as they     *)
(* were.                                                                  *)
LEMMA L2WithSt ==
    ASSUME NEW r \in L2Rec, NEW x \in L2State
    PROVE  /\ WithSt(r, x) \in L2Rec /\ WithSt(r, x).st = x
           /\ WithSt(r, x).sharers = r.sharers
           /\ WithSt(r, x).excl = r.excl
           /\ WithSt(r, x).data = r.data
           /\ WithSt(r, x).gets = r.gets
           /\ WithSt(r, x).getx = r.getx
BY DEF L2Rec, WithSt

(* The same for the sharers. *)
LEMMA L2WithSharers ==
    ASSUME NEW r \in L2Rec, NEW x \in SUBSET Core
    PROVE  /\ WithSharers(r, x) \in L2Rec /\ WithSharers(r, x).sharers = x
           /\ WithSharers(r, x).st = r.st
           /\ WithSharers(r, x).excl = r.excl
           /\ WithSharers(r, x).data = r.data
           /\ WithSharers(r, x).gets = r.gets
           /\ WithSharers(r, x).getx = r.getx
BY DEF L2Rec, WithSharers

(* The same for the exclusive owner. *)
LEMMA L2WithExcl ==
    ASSUME NEW r \in L2Rec, NEW x \in Core \cup {NoCore}
    PROVE  /\ WithExcl(r, x) \in L2Rec /\ WithExcl(r, x).excl = x
           /\ WithExcl(r, x).st = r.st
           /\ WithExcl(r, x).sharers = r.sharers
           /\ WithExcl(r, x).data = r.data
           /\ WithExcl(r, x).gets = r.gets
           /\ WithExcl(r, x).getx = r.getx
BY DEF L2Rec, WithExcl

(* The same for the block. *)
LEMMA L2WithData ==
    ASSUME NEW r \in L2Rec, NEW x \in Line \cup {NoData}
    PROVE  /\ WithData(r, x) \in L2Rec /\ WithData(r, x).data = x
           /\ WithData(r, x).st = r.st
           /\ WithData(r, x).sharers = r.sharers
           /\ WithData(r, x).excl = r.excl
           /\ WithData(r, x).gets = r.gets
           /\ WithData(r, x).getx = r.getx
BY DEF L2Rec, WithData

(* The same for the dirty bit. *)
LEMMA L2WithDirty ==
    ASSUME NEW r \in L2Rec, NEW x \in BOOLEAN
    PROVE  /\ WithDirty(r, x) \in L2Rec
           /\ WithDirty(r, x).st = r.st
           /\ WithDirty(r, x).sharers = r.sharers
           /\ WithDirty(r, x).excl = r.excl
           /\ WithDirty(r, x).data = r.data
           /\ WithDirty(r, x).gets = r.gets
           /\ WithDirty(r, x).getx = r.getx
BY DEF L2Rec, WithDirty

(* The same for the readers the TBE remembers. *)
LEMMA L2WithGets ==
    ASSUME NEW r \in L2Rec, NEW x \in SUBSET Core
    PROVE  /\ WithGets(r, x) \in L2Rec /\ WithGets(r, x).gets = x
           /\ WithGets(r, x).st = r.st
           /\ WithGets(r, x).sharers = r.sharers
           /\ WithGets(r, x).excl = r.excl
           /\ WithGets(r, x).data = r.data
           /\ WithGets(r, x).getx = r.getx
BY DEF L2Rec, WithGets

(* The same for the writer the TBE remembers. *)
LEMMA L2WithGetx ==
    ASSUME NEW r \in L2Rec, NEW x \in Core \cup {NoCore}
    PROVE  /\ WithGetx(r, x) \in L2Rec /\ WithGetx(r, x).getx = x
           /\ WithGetx(r, x).st = r.st
           /\ WithGetx(r, x).sharers = r.sharers
           /\ WithGetx(r, x).excl = r.excl
           /\ WithGetx(r, x).data = r.data
           /\ WithGetx(r, x).gets = r.gets
BY DEF L2Rec, WithGetx

(* The same for the pending acks. *)
LEMMA L2WithAcks ==
    ASSUME NEW r \in L2Rec, NEW x \in Int
    PROVE  /\ WithAcks(r, x) \in L2Rec
           /\ WithAcks(r, x).st = r.st
           /\ WithAcks(r, x).sharers = r.sharers
           /\ WithAcks(r, x).excl = r.excl
           /\ WithAcks(r, x).data = r.data
           /\ WithAcks(r, x).gets = r.gets
           /\ WithAcks(r, x).getx = r.getx
BY DEF L2Rec, WithAcks

(* The absent entry is typed. *)
LEMMA L2AbsentTyped ==
    /\ L2Absent \in L2Rec /\ L2Absent.st = "NP"
    /\ L2Absent.sharers = {} /\ L2Absent.gets = {}
BY DEF L2Absent, L2Rec, L2State

(* An entry filled with the block of a message is typed. *)
LEMMA FilledTyped ==
    ASSUME L2Inv, NEW k \in Cluster, NEW st \in L2State \ {"MT", "IM"}, NEW m,
           m.data \in Line, m.dirty \in BOOLEAN, Filled(k, st, m)
    PROVE  L2Inv'
<1> DEFINE r  == l2[k]
           x  == l2[k].dirty \/ m.dirty
           f1 == WithSt(r, st)
           f2 == WithData(f1, m.data)
           f3 == WithDirty(f2, x)
           f4 == WithGets(f3, {})
           f5 == WithGetx(f4, NoCore)
           e  == WithAcks(f5, 0)
<1>0. r \in L2Rec /\ L2Entry(k, r) /\ x \in BOOLEAN
  BY L2InvMeans DEF L2Rec
<1>1. l2' = [l2 EXCEPT ![k] = e]
  BY Zenon DEF Filled, WithSt, WithData, WithDirty, WithGets, WithGetx, WithAcks
<1> HIDE DEF r, x
<1>2. f1 \in L2Rec /\ f1.st = st /\ f1.sharers = r.sharers
  BY <1>0, L2WithSt
<1> HIDE DEF f1
<1>3. f2 \in L2Rec /\ f2.st = st /\ f2.sharers = r.sharers /\ f2.data = m.data
  BY <1>2, L2WithData
<1> HIDE DEF f2
<1>4. f3 \in L2Rec /\ f3.st = st /\ f3.sharers = r.sharers /\ f3.data = m.data
  BY <1>0, <1>3, L2WithDirty
<1> HIDE DEF f3
<1>5. f4 \in L2Rec /\ f4.st = st /\ f4.sharers = r.sharers /\ f4.data = m.data /\ f4.gets = {}
  BY <1>4, L2WithGets
<1> HIDE DEF f4
<1>6. f5 \in L2Rec /\ f5.st = st /\ f5.sharers = r.sharers /\ f5.data = m.data /\ f5.gets = {}
  BY <1>5, L2WithGetx
<1> HIDE DEF f5
<1>7. e \in L2Rec /\ e.st = st /\ e.sharers = r.sharers /\ e.data = m.data /\ e.gets = {}
  BY <1>6, L2WithAcks
<1> HIDE DEF e
<1>8. L2Entry(k, e)
  BY <1>0, <1>7 DEF L2Entry
<1> QED
  BY Zenon, <1>1, <1>7, <1>8, L2Sets

(* An entry whose eviction begins is typed: its block moves to the TBE. *)
LEMMA EvictTyped ==
    ASSUME L2Inv, NEW k \in Cluster, NEW st \in {"I_I", "S_I", "M_I", "MCT_I", "MT_I"},
           l2[k].st \in {"SS", "M", "MT"}, Cardinality(l2[k].sharers) \in Int, Evict(k, st)
    PROVE  L2Inv'
<1> DEFINE d  == l2[k].data
           x  == l2[k].dirty
           a  == Cardinality(l2[k].sharers)
           f1 == WithSt(L2Absent, st)
           f2 == WithData(f1, d)
           f3 == WithDirty(f2, x)
           e  == WithAcks(f3, a)
<1>0. d \in Line /\ x \in BOOLEAN /\ a \in Int /\ st \in L2State
  BY L2InvMeans DEF L2Rec, L2Entry, L2State
<1>1. l2' = [l2 EXCEPT ![k] = e]
  BY Zenon DEF Evict, WithSt, WithData, WithDirty, WithAcks
<1> HIDE DEF d, x, a
<1>2. f1 \in L2Rec /\ f1.st = st /\ f1.sharers = {} /\ f1.gets = {}
  BY <1>0, L2AbsentTyped, L2WithSt
<1> HIDE DEF f1
<1>3. f2 \in L2Rec /\ f2.st = st /\ f2.sharers = {} /\ f2.gets = {} /\ f2.data = d
  BY <1>0, <1>2, L2WithData
<1> HIDE DEF f2
<1>4. f3 \in L2Rec /\ f3.st = st /\ f3.sharers = {} /\ f3.gets = {} /\ f3.data = d
  BY <1>0, <1>3, L2WithDirty
<1> HIDE DEF f3
<1>5. e \in L2Rec /\ e.st = st /\ e.sharers = {} /\ e.gets = {} /\ e.data = d
  BY <1>0, <1>4, L2WithAcks
<1> HIDE DEF e
<1>6. L2Entry(k, e)
  BY <1>0, <1>5 DEF L2Entry
<1> QED
  BY Zenon, <1>1, <1>5, <1>6, L2Sets

(* A change of state alone keeps the L2 typed. *)
LEMMA L2MoveTyped ==
    ASSUME L2Inv, NEW k \in Cluster, NEW st \in L2State \ {"MT", "IM"}, L2Move(k, st),
           l2[k].st \notin {"NP", "ISS", "IS", "IM"} 
    PROVE  L2Inv'
<1> DEFINE r == l2[k]
           e == WithSt(r, st)
<1>0. r \in L2Rec /\ L2Entry(k, r)
  BY L2InvMeans
<1>1. l2' = [l2 EXCEPT ![k] = e]
  BY DEF L2Move, L2Inv, L2TypeOK, WithSt
<1>2. e \in L2Rec /\ e.st = st /\ e.data = r.data /\ e.gets = r.gets /\ e.sharers = r.sharers
  BY Zenon, <1>0, L2WithSt
<1> HIDE DEF e
<1>3. L2Entry(k, e)
  BY <1>0, <1>2 DEF L2Entry
<1> QED
  BY Zenon, <1>1, <1>2, <1>3, L2Sets

(* The sharers of an L2 are finitely many, so they can be counted as      *)
(* pending acks.                                                          *)
LEMMA SharersFinite ==
    ASSUME L2Inv, NEW k \in Cluster
    PROVE  /\ IsFiniteSet(l2[k].sharers) /\ Cardinality(l2[k].sharers) \in Nat
           /\ \A c : Cardinality(Others(k, c)) \in Nat
<1>1. l2[k].sharers \subseteq Core /\ IsFiniteSet(Core)
  BY MachineAssumption DEF L2Inv, L2TypeOK
<1>2. ASSUME NEW S, S \subseteq Core
      PROVE  IsFiniteSet(S) /\ Cardinality(S) \in Nat
  BY <1>1, <1>2, FS_Subset, FS_CardinalityType
<1>3. \A c : Others(k, c) \subseteq Core
  BY <1>1 DEF Others
<1> QED
  BY <1>1, <1>2, <1>3

(* The typing of the network survives the handling of a message by the    *)
(* L2.                                                                    *)
LEMMA L2HandleTyped ==
    ASSUME NetInv, NEW k, NEW m, NEW send \in SUBSET WellFormed, NEW wake \in BOOLEAN,
           L2Handle(k, m, send, wake)
    PROVE  NetInv'
BY ExchangeTyped DEF L2Handle

(* The invalidations of an L2's sharers are well-formed. *)
LEMMA InvsSent ==
    ASSUME L2Inv, NEW k \in Cluster
    PROVE  /\ InvSharers(k) \in SUBSET WellFormed
           /\ \A m : m.from \in Core /\ ClusterOf[m.from] = k => InvOthers(k, m) \in SUBSET WellFormed
<1>1. \A c \in l2[k].sharers : c \in Core /\ ClusterOf[c] = k
  BY DEF L2Inv, L2TypeOK
<1>2. \A c \in l2[k].sharers : Ctl("INV", k, c) \in WellFormed
  BY Zenon, <1>1, L2Sends
<1>3. ASSUME NEW d \in Core, ClusterOf[d] = k
      PROVE  \A c \in l2[k].sharers : Ctl("INV", d, c) \in WellFormed
  BY Zenon, <1>1, <1>3, L2Sends
<1> QED
  BY <1>2, <1>3 DEF InvSharers, InvOthers, Others

L2Typed == NetInv /\ L2Inv

(* Every replacement in an L2, and every answer to the directory's        *)
(* invalidation, preserves the typing.                                    *)
LEMMA L2EvictionTyped ==
    ASSUME L2Typed, ObserverInv, NEW k \in Cluster, L2_Request(k) \/ L2_DirInv(k), UNCHANGED <<latest, seen>>
    PROVE  L2Typed' /\ ObserverInv'
<1> USE DEF L2Typed
<1>a. L2_Request(k) \/ L2_DirInv(k) <=>
        \/ L2_SS_Replace_clean(k)
        \/ L2_SS_Replace(k, L2_Replacement(k)) \/ L2_SS_Replace(k, MEM_Inv(k))
        \/ L2_M_Replace_clean(k)
        \/ L2_M_Replace(k, L2_Replacement(k)) \/ L2_M_Replace(k, MEM_Inv(k))
        \/ L2_MT_Replace_clean(k)
        \/ L2_MT_Replace(k, L2_Replacement(k)) \/ L2_MT_Replace(k, MEM_Inv(k))
        \/ L2_PopInv(k)
  BY Zenon DEF L2_Request, L2_DirInv
<1>1. CASE L2_PopInv(k)
  <2>1. inv' \in [Cluster -> Nat]
    BY <1>1 DEF L2_PopInv, MEM_Inv, ObserverInv
  <2> QED
    BY <1>1, <2>1 DEF L2_PopInv, NetInv, L2Inv, L2TypeOK, ObserverInv
<1>2. ASSUME NEW st \in {"I_I", "S_I", "M_I", "MCT_I", "MT_I"}, NEW send \in SUBSET WellFormed,
             l2[k].st \in {"SS", "M", "MT"}, Evict(k, st), L2Send(k, send)
      PROVE  L2Typed' /\ ObserverInv'
  <2>1. L2Inv'
    BY <1>2, EvictTyped, SharersFinite
  <2>2. NetInv'
    BY Zenon, <1>2, ExchangeTyped DEF L2Send
  <2> QED
    BY <1>2, <2>1, <2>2 DEF ObserverInv, L2Send
<1>3. ASSUME NEW e, L2_SS_Replace(k, e) \/ L2_SS_Replace_clean(k) \/ L2_MT_Replace(k, e) \/ L2_MT_Replace_clean(k)
      PROVE  L2Typed' /\ ObserverInv'
  BY Zenon, <1>2, <1>3, InvsSent DEF L2_SS_Replace, L2_SS_Replace_clean, L2_MT_Replace, L2_MT_Replace_clean
<1>4. ASSUME NEW e, L2_M_Replace(k, e) \/ L2_M_Replace_clean(k)
      PROVE  L2Typed' /\ ObserverInv'
  <2>1. l2[k].st = "M" => l2[k].data \in Line /\ l2[k].dirty \in BOOLEAN
    BY DEF L2Inv, L2TypeOK
  <2>2. /\ l2[k].st = "M" => {WriteMemory(k, l2[k].data, l2[k].dirty)} \in SUBSET WellFormed
        /\ {CleanReplacement(k)} \in SUBSET WellFormed
    BY Zenon, <2>1, DirectorySends DEF WriteMemory, CleanReplacement
  <2> QED
    BY Zenon, <1>2, <1>4, <2>2 DEF L2_M_Replace, L2_M_Replace_clean
<1> QED
  BY <1>a, <1>1, <1>3, <1>4

(* Every transition of the L2 on a network message preserves the typing. *)
LEMMA L2MessageTyped ==
    ASSUME L2Typed, NEW k \in Cluster, NEW m \in net, m.to = k, L2_Message(k, m)
    PROVE  L2Typed'
<1> USE DEF L2Typed
<1>0. m \in WellFormed
  BY DEF NetInv
<1>c. m.type \in {"GETS", "GETX", "UPGRADE", "PUTX", "UNBLOCK", "EXCLUSIVE_UNBLOCK"} =>
        m.from \in Core /\ ClusterOf[m.from] = k
  BY <1>0, Names DEF WellFormed, ForL2
<1>d. /\ m.type \in {"DATA", "MEMORY_DATA"} \/ (m.type = "PUTX" /\ m.dirty) => m.data \in Line
      /\ m.dirty \in BOOLEAN /\ m.acks \in Int
  BY <1>0 DEF WellFormed, Carries, Message
<1>k. l2[k] \in L2Rec /\ L2Entry(k, l2[k])
  BY L2InvMeans
<1>b. /\ l2[k].st \notin {"NP", "ISS", "IS", "IM"} => l2[k].data \in Line
      /\ l2[k].dirty \in BOOLEAN /\ l2[k].acks \in Int
      /\ l2[k].sharers \subseteq Core /\ l2[k].gets \subseteq Core
  BY Zenon, <1>k DEF L2Rec, L2Entry
<1>vM. "M" \in L2State
  BY DEF L2State
<1>vMT. "MT" \in L2State
  BY DEF L2State
<1>vMT_IB. "MT_IB" \in L2State
  BY DEF L2State
<1>vSS. "SS" \in L2State
  BY DEF L2State
<1>vISS. "ISS" \in L2State
  BY DEF L2State
<1>vIS. "IS" \in L2State
  BY DEF L2State
<1>vIM. "IM" \in L2State
  BY DEF L2State
<1>vM_I. "M_I" \in L2State
  BY DEF L2State
<1>e. {} \in SUBSET WellFormed /\ TRUE \in BOOLEAN /\ FALSE \in BOOLEAN
  OBVIOUS
<1>w. m.type = "PUTX" => {WBAck(k, m)} \in SUBSET WellFormed
  BY Zenon, <1>c, L2Sends DEF WBAck
<1>f. /\ {Fetch(k)} \in SUBSET WellFormed /\ {CleanReplacement(k)} \in SUBSET WellFormed
      /\ \A d \in Line, x \in BOOLEAN : {WriteMemory(k, d, x)} \in SUBSET WellFormed
  BY Zenon, DirectorySends DEF Fetch, CleanReplacement, WriteMemory
<1>s. \A c \in Core, d \in Line, t \in {"DATA", "DATA_EXCLUSIVE"}, a \in Int :
        ClusterOf[c] = k => SendBlock(k, t, c, d, a) \in WellFormed
  BY Zenon, L2Sends DEF SendBlock
<1>n. AckCount(k, m) \in Int /\ 1 - Cardinality(l2[k].sharers) \in Int
  BY SharersFinite DEF AckCount
<1>1. CASE L2_PUTX_Ack(k, m)
  <2>1. NetInv'
    BY Zenon, <1>1, <1>e, <1>w, L2HandleTyped DEF L2_PUTX_Ack, L1_PUTX, L1_PUTX_old
  <2> QED
    BY Zenon, <1>1, <2>1 DEF L2_PUTX_Ack, L2Inv, L2TypeOK
<1>2. CASE L2_Stall(k, m)
  BY Zenon, <1>0, <1>2 DEF L2_Stall, Stall, NetInv, L2Inv, L2TypeOK
<1>3. CASE L2_MT_PUTX(k, m)
  <2>1. NetInv'
    BY Zenon, <1>3, <1>e, <1>w, L2HandleTyped DEF L2_MT_PUTX, L1_PUTX
  <2> DEFINE d == IF m.dirty THEN m.data ELSE l2[k].data
             x == l2[k].dirty \/ m.dirty
             f1 == WithSt(l2[k], "M")
             f2 == WithSharers(f1, {})
             f3 == WithData(f2, d)
             e == WithDirty(f3, x)
  <2>2. d \in Line /\ x \in BOOLEAN
    BY <1>3, <1>d, <1>b DEF L2_MT_PUTX, L1_PUTX
  <2>3. l2' = [l2 EXCEPT ![k] = e]
    BY <1>3, Zenon DEF L2_MT_PUTX, L2Inv, L2TypeOK, WithSt, WithSharers, WithData, WithDirty
  <2> HIDE DEF d, x
  <2>4. f1 \in L2Rec /\ f1.st = "M" /\ f1.gets = l2[k].gets
    BY <1>k, <1>vM, L2WithSt
  <2> HIDE DEF f1
  <2>5. f2 \in L2Rec /\ f2.st = "M" /\ f2.gets = l2[k].gets /\ f2.sharers = {}
    BY <2>4, L2WithSharers
  <2> HIDE DEF f2
  <2>6. f3 \in L2Rec /\ f3.st = "M" /\ f3.gets = l2[k].gets /\ f3.sharers = {} /\ f3.data = d
    BY <2>2, <2>5, L2WithData
  <2> HIDE DEF f3
  <2>7. e \in L2Rec /\ e.st = "M" /\ e.gets = l2[k].gets /\ e.sharers = {} /\ e.data = d
    BY <2>2, <2>6, L2WithDirty
  <2> HIDE DEF e
  <2>8. L2Entry(k, e)
    BY <1>k, <2>2, <2>7 DEF L2Entry
  <2> QED
    BY Zenon, <2>1, <2>3, <2>7, <2>8, L2Sets
<1>4. CASE L2_NP_GETS(k, m) \/ L2_NP_GETX(k, m)
  <2>1. NetInv'
    BY Zenon, <1>4, <1>e, <1>f, L2HandleTyped DEF L2_NP_GETS, L2_NP_GETX
  <2>2. m.from \in Core /\ ClusterOf[m.from] = k
    BY Zenon, <1>4, <1>c DEF L2_NP_GETS, L2_NP_GETX, L1_GETS, L1_GETX
  <2>3. CASE L2_NP_GETS(k, m)
    <3> DEFINE f1 == WithSt(L2Absent, "ISS")
               f2 == WithSharers(f1, {m.from})
               f3 == WithGets(f2, {m.from})
               e == WithAcks(f3, 1)
    <3>1. l2' = [l2 EXCEPT ![k] = e]
      BY <2>3, Zenon DEF L2_NP_GETS, WithSt, WithSharers, WithGets, WithAcks
    <3>2. f1 \in L2Rec /\ f1.st = "ISS"
      BY <1>vISS, L2AbsentTyped, L2WithSt
    <3> HIDE DEF f1
    <3>3. f2 \in L2Rec /\ f2.st = "ISS" /\ f2.sharers = {m.from}
      BY <2>2, <3>2, L2WithSharers
    <3> HIDE DEF f2
    <3>4. f3 \in L2Rec /\ f3.st = "ISS" /\ f3.sharers = {m.from} /\ f3.gets = {m.from}
      BY <2>2, <3>3, L2WithGets
    <3> HIDE DEF f3
    <3>5. e \in L2Rec /\ e.st = "ISS" /\ e.sharers = {m.from} /\ e.gets = {m.from}
      BY <3>4, L2WithAcks
    <3> HIDE DEF e
    <3> QED
      BY Zenon, <2>1, <2>2, <3>1, <3>5, L2Sets DEF L2Entry
  <2>4. CASE L2_NP_GETX(k, m)
    <3> DEFINE f1 == WithSt(L2Absent, "IM")
               e == WithGetx(f1, m.from)
    <3>1. l2' = [l2 EXCEPT ![k] = e]
      BY <2>4, Zenon DEF L2_NP_GETX, WithSt, WithGetx
    <3>2. f1 \in L2Rec /\ f1.st = "IM" /\ f1.sharers = {} /\ f1.gets = {}
      BY <1>vIM, L2AbsentTyped, L2WithSt
    <3> HIDE DEF f1
    <3>3. e \in L2Rec /\ e.st = "IM" /\ e.getx = m.from /\ e.sharers = {} /\ e.gets = {}
      BY <2>2, <3>2, L2WithGetx
    <3> HIDE DEF e
    <3> QED
      BY Zenon, <2>1, <2>2, <3>1, <3>3, L2Sets DEF L2Entry
  <2> QED
    BY <1>4, <2>3, <2>4
<1>5. CASE L2_IS_GETS(k, m)
  <2>1. NetInv'
    BY Zenon, <1>5, <1>e, L2HandleTyped DEF L2_IS_GETS
  <2>2. m.from \in Core /\ ClusterOf[m.from] = k
    BY <1>5, <1>c DEF L2_IS_GETS, L1_GETS
  <2> DEFINE f1 == WithSt(l2[k], "IS")
             f2 == WithSharers(f1, l2[k].sharers \cup {m.from})
             e == WithGets(f2, l2[k].gets \cup {m.from})
  <2>3. l2' = [l2 EXCEPT ![k] = e]
    BY <1>5, Zenon DEF L2_IS_GETS, L2Inv, L2TypeOK, WithSt, WithSharers, WithGets
  <2>4. f1 \in L2Rec /\ f1.st = "IS"
    BY <1>k, <1>vIS, L2WithSt
  <2> HIDE DEF f1
  <2>5. f2 \in L2Rec /\ f2.st = "IS" /\ f2.sharers = l2[k].sharers \cup {m.from}
    BY Zenon, <1>b, <2>2, <2>4, L2WithSharers
  <2> HIDE DEF f2
  <2>6. /\ e \in L2Rec /\ e.st = "IS" /\ e.sharers = l2[k].sharers \cup {m.from}
        /\ e.gets = l2[k].gets \cup {m.from}
    BY <1>b, <2>2, <2>5, L2WithGets
  <2> HIDE DEF e
  <2>7. L2Entry(k, e)
    BY Zenon, <1>k, <2>2, <2>6 DEF L2Entry
  <2> QED
    BY Zenon, <2>1, <2>3, <2>6, <2>7, L2Sets
<1>6. ASSUME NEW st \in {"SS", "MT_IB"}, l2[k].st \in {"SS", "MT_IIB", "MT_SB"}, m.from \in Core, ClusterOf[m.from] = k,
             \/ l2' = [l2 EXCEPT ![k].st = st, ![k].sharers = @ \cup {m.from}]
             \/ st = "SS" /\ l2[k].st = "SS" /\ l2' = [l2 EXCEPT ![k].sharers = @ \cup {m.from}]
      PROVE  L2Inv'
  <2> DEFINE f1 == WithSt(l2[k], st)
             e == WithSharers(f1, l2[k].sharers \cup {m.from})
             f == WithSharers(l2[k], l2[k].sharers \cup {m.from})
  <2>3. l2' = [l2 EXCEPT ![k] = e] \/ (l2[k].st = "SS" /\ l2' = [l2 EXCEPT ![k] = f])
    BY <1>6, Zenon DEF L2Inv, L2TypeOK, WithSt, WithSharers
  <2>0. l2[k].sharers \cup {m.from} \in SUBSET Core /\ st \in L2State
    BY <1>6, <1>b, <1>vSS, <1>vMT_IB
  <2>4. f1 \in L2Rec /\ f1.st = st /\ f1.data = l2[k].data /\ f1.gets = l2[k].gets
    BY Zenon, <1>k, <2>0, L2WithSt
  <2> HIDE DEF f1
  <2>5. /\ e \in L2Rec /\ e.st = st /\ e.sharers = l2[k].sharers \cup {m.from}
        /\ e.data = l2[k].data /\ e.gets = l2[k].gets
    BY Zenon, <2>0,  <2>4, L2WithSharers
  <2>6. /\ f \in L2Rec /\ f.st = l2[k].st /\ f.sharers = l2[k].sharers \cup {m.from}
        /\ f.data = l2[k].data /\ f.gets = l2[k].gets
    BY Zenon, <1>k, <2>0, L2WithSharers
  <2> HIDE DEF e, f
  <2>7. L2Entry(k, e) /\ (l2[k].st = "SS" => L2Entry(k, f))
    BY <1>6, <1>k, <2>5, <2>6 DEF L2Entry
  <2> QED
    BY Zenon, <2>3, <2>5, <2>6, <2>7, L2Sets
<1>7. CASE L2_SS_GETS(k, m)
  <2>1. m.from \in Core /\ ClusterOf[m.from] = k
    BY <1>7, <1>c DEF L2_SS_GETS, L1_GETS
  <2>2. {SendBlock(k, "DATA", m.from, l2[k].data, 0)} \in SUBSET WellFormed
    BY <1>7, <1>b, <1>s, <2>1 DEF L2_SS_GETS
  <2>3. NetInv'
    BY Zenon, <1>7, <1>e, <2>2, L2HandleTyped DEF L2_SS_GETS
  <2> QED
    BY <1>6, <1>7, <2>1, <2>3 DEF L2_SS_GETS
<1>8. CASE L2_SS_GETX(k, m) \/ L2_SS_UPGRADE(k, m)
  <2>1. m.from \in Core /\ ClusterOf[m.from] = k /\ l2[k].st = "SS" /\ L2Move(k, "SS_MB")
    BY Zenon, <1>8, <1>c DEF L2_SS_GETX, L2_SS_UPGRADE, L1_GETX, L1_UPGRADE
  <2>2. /\ SendBlock(k, "DATA", m.from, l2[k].data, AckCount(k, m)) \in WellFormed
        /\ Ack(k, m.from, 1 - Cardinality(l2[k].sharers)) \in WellFormed
    BY Zenon, <1>b, <1>s, <1>n, <2>1, L2Sends
  <2>3. InvOthers(k, m) \in SUBSET WellFormed
    BY <2>1, InvsSent
  <2>4. PICK send \in SUBSET WellFormed : L2Handle(k, m, send, FALSE)
    BY Zenon, <1>8, <2>2, <2>3 DEF L2_SS_GETX, L2_SS_UPGRADE
  <2>5. NetInv'
    BY Zenon, <1>e, <2>4, L2HandleTyped
  <2> QED
    BY Zenon, <2>1, <2>5, L2MoveTyped DEF L2State
<1>9. CASE L2_M_GETX(k, m) \/ L2_M_GETS(k, m)
  <2>1. m.from \in Core /\ ClusterOf[m.from] = k /\ l2[k].st = "M" /\ L2Move(k, "MT_MB")
    BY Zenon, <1>9, <1>c DEF L2_M_GETX, L2_M_GETS, L1_GETX, L1_GETS
  <2>2. \A t \in {"DATA", "DATA_EXCLUSIVE"} :
           {SendBlock(k, t, m.from, l2[k].data, AckCount(k, m))} \in SUBSET WellFormed
    BY Zenon, <1>b, <1>s, <1>n, <2>1
  <2>3. PICK send \in SUBSET WellFormed : L2Handle(k, m, send, FALSE)
    BY Zenon, <1>9, <2>2 DEF L2_M_GETX, L2_M_GETS
  <2>5. NetInv'
    BY Zenon, <1>e, <2>3, L2HandleTyped
  <2> QED
    BY Zenon, <2>1, <2>5, L2MoveTyped DEF L2State
<1>10. CASE L2_MT_GETX(k, m) \/ L2_MT_GETS(k, m)
  <2>1. /\ m.from \in Core /\ ClusterOf[m.from] = k /\ l2[k].st = "MT"
        /\ m.type \in {"GETS", "GETX", "UPGRADE"}
    BY Zenon, <1>10, <1>c DEF L2_MT_GETX, L2_MT_GETS, L1_GETX, L1_GETS
  <2>2. PICK st \in {"MT_MB", "MT_IIB"} : L2Move(k, st)
    BY Zenon, <1>10 DEF L2_MT_GETX, L2_MT_GETS
  <2>3. {Ctl(m.type, m.from, l2[k].excl)} \in SUBSET WellFormed
    BY Zenon, <1>k, <2>1, L2Sends DEF L2Entry
  <2>4. NetInv'
    BY Zenon, <1>10, <1>e, <2>3, L2HandleTyped DEF L2_MT_GETX, L2_MT_GETS
  <2> QED
    BY Zenon, <2>1, <2>2, <2>4, L2MoveTyped DEF L2State
<1>11. CASE L2_ISS_Mem_Data(k, m) \/ L2_IS_Mem_Data(k, m) \/ L2_IM_Mem_Data(k, m)
  <2>1. m.data \in Line /\ l2[k].st \in {"ISS", "IS", "IM"}
    BY Zenon, <1>11, <1>d DEF L2_ISS_Mem_Data, L2_IS_Mem_Data, L2_IM_Mem_Data
  <2>2. /\ \A c \in l2[k].gets : c \in Core /\ ClusterOf[c] = k
        /\ l2[k].st = "IM" => l2[k].getx \in Core /\ ClusterOf[l2[k].getx] = k
    BY Zenon, <1>k DEF L2Rec, L2Entry
  <2>3. /\ \A t \in {"DATA", "DATA_EXCLUSIVE"} :
              {SendBlock(k, t, c, m.data, 0) : c \in l2[k].gets} \in SUBSET WellFormed
        /\ l2[k].st = "IM" => {SendBlock(k, "DATA", l2[k].getx, m.data, 0)} \in SUBSET WellFormed
    BY <1>s, <2>1, <2>2
  <2>4. PICK send \in SUBSET WellFormed, wake \in BOOLEAN : L2Handle(k, m, send, wake)
    BY Zenon, <1>11, <2>3 DEF L2_ISS_Mem_Data, L2_IS_Mem_Data, L2_IM_Mem_Data
  <2>5. PICK st \in {"MT_MB", "SS"} : Filled(k, st, m)
    BY Zenon, <1>11 DEF L2_ISS_Mem_Data, L2_IS_Mem_Data, L2_IM_Mem_Data
  <2>6. NetInv'
    BY <2>4, L2HandleTyped
  <2>7. L2Inv'
    BY <1>d, <2>1, <2>5, FilledTyped DEF L2State
  <2> QED
    BY <2>6, <2>7
<1>12. CASE L2_Exclusive_Unblock(k, m)
  <2>1. NetInv'
    BY Zenon, <1>12, <1>e, L2HandleTyped DEF L2_Exclusive_Unblock
  <2>2. m.from \in Core /\ ClusterOf[m.from] = k /\ l2[k].st \in {"SS_MB", "MT_MB"}
    BY <1>12, <1>c DEF L2_Exclusive_Unblock
  <2> DEFINE f1 == WithSt(l2[k], "MT")
             f2 == WithSharers(f1, {m.from})
             e == WithExcl(f2, m.from)
  <2>3. l2' = [l2 EXCEPT ![k] = e]
    BY <1>12, Zenon DEF L2_Exclusive_Unblock, L2Inv, L2TypeOK, WithSt, WithSharers, WithExcl
  <2>4. f1 \in L2Rec /\ f1.st = "MT" /\ f1.data = l2[k].data /\ f1.gets = l2[k].gets
    BY <1>k, <1>vMT, L2WithSt
  <2> HIDE DEF f1
  <2>5. /\ f2 \in L2Rec /\ f2.st = "MT" /\ f2.data = l2[k].data /\ f2.gets = l2[k].gets
        /\ f2.sharers = {m.from}
    BY <2>2, <2>4, L2WithSharers
  <2> HIDE DEF f2
  <2>6. /\ e \in L2Rec /\ e.st = "MT" /\ e.data = l2[k].data /\ e.gets = l2[k].gets
        /\ e.sharers = {m.from} /\ e.excl = m.from
    BY <2>2, <2>5, L2WithExcl
  <2> HIDE DEF e
  <2>7. L2Entry(k, e)
    BY Zenon, <1>b, <1>k, <2>2, <2>6 DEF L2Entry
  <2> QED
    BY Zenon, <2>1, <2>3, <2>6, <2>7, L2Sets
<1>13. CASE L2_MT_IIB_Unblock(k, m) \/ L2_MT_SB_Unblock(k, m)
  <2>1. m.from \in Core /\ ClusterOf[m.from] = k
    BY Zenon, <1>13, <1>c DEF L2_MT_IIB_Unblock, L2_MT_SB_Unblock
  <2>2. L2Inv'
    BY Zenon, <1>6, <1>13, <2>1 DEF L2_MT_IIB_Unblock, L2_MT_SB_Unblock
  <2>3. NetInv'
    BY Zenon, <1>13, <1>e, L2HandleTyped DEF L2_MT_IIB_Unblock, L2_MT_SB_Unblock
  <2> QED
    BY <2>2, <2>3
<1>14. CASE L2_MT_IIB_WB(k, m) \/ L2_MT_IB_WB(k, m)
  <2>1. m.data \in Line
    BY Zenon, <1>14, <1>d DEF L2_MT_IIB_WB, L2_MT_IB_WB, WB
  <2>2. PICK st \in {"MT_SB", "SS"} : Filled(k, st, m)
    BY Zenon, <1>14 DEF L2_MT_IIB_WB, L2_MT_IB_WB
  <2>3. NetInv'
    BY Zenon, <1>14, <1>e, L2HandleTyped DEF L2_MT_IIB_WB, L2_MT_IB_WB
  <2> QED
    BY <1>d, <2>1, <2>2, <2>3, FilledTyped DEF L2State
<1>15. CASE L2_Ack(k, m)
  <2>1. NetInv'
    BY Zenon, <1>15, <1>e, L2HandleTyped DEF L2_Ack
  <2> DEFINE a == l2[k].acks - m.acks
             e == WithAcks(l2[k], a)
  <2>2. a \in Int
    BY <1>d, <1>b
  <2>3. l2' = [l2 EXCEPT ![k] = e]
    BY <1>15, Zenon DEF L2_Ack, L2Inv, L2TypeOK, WithAcks
  <2> HIDE DEF a
  <2>4. e \in L2Rec
    BY <1>k, <2>2, L2WithAcks
  <2>5. L2Entry(k, e)
    <3>1. /\ e.st = l2[k].st /\ e.data = l2[k].data /\ e.sharers = l2[k].sharers /\ e.gets = l2[k].gets
          /\ e.excl = l2[k].excl /\ e.getx = l2[k].getx
      BY Zenon, <1>k, <2>2, L2WithAcks
    <3> HIDE DEF e
    <3> QED
      BY <1>k, <3>1 DEF L2Entry
  <2> HIDE DEF e
  <2> QED
    BY Zenon, <2>1, <2>3, <2>4, <2>5, L2Sets
<1>16. CASE L2_I_I_Ack_all(k, m) \/ L2_MCT_I_Clean(k, m)
  <2>1. l2[k].st \in {"I_I", "MCT_I"} /\ L2Move(k, "M_I")
    BY Zenon, <1>16 DEF L2_I_I_Ack_all, L2_MCT_I_Clean
  <2>2. NetInv'
    BY Zenon, <1>16, <1>e, <1>f, L2HandleTyped DEF L2_I_I_Ack_all, L2_MCT_I_Clean
  <2> QED
    BY Zenon, <2>1, <2>2, L2MoveTyped DEF L2State
<1>17. CASE L2_S_I_Ack_all(k, m) \/ L2_MT_I_Clean(k, m)
  <2>1. l2[k].st \in {"S_I", "MT_I"} /\ L2Move(k, "M_I")
    BY Zenon, <1>17 DEF L2_S_I_Ack_all, L2_MT_I_Clean
  <2>2. {WriteMemory(k, l2[k].data, l2[k].dirty)} \in SUBSET WellFormed
    BY Zenon, <1>b, <1>f, <2>1
  <2>3. NetInv'
    BY Zenon, <1>17, <1>e, <2>2, L2HandleTyped DEF L2_S_I_Ack_all, L2_MT_I_Clean
  <2> QED
    BY <2>1, <2>3, L2MoveTyped DEF L2State
<1>18. CASE L2_MT_I_WB_Data(k, m)
  <2>1. m.data \in Line
    BY <1>18, <1>d DEF L2_MT_I_WB_Data, WB_Data
  <2>2. {WriteMemory(k, m.data, m.dirty)} \in SUBSET WellFormed
    BY <1>d, <1>f, <2>1
  <2>3. NetInv'
    BY Zenon, <1>18, <1>e, <2>2, L2HandleTyped DEF L2_MT_I_WB_Data
  <2> DEFINE f1 == WithSt(l2[k], "M_I")
             f2 == WithData(f1, m.data)
             e == WithDirty(f2, m.dirty)
  <2>4. l2' = [l2 EXCEPT ![k] = e]
    BY <1>18, Zenon DEF L2_MT_I_WB_Data, L2Inv, L2TypeOK, WithSt, WithData, WithDirty
  <2>5. f1 \in L2Rec /\ f1.st = "M_I" /\ f1.sharers = l2[k].sharers /\ f1.gets = l2[k].gets
    BY <1>k, <1>vM_I, L2WithSt
  <2> HIDE DEF f1
  <2>6. /\ f2 \in L2Rec /\ f2.st = "M_I" /\ f2.sharers = l2[k].sharers /\ f2.gets = l2[k].gets
        /\ f2.data = m.data
    BY Zenon, <2>1, <2>5, L2WithData
  <2> HIDE DEF f2
  <2>7. /\ e \in L2Rec /\ e.st = "M_I" /\ e.sharers = l2[k].sharers /\ e.gets = l2[k].gets
        /\ e.data = m.data
    BY <1>d, <2>6, L2WithDirty
  <2> HIDE DEF e
  <2>8. L2Entry(k, e)
    BY <1>k, <2>1, <2>7 DEF L2Entry
  <2> QED
    BY Zenon, <2>3, <2>4, <2>7, <2>8, L2Sets
<1>19. CASE L2_Mem_Ack(k, m)
  <2>1. NetInv'
    BY Zenon, <1>19, <1>e, L2HandleTyped DEF L2_Mem_Ack
  <2>2. L2Entry(k, L2Absent)
    BY Zenon DEF L2Entry, L2Absent
  <2> QED
    BY Zenon, <1>19, <2>1, <2>2, L2AbsentTyped, L2Sets DEF L2_Mem_Ack
<1> QED
  BY Zenon, <1>1, <1>2, <1>3, <1>4, <1>5, <1>7, <1>8, <1>9, <1>10, <1>11, <1>12, <1>13, <1>14,
     <1>15, <1>16, <1>17, <1>18, <1>19 DEF L2_Message

----------------------------------------------------------------------------
(* The directory and the DMA controller. *)

DirRec  == [st : DirState, owner : Cluster \cup {"Dir"}, patch : Patch \cup {NoData}]
MemqRec == [kind : {"none", "READ", "WB"}, data : Line \cup Patch \cup {NoData},
            for : Cluster \cup {"Dir", "DMA"}, aligned : BOOLEAN, done : BOOLEAN]

(* The parts of DirInv about one of the two records, and what joins them. *)
DirEntry(d)   == d \in DirRec /\ (d.st = "M_DWR" => d.patch \in Patch)
MemEntry(q)   == /\ q \in MemqRec
                 /\ q.kind = "WB" /\ ~q.done => q.data \in Patch
                 /\ q.kind = "READ" /\ q.done => q.data \in Line
ForOwner      == {"IM", "MI", "M_DRDI", "M_DWRI"}

(* DirInv, in terms of the entry and of the request at memory. *)
LEMMA DirInvMeans ==
    DirInv <=> /\ DirEntry(dir) /\ MemEntry(memq) /\ mem \in Line
               /\ dma \in {"READY", "BUSY_RD", "BUSY_WR"}
               /\ dir.st \in ForOwner => memq.for \in Cluster
BY DEF DirInv, DirTypeOK, DirEntry, MemEntry, DirRec, MemqRec, ForOwner

(* The same after a step. *)
LEMMA DirInvPrimed ==
    ASSUME DirEntry(dir'), MemEntry(memq'), mem' \in Line,
           dma' \in {"READY", "BUSY_RD", "BUSY_WR"}, dir'.st \in ForOwner => memq'.for \in Cluster
    PROVE  DirInv'
BY DEF DirInv, DirTypeOK, DirEntry, MemEntry, DirRec, MemqRec, ForOwner

(* A change of the directory's state alone. *)
LEMMA DirMoves ==
    ASSUME DirInv, NEW st \in DirState \ {"M_DWR"}, DirMove(st)
    PROVE  DirEntry(dir') /\ dir'.st = st
BY DirInvMeans DEF DirMove, DirEntry, DirRec

(* A request queued at memory is typed. *)
LEMMA MemRequests ==
    ASSUME NEW kind \in {"READ", "WB"}, NEW data, NEW for \in Cluster \cup {"Dir", "DMA"},
           kind = "WB" => data \in Patch, kind = "READ" => data = NoData,
           MemRequest(kind, data, for)
    PROVE  MemEntry(memq') /\ memq'.for = for
BY DEF MemRequest, MemEntry, MemqRec

(* So is the empty queue. *)
LEMMA MemPops ==
    ASSUME MemPop
    PROVE  MemEntry(memq')
BY DEF MemPop, Idle, MemEntry, MemqRec

(* The typing of the network survives the handling of a message by the    *)
(* directory.                                                             *)
LEMMA DirHandleTyped ==
    ASSUME NetInv, NEW pop, NEW send \in SUBSET WellFormed, NEW wake \in BOOLEAN,
           DirHandle(pop, send, wake)
    PROVE  NetInv'
BY ExchangeTyped DEF DirHandle

DirTyped == NetInv /\ DirInv /\ ObserverInv

(* A request of the DMA device preserves the typing. *)
LEMMA DmaRequestTyped ==
    ASSUME DirTyped, DMA_Request
    PROVE  DirTyped'
<1> USE DEF DirTyped
<1>1. CASE DMA_ReadRequest
  <2>1. NetInv'
    BY <1>1, DmaSends DEF DMA_ReadRequest, NetInv
  <2>2. ObserverInv'
    BY <1>1 DEF DMA_ReadRequest, ObserverInv, Reader
  <2>3. DirInv'
    BY <1>1 DEF DMA_ReadRequest, DirInv, DirTypeOK
  <2> QED
    BY <2>1, <2>2, <2>3
<1>2. ASSUME NEW patch \in Patch, DMA_WriteRequest(patch)
      PROVE  DirTyped'
  <2>1. NetInv'
    BY Zenon, <1>2, DmaSends DEF DMA_WriteRequest, NetInv
  <2>2. ObserverInv'
    BY <1>2 DEF DMA_WriteRequest, ObserverInv, Observed
  <2>3. DirInv'
    BY <1>2 DEF DMA_WriteRequest, DirInv, DirTypeOK
  <2> QED
    BY <2>1, <2>2, <2>3
<1> QED
  BY <1>1, <1>2 DEF DMA_Request

(* An answer to the DMA controller preserves the typing. *)
LEMMA DmaMessageTyped ==
    ASSUME DirTyped, NEW m \in net, DMA_Message(m)
    PROVE  DirTyped'
<1> USE DEF DirTyped
<1>1. CASE DMA_Data(m)
  <2>1. NetInv' /\ ObserverInv'
    BY <1>1 DEF DMA_Data, NetInv, ObserverInv, Reader
  <2> QED
    BY <1>1, <2>1 DEF DMA_Data, DirInv, DirTypeOK
<1>2. CASE DMA_Ack(m)
  <2>1. NetInv' /\ ObserverInv'
    BY <1>2 DEF DMA_Ack, NetInv, ObserverInv, Observed
  <2> QED
    BY <1>2, <2>1 DEF DMA_Ack, DirInv, DirTypeOK
<1> QED
  BY <1>1, <1>2 DEF DMA_Message

(* Memory's service, and every transition of the directory on its answer, *)
(* preserve the typing.                                                   *)
LEMMA DirMemoryTyped ==
    ASSUME DirTyped, Dir_Memory
    PROVE  DirTyped'
<1> USE DEF DirTyped
<1>0. /\ DirEntry(dir) /\ MemEntry(memq) /\ mem \in Line
      /\ dma \in {"READY", "BUSY_RD", "BUSY_WR"}
      /\ dir.st \in ForOwner => memq.for \in Cluster
  BY DirInvMeans
<1>e. {} \in SUBSET WellFormed /\ TRUE \in BOOLEAN /\ FALSE \in BOOLEAN
  OBVIOUS
<1>o. UNCHANGED inv /\ Observed => ObserverInv'
  BY DEF Observed, ObserverInv
<1>1. CASE MemoryService
  <2>1. mem' \in Line
    BY <1>0, <1>1, OverlayTyped DEF MemoryService, MemEntry
  <2> DEFINE d == IF memq.kind = "READ" THEN mem ELSE NoData
             f == [memq EXCEPT !.done = TRUE]
             q == [f EXCEPT !.data = d]
  <2>2. memq' = q
    BY <1>1, Zenon DEF MemoryService
  <2>3. d \in Line \cup {NoData} /\ (memq.kind = "READ" => d \in Line)
    BY <1>0
  <2> HIDE DEF d
  <2>4. f \in MemqRec /\ f.kind = memq.kind /\ f.for = memq.for /\ f.done = TRUE
    BY Zenon, <1>0 DEF MemEntry, MemqRec
  <2> HIDE DEF f
  <2>5. q \in MemqRec /\ q.kind = memq.kind /\ q.for = memq.for /\ q.data = d /\ q.done = TRUE
    BY <2>3, <2>4 DEF MemqRec
  <2> HIDE DEF q
  <2>6. MemEntry(memq') /\ memq'.for = memq.for
    BY <2>2, <2>3, <2>5 DEF MemEntry
  <2>7. DirInv'
    BY <1>0, <1>1, <2>1, <2>6, DirInvPrimed DEF MemoryService
  <2> QED
    BY <1>1, <1>o, <2>7 DEF MemoryService, NetInv
<1>2. CASE Dir_IM_Memory_Data
  <2>1. memq.for \in Cluster /\ memq.data \in Line
    BY <1>0, <1>2 DEF Dir_IM_Memory_Data, ForOwner, Memory_Data, MemEntry
  <2>2. {DataMsg("MEMORY_DATA", "Dir", memq.for, memq.data, FALSE, 0)} \in SUBSET WellFormed
    BY Zenon, <2>1, DirectorySends
  <2>3. NetInv'
    BY Zenon, <1>2, <1>e, <2>2, DirHandleTyped DEF Dir_IM_Memory_Data
  <2> DEFINE f == [dir EXCEPT !.st = "M"]
             d == [f EXCEPT !.owner = memq.for]
  <2>4. dir' = d
    BY <1>2, Zenon DEF Dir_IM_Memory_Data
  <2>5. f \in DirRec /\ f.st = "M"
    BY <1>0 DEF DirEntry, DirRec, DirState
  <2> HIDE DEF f
  <2>6. d \in DirRec /\ d.st = "M"
    BY <2>1, <2>5 DEF DirRec
  <2> HIDE DEF d
  <2>7. DirEntry(dir') /\ dir'.st \notin ForOwner
    BY <2>4, <2>6 DEF DirEntry, ForOwner
  <2>8. DirInv'
    BY <1>0, <1>2, <2>7, MemPops, DirInvPrimed DEF Dir_IM_Memory_Data
  <2> QED
    BY <1>2, <1>o, <2>3, <2>8 DEF Dir_IM_Memory_Data
<1>3. ASSUME DirMove("I"), MemPop, UNCHANGED <<mem, dma>>
      PROVE  DirInv'
  <2>1. DirEntry(dir') /\ dir'.st \notin ForOwner
    BY <1>3, DirMoves DEF DirState, ForOwner
  <2> QED
    BY <1>0, <1>3, <2>1, MemPops, DirInvPrimed
<1>4. CASE Dir_Memory_Ack
  <2>1. {Ctl("MEMORY_ACK", "Dir", memq.for)} \in SUBSET WellFormed
    BY Zenon, <1>0, <1>4, DirectorySends DEF Dir_Memory_Ack, ForOwner
  <2>2. NetInv'
    BY Zenon, <1>4, <1>e, <2>1, DirHandleTyped DEF Dir_Memory_Ack
  <2> QED
    BY <1>3, <1>4, <1>o, <2>2 DEF Dir_Memory_Ack
<1>5. CASE Dir_ID_Memory_Data
  <2>1. {ToDMA("DATA", memq.data)} \in SUBSET WellFormed
    BY Zenon, <1>0, <1>5, DmaSends DEF Dir_ID_Memory_Data, ToDMA, Memory_Data, MemEntry
  <2>2. NetInv'
    BY Zenon, <1>5, <1>e, <2>1, DirHandleTyped DEF Dir_ID_Memory_Data
  <2> QED
    BY <1>3, <1>5, <1>o, <2>2 DEF Dir_ID_Memory_Data
<1>6. CASE Dir_ID_W_Memory_Ack
  <2>1. {ToDMA("ACK", NoData)} \in SUBSET WellFormed
    BY Zenon, DmaSends DEF ToDMA
  <2>2. NetInv'
    BY Zenon, <1>6, <1>e, <2>1, DirHandleTyped DEF Dir_ID_W_Memory_Ack
  <2> QED
    BY <1>3, <1>6, <1>o, <2>2 DEF Dir_ID_W_Memory_Ack
<1>7. CASE Dir_M_DWRI_Memory_Ack
  <2>1. {Ctl("MEMORY_ACK", "Dir", memq.for), ToDMA("ACK", NoData)} \in SUBSET WellFormed
    BY Zenon, <1>0, <1>7, DirectorySends, DmaSends DEF Dir_M_DWRI_Memory_Ack, ForOwner, ToDMA
  <2>2. NetInv'
    BY Zenon, <1>7, <1>e, <2>1, DirHandleTyped DEF Dir_M_DWRI_Memory_Ack
  <2> DEFINE f == [dir EXCEPT !.st = "I"]
             d == [f EXCEPT !.patch = NoData]
  <2>4. dir' = d
    BY <1>7, Zenon DEF Dir_M_DWRI_Memory_Ack
  <2>5. f \in DirRec /\ f.st = "I"
    BY <1>0 DEF DirEntry, DirRec, DirState
  <2> HIDE DEF f
  <2>6. d \in DirRec /\ d.st = "I"
    BY <2>5 DEF DirRec
  <2> HIDE DEF d
  <2>7. DirEntry(dir') /\ dir'.st \notin ForOwner
    BY <2>4, <2>6 DEF DirEntry, ForOwner
  <2>8. DirInv'
    BY <1>0, <1>7, <2>7, MemPops, DirInvPrimed DEF Dir_M_DWRI_Memory_Ack
  <2> QED
    BY <1>7, <1>o, <2>2, <2>8 DEF Dir_M_DWRI_Memory_Ack
<1> QED
  BY <1>1, <1>2, <1>4, <1>5, <1>6, <1>7 DEF Dir_Memory

(* Every transition of the directory on a network message preserves the   *)
(* typing.                                                                *)
LEMMA DirMessageTyped ==
    ASSUME DirTyped, NEW m \in net, m.to = "Dir", Dir_Message(m)
    PROVE  DirTyped'
<1> USE DEF DirTyped
<1>0. /\ DirEntry(dir) /\ MemEntry(memq) /\ mem \in Line
      /\ dma \in {"READY", "BUSY_RD", "BUSY_WR"}
      /\ dir.st \in ForOwner => memq.for \in Cluster
  BY DirInvMeans
<1>m. m \in WellFormed
  BY DEF NetInv
<1>f. /\ m.type \in {"GETS", "ACK", "MEMORY_DATA"} => m.from \in Cluster
      /\ m.type = "MEMORY_DATA" => m.data \in Line /\ m.data \in Patch
      /\ m.type = "DMA_WRITE" => m.data \in Patch
      /\ m.data \in Patch \cup {NoData}
  BY <1>m, LineIsPatch DEF WellFormed, ForDir, Carries
<1>e. {} \in SUBSET WellFormed /\ TRUE \in BOOLEAN /\ FALSE \in BOOLEAN
  OBVIOUS
<1>o. UNCHANGED inv /\ Observed => ObserverInv'
  BY DEF Observed, ObserverInv
<1>v. Invalidate(m) /\ Observed => ObserverInv'
  <2>1. Invalidate(m) => inv' \in [Cluster -> Nat]
    <3>1. inv \in [Cluster -> Nat]
      BY DEF ObserverInv
    <3> DEFINE o == dir.owner
    <3>2. Invalidate(m) => inv' = [inv EXCEPT ![o] = inv[o] + 1]
      BY DEF Invalidate
    <3> HIDE DEF o
    <3>3. CASE o \in Cluster
      BY <3>1, <3>2, <3>3
    <3>4. CASE o \notin Cluster
      BY <3>1, <3>2, <3>4
    <3> QED
      BY <3>3, <3>4
  <2> QED
    BY <2>1 DEF Observed, ObserverInv
<1>q. ASSUME NEW st \in DirState \ {"M_DWR"}, DirMove(st), NEW kind \in {"READ", "WB"}, NEW data,
             NEW for \in Cluster \cup {"Dir", "DMA"}, kind = "WB" => data \in Patch,
             kind = "READ" => data = NoData, MemRequest(kind, data, for),
             st \in ForOwner => for \in Cluster, UNCHANGED <<mem, dma>>
      PROVE  DirInv'
  <2>1. DirEntry(dir') /\ dir'.st = st
    BY <1>q, DirMoves
  <2>2. MemEntry(memq') /\ memq'.for = for
    BY <1>q, MemRequests
  <2> QED
    BY <1>0, <1>q, <2>1, <2>2, DirInvPrimed
<1>n. DirHandle({m}, {}, FALSE) => NetInv'
  BY Zenon, <1>e, DirHandleTyped
<1>s. Stall(m) => NetInv'
  BY <1>m DEF Stall, NetInv
<1>u. UNCHANGED <<dir, mem, memq, dma>> => DirInv'
  BY DEF DirInv, DirTypeOK
<1>1. CASE Dir_I_Fetch(m)
  <2>1. DirInv'
    BY <1>1, <1>f, <1>q DEF Dir_I_Fetch, DirState
  <2> QED
    BY <1>1, <1>n, <1>o, <2>1 DEF Dir_I_Fetch
<1>2. CASE Dir_M_Fetch(m)
  BY <1>2, <1>s, <1>u, <1>v DEF Dir_M_Fetch
<1>3. CASE Dir_StallFetch(m)
  BY <1>3, <1>s, <1>u, <1>o DEF Dir_StallFetch
<1>4. CASE Dir_M_CleanReplacement(m)
  <2>1. {Ctl("MEMORY_ACK", "Dir", m.from)} \in SUBSET WellFormed
    BY Zenon, <1>4, <1>f, DirectorySends DEF Dir_M_CleanReplacement
  <2>2. NetInv'
    BY Zenon, <1>4, <1>e, <2>1, DirHandleTyped DEF Dir_M_CleanReplacement
  <2>3. DirEntry(dir') /\ dir'.st \notin ForOwner
    BY <1>4, DirMoves DEF Dir_M_CleanReplacement, DirState, ForOwner
  <2>4. DirInv'
    BY <1>0, <1>4, <2>3, DirInvPrimed DEF Dir_M_CleanReplacement
  <2> QED
    BY <1>4, <1>o, <2>2, <2>4 DEF Dir_M_CleanReplacement
<1>5. CASE Dir_M_Data(m)
  <2>1. DirInv'
    BY <1>5, <1>f, <1>q DEF Dir_M_Data, DirState
  <2> QED
    BY <1>5, <1>n, <1>o, <2>1 DEF Dir_M_Data
<1>6. CASE Dir_I_DMA_READ(m)
  <2>1. DirInv'
    BY <1>6, <1>q DEF Dir_I_DMA_READ, DirState, ForOwner
  <2> QED
    BY <1>6, <1>n, <1>o, <2>1 DEF Dir_I_DMA_READ
<1>7. CASE Dir_I_DMA_WRITE(m)
  <2>1. DirInv'
    BY <1>7, <1>f, <1>q DEF Dir_I_DMA_WRITE, DirState, ForOwner
  <2> QED
    BY <1>7, <1>f, <1>n, <2>1, WrittenTyped DEF Dir_I_DMA_WRITE
<1>8. CASE Dir_M_DMA(m)
  <2> DEFINE st == IF m.type = "DMA_READ" THEN "M_DRD" ELSE "M_DWR"
             f == [dir EXCEPT !.st = st]
             d == [f EXCEPT !.patch = m.data]
  <2>0. st \in DirState /\ st \notin ForOwner /\ (st = "M_DWR" => m.data \in Patch)
    BY <1>8, <1>f DEF Dir_M_DMA, DirState, ForOwner
  <2>1. dir' = d
    BY <1>8, Zenon DEF Dir_M_DMA
  <2> HIDE DEF st
  <2>2. f \in DirRec /\ f.st = st
    BY <1>0, <2>0 DEF DirEntry, DirRec
  <2> HIDE DEF f
  <2>3. d \in DirRec /\ d.st = st /\ d.patch = m.data
    BY <1>f, <2>2 DEF DirRec
  <2> HIDE DEF d
  <2>4. DirEntry(dir') /\ dir'.st \notin ForOwner
    BY <2>0, <2>1, <2>3 DEF DirEntry
  <2>5. DirInv'
    BY <1>0, <1>8, <2>4, DirInvPrimed DEF Dir_M_DMA
  <2> QED
    BY <1>8, <1>n, <1>v, <2>5 DEF Dir_M_DMA
<1>9. CASE Dir_M_DRD_Data(m)
  <2>1. DirInv'
    BY <1>9, <1>f, <1>q DEF Dir_M_DRD_Data, DirState
  <2>2. {ToDMA("DATA", m.data)} \in SUBSET WellFormed
    BY Zenon, <1>9, <1>f, DmaSends DEF Dir_M_DRD_Data, ToDMA
  <2>3. NetInv'
    BY Zenon, <1>9, <1>e, <2>2, DirHandleTyped DEF Dir_M_DRD_Data
  <2> QED
    BY <1>9, <1>o, <2>1, <2>3 DEF Dir_M_DRD_Data
<1>10. CASE Dir_M_DWR_Data(m)
  <2>0. dir.patch \in Patch
    BY <1>0, <1>10 DEF Dir_M_DWR_Data, DirEntry
  <2>1. DirInv'
    BY <1>10, <1>f, <1>q, <2>0 DEF Dir_M_DWR_Data, DirState
  <2> QED
    BY <1>10, <1>n, <2>0, <2>1, WrittenTyped DEF Dir_M_DWR_Data
<1> QED
  BY Zenon, <1>1, <1>2, <1>3, <1>4, <1>5, <1>6, <1>7, <1>8, <1>9, <1>10 DEF Dir_Message

----------------------------------------------------------------------------
(* The typing holds in the initial state. *)
LEMMA TypedInit == Init => Typed
<1> SUFFICES ASSUME Init PROVE Typed
  OBVIOUS
<1> USE DEF Init
<1>1. NetInv
  BY DEF BaseInit, NetInv
<1>2. BufferInv
  BY DEF BaseInit, BufferInv
<1>3. L0Inv
  <2>1. /\ L0Invalid \in [st : L0State, side : {"D", "I"}, data : Line \cup {NoData}, dirty : BOOLEAN]
        /\ L0Invalid.st = "I"
    BY DEF L0Invalid, L0State
  <2> QED
    BY <2>1 DEF L0Init, L0Inv, L0TypeOK
<1>4. L1Inv
  <2>1. /\ L1Invalid \in [st : L1State, data : Line \cup {NoData}, dirty : BOOLEAN, acks : Int]
        /\ L1Invalid.st = "I"
    BY DEF L1Invalid, L1State
  <2> QED
    BY <2>1 DEF L1Init, L1Inv, L1TypeOK
<1>5. L2Inv
  <2>1. \A k \in Cluster : L2Entry(k, L2Absent)
    BY L2AbsentTyped DEF L2Entry
  <2> QED
    BY <2>1, L2AbsentTyped, L2InvMeans DEF L2Init
<1>6. DirInv
  BY MachineAssumption DEF DirInit, DirInv, DirTypeOK, DirState, Idle
<1>7. ObserverInv
  BY MachineAssumption DEF BaseInit, ObserverInv
<1> QED
  BY <1>1, <1>2, <1>3, <1>4, <1>5, <1>6, <1>7 DEF Typed

(* Every step of the hierarchy preserves the typing. *)
LEMMA TypedStep == Typed /\ [Next]_vars => Typed'
<1> SUFFICES ASSUME Typed, [Next]_vars PROVE Typed'
  OBVIOUS
<1> USE DEF Typed
<1>n. UNCHANGED <<net, waiting>> => NetInv'
  BY DEF NetInv
<1>b. UNCHANGED <<up, down, held>> => BufferInv'
  BY DEF BufferInv
<1>l0. UNCHANGED l0 => L0Inv'
  BY DEF L0Inv, L0TypeOK
<1>l1. UNCHANGED l1 => L1Inv'
  BY DEF L1Inv, L1TypeOK
<1>l2. UNCHANGED l2 => L2Inv'
  BY DEF L2Inv, L2TypeOK
<1>d. UNCHANGED <<dir, mem, memq, dma>> => DirInv'
  BY DEF DirInv, DirTypeOK
<1>o. UNCHANGED <<inv, latest, seen>> => ObserverInv'
  BY DEF ObserverInv
<1>1. ASSUME NEW c \in Core, L0_Request(c) \/ L0_Message(c), L0Frame
      PROVE  Typed'
  <2>1. BufferInv' /\ L0Inv' /\ ObserverInv'
    BY <1>1, L0RequestTyped, L0MessageTyped DEF L0Frame, L0Typed
  <2> QED
    BY Zenon, <1>1, <1>n, <1>l1, <1>l2, <1>d, <2>1 DEF L0Frame
<1>2. ASSUME NEW c \in Core, L1_Request(c) \/ L1_L0Message(c) \/ \E m \in net : m.to = c /\ L1_NetMessage(c, m),
             L1Frame
      PROVE  Typed'
  <2>1. NetInv' /\ BufferInv' /\ L1Inv'
    BY <1>2, L1RequestTyped, L1L0MessageTyped, L1NetMessageTyped DEF L1Typed
  <2> QED
    BY Zenon, <1>2, <1>o, <1>l0, <1>l2, <1>d, <2>1 DEF L1Frame
<1>3. ASSUME NEW k \in Cluster, L2_Request(k) \/ L2_DirInv(k), L2Frame
      PROVE  Typed'
  <2>1. NetInv' /\ L2Inv' /\ ObserverInv'
    BY <1>3, L2EvictionTyped DEF L2Typed, L2Frame
  <2> QED
    BY Zenon, <1>3, <1>b, <1>l0, <1>l1, <1>d, <2>1 DEF L2Frame
<1>4. ASSUME NEW k \in Cluster, NEW m \in net, m.to = k, L2_Message(k, m), L2Frame
      PROVE  Typed'
  <2>1. NetInv' /\ L2Inv'
    BY <1>4, L2MessageTyped DEF L2Typed
  <2>2. UNCHANGED inv
    <3>1. CASE L2_PUTX_Ack(k, m) \/ L2_MT_PUTX(k, m) \/ L2_Stall(k, m) \/ L2_NP_GETS(k, m)
      BY Zenon, <3>1 DEF L2_PUTX_Ack, L2_MT_PUTX, L2_Stall, L2_NP_GETS, L2Handle
    <3>2. CASE L2_NP_GETX(k, m) \/ L2_IS_GETS(k, m) \/ L2_SS_GETS(k, m) \/ L2_SS_GETX(k, m)
      BY Zenon, <3>2 DEF L2_NP_GETX, L2_IS_GETS, L2_SS_GETS, L2_SS_GETX, L2Handle
    <3>3. CASE L2_SS_UPGRADE(k, m) \/ L2_M_GETX(k, m) \/ L2_M_GETS(k, m) \/ L2_MT_GETX(k, m)
      BY Zenon, <3>3 DEF L2_SS_UPGRADE, L2_M_GETX, L2_M_GETS, L2_MT_GETX, L2Handle
    <3>4. CASE L2_MT_GETS(k, m) \/ L2_ISS_Mem_Data(k, m) \/ L2_IS_Mem_Data(k, m) \/ L2_IM_Mem_Data(k, m)
      BY Zenon, <3>4 DEF L2_MT_GETS, L2_ISS_Mem_Data, L2_IS_Mem_Data, L2_IM_Mem_Data, L2Handle
    <3>5. CASE L2_Exclusive_Unblock(k, m) \/ L2_MT_IIB_Unblock(k, m) \/ L2_MT_SB_Unblock(k, m) \/ L2_MT_IIB_WB(k, m)
      BY Zenon, <3>5 DEF L2_Exclusive_Unblock, L2_MT_IIB_Unblock, L2_MT_SB_Unblock, L2_MT_IIB_WB, L2Handle
    <3>6. CASE L2_MT_IB_WB(k, m) \/ L2_Ack(k, m) \/ L2_I_I_Ack_all(k, m) \/ L2_S_I_Ack_all(k, m)
      BY Zenon, <3>6 DEF L2_MT_IB_WB, L2_Ack, L2_I_I_Ack_all, L2_S_I_Ack_all, L2Handle
    <3>7. CASE L2_MT_I_WB_Data(k, m) \/ L2_MCT_I_Clean(k, m) \/ L2_MT_I_Clean(k, m) \/ L2_Mem_Ack(k, m)
      BY Zenon, <3>7 DEF L2_MT_I_WB_Data, L2_MCT_I_Clean, L2_MT_I_Clean, L2_Mem_Ack, L2Handle
    <3> QED
      BY Zenon, <1>4, <3>1, <3>2, <3>3, <3>4, <3>5, <3>6, <3>7 DEF L2_Message
  <2> QED
    BY Zenon, <1>4, <1>b, <1>l0, <1>l1, <1>d, <1>o, <2>1, <2>2 DEF L2Frame
<1>5. ASSUME DMA_Request \/ Dir_Memory \/ \E m \in net : (m.to = "Dir" /\ Dir_Message(m)) \/ DMA_Message(m),
             DirFrame
      PROVE  Typed'
  <2>1. NetInv' /\ DirInv' /\ ObserverInv'
    BY <1>5, DmaRequestTyped, DirMemoryTyped, DirMessageTyped, DmaMessageTyped DEF DirTyped
  <2> QED
    BY Zenon, <1>5, <1>b, <1>l0, <1>l1, <1>l2, <2>1 DEF DirFrame
<1>6. CASE UNCHANGED vars
  BY Zenon, <1>6, <1>n, <1>b, <1>l0, <1>l1, <1>l2, <1>d, <1>o DEF vars
<1>7. CASE Request
  BY Zenon, <1>7, <1>1, <1>2, <1>3, <1>5 DEF Request
<1>8. CASE React
  <2>1. ASSUME NEW m \in net, Receive(m) PROVE Typed'
    BY Zenon, <2>1, <1>2, <1>4, <1>5 DEF Receive
  <2> QED
    BY Zenon, <1>8, <1>1, <1>2, <1>3, <1>5, <2>1 DEF React
<1> QED
  BY <1>6, <1>7, <1>8 DEF Next

(* Every message in flight is one its receiver expects from its sender,   *)
(* carries the block where its handler reads one, and every entry whose   *)
(* state promises a block has a whole line, in every reachable state of   *)
(* any number of cores and clusters.                                      *)
THEOREM TypedHolds == Spec => []Typed
<1>1. Init => Typed
  BY TypedInit
<1>2. Typed /\ [Next]_vars => Typed'
  BY TypedStep
<1> QED
  BY <1>1, <1>2, PTL DEF Spec

(* The typing contains the type invariant. *)
LEMMA TypedImpliesTypeOK == Typed => TypeOK
<1> SUFFICES ASSUME Typed PROVE TypeOK
  OBVIOUS
<1>1. ForL1Queue \subseteq UpMessage
  BY DEF ForL1Queue, UpMessage
<1>2. ForL0Queue \subseteq DownMessage
  BY DEF ForL0Queue, DownMessage
<1>3. \A c \in Core : /\ \A i \in DOMAIN up[c] : up[c][i] \in ForL1Queue
                      /\ \A i \in DOMAIN down[c] : down[c][i] \in ForL0Queue
                      /\ \A i \in DOMAIN held[c] : held[c][i] \in ForL1Queue
  BY DEF Typed, BufferInv
<1>4. net \subseteq Message /\ waiting \subseteq Message
  BY DEF Typed, NetInv, WellFormed
<1>5. \A c \in Core : /\ \A i \in DOMAIN up[c] : up[c][i] \in UpMessage
                      /\ \A i \in DOMAIN down[c] : down[c][i] \in DownMessage
                      /\ \A i \in DOMAIN held[c] : held[c][i] \in UpMessage
  BY <1>1, <1>2, <1>3, Zenon
<1>6. inv \in [Cluster -> Nat] /\ latest \in Line /\ seen \in [Reader -> SUBSET Line]
  BY DEF Typed, ObserverInv
<1>7. BaseTypeOK
  BY Zenon, <1>4, <1>5, <1>6 DEF BaseTypeOK
<1> QED
  BY <1>7 DEF TypeOK, Typed, L0Inv, L1Inv, L2Inv, DirInv

(* TypeOK holds in every reachable state: no handler writes a field, a    *)
(* message or a counter outside its type, and no invalidation of the      *)
(* directory is popped twice.                                             *)
THEOREM TypeCorrect == Spec => []TypeOK
BY TypedHolds, TypedImpliesTypeOK, PTL
=============================================================================
