----------------------------- MODULE MersiBase -----------------------------
(***************************************************************************)
(* What the controllers of the X86_MERSI_Three_Level build share: the      *)
(* message buffers between them, the stall-and-wait tables, and the two    *)
(* observer variables the data properties are stated with.                 *)
(*                                                                         *)
(* One cache line is modelled.  Ruby keeps no state that spans lines       *)
(* except the choice of a victim, so a request for another line shows up   *)
(* here only as a replacement of this one.  A core's L0 and L1 carry the   *)
(* core's name, an L2 carries the name of its cluster.                     *)
(***************************************************************************)
EXTENDS Integers, FiniteSets, Sequences

CONSTANTS
    Core,       \* processors, each with a private L0 and L1
    Cluster,    \* clusters, each with one L2 for the line
    ClusterOf,  \* the cluster of each core
    Word,       \* the words of the line a partial write can tell apart
    FirstWord,  \* the word at the address of the line
    Value,      \* the values of a word
    InitLine,   \* what memory holds at the start
    NoData      \* the block of a message or an entry that carries none

Line == [Word -> Value]

(* A DMA write may carry some of the words only. *)
Patch == UNION {[W -> Value] : W \in SUBSET Word}

ASSUME MachineAssumption ==
    /\ IsFiniteSet(Core)
    /\ ClusterOf \in [Core -> Cluster]
    /\ FirstWord \in Word
    /\ InitLine \in Line
    /\ NoData \notin Line \cup Patch
    /\ Core \cap Cluster = {}
    /\ {"Dir", "DMA"} \cap (Core \cup Cluster) = {}

VARIABLES
    net,      \* the unordered network buffers, as one set of messages
    waiting,  \* network messages parked by stall_and_wait at their receiver
    up,       \* bufferToL1 of each core, ordered
    down,     \* bufferFromL1 of each core, ordered
    held,     \* the L0 requests parked by stall_and_wait at the L1
    inv,      \* invalidations the directory has sent and the L2 not popped
    latest,   \* observer: the line as the last store or DMA write left it
    seen      \* observer: the contents the line has had since a pending read
              \* of this reader was issued, {} when it has no pending read

RequestType  == {"GETS", "GETX", "UPGRADE", "PUTX", "INV", "DMA_READ", "DMA_WRITE"}
ResponseType == {"DATA", "DATA_EXCLUSIVE", "ACK", "WB_ACK", "UNBLOCK",
                 "EXCLUSIVE_UNBLOCK", "MEMORY_DATA", "MEMORY_ACK"}
Node   == Core \cup Cluster \cup {"Dir", "DMA"}
Reader == Core \cup {"DMA"}

(* RequestMsg and ResponseMsg.  "from" is the Requestor of a request and    *)
(* the Sender of a response: an INV names the node its ack must go to.      *)
Message == [type : RequestType \cup ResponseType, from : Node, to : Node,
            data : Line \cup Patch \cup {NoData}, dirty : BOOLEAN, acks : Int]

DataMsg(type, from, to, data, dirty, acks) ==
    [type |-> type, from |-> from, to |-> to,
     data |-> data, dirty |-> dirty, acks |-> acks]

Ctl(type, from, to)    == DataMsg(type, from, to, NoData, FALSE, 0)
Ack(from, to, acks)    == DataMsg("ACK", from, to, NoData, FALSE, acks)
IsRequest(m)           == m.type \in RequestType

(* The CoherenceMsg between an L0 and its L1. *)
UpClass   == {"GETS", "GETX", "UPGRADE", "PUTX", "INV_ACK", "INV_DATA"}
DownClass == {"DATA", "DATA_EXCLUSIVE", "STALE_DATA", "INV_OWN", "INV_ELSE"}
UpMessage   == [class : UpClass, data : Line \cup {NoData}, dirty : BOOLEAN]
DownMessage == [class : DownClass, data : Line \cup {NoData}]

UpMsg(class, data, dirty) == [class |-> class, data |-> data, dirty |-> dirty]
DownMsg(class, data)      == [class |-> class, data |-> data]

(* stall_and_wait parks a message until its receiver wakes the line up.     *)
Parked(n) == {m \in waiting : m.to = n}

Stall(m) ==
    /\ net' = net \ {m}
    /\ waiting' = waiting \cup {m}

(* A handler pops some messages, sends others, and may wake up the parked   *)
(* ones of its own node.                                                    *)
Exchange(n, pop, send, wake) ==
    /\ net' = (net \ pop) \cup send \cup (IF wake THEN Parked(n) ELSE {})
    /\ waiting' = IF wake THEN waiting \ Parked(n) ELSE waiting

(* The line written over by some of its words. *)
Overlay(patch, line) ==
    [w \in Word |-> IF w \in DOMAIN patch THEN patch[w] ELSE line[w]]

(* A store or DMA write takes its place in the order of writes. *)
Written(patch) ==
    /\ latest' = Overlay(patch, latest)
    /\ seen' = [r \in Reader |-> IF seen[r] = {} THEN {}
                                 ELSE seen[r] \cup {Overlay(patch, latest)}]

BaseInit ==
    /\ net = {} /\ waiting = {}
    /\ up   = [c \in Core |-> <<>>]
    /\ down = [c \in Core |-> <<>>]
    /\ held = [c \in Core |-> <<>>]
    /\ inv  = [k \in Cluster |-> 0]
    /\ latest = InitLine
    /\ seen = [r \in Reader |-> {}]

BaseTypeOK ==
    /\ net \subseteq Message /\ waiting \subseteq Message
    /\ \A c \in Core :
         /\ \A i \in DOMAIN up[c] : up[c][i] \in UpMessage
         /\ \A i \in DOMAIN down[c] : down[c][i] \in DownMessage
         /\ \A i \in DOMAIN held[c] : held[c][i] \in UpMessage
    /\ inv \in [Cluster -> Nat]
    /\ latest \in Line
    /\ seen \in [Reader -> SUBSET Line]
=============================================================================
