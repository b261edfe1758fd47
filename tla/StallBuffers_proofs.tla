------------------------- MODULE StallBuffers_proofs -------------------------
(***************************************************************************)
(* For every set of lines, number of requests, latency and buffer size:    *)
(* no message is forgotten in a stall table, no buffer is reanalyzed for   *)
(* nothing, no buffer overflows, no wakeup is lost, and no ordered buffer  *)
(* is sent a message out of order.                                         *)
(***************************************************************************)
EXTENDS StallBuffers, FiniteSetTheorems, WellFoundedInduction, TLAPS

USE SMTT(20), ZenonT(20)

\* The discipline of the five controllers that wakeUpBuffers relies on: each
\* port that stalls has a rank of its own, and where only lower ranks are
\* woken, every port that wakes outranks every port that stalls.  No port
\* with an ordered buffer recycles.
LEMMA PortDiscipline ==
    ASSUME NEW c \in Controllers
    PROVE  /\ c.rank \in [Port -> Rank]
           /\ c.stalls \subseteq Port /\ c.wakes \subseteq Port
           /\ c.wake \in {"lower", "line", "all"}
           /\ \A p, q \in c.stalls : c.rank[p] = c.rank[q] => p = q
           /\ c.wake = "lower" =>
                \A p \in c.stalls, q \in c.wakes : c.rank[p] < c.rank[q]
           /\ c.ordered \cap c.recycles = {}
<1>. DEFINE Good(d) ==
           /\ d.rank \in [Port -> Rank]
           /\ d.stalls \subseteq Port /\ d.wakes \subseteq Port
           /\ d.wake \in {"lower", "line", "all"}
           /\ \A p, q \in d.stalls : d.rank[p] = d.rank[q] => p = q
           /\ d.wake = "lower" =>
                \A p \in d.stalls, q \in d.wakes : d.rank[p] < d.rank[q]
           /\ d.ordered \cap d.recycles = {}
<1>1. <<2, 1, 0>> \in [Port -> Rank] /\ <<0, 1, 2>> \in [Port -> Rank]
      /\ <<0, 0, 0>> \in [Port -> Rank]
  BY DEF Port, Rank
<1>2. Good(L0Ports)
  BY <1>1 DEF L0Ports, Port
<1>3. Good(L1Ports)
  BY <1>1 DEF L1Ports, Port
<1>4. Good(L2Ports)
  BY <1>1 DEF L2Ports, Port
<1>5. Good(DirPorts)
  BY <1>1 DEF DirPorts, Port
<1>6. Good(DMAPorts)
  BY <1>1 DEF DMAPorts, Port
<1>. QED
  BY <1>2, <1>3, <1>4, <1>5, <1>6 DEF Controllers

-----------------------------------------------------------------------------

\* Where messages are: unused ones past the counter, requests on the ports
\* that stall, responses on the ports that wake, and only requests stalled.
Placed ==
    \A m \in Msg :
        /\ m > count => msg[m].st = "none"
        /\ msg[m].st \in {"heap", "stalled"} =>
              msg[m].port \in (IF msg[m].kind = "req" THEN ctl.stalls ELSE ctl.wakes)
        /\ msg[m].st = "stalled" => msg[m].kind = "req"

\* A registration names a port that stalls, under the rank of that port.
Ranked ==
    \A a \in Line, r \in Rank :
        waiting[a][r] # NULL =>
            waiting[a][r] \in ctl.stalls /\ ctl.rank[waiting[a][r]] = r

\* A registered port has a message stalled on the address.
Backed ==
    \A a \in Line, r \in Rank :
        waiting[a][r] # NULL =>
            \E m \in Msg : /\ msg[m].st = "stalled" /\ msg[m].on = a
                          /\ msg[m].port = waiting[a][r]

IInv == TypeOK /\ Placed /\ Ranked /\ StalledIsRegistered /\ Backed

\* A latency is a number of cycles, and not zero.
LEMMA LatencyType ==
    ASSUME NEW p, NEW d \in Latency(p)
    PROVE  d \in Nat /\ d > 0
BY BoundAssumption DEF Latency

\* A message outside the buffers has the type of a message.
LEMMA OutsideType ==
    ASSUME NEW st \in {"none", "done"}, NEW kind \in {"req", "resp"}
    PROVE  Outside(st, kind) \in MsgRecord /\ Outside(st, kind).st = st
BY BoundAssumption DEF Outside, MsgRecord, Port

\* Empty buffers and an empty table of waiting buffers satisfy the invariant.
LEMMA InitHolds == Init => IInv
<1>. SUFFICES ASSUME Init PROVE IInv
  OBVIOUS
<1>1. NULL \in Port \cup {NULL} /\ NothingYet \in [popped : BOOLEAN, size : Nat, enqueued : Nat]
  BY DEF NothingYet
<1>2. TypeOK
  BY <1>1, OutsideType, BoundAssumption DEF Init, TypeOK, NoneWaiting
<1>3. \A m \in Msg : msg[m].st = "none"
  BY OutsideType DEF Init
<1>4. \A a \in Line, r \in Rank : waiting[a][r] = NULL
  BY DEF Init, NoneWaiting
<1>. QED
  BY <1>2, <1>3, <1>4 DEF IInv, Placed, Ranked, StalledIsRegistered, Backed

\* There are finitely many messages.
LEMMA MsgFinite == IsFiniteSet(Msg)
<1>1. 1 \in Int /\ 2 * MaxRequests \in Int
  BY BoundAssumption
<1>. QED
  BY <1>1, FS_Interval DEF Msg

\* A buffer holds finitely many messages, and at most as many as a superset.
LEMMA HeldFinite ==
    ASSUME NEW p
    PROVE  IsFiniteSet(Held(p)) /\ Cardinality(Held(p)) \in Nat
<1>1. IsFiniteSet(Msg)
  BY MsgFinite
<1>2. Held(p) \subseteq Msg
  BY DEF Held
<1>. QED
  BY <1>1, <1>2, FS_Subset, FS_CardinalityType

\* What dequeue records of a cycle keeps its type.
LEMMA NotePopType ==
    ASSUME TypeOK, NEW p \in Port
    PROVE  NotePop(p) \in [Port -> [popped : BOOLEAN, size : Nat, enqueued : Nat]]
BY HeldFinite DEF TypeOK, NotePop

\* A new message is in the heap: nothing that is stalled or registered changes.
LEMMA EnqueueKeeps ==
    ASSUME IInv, NEW kind \in {"req", "resp"}, NEW p \in Port, NEW a \in Line,
           NEW delta \in Nat, enqueue(count + 1, kind, p, a, delta),
           p \in (IF kind = "req" THEN ctl.stalls ELSE ctl.wakes),
           UNCHANGED <<ctl, maxSize, waiting>>
    PROVE  IInv'
<1>. DEFINE new == [st |-> "heap", kind |-> kind, port |-> p,
                    line |-> a, on |-> a, wait |-> delta, tries |-> 0]
<1>1. new \in MsgRecord /\ new.st = "heap" /\ new.kind = kind /\ new.port = p
  BY DEF MsgRecord
<1>. HIDE DEF new
<1>2. msg' = [msg EXCEPT ![count + 1] = new] /\ count' = count + 1
  BY DEF enqueue, new
<1>3. TypeOK'
  <2>1. msg' \in [Msg -> MsgRecord]
    BY <1>1, <1>2 DEF IInv, TypeOK
  <2>4. count' \in Nat
    BY <1>2 DEF IInv, TypeOK
  <2>2. cyc[p].enqueued + 1 \in Nat
    BY DEF IInv, TypeOK
  <2>3. cyc' \in [Port -> [popped : BOOLEAN, size : Nat, enqueued : Nat]]
    BY <2>2 DEF IInv, TypeOK, enqueue
  <2>. QED BY <2>1, <2>3, <2>4 DEF IInv, TypeOK
<1>4. Placed'
  BY <1>1, <1>2 DEF IInv, TypeOK, Placed, Msg
<1>5. \A m \in Msg : msg[m].st = "stalled" => msg'[m] = msg[m]
  BY <1>2 DEF IInv, TypeOK, Placed, Msg
<1>6. \A m \in Msg : msg'[m].st = "stalled" => msg'[m] = msg[m]
  BY <1>1, <1>2 DEF IInv, TypeOK, Placed, Msg
<1>. QED
  BY <1>3, <1>4, <1>5, <1>6
  DEF IInv, Ranked, StalledIsRegistered, Backed

\* stallBuffer and stallMessage together: the message is stalled and its port
\* registered, under a rank that no other port that stalls has.
LEMMA StallKeeps ==
    ASSUME IInv, NEW m \in Msg, NEW a \in Line, Stall(m, a)
    PROVE  IInv'
<1>. DEFINE p == msg[m].port
<1>1. m \in Msg /\ msg[m].st = "heap" /\ msg[m].kind = "req" /\ p \in ctl.stalls
  BY DEF Stall, Takes, Triggers, isReady, InHeap, IInv, Placed
<1>2. /\ p \in Port /\ ctl.rank \in [Port -> Rank] /\ ctl.rank[p] \in Rank
      /\ \A q \in ctl.stalls : ctl.rank[q] = ctl.rank[p] => q = p
  BY <1>1, PortDiscipline DEF IInv, TypeOK
<1>3. /\ msg' = [msg EXCEPT ![m].st = "stalled", ![m].on = a]
      /\ waiting' = [waiting EXCEPT ![a][ctl.rank[p]] = p]
      /\ cyc' = NotePop(p)
      /\ UNCHANGED <<ctl, maxSize, count>>
  BY DEF Stall, Takes, stallBuffer, stallMessage
<1>4. TypeOK'
  <2>1. cyc' \in [Port -> [popped : BOOLEAN, size : Nat, enqueued : Nat]]
    BY <1>2, <1>3, NotePopType DEF IInv, TypeOK
  <2>2. msg' \in [Msg -> MsgRecord]
    <3>1. [msg[m] EXCEPT !.st = "stalled", !.on = a] \in MsgRecord
      BY DEF IInv, TypeOK, MsgRecord
    <3>. QED BY <1>3, <3>1 DEF IInv, TypeOK
  <2>3. waiting' \in [Line -> [Rank -> Port \cup {NULL}]]
    BY <1>2, <1>3 DEF IInv, TypeOK
  <2>. QED BY <1>3, <2>1, <2>2, <2>3 DEF IInv, TypeOK
<1>5. Placed'
  BY <1>1, <1>3 DEF IInv, TypeOK, Placed, MsgRecord
<1>6. Ranked'
  BY <1>1, <1>2, <1>3 DEF IInv, TypeOK, Ranked
<1>7. StalledIsRegistered'
  <2>1. \A k \in Msg : msg'[k].st = "stalled" =>
           waiting'[msg'[k].on][ctl.rank[msg'[k].port]] = msg'[k].port
    <3>. SUFFICES ASSUME NEW k \in Msg, msg'[k].st = "stalled"
                  PROVE  waiting'[msg'[k].on][ctl.rank[msg'[k].port]] = msg'[k].port
      OBVIOUS
    <3>1. waiting'[a][ctl.rank[p]] = p
      BY <1>2, <1>3 DEF IInv, TypeOK
    <3>2. CASE k = m
      <4>1. msg'[k].on = a /\ msg'[k].port = p
        BY <1>3, <3>2 DEF IInv, TypeOK, MsgRecord
      <4>. QED BY <3>1, <4>1
    <3>3. CASE k # m
      <4>1. msg'[k] = msg[k] /\ msg[k].st = "stalled"
        BY <1>3, <3>3 DEF IInv, TypeOK
      <4>2. msg[k].on \in Line /\ msg[k].port \in ctl.stalls
        BY <4>1 DEF IInv, TypeOK, Placed, MsgRecord
      <4>3. ctl.rank[msg[k].port] \in Rank
        BY <1>2, <4>2, PortDiscipline DEF IInv, TypeOK
      <4>4. waiting[msg[k].on][ctl.rank[msg[k].port]] = msg[k].port
        BY <4>1 DEF IInv, StalledIsRegistered
      <4>5. CASE msg[k].on = a /\ ctl.rank[msg[k].port] = ctl.rank[p]
        BY <1>2, <3>1, <4>1, <4>2, <4>5
      <4>6. CASE ~(msg[k].on = a /\ ctl.rank[msg[k].port] = ctl.rank[p])
        <5>1. waiting'[msg[k].on][ctl.rank[msg[k].port]] = waiting[msg[k].on][ctl.rank[msg[k].port]]
          BY <1>2, <1>3, <4>2, <4>3, <4>6 DEF IInv, TypeOK
        <5>. QED BY <4>1, <4>4, <5>1
      <4>. QED BY <4>5, <4>6
    <3>. QED BY <3>2, <3>3
  <2>. QED BY <1>3, <2>1 DEF StalledIsRegistered
<1>8. Backed'
  <2>. SUFFICES ASSUME NEW b \in Line, NEW r \in Rank, waiting'[b][r] # NULL
                PROVE  \E k \in Msg : /\ msg'[k].st = "stalled" /\ msg'[k].on = b
                                      /\ msg'[k].port = waiting'[b][r]
    BY DEF Backed, NULL
  <2>1. msg'[m].st = "stalled" /\ msg'[m].on = a /\ msg'[m].port = p
    BY <1>3 DEF IInv, TypeOK, MsgRecord
  <2>2. \A k \in Msg : msg[k].st = "stalled" => msg'[k] = msg[k]
    BY <1>1, <1>3 DEF IInv, TypeOK
  <2>3. CASE b = a /\ r = ctl.rank[p]
    BY <1>2, <1>3, <2>1, <2>3 DEF IInv, TypeOK
  <2>4. CASE ~(b = a /\ r = ctl.rank[p])
    <3>1. waiting'[b][r] = waiting[b][r]
      BY <1>2, <1>3, <2>4 DEF IInv, TypeOK
    <3>. QED BY <2>2, <3>1 DEF IInv, Backed
  <2>. QED BY <2>3, <2>4
<1>. QED
  BY <1>4, <1>5, <1>6, <1>7, <1>8 DEF IInv

\* Turning a message back changes neither its place nor a registration.
LEMMA RecycleKeeps ==
    ASSUME IInv, NEW m \in Msg, Recycle(m)
    PROVE  IInv'
<1>1. /\ msg' = [msg EXCEPT ![m].wait = RecycleLatency, ![m].tries = @ + 1]
      /\ UNCHANGED <<ctl, maxSize, count, cyc, waiting>>
  BY DEF Recycle, recycle, Takes
<1>2. msg' \in [Msg -> MsgRecord]
  <2>1. msg[m] \in MsgRecord /\ msg[m].tries + 1 \in Nat /\ RecycleLatency \in Nat
    BY BoundAssumption DEF IInv, TypeOK, MsgRecord
  <2>2. [msg[m] EXCEPT !.wait = RecycleLatency, !.tries = @ + 1] \in MsgRecord
    BY <2>1 DEF MsgRecord
  <2>. QED BY <1>1, <2>2 DEF IInv, TypeOK
<1>3. \A k \in Msg : /\ msg'[k].st = msg[k].st /\ msg'[k].kind = msg[k].kind
                     /\ msg'[k].port = msg[k].port /\ msg'[k].on = msg[k].on
  BY <1>1 DEF IInv, TypeOK, MsgRecord
<1>4. TypeOK'
  BY <1>1, <1>2 DEF IInv, TypeOK
<1>5. UNCHANGED <<ctl, count, waiting>>
  BY <1>1
<1>6. Placed'
  BY <1>3, <1>5 DEF IInv, Placed
<1>7. Ranked'
  BY <1>5 DEF IInv, Ranked
<1>8. StalledIsRegistered'
  BY <1>3, <1>5 DEF IInv, StalledIsRegistered
<1>9. Backed'
  BY <1>3, <1>5 DEF IInv, Backed
<1>. QED
  BY <1>4, <1>6, <1>7, <1>8, <1>9 DEF IInv

\* A request that is served leaves its buffer.
LEMMA ServeKeeps ==
    ASSUME IInv, NEW m \in Msg, Serve(m)
    PROVE  IInv'
<1>1. msg[m] \in MsgRecord /\ msg[m].st = "heap" /\ msg[m].port \in Port
  BY DEF Serve, Takes, Triggers, isReady, InHeap, IInv, TypeOK, MsgRecord
<1>2. /\ msg' = [msg EXCEPT ![m] = Outside("done", "req")]
      /\ cyc' = NotePop(msg[m].port)
      /\ UNCHANGED <<ctl, maxSize, count, waiting>>
  BY DEF Serve, Takes, dequeue
<1>3. TypeOK'
  <2>1. Outside("done", "req") \in MsgRecord
    BY OutsideType
  <2>2. msg' \in [Msg -> MsgRecord]
    BY <1>2, <2>1 DEF IInv, TypeOK
  <2>3. cyc' \in [Port -> [popped : BOOLEAN, size : Nat, enqueued : Nat]]
    BY <1>1, <1>2, NotePopType DEF IInv
  <2>. QED BY <1>2, <2>2, <2>3 DEF IInv, TypeOK
<1>4. \A k \in Msg : k # m => msg'[k] = msg[k]
  BY <1>2 DEF IInv, TypeOK
<1>5. msg'[m].st = "done"
  BY <1>1, <1>2, OutsideType DEF IInv, TypeOK
<1>6. Placed'
  BY <1>1, <1>2, <1>4, <1>5 DEF IInv, Placed
<1>7. StalledIsRegistered' /\ Ranked'
  BY <1>2, <1>4, <1>5 DEF IInv, Ranked, StalledIsRegistered
<1>8. \A k \in Msg : msg[k].st = "stalled" => msg'[k] = msg[k]
  BY <1>1, <1>4
<1>9. Backed'
  BY <1>2, <1>8 DEF IInv, Backed
<1>. QED
  BY <1>3, <1>6, <1>7, <1>9 DEF IInv

\* The transition that ends a transaction.  What it unregisters it also wakes:
\* a port registered at the address has a rank below the port that wakes,
\* where only lower ranks are looked at.
LEMMA FinishKeeps ==
    ASSUME IInv, NEW m \in Msg, Finish(m)
    PROVE  IInv'
<1>. DEFINE p == msg[m].port
            a == msg[m].line
            woken == Woken(p, a)
<1>1. /\ msg[m] \in MsgRecord /\ msg[m].st = "heap" /\ msg[m].kind = "resp"
      /\ p \in Port /\ p \in ctl.wakes /\ a \in Line
  BY DEF Finish, Takes, Triggers, isReady, InHeap, IInv, TypeOK, MsgRecord, Placed
<1>2. /\ msg' = [k \in Msg |-> IF k = m THEN Outside("done", "resp")
                               ELSE IF k \in woken THEN [msg[k] EXCEPT !.st = "heap"]
                               ELSE msg[k]]
      /\ cyc' = NotePop(p)
      /\ waiting' = Unregister(a)
      /\ UNCHANGED <<ctl, maxSize, count>>
  BY DEF Finish, Takes, dequeue
<1>3. /\ ctl.rank \in [Port -> Rank] /\ ctl.wake \in {"lower", "line", "all"}
      /\ ctl.wake = "lower" => \A q \in ctl.stalls : ctl.rank[q] < ctl.rank[p]
  BY <1>1, PortDiscipline DEF IInv, TypeOK
<1>4. \A k \in Msg : /\ k # m /\ k \notin woken => msg'[k] = msg[k]
                     /\ k \in woken => msg[k].st = "stalled"
  BY <1>2 DEF Woken
<1>5. \A k \in woken : /\ k # m /\ msg'[k] = [msg[k] EXCEPT !.st = "heap"]
                        /\ msg'[k] \in MsgRecord /\ msg'[k].st = "heap"
                        /\ msg'[k].kind = msg[k].kind /\ msg'[k].port = msg[k].port
  BY <1>1, <1>2 DEF Woken, IInv, TypeOK, MsgRecord
<1>6. msg'[m] \in MsgRecord /\ msg'[m].st = "done"
  BY <1>1, <1>2, OutsideType
<1>7. waiting' \in [Line -> [Rank -> Port \cup {NULL}]]
  BY <1>1, <1>2 DEF Unregister, NoneWaiting, IInv, TypeOK
<1>8. TypeOK'
  <2>1. \A k \in Msg : msg'[k] \in MsgRecord
    BY <1>4, <1>5, <1>6 DEF IInv, TypeOK
  <2>2. msg' \in [Msg -> MsgRecord]
    BY <1>2, <2>1
  <2>. QED BY <1>1, <1>2, <1>7, <2>2, NotePopType DEF IInv, TypeOK
<1>9. \A k \in Msg : msg'[k].st # "none" => msg[k].st # "none"
  BY <1>1, <1>4, <1>5, <1>6
<1>10. Placed'
  <2>. SUFFICES ASSUME NEW k \in Msg
                PROVE  /\ k > count => msg'[k].st = "none"
                       /\ msg'[k].st \in {"heap", "stalled"} =>
                            msg'[k].port \in (IF msg'[k].kind = "req" THEN ctl.stalls
                                              ELSE ctl.wakes)
                       /\ msg'[k].st = "stalled" => msg'[k].kind = "req"
    BY <1>2 DEF Placed
  <2>1. CASE k = m
    BY <1>1, <1>6, <2>1 DEF IInv, Placed
  <2>2. CASE k \in woken
    BY <1>4, <1>5, <2>2 DEF IInv, Placed
  <2>3. CASE k # m /\ k \notin woken
    BY <1>4, <2>3 DEF IInv, Placed
  <2>. QED BY <2>1, <2>2, <2>3
<1>11. \A b \in Line, r \in Rank :
          waiting'[b][r] # NULL => /\ waiting'[b][r] = waiting[b][r]
                                   /\ b # a /\ ctl.wake # "all"
  BY <1>1, <1>2 DEF Unregister, NoneWaiting, IInv, TypeOK
<1>12. Ranked'
  BY <1>2, <1>11 DEF IInv, Ranked, NULL
<1>13. \A k \in Msg : msg'[k].st = "stalled" =>
           /\ msg'[k] = msg[k] /\ k \notin woken
           /\ msg[k].port \in ctl.stalls /\ msg[k].on \in Line /\ msg[k].port \in Port
  BY <1>4, <1>5, <1>6 DEF IInv, TypeOK, Placed, MsgRecord
<1>14. \A k \in Msg : msg'[k].st = "stalled" => msg[k].on # a /\ ctl.wake # "all"
  <2>. SUFFICES ASSUME NEW k \in Msg, msg'[k].st = "stalled",
                       msg[k].on = a \/ ctl.wake = "all"
                PROVE  FALSE
    OBVIOUS
  <2>1. msg[k].st = "stalled" /\ k \notin woken /\ msg[k].on \in Line
        /\ msg[k].port \in ctl.stalls /\ msg[k].port \in Port
    BY <1>13
  <2>2. waiting[msg[k].on][ctl.rank[msg[k].port]] = msg[k].port
        /\ ctl.rank[msg[k].port] \in Rank
    BY <1>3, <2>1 DEF IInv, StalledIsRegistered
  <2>3. CASE ctl.wake = "all"
    BY <2>1, <2>2, <2>3 DEF Woken
  <2>4. CASE ctl.wake = "line"
    BY <2>1, <2>2, <2>4 DEF Woken
  <2>5. CASE ctl.wake = "lower"
    <3>1. ctl.rank[msg[k].port] < ctl.rank[p] /\ msg[k].on = a
      BY <1>3, <2>1, <2>5
    <3>. QED BY <2>1, <2>2, <2>5, <3>1 DEF Woken
  <2>. QED BY <1>3, <2>3, <2>4, <2>5
<1>15. StalledIsRegistered'
  <2>1. \A b \in Line : b # a /\ ctl.wake # "all" => waiting'[b] = waiting[b]
    BY <1>1, <1>2 DEF Unregister, IInv, TypeOK
  <2>2. \A k \in Msg : msg'[k].st = "stalled" =>
           waiting'[msg'[k].on][ctl.rank[msg'[k].port]] = msg'[k].port
    BY <1>13, <1>14, <2>1 DEF IInv, StalledIsRegistered
  <2>. QED BY <1>2, <2>2 DEF StalledIsRegistered
<1>16. Backed'
  <2>1. \A k \in Msg : msg[k].st = "stalled" /\ msg[k].on # a /\ ctl.wake # "all"
            => msg'[k] = msg[k]
    BY <1>1, <1>3, <1>4 DEF Woken
  <2>. QED BY <1>11, <2>1 DEF IInv, Backed, NULL
<1>. QED
  BY <1>8, <1>10, <1>12, <1>15, <1>16 DEF IInv

\* Time passes: messages come closer, and the buffers forget the last cycle.
LEMMA TickKeeps ==
    ASSUME IInv, Tick
    PROVE  IInv'
<1>1. /\ msg' = [m \in Msg |-> IF msg[m].wait > 0
                              THEN [msg[m] EXCEPT !.wait = @ - 1] ELSE msg[m]]
      /\ cyc' = [p \in Port |-> NothingYet]
      /\ UNCHANGED <<ctl, maxSize, count, waiting>>
  BY DEF Tick
<1>2. \A k \in Msg : /\ msg'[k] \in MsgRecord
                     /\ msg'[k].st = msg[k].st /\ msg'[k].kind = msg[k].kind
                     /\ msg'[k].port = msg[k].port /\ msg'[k].on = msg[k].on
  <2>. SUFFICES ASSUME NEW k \in Msg
                PROVE  /\ msg'[k] \in MsgRecord
                       /\ msg'[k].st = msg[k].st /\ msg'[k].kind = msg[k].kind
                       /\ msg'[k].port = msg[k].port /\ msg'[k].on = msg[k].on
    OBVIOUS
  <2>1. msg[k] \in MsgRecord
    BY DEF IInv, TypeOK
  <2>2. CASE msg[k].wait > 0
    <3>1. msg'[k] = [msg[k] EXCEPT !.wait = @ - 1] /\ msg[k].wait - 1 \in Nat
      BY <1>1, <2>1, <2>2 DEF MsgRecord
    <3>. QED BY <2>1, <3>1 DEF MsgRecord
  <2>3. CASE ~(msg[k].wait > 0)
    BY <1>1, <2>1, <2>3
  <2>. QED BY <2>2, <2>3
<1>3. TypeOK'
  <2>1. msg' \in [Msg -> MsgRecord]
    BY <1>1, <1>2
  <2>2. cyc' \in [Port -> [popped : BOOLEAN, size : Nat, enqueued : Nat]]
    BY <1>1 DEF NothingYet
  <2>. QED BY <1>1, <2>1, <2>2 DEF IInv, TypeOK
<1>. QED
  BY <1>1, <1>2, <1>3 DEF IInv, Placed, Ranked, StalledIsRegistered, Backed

\* Every step of the controller and of its senders keeps the invariant.
LEMMA StepKeeps == IInv /\ [Next]_vars => IInv'
<1>. SUFFICES ASSUME IInv, [Next]_vars PROVE IInv'
  OBVIOUS
<1>1. ASSUME NEW p \in Port, NEW a \in Line, NEW d \in Latency(p), Request(p, a, d)
      PROVE  IInv'
  BY <1>1, EnqueueKeeps, LatencyType DEF Request
<1>2. ASSUME NEW p \in Port, NEW a \in Line, NEW d \in Latency(p), Respond(p, a, d)
      PROVE  IInv'
  BY <1>2, EnqueueKeeps, LatencyType DEF Respond
<1>3. CASE Wakeup \/ Full \/ Drained \/ UNCHANGED vars
  BY <1>3 DEF Wakeup, Full, Drained, vars, IInv, TypeOK, Placed, Ranked,
              StalledIsRegistered, Backed
<1>6. ASSUME NEW m \in Msg, ResourceStall(m) PROVE IInv'
  BY <1>6 DEF ResourceStall, IInv, TypeOK, Placed, Ranked, StalledIsRegistered, Backed
<1>4. CASE Attempt
  BY <1>4, <1>6, StallKeeps, RecycleKeeps, ServeKeeps, FinishKeeps DEF Attempt
<1>5. CASE Tick
  BY <1>5, TickKeeps
<1>. QED
  BY <1>1, <1>2, <1>3, <1>4, <1>5 DEF Next, Answer, Run

\* Messages, buffers and registrations keep their types.
THEOREM BuffersTypeCorrect == Spec => []TypeOK
<1>1. IInv => TypeOK
  BY DEF IInv
<1>. QED
  BY <1>1, InitHolds, StepKeeps, PTL DEF Spec

\* No message is forgotten in a stall table, whatever the latencies, the lines
\* and the number of requests: wakeUpBuffers may look at lower ranks only,
\* and erase every registration, because of the ranks of the ports that stall.
THEOREM NoMessageForgotten == Spec => []StalledIsRegistered
<1>1. IInv => StalledIsRegistered
  BY DEF IInv
<1>. QED
  BY <1>1, InitHolds, StepKeeps, PTL DEF Spec

\* reanalyzeMessages is never called for an address on which the buffer holds
\* nothing: its assertion cannot fail.
THEOREM ReanalyzeFindsMessages == Spec => []RegisteredHoldsStalled
<1>1. IInv => RegisteredHoldsStalled
  BY DEF IInv, Backed, RegisteredHoldsStalled, StalledOn
<1>. QED
  BY <1>1, InitHolds, StepKeeps, PTL DEF Spec

-----------------------------------------------------------------------------

\* The inductive form of BufferFits: in a cycle with pops, what the buffer
\* holds is at most the size at the first pop plus the enqueues of the cycle.
Fits ==
    \A p \in Port :
        /\ maxSize = 0 \/ Cardinality(Held(p)) <= maxSize
        /\ cyc[p].popped => Cardinality(Held(p)) <= cyc[p].size + cyc[p].enqueued

\* A smaller set of messages has a smaller size.
LEMMA SubsetFits ==
    ASSUME NEW S, NEW T, IsFiniteSet(T), S \subseteq T
    PROVE  /\ Cardinality(S) \in Nat /\ Cardinality(T) \in Nat
           /\ Cardinality(S) <= Cardinality(T)
BY FS_Subset, FS_CardinalityType

\* One message more than what fitted with a free slot.
LEMMA EnqueueFits ==
    ASSUME IInv, Fits, NEW kind, NEW q \in Port, NEW a, NEW delta,
           areNSlotsAvailable(q), enqueue(count + 1, kind, q, a, delta),
           UNCHANGED maxSize
    PROVE  Fits'
<1>. SUFFICES ASSUME NEW p \in Port
              PROVE  /\ maxSize = 0 \/ Cardinality(Held(p)') <= maxSize
                     /\ cyc'[p].popped =>
                          Cardinality(Held(p)') <= cyc'[p].size + cyc'[p].enqueued
  BY DEF Fits
<1>1. Held(p)' \subseteq Held(p) \cup {count + 1} /\ (p # q => Held(p)' \subseteq Held(p))
  BY DEF enqueue, Held, IInv, TypeOK
<1>2. IsFiniteSet(Held(p)) /\ Cardinality(Held(p)) \in Nat
  BY HeldFinite
<1>3. Cardinality(Held(p) \cup {count + 1}) <= Cardinality(Held(p)) + 1
      /\ IsFiniteSet(Held(p) \cup {count + 1})
  <2>. DEFINE S == Held(p)
              x == count + 1
  <2>. HIDE DEF S, x
  <2>1. IsFiniteSet(S) /\ Cardinality(S) \in Nat
    BY <1>2 DEF S
  <2>2. /\ IsFiniteSet(S \cup {x})
        /\ Cardinality(S \cup {x}) = IF x \in S THEN Cardinality(S) ELSE Cardinality(S) + 1
    BY <2>1, FS_AddElement
  <2>3. Cardinality(S \cup {x}) <= Cardinality(S) + 1
    BY <2>1, <2>2
  <2>. QED BY <2>2, <2>3 DEF S, x
<1>4. /\ cyc[p].popped \in BOOLEAN /\ cyc[p].size \in Nat /\ cyc[p].enqueued \in Nat
      /\ maxSize \in Nat
  BY DEF IInv, TypeOK
<1>5. /\ maxSize = 0 \/ Cardinality(Held(p)) <= maxSize
      /\ cyc[p].popped => Cardinality(Held(p)) <= cyc[p].size + cyc[p].enqueued
  BY DEF Fits
<1>6. CASE p # q
  <2>1. cyc'[p] = cyc[p]
    BY <1>6 DEF enqueue, IInv, TypeOK
  <2>2. Cardinality(Held(p)') <= Cardinality(Held(p)) /\ Cardinality(Held(p)') \in Nat
    BY <1>1, <1>2, <1>6, SubsetFits
  <2>. QED BY <1>2, <1>4, <1>5, <2>1, <2>2
<1>7. CASE p = q
  <2>1. /\ cyc'[p].popped = cyc[p].popped /\ cyc'[p].size = cyc[p].size
        /\ cyc'[p].enqueued = cyc[p].enqueued + 1
    BY <1>7 DEF enqueue, IInv, TypeOK
  <2>2. Cardinality(Held(p)') <= Cardinality(Held(p)) + 1 /\ Cardinality(Held(p)') \in Nat
    <3>1. Cardinality(Held(p)') <= Cardinality(Held(p) \cup {count + 1})
          /\ Cardinality(Held(p)') \in Nat
          /\ Cardinality(Held(p) \cup {count + 1}) \in Nat
      BY <1>1, <1>3, SubsetFits
    <3>. QED BY <1>2, <1>3, <3>1
  <2>3. maxSize = 0 \/ Cardinality(Held(p)) + 1 <= maxSize
    BY <1>2, <1>4, <1>5, <1>7 DEF areNSlotsAvailable
  <2>. QED BY <1>2, <1>4, <1>5, <2>1, <2>2, <2>3
<1>. QED BY <1>6, <1>7

\* A pop, a stall or a wakeup: nothing comes in, and a first pop is noted.
LEMMA PopFits ==
    ASSUME IInv, Fits, NEW q \in Port, cyc' = NotePop(q),
           \A p \in Port : Held(p)' \subseteq Held(p), UNCHANGED maxSize
    PROVE  Fits'
<1>. SUFFICES ASSUME NEW p \in Port
              PROVE  /\ maxSize = 0 \/ Cardinality(Held(p)') <= maxSize
                     /\ cyc'[p].popped =>
                          Cardinality(Held(p)') <= cyc'[p].size + cyc'[p].enqueued
  BY DEF Fits
<1>1. /\ IsFiniteSet(Held(p)) /\ Cardinality(Held(p)) \in Nat
      /\ Cardinality(Held(p)') \in Nat /\ Cardinality(Held(p)') <= Cardinality(Held(p))
  <2>1. IsFiniteSet(Held(p)) /\ Held(p)' \subseteq Held(p)
    BY HeldFinite
  <2>. QED BY <2>1, SubsetFits
<1>2. /\ cyc[p].popped \in BOOLEAN /\ cyc[p].size \in Nat /\ cyc[p].enqueued \in Nat
      /\ maxSize \in Nat
  BY DEF IInv, TypeOK
<1>3. /\ maxSize = 0 \/ Cardinality(Held(p)) <= maxSize
      /\ cyc[p].popped => Cardinality(Held(p)) <= cyc[p].size + cyc[p].enqueued
  BY DEF Fits
<1>4. \/ cyc'[p] = cyc[p]
      \/ cyc'[p].size = Cardinality(Held(p)) /\ cyc'[p].enqueued = cyc[p].enqueued
  <2>1. CASE cyc[q].popped
    BY <2>1 DEF NotePop
  <2>2. CASE ~cyc[q].popped /\ p = q
    BY <2>2 DEF NotePop, IInv, TypeOK
  <2>3. CASE ~cyc[q].popped /\ p # q
    BY <2>3 DEF NotePop, IInv, TypeOK
  <2>. QED BY <2>1, <2>2, <2>3
<1>. QED BY <1>1, <1>2, <1>3, <1>4

\* Empty buffers fit.
LEMMA InitFits == Init => Fits
<1>. SUFFICES ASSUME Init, NEW p \in Port
              PROVE  Cardinality(Held(p)) = 0 /\ ~cyc[p].popped /\ maxSize \in Nat
  BY DEF Fits
<1>1. Held(p) = {}
  BY OutsideType DEF Init, Held
<1>. QED
  BY <1>1, FS_EmptySet, BoundAssumption DEF Init, NothingYet

\* Every step keeps the buffers, and what is shown to senders, within bounds.
LEMMA StepFits == IInv /\ Fits /\ [Next]_vars => Fits'
<1>. SUFFICES ASSUME IInv, Fits, [Next]_vars PROVE Fits'
  OBVIOUS
<1>1. ASSUME NEW p \in Port, NEW a \in Line, NEW d \in Latency(p),
             Request(p, a, d) \/ Respond(p, a, d)
      PROVE  Fits'
  BY <1>1, EnqueueFits DEF Request, Respond
<1>2. CASE Wakeup \/ Full \/ Drained \/ UNCHANGED vars
  BY <1>2 DEF Wakeup, Full, Drained, vars, Fits, Held
<1>3. ASSUME NEW m \in Msg, NEW a \in Line, Stall(m, a) PROVE Fits'
  <2>1. msg[m].st = "heap" /\ msg[m].port \in Port
    BY <1>3 DEF Stall, Takes, Triggers, isReady, InHeap, IInv, TypeOK, MsgRecord
  <2>2. \A k \in Msg : msg'[k].port = msg[k].port
                      /\ (msg'[k].st = msg[k].st \/ (k = m /\ msg'[k].st = "stalled"))
    BY <1>3 DEF Stall, stallMessage, IInv, TypeOK, MsgRecord
  <2>3. \A p \in Port : Held(p)' \subseteq Held(p)
    BY <2>1, <2>2 DEF Held
  <2>. QED BY <1>3, <2>1, <2>3, PopFits DEF Stall, Takes, stallMessage
<1>4. ASSUME NEW m \in Msg, Recycle(m) PROVE Fits'
  <2>1. \A k \in Msg : msg'[k].port = msg[k].port /\ msg'[k].st = msg[k].st
    BY <1>4 DEF Recycle, recycle, IInv, TypeOK, MsgRecord
  <2>2. \A p \in Port : Held(p)' = Held(p)
    BY <2>1 DEF Held
  <2>. QED BY <1>4, <2>2 DEF Recycle, recycle, Takes, Fits
<1>5. ASSUME NEW m \in Msg, Serve(m) PROVE Fits'
  <2>1. msg[m].port \in Port /\ Outside("done", "req").st = "done"
    BY OutsideType DEF IInv, TypeOK, MsgRecord
  <2>2. \A k \in Msg : msg'[k] = msg[k] \/ msg'[k].st = "done"
    BY <1>5, <2>1 DEF Serve, IInv, TypeOK
  <2>3. \A p \in Port : Held(p)' \subseteq Held(p)
    BY <2>2 DEF Held
  <2>. QED BY <1>5, <2>1, <2>3, PopFits DEF Serve, Takes, dequeue
<1>6. ASSUME NEW m \in Msg, Finish(m) PROVE Fits'
  <2>1. msg[m].port \in Port /\ Outside("done", "resp").st = "done"
    BY OutsideType DEF IInv, TypeOK, MsgRecord
  <2>2. \A k \in Msg : \/ msg'[k] = msg[k] \/ msg'[k].st = "done"
                       \/ msg[k].st = "stalled" /\ msg'[k].port = msg[k].port
    BY <1>6, <2>1 DEF Finish, Woken, IInv, TypeOK, MsgRecord
  <2>3. \A p \in Port : Held(p)' \subseteq Held(p)
    BY <2>2 DEF Held
  <2>. QED BY <1>6, <2>1, <2>3, PopFits DEF Finish, Takes, dequeue
<1>8. ASSUME NEW m \in Msg, ResourceStall(m) PROVE Fits'
  BY <1>8 DEF ResourceStall, Fits, Held
<1>7. CASE Tick
  <2>1. \A k \in Msg : msg'[k].port = msg[k].port /\ msg'[k].st = msg[k].st
    BY <1>7 DEF Tick, IInv, TypeOK, MsgRecord
  <2>2. \A p \in Port : Held(p)' = Held(p)
    BY <2>1 DEF Held
  <2>3. \A p \in Port : ~cyc'[p].popped
    BY <1>7 DEF Tick, NothingYet
  <2>. QED BY <1>7, <2>2, <2>3 DEF Tick, Fits
<1>. QED
  BY <1>1, <1>2, <1>3, <1>4, <1>5, <1>6, <1>7, <1>8 DEF Next, Answer, Run, Attempt

\* No buffer overflows, whatever its size and however pops, stalls, wakeups
\* and enqueues of one cycle interleave: the assertion of enqueue holds for
\* every sender that asks areNSlotsAvailable first.
THEOREM BuffersNeverOverflow == Spec => []BufferFits
<1>1. Fits => BufferFits
  BY DEF Fits, BufferFits
<1>. QED
  BY <1>1, InitHolds, StepKeeps, InitFits, StepFits, PTL DEF Spec

-----------------------------------------------------------------------------
(***************************************************************************)
(* No wakeup is lost.  The loop stops when no port has a ready message, so *)
(* the proof has to find a ready message behind every arrived one: the     *)
(* heap of a port is a strict total order that follows the arrival times.  *)
(***************************************************************************)

\* A set of numbers has a least element.
LEMMA LeastNumber ==
    ASSUME NEW T, T \subseteq Nat, T # {}
    PROVE  \E x \in T : \A y \in T : x <= y
<1>. DEFINE R == {ss \in Nat \X Nat : ss[1] < ss[2]}
<1>1. IsWellFoundedOn(R, Nat)
  BY NatLessThanWellFounded DEF OpToRel
<1>2. PICK x \in T : \A y \in T : ~(<<y, x>> \in R)
  BY <1>1, WFMin
<1>3. \A y \in T : y < x => <<y, x>> \in R
  OBVIOUS
<1>4. x \in Nat /\ \A y \in T : y \in Nat
  OBVIOUS
<1>. HIDE DEF R
<1>5. \A y \in T : ~(y < x)
  BY <1>2, <1>3
<1>6. \A y \in T : x <= y
  BY <1>4, <1>5
<1>. QED
  BY <1>6

\* Message m is in the heap or the stall table of a port.
Here(m) == msg[m].st \in {"heap", "stalled"}

\* What comes before a message is in the same buffer and arrives no later; at
\* the same cycle, unless it has come, it has the lower number.
Ahead(k, m) ==
    /\ k # m /\ Here(k) /\ Here(m) /\ msg[k].port = msg[m].port
    /\ \/ msg[k].wait < msg[m].wait
       \/ msg[k].wait = msg[m].wait /\ (msg[k].wait = 0 \/ k < m)

\* The messages of a buffer are in a strict total order of their arrival.
Queued ==
    /\ ahead \in [Msg -> SUBSET Msg]
    /\ \A m \in Msg : \A k \in ahead[m] : Ahead(k, m)
    /\ \A k, m \in Msg : k # m /\ Here(k) /\ Here(m) /\ msg[k].port = msg[m].port =>
          k \in ahead[m] \/ m \in ahead[k]
    /\ \A k, m, n \in Msg : k \in ahead[m] /\ m \in ahead[n] => k \in ahead[n]

\* The Consumer has an event for every arrival to come and, between wakeups,
\* for every message that has arrived; what is stalled had arrived.  A pass
\* that was refused at a port has asked for the next cycle.
Awaited ==
    /\ loop \in Nat \cup {Idle} /\ from \in Nat
    /\ from # 0 => 1 \in sched /\ loop # Idle /\ loop < TransitionsPerCycle
    /\ \A m \in Msg :
          /\ msg[m].st = "stalled" => msg[m].wait = 0
          /\ msg[m].st = "heap" /\ msg[m].wait > 0 => msg[m].wait \in sched
          /\ msg[m].st = "heap" /\ msg[m].wait = 0 /\ loop = Idle => 0 \in sched \/ 1 \in sched

\* In a buffer with an arrived message, the first one in the heap is ready.
LEMMA FirstIsReady ==
    ASSUME TypeOK, Queued, NEW m \in Msg, msg[m].st = "heap", msg[m].wait = 0
    PROVE  \E k \in Msg : isReady(k, msg[m].port)
<1>. DEFINE p == msg[m].port
            H == InHeap(p)
            T == {Cardinality(ahead[k]) : k \in H}
<1>1. m \in H /\ H \subseteq Msg /\ \A k \in H : Here(k) /\ msg[k].port = p /\ msg[k].st = "heap"
  BY DEF InHeap, Here
<1>2. \A k \in Msg : IsFiniteSet(ahead[k]) /\ Cardinality(ahead[k]) \in Nat
  <2>1. IsFiniteSet(Msg)
    BY MsgFinite
  <2>. QED
    BY <2>1, FS_Subset, FS_CardinalityType DEF Queued
<1>. HIDE DEF H, p
<1>3. T \subseteq Nat /\ T # {}
  BY <1>1, <1>2
<1>4. PICK c \in T : \A y \in T : c <= y
  BY <1>3, LeastNumber
<1>5. PICK k \in H : c = Cardinality(ahead[k])
  BY <1>4
<1>6. \A j \in H : Cardinality(ahead[k]) <= Cardinality(ahead[j])
  BY <1>4, <1>5
<1>7. \A j \in ahead[k] : j \notin H
  <2>. SUFFICES ASSUME NEW j \in ahead[k], j \in H PROVE FALSE
    OBVIOUS
  <2>0. j \in Msg /\ k \in Msg
    BY <1>1
  <2>1. ahead[j] \subseteq ahead[k]
    BY <2>0 DEF Queued
  <2>2. j \notin ahead[j]
    BY <2>0 DEF Queued, Ahead
  <2>3. ahead[j] # ahead[k]
    BY <2>2
  <2>4. Cardinality(ahead[j]) <= Cardinality(ahead[k])
        /\ Cardinality(ahead[k]) # Cardinality(ahead[j])
    BY <1>2, <2>0, <2>1, <2>3, FS_Subset
  <2>5. Cardinality(ahead[k]) <= Cardinality(ahead[j])
    BY <1>6
  <2>. QED
    BY <1>2, <2>0, <2>4, <2>5
<1>8. msg[k].wait = 0
  <2>1. CASE k = m
    BY <2>1
  <2>2. CASE k # m
    <3>1. k \in ahead[m]
      BY <1>1, <1>7, <2>2 DEF Queued
    <3>2. msg[k].wait <= 0 /\ msg[k].wait \in Nat
      BY <1>1, <3>1 DEF Queued, Ahead, TypeOK, MsgRecord
    <3>. QED
      BY <3>2
  <2>. QED
    BY <2>1, <2>2
<1>. QED
  BY <1>1, <1>7, <1>8 DEF isReady, H, p

\* A message that takes its place in a buffer, new or turned back.
LEMMA InsertKeeps ==
    ASSUME TypeOK, TypeOK', Queued, NEW m \in Msg, NEW p \in Port, NEW w \in Nat, w > 0,
           Here(m) => msg[m].port = p,
           ahead' = Insert(m, p, w), \A k \in Msg : k # m => msg'[k] = msg[k],
           msg'[m].st = "heap", msg'[m].port = p, msg'[m].wait = w
    PROVE  Queued'
<1>0. \A k \in Msg : k \in Nat /\ msg[k].wait \in Nat
  BY BoundAssumption DEF TypeOK, MsgRecord, Msg
<1>. DEFINE Sit(k)  == k \in Msg /\ k # m /\ Here(k) /\ msg[k].port = p
            First(k) == Before(k, w, m)
<1>1. \A k \in Msg : k # m => (Here(k)' <=> Here(k))
  BY DEF Here
<1>2. Here(m)'
  BY DEF Here
<1>3. \A k \in Msg : k \in Held(p) /\ k # m <=> Sit(k)
  BY DEF Held, Here
<1>4. \A k \in Msg : /\ ahead[k] \in SUBSET Msg
                     /\ \A j \in ahead[k] : Ahead(j, k) /\ Here(j) /\ Here(k) /\ j # k
                                            /\ msg[j].port = msg[k].port
  BY DEF Queued, Ahead
<1>5. \A j \in Msg : j \in ahead'[m] <=> Sit(j) /\ First(j)
  BY <1>3 DEF Insert
<1>6. \A k \in Msg : k # m => (m \in ahead'[k] <=> Sit(k) /\ ~First(k))
  BY <1>3 DEF Insert
<1>7. \A j, k \in Msg : j # m /\ k # m => (j \in ahead'[k] <=> j \in ahead[k])
  BY DEF Insert
<1>8. ahead' \in [Msg -> SUBSET Msg]
  <2>1. \A k \in Msg : ahead'[k] \in SUBSET Msg
    BY <1>4 DEF Insert, Held
  <2>2. ahead' = [k \in Msg |-> ahead'[k]]
    BY DEF Insert
  <2>. QED
    BY <2>1, <2>2
<1>9. \A k \in Msg : First(k) <=> msg[k].wait < w \/ (msg[k].wait = w /\ k < m)
  BY DEF Before
<1>10. \A j, k \in Msg : j \in ahead[k] =>
          \/ msg[j].wait < msg[k].wait
          \/ msg[j].wait = msg[k].wait /\ (msg[j].wait = 0 \/ j < k)
  BY <1>4 DEF Ahead
\* The order of two messages that were there, seen from the new one.
<1>11. \A j, k \in Msg : j \in ahead[k] /\ First(k) => First(j)
  BY <1>0, <1>9, <1>10
<1>12. \A j, k \in Msg : Sit(j) /\ Sit(k) /\ First(j) /\ ~First(k) => j \in ahead[k]
  <2>. SUFFICES ASSUME NEW j \in Msg, NEW k \in Msg, Sit(j), Sit(k), First(j), ~First(k),
                       j \notin ahead[k]
                PROVE  FALSE
    OBVIOUS
  <2>1. k \in ahead[j]
    BY DEF Queued
  <2>. QED
    BY <1>11, <2>1
<1>13. \A j, k \in Msg : j \in ahead[k] =>
          (Sit(j) /\ k # m => Sit(k)) /\ (Sit(k) /\ j # m => Sit(j))
  BY <1>4
<1>. HIDE DEF First
<1>14. \A k \in Msg, j \in Msg : j \in ahead'[k] => Ahead(j, k)'
  <2>. SUFFICES ASSUME NEW k \in Msg, NEW j \in Msg, j \in ahead'[k] PROVE Ahead(j, k)'
    OBVIOUS
  <2>1. CASE k = m
    <3>1. Sit(j) /\ First(j) /\ msg'[j] = msg[j]
      BY <1>5, <2>1
    <3>2. msg[j].wait < w \/ (msg[j].wait = w /\ j < m)
      BY <1>9, <3>1
    <3>. QED
      BY <1>1, <1>2, <2>1, <3>1, <3>2 DEF Ahead
  <2>2. CASE k # m /\ j = m
    <3>1. Sit(k) /\ ~First(k) /\ msg'[k] = msg[k]
      BY <1>6, <2>2
    <3>2. msg[k].wait > w \/ (msg[k].wait = w /\ m < k)
      BY <1>0, <1>9, <2>2, <3>1
    <3>. QED
      BY <1>0, <1>1, <1>2, <2>2, <3>1, <3>2 DEF Ahead
  <2>3. CASE k # m /\ j # m
    <3>1. Ahead(j, k) /\ msg'[k] = msg[k] /\ msg'[j] = msg[j]
      BY <1>4, <1>7, <2>3
    <3>. QED
      BY <1>1, <2>3, <3>1 DEF Ahead
  <2>. QED
    BY <2>1, <2>2, <2>3
<1>15. \A j, k \in Msg : j # k /\ Here(j)' /\ Here(k)' /\ msg'[j].port = msg'[k].port =>
          j \in ahead'[k] \/ k \in ahead'[j]
  <2>. SUFFICES ASSUME NEW j \in Msg, NEW k \in Msg, j # k, Here(j)', Here(k)',
                       msg'[j].port = msg'[k].port
                PROVE  j \in ahead'[k] \/ k \in ahead'[j]
    OBVIOUS
  <2>1. CASE j = m
    BY <1>1, <1>5, <1>6, <2>1
  <2>2. CASE k = m
    BY <1>1, <1>5, <1>6, <2>2
  <2>3. CASE j # m /\ k # m
    BY <1>1, <1>7, <2>3 DEF Queued
  <2>. QED
    BY <2>1, <2>2, <2>3
<1>16. \A j, k, n \in Msg : j \in ahead'[k] /\ k \in ahead'[n] => j \in ahead'[n]
  <2>. SUFFICES ASSUME NEW j \in Msg, NEW k \in Msg, NEW n \in Msg,
                       j \in ahead'[k], k \in ahead'[n]
                PROVE  j \in ahead'[n]
    OBVIOUS
  <2>0. j # k /\ k # n
    BY <1>14 DEF Ahead
  <2>1. CASE k = m
    <3>1. Sit(j) /\ First(j) /\ Sit(n) /\ ~First(n)
      BY <1>5, <1>6, <2>0, <2>1
    <3>. QED
      BY <1>7, <1>12, <2>0, <2>1, <3>1
  <2>2. CASE j = m /\ k # m
    <3>1. Sit(k) /\ ~First(k)
      BY <1>6, <2>2
    <3>2. n # m
      BY <1>5, <2>0, <2>2, <3>1
    <3>3. k \in ahead[n]
      BY <1>7, <2>2, <3>2
    <3>. QED
      BY <1>6, <1>11, <1>13, <2>2, <3>1, <3>2, <3>3
  <2>3. CASE n = m /\ k # m /\ j # m
    <3>1. Sit(k) /\ First(k) /\ j \in ahead[k]
      BY <1>5, <1>7, <2>3
    <3>. QED
      BY <1>5, <1>11, <1>13, <2>3, <3>1
  <2>4. CASE n # m /\ k # m /\ j # m
    BY <1>7, <2>4 DEF Queued
  <2>. QED
    BY <2>1, <2>2, <2>3, <2>4
<1>. QED
  BY <1>8, <1>14, <1>15, <1>16 DEF Queued

\* Steps that move no message closer or farther: what leaves is forgotten.
LEMMA LeaveKeeps ==
    ASSUME TypeOK, Queued, NEW m \in Msg, ahead' = Without(m), ~Here(m)',
           \A k \in Msg : k # m => /\ Here(k)' <=> Here(k)
                                   /\ msg'[k].port = msg[k].port
                                   /\ msg'[k].wait = msg[k].wait
    PROVE  Queued'
<1>1. /\ ahead'[m] = {} /\ \A k \in Msg : k # m => ahead'[k] = ahead[k] \ {m}
      /\ DOMAIN ahead' = Msg /\ ahead' = [k \in Msg |-> ahead'[k]]
  BY DEF Without
<1>2. ahead' \in [Msg -> SUBSET Msg]
  <2>1. \A k \in Msg : ahead'[k] \in SUBSET Msg
    BY <1>1 DEF Queued
  <2>. QED
    BY <1>1, <2>1
<1>3. \A k \in Msg, j \in Msg : j \in ahead'[k] =>
        j \in ahead[k] /\ j # m /\ k # m /\ Ahead(j, k)
  BY <1>1 DEF Queued
<1>4. \A k \in Msg, j \in Msg : j \in ahead'[k] => Ahead(j, k)'
  BY <1>3 DEF Ahead
<1>5. \A k \in Msg, j \in Msg : j \in ahead[k] /\ j # m /\ k # m => j \in ahead'[k]
  BY <1>1
<1>. QED
  BY <1>2, <1>3, <1>4, <1>5 DEF Queued

\* Steps that change neither buffers nor arrival times, but perhaps where in
\* its buffer, heap or stall table, a message is.
LEMMA StayKeeps ==
    ASSUME TypeOK, Queued, UNCHANGED ahead,
           \A k \in Msg : /\ Here(k)' <=> Here(k)
                          /\ msg'[k].port = msg[k].port /\ msg'[k].wait = msg[k].wait
    PROVE  Queued'
<1>1. \A j, k \in Msg : Ahead(j, k) => Ahead(j, k)'
  BY DEF Ahead
<1>. QED
  BY <1>1 DEF Queued

\* A cycle later the order is the same.
LEMMA LaterKeeps ==
    ASSUME TypeOK, Queued, UNCHANGED ahead,
           \A k \in Msg : /\ Here(k)' <=> Here(k)
                          /\ msg'[k].port = msg[k].port
                          /\ msg'[k].wait = (IF msg[k].wait > 0 THEN msg[k].wait - 1
                                             ELSE msg[k].wait)
    PROVE  Queued'
<1>0. \A k \in Msg : k \in Nat /\ msg[k].wait \in Nat
  BY BoundAssumption DEF TypeOK, MsgRecord, Msg
<1>1. ASSUME NEW j \in Msg, NEW k \in Msg, Ahead(j, k) PROVE Ahead(j, k)'
  <2>1. msg[j].wait = 0 \/ msg[j].wait > 0
    BY <1>0
  <2>2. \/ msg'[j].wait < msg'[k].wait
        \/ msg'[j].wait = msg'[k].wait /\ (msg'[j].wait = 0 \/ j < k)
    BY <1>0, <1>1, <2>1 DEF Ahead
  <2>. QED
    BY <1>1, <2>2 DEF Ahead
<1>. QED
  BY <1>1 DEF Queued

\* A new message has its event.
LEMMA EnqueueAwaits ==
    ASSUME IInv, IInv', Queued, Awaited, NEW kind, NEW p \in Port, NEW a,
           NEW delta \in Nat, delta > 0, enqueue(count + 1, kind, p, a, delta),
           UNCHANGED <<loop, from>>
    PROVE  Queued' /\ Awaited'
<1>. DEFINE m == count + 1
<1>1. /\ m \in Msg /\ msg'[m].st = "heap" /\ msg'[m].port = p /\ msg'[m].wait = delta
      /\ \A k \in Msg : k # m => msg'[k] = msg[k]
      /\ ahead' = Insert(m, p, delta) /\ sched' = sched \cup {delta}
  BY DEF enqueue, IInv, TypeOK
<1>2. ~Here(m)
  BY <1>1 DEF IInv, Placed, TypeOK, Here
<1>. HIDE DEF m
<1>3. Queued'
  BY <1>1, <1>2, InsertKeeps DEF IInv
<1>4. Awaited'
  BY <1>1, <1>2 DEF Awaited
<1>. QED
  BY <1>3, <1>4

\* A transition of the wakeup loop.
LEMMA AttemptAwaits ==
    ASSUME IInv, IInv', Queued, Awaited, NEW m \in Msg,
           (\E a \in Line : Stall(m, a)) \/ Recycle(m) \/ Serve(m) \/ Finish(m)
    PROVE  Queued' /\ Awaited'
<1>0. TypeOK /\ TypeOK' /\ RecycleLatency \in Nat /\ RecycleLatency > 0
  BY BoundAssumption DEF IInv
<1>1. /\ msg[m].st = "heap" /\ msg[m].wait = 0 /\ Here(m) /\ msg[m].port \in Port
      /\ loop # Idle /\ loop' = loop + 1 /\ from' = 0
  BY DEF Stall, Recycle, Serve, Finish, Takes, Triggers, isReady, InHeap, Here, IInv, TypeOK, MsgRecord
<1>2. loop' \in Nat /\ loop' # Idle /\ from' = 0
  BY <1>1 DEF Awaited, Idle
<1>3. ASSUME NEW a \in Line, Stall(m, a) PROVE Queued' /\ Awaited'
  <2>1. \A k \in Msg : /\ msg'[k].port = msg[k].port /\ msg'[k].wait = msg[k].wait
                      /\ IF k = m THEN msg'[k].st = "stalled" ELSE msg'[k].st = msg[k].st
    <3>1. msg' = [msg EXCEPT ![m].st = "stalled", ![m].on = a]
      BY <1>3 DEF Stall, stallMessage
    <3>. QED
      BY Zenon, <1>0, <3>1 DEF TypeOK, MsgRecord
  <2>2. UNCHANGED <<ahead, sched>>
    BY <1>3 DEF Stall, stallMessage
  <2>3. Queued'
    BY <1>0, <1>1, <2>1, <2>2, StayKeeps DEF Here
  <2>4. Awaited'
    BY <1>1, <1>2, <2>1, <2>2 DEF Awaited
  <2>. QED
    BY <2>3, <2>4
<1>4. CASE Recycle(m)
  <2>1. /\ msg'[m].st = "heap" /\ msg'[m].port = msg[m].port
        /\ msg'[m].wait = RecycleLatency
        /\ \A k \in Msg : k # m => msg'[k] = msg[k]
    BY <1>0, <1>1, <1>4 DEF Recycle, recycle, TypeOK, MsgRecord
  <2>2. /\ ahead' = Insert(m, msg[m].port, RecycleLatency)
        /\ sched' = sched \cup {RecycleLatency}
    BY <1>4 DEF Recycle, recycle
  <2>3. Queued'
    BY <1>0, <1>1, <2>1, <2>2, InsertKeeps
  <2>4. Awaited'
    BY <1>2, <2>1, <2>2 DEF Awaited
  <2>. QED
    BY <2>3, <2>4
<1>5. CASE Serve(m)
  <2>1. msg'[m].st = "done" /\ \A k \in Msg : k # m => msg'[k] = msg[k]
    BY <1>0, <1>5, OutsideType DEF Serve, TypeOK
  <2>2. ahead' = Without(m) /\ UNCHANGED sched
    BY <1>5 DEF Serve, dequeue
  <2>3. Queued'
    BY <1>0, <2>1, <2>2, LeaveKeeps DEF Here
  <2>4. Awaited'
    BY <1>2, <2>1, <2>2 DEF Awaited
  <2>. QED
    BY <2>3, <2>4
<1>6. CASE Finish(m)
  <2>0. PICK W : W = Woken(msg[m].port, msg[m].line)
    OBVIOUS
  <2>1. /\ msg' = [k \in Msg |-> IF k = m THEN Outside("done", "resp")
                                 ELSE IF k \in W THEN [msg[k] EXCEPT !.st = "heap"]
                                 ELSE msg[k]]
        /\ sched \subseteq sched' /\ ahead' = Without(m)
    BY <1>6, <2>0 DEF Finish, dequeue
  <2>2. \A k \in W : msg[k].st = "stalled" /\ k # m
    BY <1>1, <2>0 DEF Woken
  <2>3. msg'[m].st = "done"
    BY <2>1, OutsideType
  <2>4. ASSUME NEW k \in Msg, k # m
        PROVE  /\ msg'[k].port = msg[k].port /\ msg'[k].wait = msg[k].wait
               /\ \/ msg'[k].st = msg[k].st
                  \/ msg[k].st = "stalled" /\ msg'[k].st = "heap"
    <3>1. msg[k] \in MsgRecord
      BY <1>0 DEF TypeOK
    <3>2. CASE k \in W
      BY <2>1, <2>2, <2>4, <3>1, <3>2 DEF MsgRecord
    <3>3. CASE k \notin W
      BY <2>1, <2>4, <3>3
    <3>. QED
      BY <3>2, <3>3
  <2>5. Queued'
    BY <1>0, <2>1, <2>3, <2>4, LeaveKeeps DEF Here
  <2>6. Awaited'
    BY <1>2, <2>1, <2>3, <2>4 DEF Awaited
  <2>. QED
    BY <2>5, <2>6
<1>. QED
  BY <1>3, <1>4, <1>5, <1>6

\* The next cycle: events and arrivals come closer together.
LEMMA TickAwaits ==
    ASSUME IInv, IInv', Queued, Awaited, Tick
    PROVE  Queued' /\ Awaited'
<1>0. TypeOK /\ TypeOK'
  BY DEF IInv
<1>1. /\ loop = Idle /\ 0 \notin sched /\ sched' = {t - 1 : t \in sched}
      /\ UNCHANGED <<ahead, loop>> /\ from' = 0
  BY DEF Tick, Awaited
<1>2. ASSUME NEW k \in Msg
      PROVE  /\ msg'[k].st = msg[k].st /\ msg'[k].port = msg[k].port /\ msg[k].wait \in Nat
             /\ msg'[k].wait = (IF msg[k].wait > 0 THEN msg[k].wait - 1 ELSE msg[k].wait)
  <2>1. msg[k] \in MsgRecord
    BY <1>0 DEF TypeOK
  <2>2. msg'[k] = IF msg[k].wait > 0 THEN [msg[k] EXCEPT !.wait = @ - 1] ELSE msg[k]
    BY DEF Tick
  <2>. QED
    BY <2>1, <2>2 DEF MsgRecord
<1>3. Queued'
  BY <1>0, <1>1, <1>2, LaterKeeps DEF Here
<1>4. \A t \in sched : t - 1 \in sched'
  BY <1>1
<1>5. ASSUME NEW k \in Msg
      PROVE  /\ msg'[k].st = "stalled" => msg'[k].wait = 0
             /\ msg'[k].st = "heap" /\ msg'[k].wait > 0 => msg'[k].wait \in sched'
             /\ msg'[k].st = "heap" /\ msg'[k].wait = 0 => 0 \in sched' \/ 1 \in sched'
  <2>1. CASE msg[k].wait > 0
    <3>1. msg'[k].st = "heap" => msg[k].wait - 1 \in sched'
      BY <1>2, <1>4, <2>1 DEF Awaited
    <3>. QED
      BY <1>2, <2>1, <3>1 DEF Awaited
  <2>2. CASE msg[k].wait = 0
    <3>1. msg'[k].wait = 0
      BY <1>2, <2>2
    <3>2. msg'[k].st = "heap" => 1 \in sched
      BY <1>1, <1>2, <2>2 DEF Awaited
    <3>3. msg'[k].st = "heap" => 1 - 1 \in sched'
      BY <1>4, <3>2
    <3>. QED
      BY <3>1, <3>3
  <2>. QED
    BY <1>2, <2>1, <2>2
<1>. QED
  BY <1>1, <1>3, <1>5 DEF Awaited

\* Initially there is nothing to wait for.
LEMMA InitAwaits == Init => Queued /\ Awaited
<1>. SUFFICES ASSUME Init PROVE Queued /\ Awaited
  OBVIOUS
<1>1. \A m \in Msg : msg[m].st = "none"
  BY OutsideType DEF Init
<1>2. Queued
  BY <1>1 DEF Init, Queued, Here
<1>3. Awaited
  BY <1>1 DEF Init, Awaited
<1>. QED
  BY <1>2, <1>3

\* Every step keeps the order of the buffers and the events.
LEMMA StepAwaits == IInv /\ IInv' /\ Queued /\ Awaited /\ [Next]_vars => Queued' /\ Awaited'
<1>. SUFFICES ASSUME IInv, IInv', Queued, Awaited, [Next]_vars PROVE Queued' /\ Awaited'
  OBVIOUS
<1>0. TypeOK
  BY DEF IInv
<1>1. ASSUME NEW p \in Port, NEW a \in Line, NEW d \in Latency(p),
             Request(p, a, d) \/ Respond(p, a, d)
      PROVE  Queued' /\ Awaited'
  BY <1>1, EnqueueAwaits, LatencyType DEF Request, Respond
<1>5. ASSUME NEW m \in Msg, ResourceStall(m) PROVE Queued' /\ Awaited'
  <2>1. /\ UNCHANGED <<msg, ahead, loop>> /\ sched' = sched \cup {1} /\ from' = msg[m].port
        /\ loop # Idle /\ loop < TransitionsPerCycle /\ msg[m].port \in Nat
    BY <1>0, <1>5 DEF ResourceStall, Triggers, TypeOK, MsgRecord, Port
  <2>2. Queued'
    BY <1>0, <2>1, StayKeeps DEF Here
  <2>3. Awaited'
    BY <2>1 DEF Awaited
  <2>. QED
    BY <2>2, <2>3
<1>2. CASE Attempt
  BY <1>2, <1>5, AttemptAwaits DEF Attempt
<1>3. CASE Tick
  BY <1>3, TickAwaits
<1>4. CASE Wakeup \/ Full \/ Drained \/ UNCHANGED vars
  <2>1. UNCHANGED <<msg, ahead>>
    BY <1>4 DEF Wakeup, Full, Drained, vars
  <2>2. Queued'
    BY <1>0, <2>1, StayKeeps DEF Here
  <2>3. CASE Wakeup
    BY <2>1, <2>2, <2>3 DEF Wakeup, Awaited, Idle
  <2>4. CASE Full
    BY <2>1, <2>2, <2>4, BoundAssumption DEF Full, Awaited
  <2>5. CASE Drained
    <3>1. \A m \in Msg, p \in Port : from < p => ~isReady(m, p)
      BY <2>5 DEF Drained
    <3>2. \A m \in Msg : msg[m].port \in Port
      BY <1>0 DEF TypeOK, MsgRecord
    <3>3. \A m \in Msg : msg[m].st = "heap" /\ msg[m].wait = 0 => ~(from < msg[m].port)
      BY <1>0, <3>1, <3>2, FirstIsReady
    <3>4. \A m \in Msg : msg[m].st = "heap" /\ msg[m].wait = 0 => 1 \in sched
      BY <3>2, <3>3 DEF Awaited, Port
    <3>. QED
      BY <2>1, <2>2, <2>5, <3>4 DEF Drained, Awaited
  <2>6. CASE UNCHANGED vars
    BY <2>1, <2>2, <2>6 DEF vars, Awaited
  <2>. QED
    BY <1>4, <2>2, <2>3, <2>4, <2>5, <2>6
<1>. QED
  BY <1>1, <1>2, <1>3, <1>4 DEF Next, Answer, Run

\* No wakeup is lost, for any number of messages, latencies and transitions
\* per cycle: between two wakeups every message in a heap has an event of the
\* Consumer in time, also after a loop that was full or found nothing ready.
THEOREM NoWakeupLost == Spec => []WakeupIsScheduled
<1>1. TypeOK /\ Awaited => WakeupIsScheduled
  <2>. SUFFICES ASSUME TypeOK, Awaited, loop = Idle, NEW m \in Msg, msg[m].st = "heap"
                PROVE  \E t \in sched : t <= (IF msg[m].wait = 0 THEN 1 ELSE msg[m].wait)
    BY DEF WakeupIsScheduled
  <2>1. msg[m].wait \in Nat
    BY DEF TypeOK, MsgRecord
  <2>2. CASE msg[m].wait = 0
    BY <2>2 DEF Awaited
  <2>3. CASE msg[m].wait > 0
    BY <2>1, <2>3 DEF Awaited
  <2>. QED
    BY <2>1, <2>2, <2>3
<1>2. IInv => TypeOK
  BY DEF IInv
<1>. QED
  BY <1>1, <1>2, InitHolds, StepKeeps, InitAwaits, StepAwaits, PTL DEF Spec
-----------------------------------------------------------------------------

\* What an ordered buffer holds arrives within the one latency of its senders.
Ordered ==
    \A p \in ctl.ordered : \A k \in Held(p) : msg[k].wait <= OrderedDelay

\* Every step keeps the arrivals of the ordered buffers within that latency.
LEMMA StepOrdered == IInv /\ Ordered /\ [Next]_vars => Ordered'
<1>. SUFFICES ASSUME IInv, Ordered, [Next]_vars PROVE Ordered'
  OBVIOUS
<1>0. TypeOK /\ UNCHANGED ctl
  BY DEF IInv, Next, Answer, Run, Attempt, Request, Respond, Wakeup, Full, Drained, Tick,
         Stall, Recycle, Serve, Finish, ResourceStall, Takes, vars
<1>1. SUFFICES ASSUME NEW p \in ctl.ordered, NEW k \in Msg,
                      msg'[k].st \in {"heap", "stalled"}, msg'[k].port = p
               PROVE  msg'[k].wait <= OrderedDelay
  BY <1>0 DEF Ordered, Held
<1>2. ASSUME msg[k].st \in {"heap", "stalled"}, msg[k].port = p
      PROVE  msg[k].wait <= OrderedDelay
  BY <1>2 DEF Ordered, Held
<1>3. ASSUME NEW q \in Port, NEW a \in Line, NEW d \in Latency(q),
             Request(q, a, d) \/ Respond(q, a, d)
      PROVE  msg'[k].wait <= OrderedDelay
  <2>1. PICK new : /\ msg' = [msg EXCEPT ![count + 1] = new]
                   /\ new.port = q /\ new.wait = d
    BY <1>3 DEF Request, Respond, enqueue
  <2>2. CASE k = count + 1
    <3>1. q = p /\ msg'[k].wait = d
      BY <1>0, <1>1, <2>1, <2>2 DEF TypeOK
    <3>2. d = OrderedDelay
      BY <1>1, <1>3, <3>1 DEF Latency
    <3>. QED
      BY <3>1, <3>2, BoundAssumption
  <2>3. CASE k # count + 1
    BY <1>0, <1>1, <1>2, <2>1, <2>3 DEF TypeOK
  <2>. QED
    BY <2>2, <2>3
<1>4. CASE Wakeup \/ Full \/ Drained \/ UNCHANGED vars \/ \E m \in Msg : ResourceStall(m)
  BY <1>1, <1>2, <1>4 DEF Wakeup, Full, Drained, vars, ResourceStall
<1>5. ASSUME NEW m \in Msg, NEW a \in Line, Stall(m, a)
      PROVE  msg'[k].wait <= OrderedDelay
  <2>1. msg' = [msg EXCEPT ![m].st = "stalled", ![m].on = a] /\ msg[m].st = "heap"
    BY <1>5 DEF Stall, stallMessage, Takes, Triggers, isReady, InHeap
  <2>2. /\ msg'[k].port = msg[k].port /\ msg'[k].wait = msg[k].wait
        /\ msg[k].st \in {"heap", "stalled"}
    BY <1>0, <1>1, <2>1 DEF TypeOK, MsgRecord
  <2>. QED
    BY <1>1, <1>2, <2>2
<1>6. ASSUME NEW m \in Msg, Recycle(m)
      PROVE  msg'[k].wait <= OrderedDelay
  <2>1. /\ msg' = [msg EXCEPT ![m].wait = RecycleLatency, ![m].tries = @ + 1]
        /\ msg[m].port \in ctl.recycles
    BY <1>6 DEF Recycle, recycle
  <2>2. msg'[k].port = msg[k].port /\ msg'[k].st = msg[k].st
    BY <1>0, <2>1 DEF TypeOK, MsgRecord
  <2>3. k # m
    BY <1>0, <1>1, <2>1, <2>2, PortDiscipline DEF TypeOK
  <2>4. msg'[k] = msg[k]
    BY <1>0, <2>1, <2>3 DEF TypeOK
  <2>. QED
    BY <1>1, <1>2, <2>4
<1>7. ASSUME NEW m \in Msg, Serve(m)
      PROVE  msg'[k].wait <= OrderedDelay
  BY <1>0, <1>1, <1>2, <1>7, OutsideType DEF Serve, TypeOK
<1>8. ASSUME NEW m \in Msg, Finish(m)
      PROVE  msg'[k].wait <= OrderedDelay
  <2>0. PICK W : W = Woken(msg[m].port, msg[m].line)
    OBVIOUS
  <2>1. /\ msg' = [j \in Msg |-> IF j = m THEN Outside("done", "resp")
                                  ELSE IF j \in W THEN [msg[j] EXCEPT !.st = "heap"]
                                  ELSE msg[j]]
        /\ \A j \in W : msg[j].st = "stalled"
    <3>1. \A j \in W : msg[j].st = "stalled"
      BY <2>0 DEF Woken
    <3>. QED
      BY <1>8, <2>0, <3>1 DEF Finish
  <2>2. k # m
    BY <1>1, <2>1, OutsideType
  <2>3. /\ msg'[k].port = msg[k].port /\ msg'[k].wait = msg[k].wait
        /\ msg[k].st \in {"heap", "stalled"}
    BY <1>0, <1>1, <2>1, <2>2 DEF TypeOK, MsgRecord
  <2>. QED
    BY <1>1, <1>2, <2>3
<1>9. CASE Tick
  <2>1. msg[k] \in MsgRecord /\ OrderedDelay \in Nat
    BY <1>0, BoundAssumption DEF TypeOK
  <2>2. msg'[k] = IF msg[k].wait > 0 THEN [msg[k] EXCEPT !.wait = @ - 1] ELSE msg[k]
    BY <1>9 DEF Tick
  <2>3. /\ msg'[k].port = msg[k].port /\ msg'[k].st = msg[k].st
        /\ msg'[k].wait <= msg[k].wait /\ msg[k].wait \in Nat /\ msg'[k].wait \in Nat
    BY <2>1, <2>2 DEF MsgRecord
  <2>. QED
    BY <1>1, <1>2, <2>1, <2>3
<1>. QED
  BY <1>3, <1>4, <1>5, <1>6, <1>7, <1>8, <1>9 DEF Next, Answer, Run, Attempt

\* No ordered buffer panics with "FIFO ordering violated", for any number of
\* messages and any stalls, wakeups and refused transitions: requests and
\* responses are sent to it with one latency, and it does not recycle.
THEOREM OrderedBuffersStayOrdered == Spec => []OrderedNeverPanics
<1>1. Init => Ordered
  BY OutsideType DEF Init, Ordered, Held
<1>2. Ordered => OrderedNeverPanics
  BY DEF Ordered, OrderedNeverPanics, InFifoOrder, Latency
<1>. QED
  BY <1>1, <1>2, InitHolds, StepKeeps, StepOrdered, PTL DEF Spec

=============================================================================
