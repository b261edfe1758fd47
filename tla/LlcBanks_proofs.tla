--------------------------- MODULE LlcBanks_proofs ---------------------------
(* Machine-checked proofs about the L2 banks, for every number of banks,   *)
(* sets and messages, every latency and every refresh period.              *)
EXTENDS LlcBanks, TLAPS

-----------------------------------------------------------------------------
(* Arithmetic and the bank map *)

\* The remainder used for the refresh phase lies below its divisor.
LEMMA ModBound ==
    ASSUME NEW a \in Int, NEW n \in Nat \ {0}
    PROVE  a % n \in 0 .. n - 1
  BY Z3

\* A number below the modulus is its own remainder.
LEMMA ModSmall ==
    ASSUME NEW a \in Nat, NEW n \in Nat \ {0}, a < n
    PROVE  a % n = a
  BY Z3

\* mapIndexToBank sends every set to a bank that exists.
LEMMA BankInRange ==
    ASSUME NEW idx \in Sets, NEW banks \in Nat \ {0}
    PROVE  mapIndexToBank(idx, banks) \in 0 .. banks - 1
  BY ModBound, SizeAssumption DEF mapIndexToBank, Sets

\* The extra time charged to a data access lies within one refresh window:
\* the unsigned subtraction is only made when it cannot wrap.
LEMMA DataTimeBound ==
    ASSUME NEW base \in Nat, NEW cycle \in Nat
    PROVE  /\ DataTime(base, cycle) \in Nat
           /\ base <= DataTime(base, cycle)
           /\ DataTime(base, cycle) <= base + (DataRefreshTotal - DataRefreshPeriod)
  <1> DEFINE p == cycle % DataRefreshTotal
  <1>1. p \in 0 .. DataRefreshTotal - 1
    BY ModBound, RefreshAssumption
  <1>2. ASSUME p > DataRefreshPeriod
        PROVE  (p - DataRefreshPeriod) % CycleMod = p - DataRefreshPeriod
    <2>1. p - DataRefreshPeriod \in Nat /\ p - DataRefreshPeriod < CycleMod
      BY <1>1, <1>2, RefreshAssumption
    <2> QED BY <2>1, ModSmall, RefreshAssumption
  <1> QED
    BY <1>1, <1>2, RefreshAssumption
    DEF DataTime, dataBankCheckRefresh, additionalDataRefreshLatency, Minus,
        Phase, getRefreshStartPoint

\* The same bound for a tag access.
LEMMA TagTimeBound ==
    ASSUME NEW base \in Nat, NEW cycle \in Nat
    PROVE  /\ TagTime(base, cycle) \in Nat
           /\ base <= TagTime(base, cycle)
           /\ TagTime(base, cycle) <= base + (TagRefreshTotal - TagRefreshPeriod)
  <1> DEFINE p == cycle % TagRefreshTotal
  <1>1. p \in 0 .. TagRefreshTotal - 1
    BY ModBound, RefreshAssumption
  <1>2. ASSUME p > TagRefreshPeriod
        PROVE  (p - TagRefreshPeriod) % CycleMod = p - TagRefreshPeriod
    <2>1. p - TagRefreshPeriod \in Nat /\ p - TagRefreshPeriod < CycleMod
      BY <1>1, <1>2, RefreshAssumption
    <2> QED BY <2>1, ModSmall, RefreshAssumption
  <1> QED
    BY <1>1, <1>2, RefreshAssumption
    DEF TagTime, tagBankCheckRefresh, additionalTagRefreshLatency, Minus,
        Phase, getRefreshStartPoint

-----------------------------------------------------------------------------
(* What is reserved was asked for *)

\* In every line state, a transition that reserves banks for a hit is raised
\* only after the serial check, and one that reserves them for a miss or a
\* write only after the check at the current cycle.
LEMMA CheckCoversReserve ==
    ASSUME NEW type \in MessageTypes, NEW a \in Attempts[type]
    PROVE  /\ a.reserve \in {"hit", "miss", "write", "none"}
           /\ a.reserve = "hit" => a.check = "serial"
           /\ a.reserve \in {"miss", "write"} => a.check = "now"
  <1>1. PICK st \in L2States, sharer \in BOOLEAN :
           a = [check |-> BankCheck(type, st, sharer),
                reserve |-> ReserveAction(type, st, sharer)]
    BY DEF Attempts
  <1> DEFINE c == BankCheck(type, st, sharer)
             r == ReserveAction(type, st, sharer)
  <1>2. /\ r \in {"hit", "miss", "write", "none"}
        /\ r = "hit" => c = "serial"
        /\ r \in {"miss", "write"} => c = "now"
    BY DEF BankCheck, ReserveAction, MessageTypes, L2States
  <1> QED BY <1>1, <1>2

\* What reserveSpecf does to an array: it is a no-op, or it books one bank,
\* free at that point, from init_cycle on.
LEMMA ReserveEffect ==
    ASSUME NEW banks \in Nat \ {0}, NEW array \in [0 .. banks - 1 -> AccessRecord],
           NEW idx \in Sets, NEW time \in Nat, NEW init \in Nat,
           NEW next, next = reserveSpecf(array, banks, idx, time, init)
    PROVE  /\ next \in [0 .. banks - 1 -> AccessRecord]
           /\ \A b \in 0 .. banks - 1 :
                \/ next[b] = array[b]
                \/ /\ time # 0
                   /\ array[b].endAccess < init
                   /\ next[b].startAccess = init
                   /\ next[b].endAccess = init + (time - 1)
  <1> DEFINE b0 == mapIndexToBank(idx, banks)
             rec == [idx |-> idx, startAccess |-> init,
                     endAccess |-> init + (time - 1)]
  <1>1. b0 \in 0 .. banks - 1
    BY BankInRange
  <1>2. array[b0].endAccess \in Nat
    BY <1>1 DEF AccessRecord
  <1>3. CASE time = 0 \/ array[b0].endAccess >= init
    BY <1>3 DEF reserveSpecf
  <1>4. CASE ~(time = 0 \/ array[b0].endAccess >= init)
    <2>1. next = [array EXCEPT ![b0] = rec]
      BY <1>4 DEF reserveSpecf
    <2>2. rec \in AccessRecord
      BY <1>4 DEF AccessRecord
    <2> QED BY <1>1, <1>2, <1>4, <2>1, <2>2
  <1> QED BY <1>3, <1>4

-----------------------------------------------------------------------------
(* The inductive invariant *)

\* The type invariant, no panic, and the bound on how long a bank is held.
BankInv == TypeOK /\ NoReservationError /\ HoldBounded

\* The bound on how long a bank is held is a number of cycles.
LEMMA MaxHoldNat == MaxHold \in Nat
  BY LatencyAssumption, RefreshAssumption DEF MaxHold

\* The times a transition reserves: naturals, starting now or serial_latency
\* later, and ending within MaxHold cycles.
LEMMA ReserveTimes ==
    ASSUME TypeOK, NEW act
    PROVE  LET r == r_reserveBanks(act)
           IN  /\ r.data \in Nat /\ r.tag \in Nat /\ r.init \in Nat
               /\ r.init + r.data <= now + MaxHold
               /\ now + r.tag <= now + MaxHold
  <1> DEFINE r == r_reserveBanks(act)
             dw == DataRefreshTotal - DataRefreshPeriod
             tw == TagRefreshTotal - TagRefreshPeriod
  <1>0. now \in Nat /\ dw \in Nat /\ tw \in Nat
    BY RefreshAssumption DEF TypeOK
  <1>a. MaxHold = SerialLatency + DataReadLatency + DataWriteLatency
                   + TagReadLatency + TagWriteLatency + ParallelPenalty + dw + tw
    BY LatencyAssumption, RefreshAssumption DEF MaxHold
  <1> HIDE DEF dw, tw
  <1>1. CASE act = "write"
    <2> DEFINE d == DataTime(DataWriteLatency, now)
               t == TagTime(TagWriteLatency, now)
    <2>1. d \in Nat /\ d <= DataWriteLatency + dw
      BY <1>0, DataTimeBound, LatencyAssumption DEF dw
    <2>2. t \in Nat /\ t <= TagWriteLatency + tw
      BY <1>0, TagTimeBound, LatencyAssumption DEF tw
    <2>3. r.data = d /\ r.tag = t /\ r.init = now
      BY <1>1 DEF r_reserveBanks
    <2> HIDE DEF d, t, r
    <2> QED BY <1>0, <1>a, <2>1, <2>2, <2>3, LatencyAssumption DEF r
  <1>2. CASE act = "hit"
    <2> DEFINE d == DataTime(DataReadLatency, now + SerialLatency)
               t == TagTime(TagReadLatency, now)
    <2>0. now + SerialLatency \in Nat
      BY <1>0, LatencyAssumption
    <2>1. d \in Nat /\ d <= DataReadLatency + dw
      BY <2>0, DataTimeBound, LatencyAssumption DEF dw
    <2>2. t \in Nat /\ t <= TagReadLatency + tw
      BY <1>0, TagTimeBound, LatencyAssumption DEF tw
    <2>3. r.data = d /\ r.tag = t /\ r.init = now + SerialLatency
      BY <1>2 DEF r_reserveBanks
    <2> HIDE DEF d, t, r
    <2> QED BY <1>0, <1>a, <2>1, <2>2, <2>3, LatencyAssumption DEF r
  <1>3. CASE act = "miss"
    <2> DEFINE d == DataTime(TagReadLatency, now)
               t == TagTime(TagReadLatency, now)
    <2>1. d \in Nat /\ d <= TagReadLatency + dw
      BY <1>0, DataTimeBound, LatencyAssumption DEF dw
    <2>2. t \in Nat /\ t <= TagReadLatency + tw
      BY <1>0, TagTimeBound, LatencyAssumption DEF tw
    <2>3. /\ r.data = d + ParallelPenalty \/ r.data = 0
          /\ r.tag = t /\ r.init = now
      BY <1>3 DEF r_reserveBanks
    <2> HIDE DEF d, t, r
    <2> QED BY <1>0, <1>a, <2>1, <2>2, <2>3, LatencyAssumption DEF r
  <1>4. CASE act \notin {"write", "hit", "miss"}
    <2>1. r.data = 0 /\ r.tag = 0 /\ r.init = now
      BY <1>4 DEF r_reserveBanks
    <2> QED BY <1>0, <2>1, MaxHoldNat
  <1> QED BY <1>1, <1>2, <1>3, <1>4

\* The reservations of one Handle step are free of error.
LEMMA HandleIsGranted ==
    ASSUME BankInv, NEW m \in Messages,
           NEW a \in Attempts[msg[m].type], BanksFree(a.check, msg[m].idx)
    PROVE  LET i == msg[m].idx
               r == r_reserveBanks(a.reserve)
           IN  /\ ~ReservationError(data, NumDataBanks, i, r.data, r.init)
               /\ ~ReservationError(tag, NumTagBanks, i, r.tag, now)
  <1> DEFINE i == msg[m].idx
             r == r_reserveBanks(a.reserve)
             db == mapIndexToBank(i, NumDataBanks)
             tb == mapIndexToBank(i, NumTagBanks)
  <1>1. msg[m].type \in MessageTypes /\ i \in Sets
    BY DEF BankInv, TypeOK, Message
  <1>2. /\ a.reserve \in {"hit", "miss", "write", "none"}
        /\ a.reserve = "hit" => a.check = "serial"
        /\ a.reserve \in {"miss", "write"} => a.check = "now"
    BY <1>1, CheckCoversReserve
  <1>3. /\ data[db].endAccess \in Nat /\ tag[tb].endAccess \in Nat
        /\ now \in Nat /\ now + SerialLatency \in Nat
    <2>1. db \in DataBanks /\ tb \in TagBanks
      BY <1>1, BankInRange, SizeAssumption DEF DataBanks, TagBanks
    <2> QED
      BY <2>1, LatencyAssumption DEF BankInv, TypeOK, AccessRecord
  <1>4. /\ a.check = "serial" => data[db].endAccess < now + SerialLatency
        /\ a.check = "now" => data[db].endAccess < now
        /\ a.check # "none" => tag[tb].endAccess < now
    BY <1>2, StallAssumption
    DEF BanksFree, checkResourceAvailableSpecf, tryAccessSpecf
  <1>5. CASE a.reserve = "none"
    BY <1>5 DEF r_reserveBanks, ReservationError
  <1>6. CASE a.reserve = "hit"
    <2>1. r.init = now + SerialLatency
      BY <1>6 DEF r_reserveBanks
    <2> HIDE DEF r
    <2> QED BY <1>2, <1>3, <1>4, <1>6, <2>1 DEF ReservationError, r
  <1>7. CASE a.reserve \in {"miss", "write"}
    <2>1. r.init = now
      BY <1>7 DEF r_reserveBanks
    <2> HIDE DEF r
    <2> QED BY <1>2, <1>3, <1>4, <1>7, <2>1 DEF ReservationError, r
  <1> QED BY <1>2, <1>5, <1>6, <1>7

\* Idle banks and no message: the invariant holds at the start.
LEMMA BankInvInit == Init => BankInv
  <1> SUFFICES ASSUME Init PROVE BankInv
    OBVIOUS
  <1>1. 0 \in Sets
    BY SizeAssumption DEF Sets
  <1>2. TypeOK
    <2>1. NoMsg \in Message
      BY <1>1 DEF Message, NoMsg, MessageTypes
    <2>2. [idx |-> 0, startAccess |-> 0, endAccess |-> 0] \in AccessRecord
      BY <1>1 DEF AccessRecord
    <2>3. now \in Nat /\ panicked \in BOOLEAN
      BY DEF Init
    <2>4. msg \in [Messages -> Message]
      BY <2>1 DEF Init
    <2>5. /\ data \in [DataBanks -> AccessRecord]
          /\ \A b \in DataBanks : data[b].startAccess <= data[b].endAccess
      BY <2>2 DEF Init
    <2>6. /\ tag \in [TagBanks -> AccessRecord]
          /\ \A b \in TagBanks : tag[b].startAccess <= tag[b].endAccess
      BY <2>2 DEF Init
    <2> QED BY <2>3, <2>4, <2>5, <2>6 DEF TypeOK
  <1>3. NoReservationError
    BY DEF Init, NoReservationError
  <1>4. HoldBounded
    BY MaxHoldNat DEF Init, HoldBounded
  <1> QED BY <1>2, <1>3, <1>4 DEF BankInv

\* A Handle step keeps the invariant, and its new bookings start after the
\* accesses they replace have ended.
LEMMA HandleStep ==
    ASSUME BankInv, NEW m \in Messages, Handle(m)
    PROVE  /\ BankInv'
           /\ \A b \in DataBanks :
                data'[b] # data[b] => data'[b].startAccess > data[b].endAccess
           /\ \A b \in TagBanks :
                tag'[b] # tag[b] => tag'[b].startAccess > tag[b].endAccess
  <1> DEFINE i == msg[m].idx
  <1>1. PICK a \in Attempts[msg[m].type] :
          LET r == r_reserveBanks(a.reserve)
          IN  /\ BanksFree(a.check, i)
              /\ data' = reserveSpecf(data, NumDataBanks, i, r.data, r.init)
              /\ tag' = reserveSpecf(tag, NumTagBanks, i, r.tag, now)
              /\ panicked' = (\/ ReservationError(data, NumDataBanks, i, r.data, r.init)
                              \/ ReservationError(tag, NumTagBanks, i, r.tag, now))
    BY DEF Handle
  <1> DEFINE r == r_reserveBanks(a.reserve)
  <1>2. /\ r.data \in Nat /\ r.tag \in Nat /\ r.init \in Nat /\ now \in Nat
        /\ r.init + r.data <= now + MaxHold
        /\ now + r.tag <= now + MaxHold
    BY ReserveTimes DEF BankInv, TypeOK
  <1>3. panicked' = FALSE
    BY <1>1, HandleIsGranted
  <1>4. i \in Sets /\ UNCHANGED now /\ msg' = [msg EXCEPT ![m] = Done]
    BY DEF BankInv, TypeOK, Message, Handle
  <1> HIDE DEF r
  <1>5. /\ data' \in [DataBanks -> AccessRecord]
        /\ \A b \in DataBanks :
             \/ data'[b] = data[b]
             \/ /\ r.data # 0
                /\ data[b].endAccess < r.init
                /\ data'[b].startAccess = r.init
                /\ data'[b].endAccess = r.init + (r.data - 1)
    <2>1. data' = reserveSpecf(data, NumDataBanks, i, r.data, r.init)
      BY <1>1 DEF r
    <2>2. data \in [0 .. NumDataBanks - 1 -> AccessRecord]
      BY DEF BankInv, TypeOK, DataBanks
    <2>3. NumDataBanks \in Nat \ {0}
      BY SizeAssumption
    <2>4. i \in Sets /\ r.data \in Nat /\ r.init \in Nat
      BY <1>2, <1>4
    <2> HIDE DEF i
    <2> QED
      BY ONLY <2>1, <2>2, <2>3, <2>4, ReserveEffect, SMTT(30) DEF DataBanks
  <1>6. /\ tag' \in [TagBanks -> AccessRecord]
        /\ \A b \in TagBanks :
             \/ tag'[b] = tag[b]
             \/ /\ r.tag # 0
                /\ tag[b].endAccess < now
                /\ tag'[b].startAccess = now
                /\ tag'[b].endAccess = now + (r.tag - 1)
    <2>1. tag' = reserveSpecf(tag, NumTagBanks, i, r.tag, now)
      BY <1>1 DEF r
    <2>2. tag \in [0 .. NumTagBanks - 1 -> AccessRecord]
      BY DEF BankInv, TypeOK, TagBanks
    <2>3. NumTagBanks \in Nat \ {0}
      BY SizeAssumption
    <2>4. i \in Sets /\ r.tag \in Nat /\ now \in Nat
      BY <1>2, <1>4
    <2> HIDE DEF i
    <2> QED
      BY ONLY <2>1, <2>2, <2>3, <2>4, ReserveEffect, SMTT(30) DEF TagBanks
  <1>7. \A b \in DataBanks : data[b].endAccess \in Nat /\ data[b].startAccess \in Nat
    BY DEF BankInv, TypeOK, AccessRecord
  <1>8. \A b \in TagBanks : tag[b].endAccess \in Nat /\ tag[b].startAccess \in Nat
    BY DEF BankInv, TypeOK, AccessRecord
  <1>9. TypeOK'
    <2>1. msg' \in [Messages -> Message]
      <3>1. Done \in Message
        BY SizeAssumption DEF Done, NoMsg, Message, MessageTypes, Sets
      <3> QED BY <1>4, <3>1 DEF BankInv, TypeOK
    <2>a. /\ \A b \in DataBanks : data[b].startAccess <= data[b].endAccess
          /\ \A b \in TagBanks : tag[b].startAccess <= tag[b].endAccess
      BY DEF BankInv, TypeOK
    <2>2. \A b \in DataBanks : data'[b].startAccess <= data'[b].endAccess
      BY <1>2, <1>5, <1>7, <2>a
    <2>3. \A b \in TagBanks : tag'[b].startAccess <= tag'[b].endAccess
      BY <1>2, <1>6, <1>8, <2>a
    <2> QED
      BY <1>2, <1>3, <1>4, <1>5, <1>6, <2>1, <2>2, <2>3 DEF TypeOK
  <1>10. HoldBounded'
    <2>1. \A b \in DataBanks : data'[b].endAccess <= now + MaxHold
      BY <1>2, <1>5, <1>7, MaxHoldNat DEF BankInv, HoldBounded
    <2>2. \A b \in TagBanks : tag'[b].endAccess <= now + MaxHold
      BY <1>2, <1>6, <1>8, MaxHoldNat DEF BankInv, HoldBounded
    <2> QED BY <1>4, <2>1, <2>2 DEF HoldBounded, MaxHold
  <1>11. BankInv'
    BY <1>3, <1>9, <1>10 DEF BankInv, NoReservationError
  <1> QED BY <1>5, <1>6, <1>11

\* Every other step leaves the banks alone and keeps the invariant.
LEMMA OtherSteps ==
    ASSUME BankInv,
           \/ \E m \in Messages : Arrive(m) \/ Recycle(m)
           \/ Tick
           \/ UNCHANGED vars
    PROVE  BankInv' /\ UNCHANGED <<data, tag>>
  <1> USE DEF BankInv, NoReservationError
  <1>1. ASSUME NEW m \in Messages, Arrive(m)
        PROVE  BankInv' /\ UNCHANGED <<data, tag>>
    <2>1. msg' \in [Messages -> Message]
      BY <1>1 DEF Arrive, TypeOK, Message
    <2>2. UNCHANGED <<now, data, tag, panicked>>
      BY <1>1 DEF Arrive
    <2> QED BY <2>1, <2>2 DEF TypeOK, HoldBounded, MaxHold
  <1>2. ASSUME NEW m \in Messages, Recycle(m)
        PROVE  BankInv' /\ UNCHANGED <<data, tag>>
    <2>1. msg' = [msg EXCEPT ![m].ready = now + RecycleLatency]
          /\ UNCHANGED <<now, data, tag, panicked>>
      BY <1>2 DEF Recycle
    <2>2. now + RecycleLatency \in Nat
      BY LatencyAssumption DEF TypeOK
    <2>3. msg' \in [Messages -> Message]
      BY <2>1, <2>2 DEF TypeOK, Message
    <2> QED BY <2>1, <2>3 DEF TypeOK, HoldBounded, MaxHold
  <1>3. CASE Tick
    <2>1. now' = now + 1 /\ UNCHANGED <<data, tag, msg, panicked>>
      BY <1>3 DEF Tick
    <2>2. TypeOK'
      BY <2>1 DEF TypeOK
    <2>3. /\ \A b \in DataBanks : data[b].endAccess \in Nat
          /\ \A b \in TagBanks : tag[b].endAccess \in Nat
      BY DEF TypeOK, AccessRecord
    <2>4. now \in Nat
      BY DEF TypeOK
    <2>5. HoldBounded'
      <3>1. MaxHold' = MaxHold
        BY DEF MaxHold
      <3> QED BY <2>1, <2>3, <2>4, <3>1, MaxHoldNat DEF HoldBounded
    <2> QED BY <2>1, <2>2, <2>5
  <1>4. CASE UNCHANGED vars
    BY <1>4 DEF vars, TypeOK, HoldBounded, MaxHold
  <1> QED BY <1>1, <1>2, <1>3, <1>4

\* The invariant is inductive.
LEMMA BankInvNext == BankInv /\ [Next]_vars => BankInv'
  <1> SUFFICES ASSUME BankInv, [Next]_vars PROVE BankInv'
    OBVIOUS
  <1>1. ASSUME NEW m \in Messages, Handle(m) PROVE BankInv'
    BY <1>1, HandleStep
  <1>2. CASE \/ \E m \in Messages : Arrive(m) \/ Recycle(m)
             \/ Tick
             \/ UNCHANGED vars
    BY <1>2, OtherSteps
  <1> QED BY <1>1, <1>2 DEF Next

-----------------------------------------------------------------------------
(* Theorems *)

\* The inductive invariant of the L2's check, reserve and recycle cycle.
THEOREM BanksInvariant == Spec => []BankInv
  <1> QED BY BankInvInit, BankInvNext, PTL DEF Spec

\* Type correctness of the bank model.
THEOREM BanksTypeCorrect == Spec => []TypeOK
  <1>1. BankInv => TypeOK
    BY DEF BankInv
  <1> QED BY <1>1, BanksInvariant, PTL

\* For every geometry, latency and refresh setting, reserveSpecf never reaches
\* panic("BankedArray reservation error").
THEOREM BanksNeverPanic == Spec => []NoReservationError
  <1>1. BankInv => NoReservationError
    BY DEF BankInv
  <1> QED BY <1>1, BanksInvariant, PTL

\* For every setting, no bank is held past its access plus one refresh window,
\* so the unsigned refresh subtraction never wraps.
THEOREM BanksHoldBounded == Spec => []HoldBounded
  <1>1. BankInv => HoldBounded
    BY DEF BankInv
  <1> QED BY <1>1, BanksInvariant, PTL

\* For every setting, two accesses never overlap in a bank.
THEOREM BanksServeOneAccess == Spec => OneAccessAtATime
  <1> DEFINE Fresh ==
        /\ \A b \in DataBanks :
             data'[b] # data[b] => data'[b].startAccess > data[b].endAccess
        /\ \A b \in TagBanks :
             tag'[b] # tag[b] => tag'[b].startAccess > tag[b].endAccess
  <1>1. BankInv /\ [Next]_vars => [Fresh]_vars
    <2> SUFFICES ASSUME BankInv, [Next]_vars PROVE Fresh
      OBVIOUS
    <2>1. ASSUME NEW m \in Messages, Handle(m) PROVE Fresh
      BY <2>1, HandleStep
    <2>2. CASE \/ \E m \in Messages : Arrive(m) \/ Recycle(m)
               \/ Tick
               \/ UNCHANGED vars
      BY <2>2, OtherSteps
    <2> QED BY <2>1, <2>2 DEF Next
  <1> QED BY <1>1, BanksInvariant, PTL DEF Spec, OneAccessAtATime

=============================================================================
