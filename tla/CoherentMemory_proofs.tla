----------------------- MODULE CoherentMemory_proofs -----------------------
(***************************************************************************)
(* The atomic memory is coherent for any set of cores, words and values.   *)
(***************************************************************************)
EXTENDS CoherentMemory, TLAPS

(* The two halves of Coherent need each other: a write keeps the copies     *)
(* current because no other core has one.                                   *)
CoherentInv ==
    /\ mode \in [Core -> {"none", "read", "write"}]
    /\ copy = [c \in Core |-> copy[c]]
    /\ Coherent

(* What a core takes is what it then has; the others are left alone.        *)
LEMMA TakeSetsOne ==
    ASSUME CoherentInv, NEW c \in Core, NEW m \in {"none", "read", "write"},
           NEW block, Take(c, m, block)
    PROVE  /\ mode' \in [Core -> {"none", "read", "write"}]
           /\ copy' = [d \in Core |-> copy'[d]]
           /\ mode'[c] = m /\ copy'[c] = block
           /\ \A d \in Core \ {c} : mode'[d] = mode[d] /\ copy'[d] = copy[d]
BY DEF CoherentInv, Take

(* No core has a copy at the start.                                        *)
LEMMA CoherentInit == Init => CoherentInv
BY DEF Init, CoherentInv, Coherent, AbstractSingleWriter, AbstractCopiesCurrent

(* Taking, writing and dropping a copy, and a device write, keep it.        *)
LEMMA CoherentStep == CoherentInv /\ [Next]_vars => CoherentInv'
<1> SUFFICES ASSUME CoherentInv, [Next]_vars PROVE CoherentInv'
  OBVIOUS
<1> USE DEF Coherent, AbstractSingleWriter, AbstractCopiesCurrent
<1>1. ASSUME NEW c \in Core, TakeShared(c) PROVE CoherentInv'
  BY <1>1, TakeSetsOne DEF TakeShared, CoherentInv
<1>2. ASSUME NEW c \in Core, TakeAlone(c) PROVE CoherentInv'
  BY <1>2, TakeSetsOne DEF TakeAlone, Alone, CoherentInv
<1>3. ASSUME NEW c \in Core, Drop(c) PROVE CoherentInv'
  BY <1>3, TakeSetsOne DEF Drop, CoherentInv
<1>4. ASSUME NEW c \in Core, NEW w \in Word, NEW v \in Value, Write(c, w, v)
      PROVE CoherentInv'
  <2>1. Take(c, "write", line') /\ Alone(c)
    BY <1>4 DEF Write
  <2>2. /\ mode' \in [Core -> {"none", "read", "write"}]
        /\ copy' = [d \in Core |-> copy'[d]]
        /\ mode'[c] = "write" /\ copy'[c] = line'
        /\ \A d \in Core \ {c} : mode'[d] = "none"
    BY <2>1, TakeSetsOne DEF Alone
  <2> QED
    BY <2>2 DEF CoherentInv
<1>5. ASSUME NEW patch \in Patch, DeviceWrite(patch) PROVE CoherentInv'
  BY <1>5 DEF DeviceWrite, CoherentInv
<1>6. CASE UNCHANGED vars
  BY <1>6 DEF vars, CoherentInv
<1> QED
  BY <1>1, <1>2, <1>3, <1>4, <1>5, <1>6 DEF Next

(* A core that may write is alone, and every copy is the line as it was     *)
(* last written: what MersiThreeLevel inherits from the atomic memory it    *)
(* implements.                                                              *)
THEOREM MemoryIsCoherent == Spec => []Coherent
<1>1. CoherentInv => Coherent
  BY DEF CoherentInv
<1> QED
  BY <1>1, CoherentInit, CoherentStep, PTL DEF Spec
=============================================================================
