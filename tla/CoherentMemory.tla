--------------------------- MODULE CoherentMemory ---------------------------
(***************************************************************************)
(* What the cache hierarchy promises the cores about one line: it behaves  *)
(* as if a core took a read or a write copy of one memory line in a single *)
(* step, gave it back in a single step, and wrote only while it held the   *)
(* line alone.  MersiThreeLevel implements it.                             *)
(***************************************************************************)
CONSTANTS Core, Word, Value, InitLine, NoData

Line  == [Word -> Value]
Patch == UNION {[W -> Value] : W \in SUBSET Word}

VARIABLES
    line,   \* the contents of the line
    mode,   \* what each core may do with its copy
    copy    \* the copy of each core, NoData when it has none

vars == <<line, mode, copy>>

Overlay(patch, block) ==
    [w \in Word |-> IF w \in DOMAIN patch THEN patch[w] ELSE block[w]]

Init ==
    /\ line = InitLine
    /\ mode = [c \in Core |-> "none"]
    /\ copy = [c \in Core |-> NoData]

Alone(c) == \A d \in Core \ {c} : mode[d] = "none"

Take(c, m, block) ==
    /\ mode' = [mode EXCEPT ![c] = m]
    /\ copy' = [copy EXCEPT ![c] = block]

TakeShared(c) ==
    /\ mode[c] = "none"
    /\ \A d \in Core : mode[d] # "write"
    /\ Take(c, "read", line)
    /\ UNCHANGED line

TakeAlone(c) ==
    /\ mode[c] = "none" /\ Alone(c)
    /\ Take(c, "write", line)
    /\ UNCHANGED line

(* A store: with a copy held alone, or with one obtained for it. *)
Write(c, w, v) ==
    /\ Alone(c)
    /\ line' = [line EXCEPT ![w] = v]
    /\ Take(c, "write", line')

Drop(c) ==
    /\ Take(c, "none", NoData)
    /\ UNCHANGED line

(* A DMA write, while no core has a copy. *)
DeviceWrite(patch) ==
    /\ \A c \in Core : mode[c] = "none"
    /\ line' = Overlay(patch, line)
    /\ UNCHANGED <<mode, copy>>

Next ==
    \/ \E c \in Core : Drop(c)
    \/ \E c \in Core : TakeShared(c) \/ TakeAlone(c)
    \/ \E c \in Core, w \in Word, v \in Value : Write(c, w, v)
    \/ \E patch \in Patch : DeviceWrite(patch)

Spec == Init /\ [][Next]_vars

----------------------------------------------------------------------------
AbstractTypeOK ==
    /\ line \in Line
    /\ mode \in [Core -> {"none", "read", "write"}]
    /\ copy \in [Core -> Line \cup {NoData}]

(* A core that may write is the only core with a copy. *)
AbstractSingleWriter ==
    \A c, d \in Core : c # d /\ mode[c] = "write" => mode[d] = "none"

(* Every copy equals the line. *)
AbstractCopiesCurrent ==
    \A c \in Core : mode[c] # "none" => copy[c] = line

Coherent == AbstractSingleWriter /\ AbstractCopiesCurrent
=============================================================================
