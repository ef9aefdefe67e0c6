-------------------------------- MODULE KeyFifo --------------------------------
(***************************************************************************)
(* What a text input protocol promises its reader: keys come out in the    *)
(* order they were typed, each once, none is lost, and a reset forgets the *)
(* ones not yet read.  The comments of src/Driver/ButtonsDxe/ButtonsDxe.c  *)
(* on KeysDxeReadKeyStroke and KeysDxeReset state the same.                *)
(***************************************************************************)
EXTENDS Naturals, Sequences

CONSTANT Codes

VARIABLES
    fifo,       \* keys typed and not yet read, oldest first
    typed,      \* how many keys have been typed
    delivered   \* the key the last successful read returned

fifoVars == <<fifo, typed, delivered>>
Nothing == [code |-> "SCAN_NULL", id |-> 0]

Init == fifo = <<>> /\ typed = 0 /\ delivered = Nothing

(* A poll may find a key, and the read that polled may take the oldest one. *)
Typed(code) == Append(fifo, [code |-> code, id |-> typed + 1])

Type(code) == fifo' = Typed(code) /\ typed' = typed + 1 /\ UNCHANGED delivered
Read == fifo # <<>> /\ delivered' = Head(fifo) /\ fifo' = Tail(fifo) /\ UNCHANGED typed
TypeAndRead(code) ==
    /\ delivered' = Head(Typed(code)) /\ fifo' = Tail(Typed(code))
    /\ typed' = typed + 1
Reset == fifo' = <<>> /\ UNCHANGED <<typed, delivered>>

Next == Read \/ Reset \/ \E code \in Codes : Type(code) \/ TypeAndRead(code)
Spec == Init /\ [][Next]_fifoVars
================================================================================
