------------------------------ MODULE BamPipe ------------------------------
(***************************************************************************)
(* BamDxe: a pipe of the bus access manager.  The driver writes            *)
(* descriptors into a ring, tells the engine how far they go, and polls    *)
(* for the interrupt the last of them asks for; the engine works through   *)
(* them in parallel.  The driver keeps its place twice: fifo.current, where *)
(* the next descriptor goes, and fifo.offset, the offset after that, from  *)
(* which the next event is computed; both are read back from the engine by *)
(* bam_read_offset_update.  Offsets count descriptors of BAM_DESC_SIZE     *)
(* bytes here.                                                             *)
(***************************************************************************)
EXTENDS Integers, Sequences

CONSTANTS
    Sizes,            \* fifo.size of the client's pipe
    Offsets,          \* descriptors that the 16 bits of an offset reach: 8192
    MaxRounds         \* bound on the transfers and set-ups of the pipe

SizesAssumption == Sizes \subseteq Nat \ {0} /\ Offsets \in Nat \ {0} /\ MaxRounds \in Nat

\* 0x7FFF descriptors, four times what the offsets reach.
MaxSize == 4 * Offsets - 1
ispow2(n) == \E k \in 0..14 : n = 2^k

\* The flag that asks for an interrupt, and those refused in some company.
Flags == {"INT", "EOT"}
OtherFlags == {"CMD", "LOCK", "UNLOCK"}
InterruptOf == [INT |-> "P_PRCSD_DESC", EOT |-> "P_TRNSFR_END"]

VARIABLES
    fifo,         \* size, current, offset, initialized
    slots,        \* the ring's memory
    engine,       \* SW_OFSTS, the event register, the interrupt status, an error
    client,       \* what the client is about to do, and its transfer's flag
    told,         \* the descriptors of this transfer that the engine was told of
    processed,    \* the descriptors the engine processed in this transfer
    skipped       \* whether a descriptor was refused since the pipe was set up
bvars == <<fifo, slots, engine, client, told, processed, skipped>>

Nobody == [round |-> 0, k |-> 0, flag |-> "none"]
Init ==
    /\ \E size \in Sizes :
          /\ fifo = [size |-> size, current |-> 0, offset |-> 0, initialized |-> FALSE]
          /\ slots = [i \in 0..size - 1 |-> Nobody]
    /\ engine = [at |-> 0, event |-> 0, irq |-> {}, error |-> FALSE, on |-> FALSE]
    /\ client = [at |-> "idle", round |-> 0, added |-> 0, flag |-> "INT"]
    /\ told = <<>> /\ processed = <<>> /\ skipped = FALSE

\* bam_init and bam_sys_pipe_init: the resets clear the pipe's registers.
PipeInit ==
    /\ client.at \in {"idle", "failed"}
    /\ fifo' = [fifo EXCEPT !.initialized = FALSE]
    /\ engine' = [at |-> 0, event |-> 0, irq |-> {}, error |-> FALSE, on |-> TRUE]
    /\ client.round < MaxRounds
    /\ client' = [client EXCEPT !.at = "reset", !.round = @ + 1, !.added = 0]
    /\ told' = <<>> /\ processed' = <<>> /\ skipped' = FALSE /\ UNCHANGED slots

\* Too large a ring is refused, and one whose size is no power of two stops
\* the program at its assertion.
bam_pipe_fifo_init ==
    /\ client.at = "reset" /\ fifo.size <= MaxSize
    /\ \/ /\ ~ispow2(fifo.size)
          /\ client' = [client EXCEPT !.at = "asserted"] /\ UNCHANGED fifo
       \/ /\ ispow2(fifo.size)
          /\ fifo' = [fifo EXCEPT !.current = 0, !.offset = 1, !.initialized = TRUE]
          /\ client' = [client EXCEPT !.at = "ready"]
    /\ UNCHANGED <<slots, engine, told, processed, skipped>>

fifo_getnext(slot) == IF slot = fifo.size - 1 THEN 0 ELSE slot + 1

\* bam_add_one_desc: without a ring, with a lock and an unlock in one, or
\* with the end of a transfer on a command, the descriptor is refused.
Refused(flag, others) ==
    \/ ~fifo.initialized
    \/ {"LOCK", "UNLOCK"} \subseteq others
    \/ flag = "EOT" /\ "CMD" \in others
bam_add_one_desc(flag, others) ==
    \/ Refused(flag, others) /\ skipped' = TRUE /\ UNCHANGED <<fifo, slots>>
    \/ /\ ~Refused(flag, others) /\ UNCHANGED skipped
       /\ slots' = [slots EXCEPT ![fifo.current] =
                      [round |-> client.round, k |-> client.added + 1, flag |-> flag]]
       /\ fifo' = [fifo EXCEPT !.current = fifo_getnext(fifo.current)]

\* A turn of bam_add_desc's loop: one descriptor, the caller's flags on the
\* last.  It counts whether or not it was refused.
AddOne(last, flag, others) ==
    /\ client.at \in {"reset", "ready"}
    /\ client.round <= MaxRounds /\ client.added < fifo.size
    /\ IF last THEN bam_add_one_desc(flag, others) ELSE bam_add_one_desc("none", {})
    /\ client' = [client EXCEPT !.added = @ + 1, !.flag = flag,
                                !.at = IF last THEN "added" ELSE @]
    /\ UNCHANGED <<engine, told, processed>>

\* What masking an offset with the size less one leaves: the remainder for a
\* power of two.  Other sizes meet it only on a ring never set up, and may
\* come out at any place of it.
Masked(offset) ==
    IF ispow2(fifo.size) THEN {offset % fifo.size} ELSE 0..fifo.size - 1
\* Mutant: the offset is taken for the one before the first descriptor.
EventOneFurther(num_desc) == Masked(num_desc + fifo.offset)
EventOffset(num_desc) == Masked(num_desc - 1 + fifo.offset)

\* The event register gets the place after the last descriptor.  A transfer
\* that fills the ring is not announced, and bam_add_desc, which lets it in,
\* still returns success; one whose descriptors were refused is announced.
bam_sys_gen_event ==
    /\ client.at = "added"
    /\ client' = [client EXCEPT !.at = "waiting"]
    /\ IF client.added >= fifo.size THEN UNCHANGED <<engine, told>>
       ELSE /\ \E event \in EventOffset(client.added) : engine' = [engine EXCEPT !.event = event]
            /\ told' = [k \in 1..client.added |->
                           [round |-> client.round, k |-> k,
                            flag |-> IF k = client.added THEN client.flag ELSE "none"]]
    /\ UNCHANGED <<fifo, slots, processed, skipped>>

\* The engine processes the next descriptor and raises what it asks for.
EngineStep ==
    /\ engine.on /\ engine.at # engine.event
    /\ LET desc == slots[engine.at] IN
       /\ processed' = Append(processed, desc)
       /\ engine' = [engine EXCEPT !.at = (@ + 1) % fifo.size,
                                   !.irq = IF desc.flag = "none" THEN @
                                           ELSE @ \cup {InterruptOf[desc.flag]}]
    /\ UNCHANGED <<fifo, slots, client, told, skipped>>
EngineEmpty ==
    /\ engine.on /\ engine.at = engine.event /\ processed # <<>>
    /\ "P_OUT_OF_DESC" \notin engine.irq
    /\ engine' = [engine EXCEPT !.irq = @ \cup {"P_OUT_OF_DESC"}]
    /\ UNCHANGED <<fifo, slots, client, told, processed, skipped>>
EngineError ==
    /\ engine.on /\ ~engine.error
    /\ engine' = [engine EXCEPT !.error = TRUE]
    /\ UNCHANGED <<fifo, slots, client, told, processed, skipped>>

\* A turn of the loop that returns: on the interrupt of the last descriptor,
\* or on an error, which leaves every bit set.
bam_wait_for_interrupt ==
    /\ client.at = "waiting" /\ (engine.irq # {} \/ engine.error)
    /\ LET awaited == InterruptOf[client.flag] IN
       \/ /\ engine.error \/ ("P_TRNSFR_END" \in engine.irq /\ awaited \notin engine.irq)
          /\ client' = [client EXCEPT !.at = "failed"]
          /\ UNCHANGED engine
       \/ /\ ~engine.error /\ awaited \in engine.irq
          /\ client' = [client EXCEPT !.at = "done"]
          /\ engine' = [engine EXCEPT !.irq = {}]
    /\ UNCHANGED <<fifo, slots, told, processed, skipped>>

\* Of the offset read back, 16 bits are kept.
bam_read_offset_update ==
    /\ client.at = "done"
    /\ LET offset == engine.at % Offsets IN
       fifo' = [fifo EXCEPT !.current = offset, !.offset = offset + 1]
    /\ client' = [client EXCEPT !.at = "ready", !.round = @ + 1, !.added = 0]
    /\ told' = <<>> /\ processed' = <<>>
    /\ UNCHANGED <<slots, engine, skipped>>

BamStep ==
    \/ PipeInit \/ bam_pipe_fifo_init
    \/ \E last \in BOOLEAN, flag \in Flags, others \in SUBSET OtherFlags : AddOne(last, flag, others)
    \/ bam_sys_gen_event \/ bam_wait_for_interrupt \/ bam_read_offset_update
    \/ EngineStep \/ EngineEmpty \/ EngineError

(* Properties *)

\* On a ring that the offsets reach, and as long as no descriptor was
\* refused, the engine works through the descriptors it was told of, in their
\* order, and no slot left from an earlier round; when the wait for the last
\* one succeeds it has processed them all (bam.c 67-114, 249-307, 317-451).
TransferredInOrder ==
    ~skipped /\ fifo.size <= Offsets =>
        /\ Len(processed) <= Len(told) /\ processed = SubSeq(told, 1, Len(processed))
        /\ client.at = "done" => processed = told /\ told # <<>>
=============================================================================
