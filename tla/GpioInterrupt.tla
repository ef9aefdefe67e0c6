--------------------------- MODULE GpioInterrupt ---------------------------
(***************************************************************************)
(* GpioTlmmInterruptDxe over InterruptsLib: the pins of the TLMM share one *)
(* summary interrupt.  Its handler looks at every pin of enabled_irqs and  *)
(* calls the pin's function, which acknowledges the pin.  On hardware that *)
(* detects one edge only, both edges are emulated by turning the polarity  *)
(* round with every acknowledgement.  The driver's calls run at            *)
(* TPL_HIGH_LEVEL, so the handler does not run inside them; the pins move  *)
(* whenever they like.                                                     *)
(***************************************************************************)
EXTENDS Integers, FiniteSets

CONSTANTS
    MaxPin,       \* the pins are 0..MaxPin; MAX_NR_GPIO - 1 in the code
    Types,        \* the TLMM_IRQ_TYPE values the clients use
    LoopLimit     \* loop_limit of msm_gpio_update_dual_edge_pos

GpioAssumption ==
    /\ MaxPin \in Nat /\ LoopLimit \in Nat
    /\ Types \subseteq {"EDGE_RISING", "EDGE_FALLING", "EDGE_BOTH", "LEVEL_HIGH", "LEVEL_LOW"}

Pins == 0..MaxPin

VARIABLES
    width,        \* PcdGpioTlmmIntrDetectionWidth
    summary,      \* the source: "none", "registered" or "unmasked"
    pin,          \* registers, bitmaps and handler of each pin
    at            \* the call or the handler that runs
gvars == <<width, summary, pin, at>>

NoCall == [in |-> "app", i |-> 0, upd |-> "no", p |-> 0, val |-> FALSE, left |-> 0]

\* det and pol: the detection bits and the polarity of the configuration
\* register; raw: RAW_STATUS_EN; hwen: its enable bit; soft: the bit of
\* enabled_irqs; dual: of dual_edge_irqs; custom: CustomHandler is set.
\* called and sync follow what happened and belong to the properties.
Init ==
    /\ width \in 1..2
    /\ summary = "none"
    /\ \E lvl \in [Pins -> BOOLEAN] :
          pin = [p \in Pins |-> [det |-> "level", pol |-> FALSE, raw |-> FALSE, hwen |-> FALSE,
                                 soft |-> FALSE, dual |-> FALSE, custom |-> FALSE,
                                 latched |-> FALSE, level |-> lvl[p],
                                 called |-> FALSE, sync |-> FALSE]]
    /\ at = NoCall

(* The pins *)

\* Does the status bit of a pin set when it goes to a level?
Latches(q, lvl) ==
    CASE q.det = "level"   -> lvl = q.pol
      [] q.det = "edge"    -> lvl = q.pol
      [] q.det = "rising"  -> lvl
      [] q.det = "falling" -> ~lvl
      [] q.det = "both"    -> TRUE

PinMoves(p) ==
    LET q == pin[p] IN
    /\ pin' = [pin EXCEPT ![p] =
                 [q EXCEPT !.level = ~@,
                           !.latched = @ \/ (q.raw /\ Latches(q, ~q.level)),
                           !.sync = @ /\ ~q.latched /\ ~(at.upd # "no" /\ at.p = p)]]
    /\ UNCHANGED <<width, summary, at>>

(* InterruptsLib and msm_gpio_irq_init *)

\* register_int_handler links the entry, registers the source and masks it,
\* with interrupts off from before the registration on.
register_int_handler ==
    /\ summary = "none" /\ summary' = "registered" /\ UNCHANGED <<width, pin, at>>
msm_gpio_irq_set_wake ==
    /\ summary = "registered" /\ summary' = "unmasked" /\ UNCHANGED <<width, pin, at>>

(* The calls of a client *)

\* A raised interrupt is taken as soon as the driver leaves TPL_HIGH_LEVEL, so
\* before the next call.
Raised == \E p \in Pins : pin[p].hwen /\ pin[p].latched
Idle == summary = "unmasked" /\ at.in = "app" /\ at.upd = "no"
App == Idle /\ ~Raised

msm_gpio_irq_mask(p) ==
    /\ App /\ pin[p].hwen
    /\ pin' = [pin EXCEPT ![p].hwen = FALSE, ![p].soft = FALSE]
    /\ UNCHANGED <<width, summary, at>>

\* Mutant: the bit of enabled_irqs is not set.
UnmaskHardwareOnly(p) ==
    /\ App /\ pin[p].custom /\ ~pin[p].hwen
    /\ pin' = [pin EXCEPT ![p].hwen = TRUE]
    /\ UNCHANGED <<width, summary, at>>
\* A client unmasks a pin it has given a type and a function.
msm_gpio_irq_unmask(p) ==
    /\ App /\ pin[p].custom /\ ~pin[p].hwen
    /\ pin' = [pin EXCEPT ![p].hwen = TRUE, ![p].soft = TRUE]
    /\ UNCHANGED <<width, summary, at>>

msm_gpio_irq_set_custom_handler(p) ==
    /\ App /\ pin[p].raw /\ ~pin[p].custom
    /\ pin' = [pin EXCEPT ![p].custom = TRUE]
    /\ UNCHANGED <<width, summary, at>>

Detection(type) ==
    IF type \in {"LEVEL_LOW", "LEVEL_HIGH"} THEN "level"
    ELSE IF width = 1 THEN "edge"
    ELSE CASE type = "EDGE_RISING" -> "rising"
           [] type = "EDGE_FALLING" -> "falling"
           [] type = "EDGE_BOTH" -> "both"
Polarity(type) ==
    \/ type \in {"EDGE_RISING", "EDGE_BOTH", "LEVEL_HIGH"}
    \/ type = "EDGE_FALLING" /\ width = 2

\* Turning RAW_STATUS_EN on may set the status of an edge interrupt.  The
\* emulation starts with the polarity turned round, to wait for a falling edge.
msm_gpio_irq_set_type(p, type) ==
    LET dual == type = "EDGE_BOTH" /\ width = 1 IN
    /\ App /\ ~pin[p].hwen
    /\ \E again \in IF pin[p].raw THEN {FALSE} ELSE BOOLEAN :
          pin' = [pin EXCEPT ![p] =
                    [@ EXCEPT !.dual = dual, !.det = Detection(type), !.pol = Polarity(type),
                              !.raw = TRUE, !.latched = pin[p].latched \/ again
                                    \/ (Detection(type) = "level" /\ pin[p].level = Polarity(type)),
                              !.sync = dual /\ pin[p].level /\ ~again /\ ~pin[p].latched]]
    /\ at' = IF dual THEN [at EXCEPT !.upd = "val", !.p = p, !.left = LoopLimit] ELSE at
    /\ UNCHANGED <<width, summary>>

(* msm_gpio_update_dual_edge_pos *)

ReadPin ==
    /\ at.upd = "val"
    /\ at' = [at EXCEPT !.upd = "pol", !.val = pin[at.p].level]
    /\ UNCHANGED <<width, summary, pin>>
\* Mutant: the polarity is set, not turned round.
SetPolarity ==
    /\ at.upd = "pol"
    /\ pin' = [pin EXCEPT ![at.p].pol = TRUE]
    /\ at' = [at EXCEPT !.upd = "val2"]
    /\ UNCHANGED <<width, summary>>
TurnPolarity ==
    /\ at.upd = "pol"
    /\ pin' = [pin EXCEPT ![at.p].pol = ~@]
    /\ at' = [at EXCEPT !.upd = "val2"]
    /\ UNCHANGED <<width, summary>>
\* Returns to the client, or to the handler and its next pin.
CheckPin ==
    /\ at.upd = "val2"
    /\ at' = IF pin[at.p].latched \/ at.val = pin[at.p].level \/ at.left = 0
             THEN [at EXCEPT !.upd = "no", !.p = 0, !.val = FALSE, !.left = 0,
                             !.i = IF at.in = "isr" THEN @ + 1 ELSE @]
             ELSE [at EXCEPT !.upd = "val", !.left = @ - 1]
    /\ UNCHANGED <<width, summary, pin>>

(* InterruptsLibIrqHandler and msm_gpio_irq_handler *)

InterruptsLibIrqHandler ==
    /\ Idle /\ Raised
    /\ at' = [at EXCEPT !.in = "isr"]
    /\ pin' = [p \in Pins |-> [pin[p] EXCEPT !.called = FALSE]]
    /\ UNCHANGED <<width, summary>>

Scanning == at.in = "isr" /\ at.upd = "no"
SkipPin ==
    /\ Scanning /\ at.i \in Pins /\ ~(pin[at.i].soft /\ pin[at.i].latched)
    /\ at' = [at EXCEPT !.i = @ + 1]
    /\ UNCHANGED <<width, summary, pin>>
\* The pin's function acknowledges it: msm_gpio_irq_ack.
CustomHandler ==
    LET q == pin[at.i] IN
    /\ Scanning /\ at.i \in Pins /\ q.soft /\ q.latched /\ q.custom
    /\ pin' = [pin EXCEPT ![at.i] = [q EXCEPT !.called = TRUE,
                  !.latched = q.det = "level" /\ q.level = q.pol]]
    /\ at' = IF q.dual THEN [at EXCEPT !.upd = "val", !.p = at.i, !.left = LoopLimit]
             ELSE [at EXCEPT !.i = @ + 1]
    /\ UNCHANGED <<width, summary>>
EndOfInterrupt ==
    /\ Scanning /\ at.i = MaxPin + 1
    /\ at' = NoCall
    /\ UNCHANGED <<width, summary, pin>>

InitStep == register_int_handler \/ msm_gpio_irq_set_wake
ClientStep ==
    \E p \in Pins :
        \/ msm_gpio_irq_mask(p) \/ msm_gpio_irq_unmask(p)
        \/ msm_gpio_irq_set_custom_handler(p)
        \/ \E type \in Types : msm_gpio_irq_set_type(p, type)
CallStep == ReadPin \/ TurnPolarity \/ CheckPin \/ SkipPin \/ CustomHandler \/ EndOfInterrupt
GpioStep ==
    \/ InitStep \/ ClientStep \/ CallStep \/ InterruptsLibIrqHandler
    \/ \E p \in Pins : PinMoves(p)

(* Properties *)

\* A pin for both edges whose hardware knows one waits for the edge that comes
\* next, as long as the pin was high and quiet when its type was set and never
\* moved between an interrupt and the end of its acknowledgement: the polarity
\* and the level part for good otherwise (Interrupts.c 52-71).
NextEdgeDetected ==
    \A p \in Pins : pin[p].sync /\ ~pin[p].latched /\ ~(at.upd # "no" /\ at.p = p)
                        => pin[p].pol # pin[p].level

\* A pending pin that stays unmasked gets its function called, whatever the
\* other pins do and however often they interrupt (Interrupts.c 237-267).
Pending(p) == pin[p].hwen /\ pin[p].latched
PinServed == \A p \in Pins : Pending(p) ~> (pin[p].called \/ ~pin[p].hwen)
=============================================================================
