------------------------------ MODULE BootTimer ------------------------------
(***************************************************************************)
(* The timers while kmain boots (src/src/main.rs): the walks over the MADT *)
(* of src/src/acpi/madt.rs, the IOAPIC routing of src/src/hdint.rs, the    *)
(* PIT of src/src/hdint/pit.rs that calibrates the local APIC timer, and   *)
(* the sleep that uses the calibration.  Boot code runs with interrupts    *)
(* enabled, so a handler may run between any two of its steps.  Time is a  *)
(* step of its own: one unit is one count of the local APIC timer.         *)
(***************************************************************************)
EXTENDS Integers, Sequences, FiniteSetsExt

CONSTANTS
  Pins,            \* interrupt inputs of the IOAPIC (32 in the code)
  Tables,          \* sequences of records the MADT may hold
  Extras,          \* bytes by which its length may exceed theirs
  HpetIrqs,        \* sets of lines timer 0 of the HPET may be able to use (irq_capabilities)
  PitPeriod,       \* units between two PIT interrupts
  PIT_INTERVAL,    \* microseconds the handler adds for one of them
  CalibrationUs,   \* setup_timer_pit sleeps this long (1000)
  UsPerMs,         \* 1000
  SleepUs,         \* kmain's sleep (3000000)
  CounterMax,      \* largest value of the 32-bit timer count
  SleepOutlastsArming \* the count never runs out before the timer is unmasked

GLOBAL_PIT == 0
IRQ_LAPIC_CLK == "lapic"
IRQ_PIT       == "pit"
IRQ_HPET      == "hpet"
Vectors == {IRQ_LAPIC_CLK, IRQ_PIT, IRQ_HPET}

(* A record of the MADT: entry_type, record_length and what kmain uses of it. *)
IOAPIC   == 1
OVERRIDE == 2
EntryTypes == {0, IOAPIC, OVERRIDE, 3, 4, 5, 9}
Overrides(t) == {i \in 1..Len(t) : t[i].entry_type = OVERRIDE}

ASSUME TimerAssumption ==
  /\ GLOBAL_PIT \in Pins /\ Pins \subseteq Nat /\ HpetIrqs \subseteq SUBSET Pins
  /\ Extras \subseteq Nat
  /\ \A t \in Tables : Len(t) \in Nat /\ \A i \in 1..Len(t) :
       /\ t[i].entry_type \in Nat /\ t[i].record_length \in Nat
       /\ t[i].entry_type = IOAPIC => t[i].gsi_base \in Nat
       /\ t[i].entry_type = OVERRIDE =>
            /\ t[i].irq_source \in Nat /\ t[i].gsi \in Pins /\ t[i].record_length > 0
            /\ \A j \in Overrides(t) \ {i} :
                 t[j].irq_source # t[i].irq_source /\ t[j].gsi # t[i].gsi
            /\ t[i].polarity \in {"none", "low", "high", "reserved"}
            /\ t[i].trigger \in {"none", "level", "edge", "reserved"}
  /\ {PitPeriod, PIT_INTERVAL, CalibrationUs, UsPerMs, SleepUs, CounterMax} \subseteq Nat \ {0}
  /\ SleepOutlastsArming \in BOOLEAN

(* The first IOAPIC a table lists is the one with GSI 0: the code uses a GSI  *)
(* as the number of an input.                                                 *)
ASSUME IOApicAssumption ==
  \A t \in Tables : \A i \in 1..Len(t) :
    t[i].entry_type = IOAPIC /\ (\A j \in 1..i - 1 : t[j].entry_type # IOAPIC)
      => t[i].gsi_base = 0

(* PIT interrupts that setup_timer_pit waits for, and a timer count that does *)
(* not run out meanwhile (32 bits against a millisecond).                     *)
Intervals == (CalibrationUs + PIT_INTERVAL - 1) \div PIT_INTERVAL
ASSUME CounterAssumption == CounterMax > (Intervals - 1) * PitPeriod

VARIABLES
  pc,          \* where kmain is
  madt,        \* the records of the table
  length,      \* of the table, in its header: counted from the first record
  ptr,         \* of the walk over it: offset of the next record
  base,        \* IOApic::interrupt_base
  ifl,         \* RFLAGS.IF
  irqs,        \* IOApic::irqs
  redir,       \* IOAPIC redirection table
  pit,         \* units to the PIT's next interrupt
  lapic,       \* timer: current count, and LVT mask
  irr,         \* interrupts the local APIC holds
  TIMER_COUNTER, TIMER_FLAGS, IS_SLEEPING, TICKS_PER_MS,
  hpetEnabled, \* main counter of the HPET runs
  waited       \* history: units since sleep_local_us wrote its count

hardware == <<pit, lapic, irr>>
routing  == <<madt, length, ptr, base, irqs, redir>>
statics  == <<TIMER_COUNTER, TIMER_FLAGS, IS_SLEEPING, TICKS_PER_MS>>
others   == <<hpetEnabled, waited>>
vars == <<pc, ifl, hardware, routing, statics, others>>

Masked == [mask |-> TRUE, vector |-> "none", low |-> FALSE, level |-> FALSE]

Sleeping == {"sleep_unmask", "sleep_check", "sleep_hlt", "sleep_halted"}

-----------------------------------------------------------------------------
(* The hardware. *)

(* The input of the IOAPIC that the PIT is wired to, as the MADT reports it.  *)
PitPin ==
  LET of == {i \in Overrides(madt) : madt[i].irq_source = GLOBAL_PIT}
  IN  (IF of = {} THEN GLOBAL_PIT ELSE madt[Min(of)].gsi) - base

PitSignals == PitPin \in Pins /\ ~redir[PitPin].mask

Deliverable == ifl /\ irr # {}

(* A unit of time, long against the latency of an interrupt: the              *)
(* processor has taken those it can.  The one-shot timer counts down to zero  *)
(* and then raises its interrupt unless it is masked; an edge of the PIT      *)
(* reaches the local APIC with the vector of its redirection entry unless     *)
(* that is masked.                                                            *)
TimePasses ==
  /\ ~Deliverable
  /\ SleepOutlastsArming => ~(pc = "sleep_unmask" /\ lapic.count = 1)
  /\ pit' = IF pit = 1 THEN PitPeriod ELSE pit - 1
  /\ lapic' = [lapic EXCEPT !.count = IF @ = 0 THEN 0 ELSE @ - 1]
  /\ irr' = irr \cup (IF lapic.count = 1 /\ ~lapic.masked THEN {IRQ_LAPIC_CLK} ELSE {})
                \cup (IF pit = 1 /\ PitSignals THEN {redir[PitPin].vector} ELSE {})
  /\ waited' = IF pc \in Sleeping THEN Min({waited + 1, CounterMax}) ELSE waited
  /\ UNCHANGED <<pc, ifl, routing, statics, hpetEnabled>>

(* An interrupt ends hlt. *)
Woken == IF pc = "pit_halted" THEN "pit_check"
         ELSE IF pc = "sleep_halted" THEN "sleep_check" ELSE pc

(* The handlers run with interrupts masked (interrupt gates) and do not block. *)
(* CalibrationUs caps the counter: the code tells no larger values apart.      *)
pit_interrupt ==
  /\ Deliverable /\ IRQ_PIT \in irr
  /\ TIMER_COUNTER' = Min({TIMER_COUNTER + PIT_INTERVAL, CalibrationUs})
  /\ irr' = irr \ {IRQ_PIT}
  /\ pc' = Woken
  /\ UNCHANGED <<ifl, pit, lapic, routing, TIMER_FLAGS, IS_SLEEPING, TICKS_PER_MS, others>>

lapic_clk_interrupt ==
  /\ Deliverable /\ IRQ_LAPIC_CLK \in irr
  /\ TIMER_FLAGS' = 0
  /\ irr' = irr \ {IRQ_LAPIC_CLK}
  /\ pc' = Woken
  /\ UNCHANGED <<ifl, pit, lapic, routing, TIMER_COUNTER, IS_SLEEPING, TICKS_PER_MS, others>>

(* The next instruction of kmain runs when no interrupt is taken first. *)
At(label) == pc = label /\ ~Deliverable

-----------------------------------------------------------------------------
(* kmain *)

(* MADT::entries: records follow one another from offset 0.                   *)
LengthOf(t) ==
  LET sum[i \in Nat] == IF i = 0 THEN 0 ELSE sum[i - 1] + t[i].record_length IN sum
Offset(i)   == LengthOf(madt)[i - 1]
Records(at) == {i \in 1..Len(madt) : Offset(i) = at}

Init ==
  /\ pc = "madt_dump" /\ ifl = TRUE
  /\ madt \in Tables /\ ptr = 0 /\ base = 0
  /\ length \in {Offset(Len(madt) + 1) + extra : extra \in Extras}
  /\ \A i \in 1..Len(madt) : Offset(i) < length
  /\ irqs = [i \in Pins |-> 0]
  /\ redir = [p \in Pins |-> Masked]        \* reset value of the hardware
  /\ pit \in 1..PitPeriod
  /\ lapic = [count |-> 0, masked |-> TRUE]
  /\ irr = {}
  /\ TIMER_COUNTER = 0 /\ TIMER_FLAGS = 0 /\ IS_SLEEPING = FALSE /\ TICKS_PER_MS = 0
  /\ hpetEnabled \in BOOLEAN                \* as the firmware left it
  /\ waited = 0

(* The record the walk is at; the bytes behind the last have no listed type. *)
Entry == IF Records(ptr) = {} THEN [entry_type |-> 255, record_length |-> 1]
         ELSE madt[Min(Records(ptr))]

Panic == pc' = "panic" /\ ifl' = FALSE

entries_next == ptr' = ptr + Entry.record_length

(* A walk goes on, unless the record's type is not one of the seven. *)
entries_skip ==
  IF Entry.entry_type \in EntryTypes
  THEN entries_next /\ UNCHANGED <<pc, ifl>>
  ELSE Panic /\ UNCHANGED ptr

(* kmain prints the table, *)
madt_dump ==
  /\ At("madt_dump")
  /\ IF ptr < length THEN entries_skip
     ELSE ptr' = 0 /\ pc' = "madt_find" /\ UNCHANGED ifl
  /\ UNCHANGED <<madt, length, base, irqs, redir, hardware, statics, others>>

(* Variant with a bug: does not stop at the first. *)
madt_find_last ==
  /\ At("madt_find")
  /\ IF ptr >= length
       THEN /\ IF irqs = [i \in Pins |-> i] THEN pc' = "overrides" /\ UNCHANGED ifl ELSE Panic
            /\ ptr' = 0 /\ UNCHANGED <<base, irqs>>
     ELSE IF Entry.entry_type = IOAPIC
       THEN /\ base' = Entry.gsi_base
            /\ irqs' = [i \in Pins |-> i]
            /\ entries_next /\ UNCHANGED <<pc, ifl>>
     ELSE entries_skip /\ UNCHANGED <<base, irqs>>
  /\ UNCHANGED <<madt, length, redir, hardware, statics, others>>

(* takes the first IOAPIC it lists: IOApic::new, *)
madt_find ==
  /\ At("madt_find")
  /\ IF ptr >= length
       THEN Panic /\ UNCHANGED <<ptr, base, irqs>>
     ELSE IF Entry.entry_type = IOAPIC
       THEN /\ base' = Entry.gsi_base
            /\ irqs' = [i \in Pins |-> i]
            /\ ptr' = 0 /\ pc' = "overrides" /\ UNCHANGED ifl
     ELSE entries_skip /\ UNCHANGED <<base, irqs>>
  /\ UNCHANGED <<madt, length, redir, hardware, statics, others>>

(* Variant with a bug: level and edge are mixed up. *)
register_override_edge(ovr) ==
  IF ovr.irq_source \notin Pins \/ "reserved" \in {ovr.polarity, ovr.trigger}
  THEN Panic /\ UNCHANGED <<ptr, irqs, redir>>
  ELSE /\ irqs' = [irqs EXCEPT ![ovr.irq_source] = ovr.gsi]
       /\ redir' = [redir EXCEPT
            ![ovr.gsi].low   = IF ovr.polarity = "none" THEN @ ELSE ovr.polarity = "low",
            ![ovr.gsi].level = IF ovr.trigger = "none" THEN @ ELSE ovr.trigger = "edge"]
       /\ entries_next /\ UNCHANGED <<pc, ifl>>

(* and registers the overrides.  irqs is indexed with the source, the         *)
(* redirection table with the GSI.                                            *)
register_override(ovr) ==
  IF ovr.irq_source \notin Pins \/ "reserved" \in {ovr.polarity, ovr.trigger}
  THEN Panic /\ UNCHANGED <<ptr, irqs, redir>>
  ELSE /\ irqs' = [irqs EXCEPT ![ovr.irq_source] = ovr.gsi]
       /\ redir' = [redir EXCEPT
            ![ovr.gsi].low   = IF ovr.polarity = "none" THEN @ ELSE ovr.polarity = "low",
            ![ovr.gsi].level = IF ovr.trigger = "none" THEN @ ELSE ovr.trigger = "level"]
       /\ entries_next /\ UNCHANGED <<pc, ifl>>

madt_overrides ==
  /\ At("overrides") /\ ptr < length
  /\ IF Entry.entry_type = OVERRIDE THEN register_override(Entry)
     ELSE entries_skip /\ UNCHANGED <<irqs, redir>>
  /\ UNCHANGED <<madt, length, base, hardware, statics, others>>

(* init_pit: route and unmask the PIT's interrupt, *)
enable_pit ==
  /\ At("overrides") /\ ptr >= length
  /\ redir' = [redir EXCEPT ![irqs[GLOBAL_PIT]].mask = FALSE,
                            ![irqs[GLOBAL_PIT]].vector = IRQ_PIT]
  /\ pc' = "pit_init"
  /\ UNCHANGED <<ifl, hardware, madt, length, ptr, base, irqs, statics, others>>

(* then mask interrupts, program the rate, and unmask them. *)
pit_init_begin ==
  /\ At("pit_init")
  /\ ifl' = FALSE /\ pc' = "pit_program"
  /\ UNCHANGED <<hardware, routing, statics, others>>

pit_init_end ==
  /\ At("pit_program")
  /\ pit' = PitPeriod
  /\ ifl' = TRUE /\ pc' = "setup_timer"
  /\ UNCHANGED <<lapic, irr, routing, statics, others>>

(* setup_timer_pit: start counting down from the maximum, *)
setup_timer_start ==
  /\ At("setup_timer")
  /\ lapic' = [lapic EXCEPT !.count = CounterMax]
  /\ pc' = "pit_sleep"
  /\ UNCHANGED <<ifl, pit, irr, routing, statics, others>>

(* sleep until the PIT has counted CalibrationUs: PIT::sleep_us, *)
(* Variant with a bug: the counter is not reset. *)
pit_sleep_us_stale ==
  /\ At("pit_sleep")
  /\ pc' = "pit_check"
  /\ UNCHANGED <<ifl, hardware, routing, statics, others>>

pit_sleep_us ==
  /\ At("pit_sleep")
  /\ TIMER_COUNTER' = 0
  /\ pc' = "pit_check"
  /\ UNCHANGED <<ifl, hardware, routing, TIMER_FLAGS, IS_SLEEPING, TICKS_PER_MS, others>>

pit_sleep_check ==
  /\ At("pit_check")
  /\ pc' = IF TIMER_COUNTER < CalibrationUs THEN "pit_hlt" ELSE "calibrate"
  /\ UNCHANGED <<ifl, hardware, routing, statics, others>>

pit_sleep_hlt ==
  /\ At("pit_hlt")
  /\ pc' = "pit_halted"
  /\ UNCHANGED <<ifl, hardware, routing, statics, others>>

(* and read how far the timer got. *)
setup_timer_read ==
  /\ At("calibrate")
  /\ lapic' = [lapic EXCEPT !.masked = TRUE]
  /\ TICKS_PER_MS' = CounterMax - lapic.count
  /\ pc' = "disable_pit"
  /\ UNCHANGED <<ifl, pit, irr, routing, TIMER_COUNTER, TIMER_FLAGS, IS_SLEEPING, others>>

(* Variant with a bug: masks the line that wakes the sleep loop. *)
disable_pit_masking ==
  /\ At("disable_pit")
  /\ redir' = [redir EXCEPT ![irqs[GLOBAL_PIT]].mask = TRUE]
  /\ pc' = "sleep"
  /\ UNCHANGED <<ifl, hardware, madt, length, ptr, base, irqs, statics, others>>

(* disable_pit writes the mask bit it means to set as false. *)
disable_pit ==
  /\ At("disable_pit")
  /\ redir' = [redir EXCEPT ![irqs[GLOBAL_PIT]].mask = FALSE]
  /\ pc' = "sleep"
  /\ UNCHANGED <<ifl, hardware, madt, length, ptr, base, irqs, statics, others>>

(* Variant with a bug: the flag is not set. *)
sleep_local_us_begin_unflagged ==
  /\ At("sleep")
  /\ pc' = "sleep_arm"
  /\ lapic' = [lapic EXCEPT !.masked = TRUE]
  /\ IS_SLEEPING' = TRUE
  /\ UNCHANGED <<ifl, pit, irr, routing, TIMER_COUNTER, TIMER_FLAGS, TICKS_PER_MS, others>>

(* sleep_local_us: claim the timer and set the flag the handler clears, *)
sleep_local_us_begin ==
  /\ At("sleep")
  /\ IF IS_SLEEPING
       THEN Panic /\ UNCHANGED <<lapic, TIMER_FLAGS, IS_SLEEPING>>
       ELSE /\ pc' = "sleep_arm"
            /\ lapic' = [lapic EXCEPT !.masked = TRUE]
            /\ IS_SLEEPING' = TRUE /\ TIMER_FLAGS' = 1
            /\ UNCHANGED ifl
  /\ UNCHANGED <<pit, irr, routing, TIMER_COUNTER, TICKS_PER_MS, others>>

SleepTicks == (TICKS_PER_MS \div UsPerMs) * SleepUs

(* Variant with a bug: the product is kept in fewer bits and wraps. *)
sleep_local_us_count_wraps ==
  /\ At("sleep_arm")
  /\ lapic' = [lapic EXCEPT !.count = SleepTicks % (CounterMax \div 2)]
  /\ waited' = 0
  /\ pc' = "sleep_unmask"
  /\ UNCHANGED <<ifl, pit, irr, routing, statics, hpetEnabled>>

(* check the calibration and write the count.  A product that is too large    *)
(* for 32 bits panics (the image is built with overflow checks),              *)
sleep_local_us_count ==
  /\ At("sleep_arm")
  /\ IF TICKS_PER_MS = 0 \/ SleepTicks > CounterMax
       THEN Panic /\ UNCHANGED <<lapic, waited>>
       ELSE /\ lapic' = [lapic EXCEPT !.count = SleepTicks]
            /\ waited' = 0
            /\ pc' = "sleep_unmask" /\ UNCHANGED ifl
  /\ UNCHANGED <<pit, irr, routing, statics, hpetEnabled>>

(* unmask the timer: a count that ran out while it was masked is lost, *)
sleep_local_us_unmask ==
  /\ At("sleep_unmask")
  /\ lapic' = [lapic EXCEPT !.masked = FALSE]
  /\ pc' = "sleep_check"
  /\ UNCHANGED <<ifl, pit, irr, routing, statics, others>>

(* and halt until the flag is clear.  Reading the flag and halting are two    *)
(* instructions.                                                              *)
sleep_local_us_check ==
  /\ At("sleep_check")
  /\ pc' = IF TIMER_FLAGS # 0 THEN "sleep_hlt" ELSE "slept"
  /\ IS_SLEEPING' = (TIMER_FLAGS # 0)
  /\ UNCHANGED <<ifl, hardware, routing, TIMER_COUNTER, TIMER_FLAGS, TICKS_PER_MS, others>>

sleep_local_us_hlt ==
  /\ At("sleep_hlt")
  /\ pc' = "sleep_halted"
  /\ UNCHANGED <<ifl, hardware, routing, statics, others>>

(* init_hpet stops the main counter and prepares the line of timer 0, masked, *)
(* or panics when it has none; kmain then starts the counter.                 *)
init_hpet ==
  /\ At("slept")
  /\ hpetEnabled' = FALSE
  /\ \E lines \in HpetIrqs :
       IF lines = {} THEN Panic /\ UNCHANGED redir
       ELSE /\ redir' = [redir EXCEPT ![irqs[Min(lines)]].mask = TRUE,
                                      ![irqs[Min(lines)]].vector = IRQ_HPET]
            /\ pc' = "hpet" /\ UNCHANGED ifl
  /\ UNCHANGED <<hardware, madt, length, ptr, base, irqs, statics, waited>>

hpet_enable ==
  /\ At("hpet")
  /\ hpetEnabled' = TRUE
  /\ pc' = "booted"
  /\ UNCHANGED <<ifl, hardware, routing, statics, waited>>

kmain ==
  \/ madt_dump \/ madt_find \/ madt_overrides \/ enable_pit \/ pit_init_begin \/ pit_init_end
  \/ setup_timer_start \/ pit_sleep_us \/ pit_sleep_check \/ pit_sleep_hlt \/ setup_timer_read
  \/ disable_pit
  \/ sleep_local_us_begin \/ sleep_local_us_count \/ sleep_local_us_unmask
  \/ sleep_local_us_check \/ sleep_local_us_hlt
  \/ init_hpet \/ hpet_enable

Interrupt == pit_interrupt \/ lapic_clk_interrupt
Next == TimePasses \/ Interrupt \/ kmain

Spec == Init /\ [][Next]_vars

(* Time passes, the processor takes interrupts, and kmain, which nothing else *)
(* competes with before the scheduler starts, gets on between two interrupts: *)
(* they are 500 microseconds apart, hence the strong fairness.                *)
FairSpec ==
  Spec /\ WF_vars(TimePasses) /\ WF_vars(Interrupt) /\ SF_vars(kmain)

-----------------------------------------------------------------------------
(* Properties *)

(* The values the state may have. *)
TypeOK ==
  /\ pc \in {"madt_dump", "madt_find", "overrides", "pit_init", "pit_program", "setup_timer", "pit_sleep", "pit_check",
             "pit_hlt", "pit_halted", "calibrate", "disable_pit", "sleep", "sleep_arm",
             "slept", "hpet", "booted", "panic"}
             \cup Sleeping
  /\ ifl \in BOOLEAN /\ irr \subseteq Vectors
  /\ irqs \in [Pins -> Pins] /\ ptr \in Nat /\ length \in Nat /\ base \in Nat
  /\ redir \in [Pins -> [mask: BOOLEAN, vector: Vectors \cup {"none"}, low: BOOLEAN, level: BOOLEAN]]
  /\ pit \in 1..PitPeriod
  /\ lapic \in [count: 0..CounterMax, masked: BOOLEAN]
  /\ TIMER_COUNTER \in 0..CalibrationUs /\ TIMER_FLAGS \in {0, 1}
  /\ IS_SLEEPING \in BOOLEAN /\ TICKS_PER_MS \in 0..CounterMax /\ hpetEnabled \in BOOLEAN

Slept == {"slept", "hpet", "booted"}
Calibrated == {"disable_pit", "sleep", "sleep_arm"} \cup Sleeping \cup Slept
Routed == {"pit_init", "pit_program", "setup_timer", "pit_sleep", "pit_check", "pit_hlt",
           "pit_halted", "calibrate", "disable_pit"}

(* From enable_pit until it is disabled the PIT's interrupt reaches           *)
(* pit_interrupt, on the input the MADT says, and no other input does, also   *)
(* on a system whose table lists further IOAPICs after the one with GSI 0.    *)
PitRouted ==
  pc \in Routed =>
    PitSignals /\ \A p \in Pins : redir[p].vector = IRQ_PIT <=> p = PitPin

(* main.rs:164-168: by the time the PIT is routed every override the table    *)
(* lists has been registered, wherever it stands and whatever the lengths of  *)
(* the records around it, and no later step of the boot undoes one.           *)
OverridesApplied ==
  pc \in Routed \cup Calibrated =>
    /\ \A i \in Overrides(madt) :
         /\ irqs[madt[i].irq_source] = madt[i].gsi
         /\ madt[i].polarity # "none" => redir[madt[i].gsi].low = (madt[i].polarity = "low")
         /\ madt[i].trigger # "none" => redir[madt[i].gsi].level = (madt[i].trigger = "level")
    /\ \A p \in Pins : (\A i \in Overrides(madt) : madt[i].irq_source # p) => irqs[p] = p

(* The calibration covers all PIT intervals it waits for but the first, which *)
(* may have been under way when sleep_us reset the counter: a timer that is   *)
(* calibrated too fast would make every slice and sleep too short.            *)
CalibrationCoversIntervals ==
  pc \in Calibrated => TICKS_PER_MS > (Intervals - 1) * PitPeriod

(* sleep_local_us returns only after its timer has run down and its interrupt *)
(* has been handled, although the loop also wakes on every PIT interrupt; the *)
(* scheduler starts with no stale timer interrupt on its way.                 *)
SleepRunsItsCourse ==
  pc \in Slept =>
    lapic.count = 0 /\ IRQ_LAPIC_CLK \notin irr /\ TIMER_FLAGS = 0 /\ ~IS_SLEEPING

(* hdint.rs:166: the sleep lasts the counts that the calibration gives for    *)
(* the microseconds asked, whatever wakes the loop in between; no count wraps.*)
SleepLongEnough == pc \in Slept => waited >= SleepTicks

(* What the walks and IOApic take for granted of the table. *)
Supported ==
  /\ length = Offset(Len(madt) + 1)
  /\ \E i \in 1..Len(madt) : madt[i].entry_type = IOAPIC
  /\ \A i \in 1..Len(madt) : madt[i].entry_type \in EntryTypes /\ madt[i].record_length > 0
  /\ \A i \in Overrides(madt) :
       madt[i].irq_source \in Pins /\ "reserved" \notin {madt[i].polarity, madt[i].trigger}

(* The boot gets past the walks over a table of this kind and past both       *)
(* sleeps.  An interrupt between sleep_local_us's check and its hlt is not    *)
(* seen until the next interrupt.                                             *)
SleepsReturn == Supported => <>(pc \in Slept)

(* main.rs:174, hdint.rs:373: once the timer is set up the PIT is not needed  *)
(* and disable_pit turns its interrupt off.                                   *)
PitDisabled == pc \in Calibrated \ {"disable_pit"} => redir[PitPin].mask

=============================================================================
