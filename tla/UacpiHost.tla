------------------------------ MODULE UacpiHost ------------------------------
(***************************************************************************)
(* What the kernel gives uACPI (src/src/uacpi.rs): synchronisation         *)
(* objects, interrupt control, stalls, the clock and I/O ports.  uACPI     *)
(* runs on the boot thread only (installing a handler or scheduling work   *)
(* is unimplemented), in calls that kmain makes before and after it has    *)
(* calibrated the timer and mapped the HPET.  It nests disabled regions    *)
(* and spinlocks properly, unlocks with the flags the lock returned, frees *)
(* no object that it holds, and does not stall in a disabled region.  A    *)
(* stall is sleep_local_us of src/src/hdint.rs, step by step: the timer    *)
(* counts and interrupts arrive between any two of its instructions.       *)
(***************************************************************************)
EXTENDS Integers, Sequences, FiniteSets

CONSTANTS
  Handles,     \* addresses of objects: small boxes of one block size
  EventMax,    \* largest value of an event's 16-bit counter
  MaxNest,     \* bound: nested regions of the client
  StallTimes,  \* microseconds it stalls for: 8 bits
  UsPerMs,     \* 1000
  CounterMax,  \* largest value of the 32-bit timer count
  Calibrations,\* counts per millisecond that setup_timer_pit may measure
  PortMax,     \* the last I/O port (65535)
  Offsets      \* offsets it uses in an I/O range

ASSUME HostAssumption ==
  /\ EventMax \in Nat \ {0} /\ MaxNest \in Nat /\ PortMax \in Nat
  /\ UsPerMs \in Nat \ {0} /\ CounterMax \in Nat /\ Calibrations \subseteq 1..CounterMax
  /\ StallTimes \subseteq 0..UsPerMs /\ Offsets \subseteq Nat
  /\ "region" \notin Handles

VARIABLES
  stage,    \* of kmain: "early", "calibrated" or "clocked"
  ifl,      \* RFLAGS.IF
  obj,      \* what is at each handle: [kind, value]
  at,       \* where sleep_local_us is: "unmask", "check", "hlt", "halted", or "away"
  lapic,    \* timer: current count, and LVT mask
  irr,      \* the local APIC holds the timer's interrupt
  TIMER_FLAGS, IS_SLEEPING, TICKS_PER_MS,
  nest,     \* client: what it has open, with the saved flag, innermost first
  owned,    \* client: mutexes it has acquired
  pending,  \* client: signals it may wait for, of each event
  port,     \* the last port access: [wanted, used]
  panicked  \* why the kernel has stopped: [cause, handle]

client == <<nest, owned, pending>>
timer == <<at, lapic, irr, TIMER_FLAGS, IS_SLEEPING, TICKS_PER_MS>>
vars == <<stage, ifl, obj, timer, client, port, panicked>>

Free    == [kind |-> "free", value |-> 0]
NoPanic == [cause |-> "none", handle |-> "none"]
NoPort  == [wanted |-> 0, used |-> 0]

Init ==
  /\ stage = "early" /\ ifl = TRUE
  /\ obj = [h \in Handles |-> Free]
  /\ at = "away" /\ lapic = [count |-> 0, masked |-> TRUE] /\ irr = FALSE
  /\ TIMER_FLAGS = 0 /\ IS_SLEEPING = FALSE /\ TICKS_PER_MS = 0
  /\ nest = <<>> /\ owned = {} /\ pending = [h \in Handles |-> 0]
  /\ port = NoPort /\ panicked = NoPanic

(* uACPI runs: the kernel has not stopped, and no stall is under way. *)
Running == panicked = NoPanic /\ at = "away"

(* The panic handler masks interrupts and halts. *)
Panic(cause, handle) ==
  panicked' = [cause |-> cause, handle |-> handle] /\ ifl' = FALSE

IsA(kind, h) == obj[h].kind = kind
Set(h, value) == obj' = [obj EXCEPT ![h].value = value]
Opened(h) == \E i \in 1..Len(nest) : nest[i].lock = h

-----------------------------------------------------------------------------
(* kmain between two calls of uACPI: setup_timer_pit and its own sleep, which  *)
(* does not come to its end with less than one count in a microsecond (see     *)
(* BootTimer) and leaves the timer unmasked; then init_hpet.                   *)
kmain ==
  /\ Running /\ nest = <<>> /\ owned = {}
  /\ \/ /\ stage = "early" /\ stage' = "calibrated"
        /\ TICKS_PER_MS' \in {c \in Calibrations : c >= UsPerMs}
        /\ lapic' = [count |-> 0, masked |-> FALSE]
     \/ stage = "calibrated" /\ stage' = "clocked" /\ UNCHANGED <<lapic, TICKS_PER_MS>>
  /\ UNCHANGED <<ifl, obj, at, irr, TIMER_FLAGS, IS_SLEEPING, client, port, panicked>>

-----------------------------------------------------------------------------
(* Objects: each is a box.  The heap gives any free address, *)
create(kind, h) ==
  /\ Running /\ IsA("free", h)
  /\ obj' = [obj EXCEPT ![h] = [kind |-> kind, value |-> 0]]
  /\ UNCHANGED <<stage, ifl, timer, client, port, panicked>>

uacpi_kernel_create_mutex(h) == create("mutex", h)
uacpi_kernel_create_event(h) == create("event", h)
uacpi_kernel_create_spinlock(h) == create("spinlock", h)

(* and uses a box that it got back. *)
free(kind, h) ==
  /\ Running /\ IsA(kind, h)
  /\ h \notin owned /\ ~Opened(h)
  /\ \E junk \in {0, 1} : obj' = [obj EXCEPT ![h] = [kind |-> "free", value |-> junk]]
  /\ pending' = [pending EXCEPT ![h] = 0]
  /\ UNCHANGED <<stage, ifl, timer, nest, owned, port, panicked>>

uacpi_kernel_free_mutex(h) == free("mutex", h)
uacpi_kernel_free_event(h) == free("event", h)
uacpi_kernel_free_spinlock(h) == free("spinlock", h)

-----------------------------------------------------------------------------
(* Interrupt control and spinlocks. *)

Saved(lock) == [lock |-> lock, flags |-> ifl]

uacpi_kernel_disable_interrupts ==
  /\ Running /\ Len(nest) < MaxNest
  /\ nest' = <<Saved("region")>> \o nest
  /\ ifl' = FALSE
  /\ UNCHANGED <<stage, obj, timer, owned, pending, port, panicked>>

(* Variant with a bug: the saved flag is ignored. *)
restore_always ==
  /\ Running /\ nest # <<>> /\ Head(nest).lock = "region"
  /\ ifl' = TRUE
  /\ nest' = Tail(nest)
  /\ UNCHANGED <<stage, obj, timer, owned, pending, port, panicked>>

(* Interrupts are enabled if the saved flag says so and else left alone. *)
uacpi_kernel_restore_interrupts ==
  /\ Running /\ nest # <<>> /\ Head(nest).lock = "region"
  /\ ifl' = (ifl \/ Head(nest).flags)
  /\ nest' = Tail(nest)
  /\ UNCHANGED <<stage, obj, timer, owned, pending, port, panicked>>

(* Save the flags, mask interrupts, take the lock or panic.  uACPI does not   *)
(* lock a spinlock it holds.                                                  *)
uacpi_kernel_lock_spinlock(h) ==
  /\ Running /\ IsA("spinlock", h) /\ ~Opened(h) /\ Len(nest) < MaxNest
  /\ IF obj[h].value = 0
       THEN /\ Set(h, 1)
            /\ nest' = <<Saved(h)>> \o nest
            /\ ifl' = FALSE
            /\ UNCHANGED panicked
       ELSE Panic("spinlock", h) /\ UNCHANGED <<obj, nest>>
  /\ UNCHANGED <<stage, timer, owned, pending, port>>

(* Variant with a bug: the lock stays locked. *)
unlock_flags_only ==
  /\ Running /\ nest # <<>> /\ Head(nest).lock # "region"
  /\ ifl' = (ifl \/ Head(nest).flags)
  /\ nest' = Tail(nest)
  /\ UNCHANGED <<stage, obj, timer, owned, pending, port, panicked>>

uacpi_kernel_unlock_spinlock ==
  /\ Running /\ nest # <<>> /\ Head(nest).lock # "region"
  /\ Set(Head(nest).lock, 0)
  /\ ifl' = (ifl \/ Head(nest).flags)
  /\ nest' = Tail(nest)
  /\ UNCHANGED <<stage, timer, owned, pending, port, panicked>>

-----------------------------------------------------------------------------
(* Mutexes and events.  Whatever the timeout, the answer to a mutex that is   *)
(* locked and to an event without signals is a panic.                         *)

uacpi_kernel_acquire_mutex(h) ==
  /\ Running /\ IsA("mutex", h)
  /\ IF obj[h].value = 0
       THEN Set(h, 1) /\ owned' = owned \cup {h} /\ UNCHANGED <<ifl, panicked>>
       ELSE Panic("mutex", h) /\ UNCHANGED <<obj, owned>>
  /\ UNCHANGED <<stage, timer, nest, pending, port>>

uacpi_kernel_release_mutex(h) ==
  /\ Running /\ h \in owned
  /\ Set(h, 0) /\ owned' = owned \ {h}
  /\ UNCHANGED <<stage, ifl, timer, nest, pending, port, panicked>>

(* The 16-bit counter wraps after EventMax signals that nobody waited for,    *)
(* more than uACPI leaves.                                                    *)
uacpi_kernel_signal_event(h) ==
  /\ Running /\ IsA("event", h) /\ pending[h] < EventMax
  /\ Set(h, (obj[h].value + 1) % (EventMax + 1))
  /\ pending' = [pending EXCEPT ![h] = @ + 1]
  /\ UNCHANGED <<stage, ifl, timer, nest, owned, port, panicked>>

uacpi_kernel_wait_for_event(h) ==
  /\ Running /\ IsA("event", h)
  /\ IF obj[h].value > 0
       THEN /\ Set(h, obj[h].value - 1)
            /\ pending' = [pending EXCEPT ![h] = @ - 1]
            /\ UNCHANGED <<ifl, panicked>>
       ELSE Panic("event", h) /\ UNCHANGED <<obj, pending>>
  /\ UNCHANGED <<stage, timer, nest, owned, port>>

uacpi_kernel_reset_event(h) ==
  /\ Running /\ IsA("event", h)
  /\ Set(h, 0) /\ pending' = [pending EXCEPT ![h] = 0]
  /\ UNCHANGED <<stage, ifl, timer, nest, owned, port, panicked>>

-----------------------------------------------------------------------------
(* Time. *)

(* What a stall writes to the timer. *)
Ticks(us) == (TICKS_PER_MS \div UsPerMs) * us

(* Variant with a bug: the flag that the loop waits on is not set. *)
stall_unflagged(us) ==
  /\ Running /\ nest = <<>> /\ stage # "early"
  /\ IS_SLEEPING' = TRUE
  /\ lapic' = [count |-> Ticks(us), masked |-> TRUE]
  /\ at' = "unmask"
  /\ UNCHANGED <<stage, ifl, obj, irr, TIMER_FLAGS, TICKS_PER_MS, client, port, panicked>>

(* uacpi_kernel_stall is sleep_local_us: claim the timer, mask it, set the    *)
(* flag that the handler clears, and write the count.  The claim, the         *)
(* calibration and the product (overflow checks) may each stop the kernel.    *)
uacpi_kernel_stall(us) ==
  /\ Running /\ nest = <<>>
  /\ IF IS_SLEEPING
       THEN Panic("sleeping", "none") /\ UNCHANGED <<at, lapic, TIMER_FLAGS, IS_SLEEPING>>
     ELSE /\ IS_SLEEPING' = TRUE /\ TIMER_FLAGS' = 1
          /\ IF TICKS_PER_MS = 0 \/ Ticks(us) > CounterMax
               THEN /\ Panic(IF TICKS_PER_MS = 0 THEN "stall" ELSE "overflow", "none")
                    /\ lapic' = [lapic EXCEPT !.masked = TRUE] /\ UNCHANGED at
             ELSE /\ lapic' = [count |-> Ticks(us), masked |-> TRUE]
                  /\ at' = "unmask" /\ UNCHANGED <<ifl, panicked>>
  /\ UNCHANGED <<stage, obj, irr, TICKS_PER_MS, client, port>>

(* Unmask the timer: a count that has run out by then is lost.                *)
sleep_unmask ==
  /\ at = "unmask"
  /\ lapic' = [lapic EXCEPT !.masked = FALSE] /\ at' = "check"
  /\ UNCHANGED <<stage, ifl, obj, irr, TIMER_FLAGS, IS_SLEEPING, TICKS_PER_MS, client, port,
                 panicked>>

(* Variant with a bug: the timer stays claimed. *)
sleep_check_claimed ==
  /\ at = "check"
  /\ at' = IF TIMER_FLAGS # 0 THEN "hlt" ELSE "away"
  /\ UNCHANGED <<stage, ifl, obj, lapic, irr, TIMER_FLAGS, IS_SLEEPING, TICKS_PER_MS, client,
                 port, panicked>>

(* Halt until the flag is clear, then give up the claim.  Reading the flag    *)
(* and halting are two instructions.                                          *)
sleep_check ==
  /\ at = "check"
  /\ at' = IF TIMER_FLAGS # 0 THEN "hlt" ELSE "away"
  /\ IS_SLEEPING' = (TIMER_FLAGS # 0)
  /\ UNCHANGED <<stage, ifl, obj, lapic, irr, TIMER_FLAGS, TICKS_PER_MS, client, port, panicked>>

sleep_hlt ==
  /\ at = "hlt" /\ at' = "halted"
  /\ UNCHANGED <<stage, ifl, obj, lapic, irr, TIMER_FLAGS, IS_SLEEPING, TICKS_PER_MS, client,
                 port, panicked>>

(* The one-shot timer counts down to zero, then raises its interrupt unless   *)
(* it is masked; a count of 0 raises none.                                    *)
TimePasses ==
  /\ at # "away" /\ lapic.count > 0
  /\ lapic' = [lapic EXCEPT !.count = @ - 1]
  /\ irr' = (irr \/ (lapic.count = 1 /\ ~lapic.masked))
  /\ UNCHANGED <<stage, ifl, obj, at, TIMER_FLAGS, IS_SLEEPING, TICKS_PER_MS, client, port,
                 panicked>>

(* An interrupt ends hlt; the loop reads the flag again. *)
Woken == IF at = "halted" THEN "check" ELSE at

(* The handler clears the flag, wherever the loop is. *)
lapic_clk_interrupt ==
  /\ irr /\ ifl
  /\ irr' = FALSE /\ TIMER_FLAGS' = 0 /\ at' = Woken
  /\ UNCHANGED <<stage, ifl, obj, lapic, IS_SLEEPING, TICKS_PER_MS, client, port, panicked>>

(* Variant with a bug: the PIT stops with the calibration.                    *)
pit_interrupt_off ==
  /\ at = "halted" /\ ifl /\ stage = "early"
  /\ at' = Woken
  /\ UNCHANGED <<stage, ifl, obj, lapic, irr, TIMER_FLAGS, IS_SLEEPING, TICKS_PER_MS, client,
                 port, panicked>>

(* The PIT goes on after the calibration and interrupts hlt too; what its     *)
(* handler counts is of no use any more.                                      *)
pit_interrupt ==
  /\ at = "halted" /\ ifl
  /\ at' = Woken
  /\ UNCHANGED <<stage, ifl, obj, lapic, irr, TIMER_FLAGS, IS_SLEEPING, TICKS_PER_MS, client,
                 port, panicked>>

(* The clock reads the HPET, and faults before init_hpet has mapped it.       *)
uacpi_kernel_get_nanoseconds_since_boot ==
  /\ Running
  /\ IF stage = "clocked" THEN UNCHANGED <<ifl, panicked>> ELSE Panic("clock", "none")
  /\ UNCHANGED <<stage, obj, timer, client, port>>

-----------------------------------------------------------------------------
(* I/O ports: the handle of a range is its base.  io_read8, 16, 32 and        *)
(* io_write8, 16, 32 refuse a port that is not one, then narrow it to 16 bits.*)

(* Variant with a bug: only the offset is looked at. *)
io_access_unchecked(base, offset) ==
  /\ Running
  /\ port' = IF offset > PortMax THEN port
             ELSE [wanted |-> base + offset, used |-> (base + offset) % (PortMax + 1)]
  /\ UNCHANGED <<stage, ifl, obj, timer, client, panicked>>

uacpi_kernel_io_access(base, offset) ==
  /\ Running
  /\ port' = IF base + offset > PortMax THEN port
             ELSE [wanted |-> base + offset, used |-> (base + offset) % (PortMax + 1)]
  /\ UNCHANGED <<stage, ifl, obj, timer, client, panicked>>

-----------------------------------------------------------------------------
(* Requests of the firmware: a breakpoint changes nothing. *)
uacpi_kernel_handle_firmware_request(type) ==
  /\ Running
  /\ IF type = "breakpoint" THEN UNCHANGED <<ifl, panicked>> ELSE Panic(type, "none")
  /\ UNCHANGED <<stage, obj, timer, client, port>>

Unimplemented ==
  /\ Running
  /\ Panic("unimplemented", "none")
  /\ UNCHANGED <<stage, obj, timer, client, port>>

uacpi_kernel_pci_access == Unimplemented
uacpi_kernel_sleep == Unimplemented
uacpi_kernel_interrupt_handler == Unimplemented
uacpi_kernel_work == Unimplemented

Next ==
  \/ kmain
  \/ \E h \in Handles :
       \/ uacpi_kernel_create_mutex(h) \/ uacpi_kernel_free_mutex(h)
       \/ uacpi_kernel_create_event(h) \/ uacpi_kernel_free_event(h)
       \/ uacpi_kernel_create_spinlock(h) \/ uacpi_kernel_free_spinlock(h)
       \/ uacpi_kernel_lock_spinlock(h)
       \/ uacpi_kernel_acquire_mutex(h) \/ uacpi_kernel_release_mutex(h)
       \/ uacpi_kernel_signal_event(h) \/ uacpi_kernel_wait_for_event(h)
       \/ uacpi_kernel_reset_event(h)
  \/ uacpi_kernel_unlock_spinlock
  \/ uacpi_kernel_disable_interrupts \/ uacpi_kernel_restore_interrupts
  \/ \E us \in StallTimes : uacpi_kernel_stall(us)
  \/ sleep_unmask \/ sleep_check \/ sleep_hlt
  \/ TimePasses \/ lapic_clk_interrupt \/ pit_interrupt
  \/ uacpi_kernel_get_nanoseconds_since_boot
  \/ \E base \in 0..PortMax, offset \in Offsets : uacpi_kernel_io_access(base, offset)
  \/ \E type \in {"breakpoint", "fatal", "other"} : uacpi_kernel_handle_firmware_request(type)
  \/ uacpi_kernel_pci_access \/ uacpi_kernel_sleep
  \/ uacpi_kernel_interrupt_handler \/ uacpi_kernel_work

Spec == Init /\ [][Next]_vars

(* The boot thread, which nothing competes with, goes on with a stall; time   *)
(* passes; the local APIC delivers its interrupt, and the PIT ticks.          *)
FairSpec ==
  /\ Spec
  /\ WF_vars(sleep_unmask) /\ WF_vars(sleep_check) /\ WF_vars(sleep_hlt)
  /\ WF_vars(TimePasses) /\ WF_vars(lapic_clk_interrupt) /\ WF_vars(pit_interrupt)

-----------------------------------------------------------------------------
(* Properties *)

(* The values the state may have. *)
TypeOK ==
  /\ stage \in {"early", "calibrated", "clocked"} /\ ifl \in BOOLEAN
  /\ obj \in [Handles -> [kind: {"free", "mutex", "event", "spinlock"}, value: 0..EventMax]]
  /\ at \in {"away", "unmask", "check", "hlt", "halted"}
  /\ lapic \in [count: 0..CounterMax, masked: BOOLEAN] /\ irr \in BOOLEAN
  /\ TIMER_FLAGS \in {0, 1} /\ IS_SLEEPING \in BOOLEAN /\ TICKS_PER_MS \in 0..CounterMax
  /\ nest \in Seq([lock: Handles \cup {"region"}, flags: BOOLEAN]) /\ Len(nest) <= MaxNest
  /\ owned \subseteq Handles /\ pending \in [Handles -> 0..EventMax]
  /\ port.used \in 0..PortMax

(* Interrupts stay masked until the outermost region or spinlock is closed,   *)
(* however they nest, and are enabled again after it.                         *)
MaskedWhileNested == Running => (ifl <=> nest = <<>>)

(* uacpi.rs:459: locking a spinlock is infallible, through any nesting and    *)
(* any reuse of the memory of objects that were freed.                        *)
LockInfallible == panicked.cause # "spinlock"

(* uacpi.rs:150: an access goes to the port that the range and the offset     *)
(* name, and to no other when their sum leaves the 16 bits of a port.         *)
PortsExact == port.used = port.wanted

(* uacpi.rs:290: a stall returns only after the timer has run down from the   *)
(* count it wrote and its handler has run, whatever else woke the loop, and   *)
(* leaves no interrupt or flag that would cut the next one short.             *)
StallRunsItsCourse == Running => lapic.count = 0 /\ ~irr /\ TIMER_FLAGS = 0

(* Once the timer is calibrated a stall is never refused: hdint.rs:151 finds  *)
(* the timer unclaimed, and hdint.rs:168 multiplies without overflow.         *)
StallsAccepted == panicked.cause \notin {"sleeping", "overflow"}

(* A stall whose timer is unmasked before its count has run out comes to its  *)
(* end.  The interrupt may come between the check and the hlt, hdint.rs:175,  *)
(* and is then not seen until another one ends the hlt.                       *)
StallsReturn ==
  (at \in {"check", "hlt", "halted"} /\ lapic.count > 0) ~> (at = "away")

(* uacpi.rs:290: every stall comes to its end.                                *)
StallsEnd == (at = "unmask") ~> (at = "away")

(* uacpi.rs:352, 375: acquiring a mutex ends with UACPI_STATUS_OK or _TIMEOUT,*)
(* and waiting for an event is successful or not.                             *)
AnswersTimeout == panicked.cause \notin {"mutex", "event"}

==============================================================================
