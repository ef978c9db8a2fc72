--------------------------- MODULE UacpiHostProofs ---------------------------
(***************************************************************************)
(* Safety of what the kernel gives uACPI, for any set of objects, any      *)
(* depth of nesting, any width of an event's counter and of a port.        *)
(***************************************************************************)
EXTENDS UacpiHost, SequenceTheorems, TLAPS

Causes == {"none", "spinlock", "mutex", "event", "stall", "sleeping", "overflow", "clock",
           "fatal", "other", "unimplemented"}
Entry   == [lock: Handles \cup {"region"}, flags: BOOLEAN]
Objects == [kind: {"free", "mutex", "event", "spinlock"}, value: 0..EventMax]
Panics  == [cause: Causes, handle: Handles \cup {"none"}]
Ports   == [wanted: Nat, used: 0..PortMax]

(* The type invariant, with why the kernel has stopped and the last port.     *)
HostTypes ==
  /\ stage \in {"early", "calibrated", "clocked"} /\ ifl \in BOOLEAN
  /\ obj \in [Handles -> Objects]
  /\ nest \in Seq(Entry) /\ Len(nest) <= MaxNest
  /\ owned \in SUBSET Handles /\ pending \in [Handles -> 0..EventMax]
  /\ panicked \in Panics /\ port \in Ports

(* Interrupts are masked as long as something is open, stalls included, and   *)
(* only the outermost of what is open has saved that they were enabled.       *)
FlagInv ==
  /\ panicked = NoPanic => (ifl <=> nest = <<>>)
  /\ \A i \in 1..Len(nest) : nest[i].flags <=> i = Len(nest)

(* Every spinlock that is open is locked, was opened once, and the others are *)
(* unlocked.                                                                  *)
SpinInv ==
  /\ \A i \in 1..Len(nest) : nest[i].lock # "region" =>
       obj[nest[i].lock] = [kind |-> "spinlock", value |-> 1]
  /\ \A i, j \in 1..Len(nest) :
       nest[i].lock = nest[j].lock /\ nest[i].lock # "region" => i = j
  /\ \A h \in Handles : IsA("spinlock", h) /\ obj[h].value # 0 => Opened(h)

(* A mutex is locked if and only if the client has acquired it.               *)
MutexInv ==
  /\ \A h \in owned : IsA("mutex", h) /\ obj[h].value # 0
  /\ \A h \in Handles : IsA("mutex", h) /\ obj[h].value # 0 => h \in owned

(* The counter of an event is the number of signals the client may wait for.  *)
EventInv ==
  \A h \in Handles : pending[h] = IF IsA("event", h) THEN obj[h].value ELSE 0

(* The timer is claimed exactly while sleep_local_us runs.  The flag is set   *)
(* until the count has run down and the handler has taken the interrupt.      *)
SleepInv ==
  /\ at \in {"away", "unmask", "check", "hlt", "halted"}
  /\ lapic \in [count: 0..CounterMax, masked: BOOLEAN] /\ irr \in BOOLEAN
  /\ TIMER_FLAGS \in {0, 1} /\ IS_SLEEPING \in BOOLEAN /\ TICKS_PER_MS \in 0..CounterMax
  /\ panicked = NoPanic => (IS_SLEEPING <=> at # "away")
  /\ panicked = NoPanic /\ at = "away" => TIMER_FLAGS = 0
  /\ TIMER_FLAGS = 0 => lapic.count = 0 /\ ~irr
  /\ irr => lapic.count = 0

IInv ==
  /\ HostTypes /\ FlagInv /\ SpinInv /\ MutexInv /\ EventInv /\ SleepInv
  /\ LockInfallible /\ StallsAccepted /\ PortsExact

(* A stall under way: the loop of sleep_local_us and what it waits for.       *)
Sleeping ==
  sleep_unmask \/ sleep_check \/ sleep_hlt \/ TimePasses \/ lapic_clk_interrupt \/ pit_interrupt

(* It is of no concern to uACPI's objects, regions and ports.                 *)
LEMMA SleepingLeaves ==
  Sleeping => UNCHANGED <<stage, ifl, obj, nest, owned, pending, port, panicked>>
  BY Zenon DEF Sleeping, sleep_unmask, sleep_check, sleep_hlt, TimePasses, lapic_clk_interrupt,
     pit_interrupt, client

(* Nor is the beginning of a stall, unless it stops the kernel.               *)
LEMMA StallLeaves ==
  ASSUME NEW us, uacpi_kernel_stall(us)
  PROVE  /\ UNCHANGED <<stage, obj, nest, owned, pending, port>>
         /\ \/ UNCHANGED <<ifl, panicked>>
            \/ \E c \in {"stall", "sleeping", "overflow"} : Panic(c, "none")
  BY Zenon DEF uacpi_kernel_stall, client

-----------------------------------------------------------------------------
(* What is open, as a stack. *)

(* Opening a region or a spinlock pushes one entry. *)
LEMMA Push ==
  ASSUME NEW S, NEW e \in S, NEW s \in Seq(S)
  PROVE  /\ <<e>> \o s \in Seq(S) /\ <<e>> \o s # <<>>
         /\ Len(<<e>> \o s) = Len(s) + 1
         /\ \A i \in 1..Len(s) + 1 : (<<e>> \o s)[i] = IF i = 1 THEN e ELSE s[i - 1]
  OBVIOUS

(* Closing the innermost one pops it. *)
LEMMA Pop ==
  ASSUME NEW S, NEW s \in Seq(S), s # <<>>
  PROVE  /\ Head(s) = s[1] /\ Head(s) \in S /\ Len(s) \in Nat \ {0}
         /\ Tail(s) \in Seq(S) /\ Len(Tail(s)) = Len(s) - 1
         /\ (Tail(s) = <<>>) <=> (Len(s) = 1)
         /\ \A i \in 1..Len(s) - 1 : Tail(s)[i] = s[i + 1]
<1> DEFINE t == Tail(s)
<1>1. Len(s) \in Nat \ {0} /\ Head(s) = s[1] /\ Head(s) \in S
  OBVIOUS
<1>2. t \in Seq(S) /\ Len(t) = Len(s) - 1 /\ \A i \in 1..Len(s) - 1 : t[i] = s[i + 1]
  OBVIOUS
<1> HIDE DEF t
<1>3. (t = <<>>) <=> (Len(t) = 0)
  BY <1>2
<1>4. (t = <<>>) <=> (Len(s) = 1)
  BY <1>1, <1>2, <1>3
<1> QED
  BY Zenon, <1>1, <1>2, <1>4 DEF t

-----------------------------------------------------------------------------
(* Objects. *)

(* Storing into an object changes its value, not its kind, and no other one.  *)
LEMMA SetObject ==
  ASSUME obj \in [Handles -> Objects], NEW h \in Handles, NEW v \in 0..EventMax, Set(h, v)
  PROVE  /\ obj' \in [Handles -> Objects]
         /\ \A g \in Handles : obj'[g].kind = obj[g].kind
         /\ \A g \in Handles : obj'[g].value = IF g = h THEN v ELSE obj[g].value
  BY Zenon DEF Set, Objects

(* The panic handler leaves interrupts masked and records the cause.          *)
LEMMA PanicStops ==
  ASSUME NEW c \in Causes \ {"none"}, NEW h \in Handles \cup {"none"}, Panic(c, h)
  PROVE  /\ panicked' \in Panics
         /\ panicked'.cause = c /\ panicked'.handle = h
         /\ panicked' # NoPanic /\ ifl' = FALSE
  BY Zenon DEF Panic, Panics, NoPanic, Causes

-----------------------------------------------------------------------------
(* The count. *)

(* What a stall writes is no more than the counts of a millisecond.           *)
LEMMA TicksFit ==
  ASSUME TICKS_PER_MS \in 0..CounterMax, NEW us \in StallTimes
  PROVE  Ticks(us) \in 0..CounterMax
<1> DEFINE q == TICKS_PER_MS \div UsPerMs
<1>1. /\ UsPerMs \in Nat \ {0} /\ CounterMax \in Nat /\ TICKS_PER_MS \in Nat
      /\ us \in 0..UsPerMs
  BY HostAssumption
<1>2. q \in Nat /\ q * UsPerMs <= TICKS_PER_MS
  BY <1>1
<1> HIDE DEF q
<1>3. q * us \in Nat /\ q * us <= q * UsPerMs
  BY <1>1, <1>2
<1>4. q * us \in 0..CounterMax
  BY <1>1, <1>2, <1>3
<1> QED
  BY <1>4 DEF Ticks, q

-----------------------------------------------------------------------------
(* Each conjunct of the invariant is kept by every action. *)

(* The values of uacpi.rs's objects, flags and counters keep their types. *)
LEMMA TypesStep == IInv /\ [Next]_vars => HostTypes'
<1> SUFFICES ASSUME IInv, [Next]_vars PROVE HostTypes'
  BY Zenon
<1> USE DEF IInv, HostTypes
<1>1. CASE kmain
  BY Zenon, <1>1 DEF kmain, client
<1>2. ASSUME NEW h \in Handles, NEW kind \in {"mutex", "event", "spinlock"}, create(kind, h)
      PROVE  HostTypes'
  <2>1. [kind |-> kind, value |-> 0] \in Objects
    BY HostAssumption DEF Objects
  <2> QED
    BY Zenon, <1>2, <2>1 DEF create, client
<1>3. ASSUME NEW h \in Handles, NEW kind \in {"mutex", "event", "spinlock"}, free(kind, h)
      PROVE  HostTypes'
  <2>1. ASSUME NEW junk \in {0, 1} PROVE [kind |-> "free", value |-> junk] \in Objects
    BY HostAssumption DEF Objects
  <2>2. 0 \in 0..EventMax
    BY HostAssumption
  <2> QED
    BY Zenon, <1>3, <2>1, <2>2 DEF free, client
<1>4. ASSUME NEW h \in Handles, uacpi_kernel_lock_spinlock(h)
      PROVE  HostTypes'
  <2> USE <1>4 DEF uacpi_kernel_lock_spinlock
  <2>1. CASE obj[h].value = 0
    <3>1. Saved(h) \in Entry
      BY Zenon DEF Saved, Entry
    <3>2. <<Saved(h)>> \o nest \in Seq(Entry) /\ Len(<<Saved(h)>> \o nest) = Len(nest) + 1
      BY <3>1, Push
    <3>3. Len(nest) + 1 <= MaxNest
      BY HostAssumption, LenProperties
    <3>4. 1 \in 0..EventMax /\ Set(h, 1)
      BY <2>1, HostAssumption
    <3>5. obj' \in [Handles -> Objects]
      BY Zenon, <3>4, SetObject
    <3> QED
      BY Zenon, <2>1, <3>2, <3>3, <3>5
  <2>2. CASE obj[h].value # 0
    BY Zenon, <2>2, PanicStops DEF Causes
  <2> QED
    BY Zenon, <2>1, <2>2
<1>5. ASSUME NEW h \in Handles, uacpi_kernel_acquire_mutex(h)
      PROVE  HostTypes'
  <2> USE <1>5 DEF uacpi_kernel_acquire_mutex
  <2>1. CASE obj[h].value = 0
    <3>1. 1 \in 0..EventMax /\ Set(h, 1)
      BY <2>1, HostAssumption
    <3>2. obj' \in [Handles -> Objects]
      BY Zenon, <3>1, SetObject
    <3> QED
      BY Zenon, <2>1, <3>2
  <2>2. CASE obj[h].value # 0
    BY Zenon, <2>2, PanicStops DEF Causes
  <2> QED
    BY Zenon, <2>1, <2>2
<1>6. ASSUME NEW h \in Handles, uacpi_kernel_release_mutex(h)
      PROVE  HostTypes'
  BY <1>6, SetObject, HostAssumption DEF uacpi_kernel_release_mutex
<1>7. ASSUME NEW h \in Handles, uacpi_kernel_signal_event(h)
      PROVE  HostTypes'
  <2>1. obj[h].value \in Nat /\ pending[h] \in 0..EventMax
    BY DEF Objects
  <2>2. (obj[h].value + 1) % (EventMax + 1) \in 0..EventMax
    BY SMTT(30), <2>1, HostAssumption
  <2> QED
    <3>1. obj' \in [Handles -> Objects]
      BY Zenon, <1>7, <2>2, SetObject DEF uacpi_kernel_signal_event
    <3>2. pending[h] + 1 \in 0..EventMax
      BY <1>7, <2>1, HostAssumption DEF uacpi_kernel_signal_event
    <3>3. pending' \in [Handles -> 0..EventMax]
      BY Zenon, <1>7, <3>2 DEF uacpi_kernel_signal_event
    <3> QED
      BY Zenon, <1>7, <3>1, <3>3 DEF uacpi_kernel_signal_event
<1>8. ASSUME NEW h \in Handles, uacpi_kernel_wait_for_event(h)
      PROVE  HostTypes'
  <2>1. obj[h].value \in 0..EventMax /\ pending[h] = obj[h].value
    BY Zenon, <1>8 DEF Objects, EventInv, uacpi_kernel_wait_for_event
  <2>2. obj[h].value > 0 => obj[h].value - 1 \in 0..EventMax /\ pending[h] - 1 \in 0..EventMax
    BY <2>1, HostAssumption
  <2>3. CASE obj[h].value > 0
    <3>1. /\ Set(h, obj[h].value - 1) /\ obj[h].value - 1 \in 0..EventMax
          /\ pending[h] - 1 \in 0..EventMax
          /\ pending' = [pending EXCEPT ![h] = pending[h] - 1]
          /\ UNCHANGED <<ifl, panicked>> /\ UNCHANGED <<stage, timer, nest, owned, port>>
      BY Zenon, <1>8, <2>2, <2>3 DEF uacpi_kernel_wait_for_event
    <3>2. obj' \in [Handles -> Objects]
      BY Zenon, <3>1, SetObject
    <3> QED
      BY Zenon, <3>1, <3>2
  <2>4. CASE ~(obj[h].value > 0)
    <3>1. Panic("event", h) /\ UNCHANGED <<obj, pending>> /\ UNCHANGED <<stage, timer, nest, owned, port>>
      BY Zenon, <1>8, <2>4 DEF uacpi_kernel_wait_for_event
    <3>2. panicked' \in Panics /\ ifl' = FALSE
      BY Zenon, <3>1, PanicStops DEF Causes
    <3> QED
      BY Zenon, <3>1, <3>2
  <2> QED
    BY <2>3, <2>4
<1>9. ASSUME NEW h \in Handles, uacpi_kernel_reset_event(h)
      PROVE  HostTypes'
  BY <1>9, SetObject, HostAssumption DEF uacpi_kernel_reset_event
<1>10. CASE uacpi_kernel_unlock_spinlock
  <2>1. nest' \in Seq(Entry) /\ Len(nest') <= MaxNest /\ Head(nest).lock \in Handles
    <3>1. Head(nest) \in Entry /\ nest' \in Seq(Entry) /\ Len(nest') <= MaxNest
      BY <1>10, Pop, HostAssumption DEF uacpi_kernel_unlock_spinlock
    <3> QED
      BY Zenon, <1>10, <3>1 DEF uacpi_kernel_unlock_spinlock, Entry
  <2> QED
    BY <1>10, <2>1, SetObject, HostAssumption DEF uacpi_kernel_unlock_spinlock
<1>11. CASE uacpi_kernel_disable_interrupts
  <2>1. nest' \in Seq(Entry) /\ Len(nest') <= MaxNest
    <3>1. Saved("region") \in Entry
      BY Zenon DEF Saved, Entry
    <3> QED
      BY <1>11, <3>1, Push, HostAssumption DEF uacpi_kernel_disable_interrupts
  <2> QED
    BY Zenon, <1>11, <2>1 DEF uacpi_kernel_disable_interrupts
<1>12. CASE uacpi_kernel_restore_interrupts
  <2>1. nest' \in Seq(Entry) /\ Len(nest') <= MaxNest
    BY <1>12, Pop, HostAssumption DEF uacpi_kernel_restore_interrupts
  <2> QED
    BY Zenon, <1>12, <2>1 DEF uacpi_kernel_restore_interrupts
<1>13. ASSUME NEW us \in StallTimes, uacpi_kernel_stall(us)
       PROVE  HostTypes'
  BY Zenon, <1>13, StallLeaves, PanicStops DEF Causes
<1>14. CASE Sleeping
  BY Zenon, <1>14, SleepingLeaves
<1>15. CASE uacpi_kernel_get_nanoseconds_since_boot
  BY Zenon, <1>15, PanicStops DEF uacpi_kernel_get_nanoseconds_since_boot, Causes, client
<1>16. ASSUME NEW base \in 0..PortMax, NEW offset \in Offsets,
              uacpi_kernel_io_access(base, offset)
       PROVE  HostTypes'
  <2>1. [wanted |-> base + offset, used |-> (base + offset) % (PortMax + 1)] \in Ports
    BY HostAssumption DEF Ports
  <2> QED
    BY Zenon, <1>16, <2>1 DEF uacpi_kernel_io_access, client
<1>17. ASSUME NEW type \in {"breakpoint", "fatal", "other"},
              uacpi_kernel_handle_firmware_request(type)
       PROVE  HostTypes'
  BY Zenon, <1>17, PanicStops DEF uacpi_kernel_handle_firmware_request, Causes, client
<1>18. CASE Unimplemented
  BY Zenon, <1>18, PanicStops DEF Unimplemented, Causes, client
<1>19. CASE UNCHANGED vars
  BY Zenon, <1>19 DEF vars, client
<1> QED
  BY Zenon, <1>1, <1>2, <1>3, <1>4, <1>5, <1>6, <1>7, <1>8, <1>9, <1>10, <1>11, <1>12, <1>13,
     <1>14, <1>15, <1>16, <1>17, <1>18, <1>19
     DEF Next, Sleeping, uacpi_kernel_create_mutex, uacpi_kernel_create_event,
         uacpi_kernel_create_spinlock, uacpi_kernel_free_mutex, uacpi_kernel_free_event,
         uacpi_kernel_free_spinlock, uacpi_kernel_pci_access, uacpi_kernel_sleep,
         uacpi_kernel_interrupt_handler, uacpi_kernel_work

(* Interrupts are enabled when the outermost region or spinlock is closed,    *)
(* and not before.                                                            *)
LEMMA FlagStep == IInv /\ [Next]_vars => FlagInv'
<1> SUFFICES ASSUME IInv, [Next]_vars PROVE FlagInv'
  BY Zenon
<1>t. nest \in Seq(Entry) /\ Len(nest) \in Nat /\ ifl \in BOOLEAN
  BY Zenon, LenProperties DEF IInv, HostTypes
<1> USE DEF IInv, FlagInv, Running
<1>1. CASE UNCHANGED nest /\ (UNCHANGED <<ifl, panicked>> \/ panicked' # NoPanic)
  BY <1>1
<1>2. ASSUME NEW e \in Entry, nest' = <<e>> \o nest, e.flags = ifl, ifl' = FALSE, Running
      PROVE  FlagInv'
  <2>1. /\ nest' # <<>> /\ Len(nest') = Len(nest) + 1
        /\ \A i \in 1..Len(nest) + 1 : nest'[i] = IF i = 1 THEN e ELSE nest[i - 1]
    BY <1>2, <1>t, Push
  <2>2. ASSUME NEW i \in 1..Len(nest')
        PROVE  nest'[i].flags <=> i = Len(nest')
    <3>1. CASE i = 1
      <4>1. nest = <<>> <=> Len(nest) = 0
        BY <1>t
      <4> QED
        BY <4>1, <3>1, <2>1, <1>2, <1>t
    <3>2. CASE i # 1
      BY <3>2, <2>1, <1>t
    <3> QED
      BY Zenon, <3>1, <3>2
  <2> QED
    BY Zenon, <1>2, <2>1, <2>2
<1>3. ASSUME nest # <<>>, nest' = Tail(nest), ifl' = (ifl \/ Head(nest).flags),
             UNCHANGED panicked, Running
      PROVE  FlagInv'
  <2>1. /\ Head(nest) = nest[1] /\ Len(nest) \in Nat \ {0} /\ Len(nest') = Len(nest) - 1
        /\ (nest' = <<>>) <=> (Len(nest) = 1)
        /\ \A i \in 1..Len(nest) - 1 : nest'[i] = nest[i + 1]
    BY Zenon, <1>3, <1>t, Pop
  <2>2. ifl' <=> nest' = <<>>
    <3>1. ~ifl
      BY Zenon, <1>3
    <3>2. nest[1].flags <=> 1 = Len(nest)
      BY <2>1
    <3> QED
      BY Zenon, <1>3, <2>1, <3>1, <3>2
  <2>3. ASSUME NEW i \in 1..Len(nest')
        PROVE  nest'[i].flags <=> i = Len(nest')
    BY <2>1
  <2> QED
    BY Zenon, <2>2, <2>3
<1>4. ASSUME NEW h \in Handles, uacpi_kernel_lock_spinlock(h)
      PROVE  FlagInv'
  <2>1. Saved(h) \in Entry /\ Saved(h).flags = ifl
    BY Zenon, <1>t DEF Saved, Entry
  <2>2. CASE obj[h].value = 0
    BY Zenon, <1>4, <2>1, <2>2, <1>2 DEF uacpi_kernel_lock_spinlock
  <2>3. CASE obj[h].value # 0
    BY Zenon, <1>4, <2>3, <1>1, PanicStops DEF uacpi_kernel_lock_spinlock, Causes
  <2> QED
    BY Zenon, <2>2, <2>3
<1>5. CASE uacpi_kernel_disable_interrupts
  <2>1. Saved("region") \in Entry /\ Saved("region").flags = ifl
    BY Zenon, <1>t DEF Saved, Entry
  <2> QED
    BY Zenon, <1>5, <2>1, <1>2 DEF uacpi_kernel_disable_interrupts
<1>6. CASE uacpi_kernel_unlock_spinlock \/ uacpi_kernel_restore_interrupts
  BY Zenon, <1>6, <1>3 DEF uacpi_kernel_unlock_spinlock, uacpi_kernel_restore_interrupts
<1>7. ASSUME NEW h \in Handles, NEW kind, create(kind, h) \/ free(kind, h)
      PROVE  FlagInv'
  BY Zenon, <1>7, <1>1 DEF create, free, client
<1>8. ASSUME NEW h \in Handles,
             \/ uacpi_kernel_acquire_mutex(h) \/ uacpi_kernel_release_mutex(h)
             \/ uacpi_kernel_signal_event(h) \/ uacpi_kernel_wait_for_event(h)
             \/ uacpi_kernel_reset_event(h)
      PROVE  FlagInv'
  BY Zenon,
     <1>8, <1>1, PanicStops DEF uacpi_kernel_acquire_mutex, uacpi_kernel_release_mutex,
     uacpi_kernel_signal_event, uacpi_kernel_wait_for_event, uacpi_kernel_reset_event, Causes
<1>9. ASSUME NEW us \in StallTimes, uacpi_kernel_stall(us)
      PROVE  FlagInv'
  BY Zenon, <1>9, <1>1, StallLeaves, PanicStops DEF Causes
<1>10. CASE kmain \/ Sleeping \/ uacpi_kernel_get_nanoseconds_since_boot
  BY Zenon, <1>10, <1>1, SleepingLeaves, PanicStops
     DEF kmain, uacpi_kernel_get_nanoseconds_since_boot, client, Causes
<1>11. ASSUME NEW base, NEW offset, uacpi_kernel_io_access(base, offset)
       PROVE  FlagInv'
  BY Zenon, <1>11, <1>1 DEF uacpi_kernel_io_access, client
<1>12. ASSUME NEW type \in {"breakpoint", "fatal", "other"},
              uacpi_kernel_handle_firmware_request(type)
       PROVE  FlagInv'
  BY Zenon,
     <1>12, <1>1, PanicStops DEF uacpi_kernel_handle_firmware_request, client, Causes
<1>13. CASE Unimplemented
  BY Zenon, <1>13, <1>1, PanicStops DEF Unimplemented, client, Causes
<1>14. CASE UNCHANGED vars
  BY Zenon, <1>14, <1>1 DEF vars, client
<1> HIDE DEF FlagInv
<1> QED
  BY Zenon, <1>4, <1>5, <1>6, <1>7, <1>8, <1>9, <1>10, <1>11, <1>12, <1>13, <1>14
     DEF Next, Sleeping, uacpi_kernel_create_mutex, uacpi_kernel_create_event,
         uacpi_kernel_create_spinlock, uacpi_kernel_free_mutex, uacpi_kernel_free_event,
         uacpi_kernel_free_spinlock, uacpi_kernel_pci_access, uacpi_kernel_sleep,
         uacpi_kernel_interrupt_handler, uacpi_kernel_work

(* A spinlock is locked exactly while the client has it open, whatever its    *)
(* memory held before.                                                        *)
LEMMA SpinStep == IInv /\ [Next]_vars => SpinInv'
<1> SUFFICES ASSUME IInv, [Next]_vars PROVE SpinInv'
  BY Zenon
<1>t. /\ nest \in Seq(Entry) /\ Len(nest) \in Nat /\ obj \in [Handles -> Objects]
      /\ \A i \in 1..Len(nest) : nest[i] \in Entry
  BY Zenon, LenProperties, ElementOfSeq DEF IInv, HostTypes
<1>u. ASSUME NEW i \in 1..Len(nest), nest[i].lock # "region"
      PROVE  /\ nest[i].lock \in Handles
             /\ obj[nest[i].lock].kind = "spinlock" /\ obj[nest[i].lock].value = 1
  BY <1>t, <1>u DEF Entry, IInv, SpinInv
<1>1. CASE UNCHANGED <<nest, obj>>
  BY Zenon, <1>1 DEF IInv, SpinInv, IsA, Opened
<1>2. ASSUME NEW h \in Handles, NEW v \in 0..EventMax, Set(h, v), obj[h].kind # "spinlock",
             UNCHANGED nest
      PROVE  SpinInv'
  <2>1. /\ \A g \in Handles : obj'[g].kind = obj[g].kind
        /\ \A g \in Handles : g # h => obj'[g] = obj[g]
    BY Zenon, <1>2, <1>t DEF Set, Objects
  <2>2. ASSUME NEW i \in 1..Len(nest), nest[i].lock # "region"
        PROVE  obj'[nest[i].lock] = [kind |-> "spinlock", value |-> 1]
    BY Zenon, <2>1, <2>2, <1>2, <1>u DEF IInv, SpinInv
  <2>3. ASSUME NEW g \in Handles, obj'[g].kind = "spinlock", obj'[g].value # 0
        PROVE  \E i \in 1..Len(nest) : nest[i].lock = g
    BY Zenon, <2>1, <2>3, <1>2 DEF IInv, SpinInv, IsA, Opened
  <2> QED
    BY Zenon, <2>2, <2>3, <1>2 DEF IInv, SpinInv, IsA, Opened
<1>3. ASSUME NEW h \in Handles, NEW kind, create(kind, h)
      PROVE  SpinInv'
  BY Zenon, <1>3, <1>t, <1>u DEF create, client, IInv, SpinInv, IsA, Opened
<1>4. ASSUME NEW h \in Handles, NEW kind, free(kind, h)
      PROVE  SpinInv'
  BY <1>4, <1>t, <1>u DEF free, IInv, SpinInv, IsA, Opened
<1>5. ASSUME NEW h \in Handles, uacpi_kernel_lock_spinlock(h)
      PROVE  SpinInv'
  <2> USE <1>5 DEF uacpi_kernel_lock_spinlock
  <2>1. CASE obj[h].value = 0
    <3>1. Saved(h) \in Entry /\ Saved(h).lock = h
      BY Zenon DEF Saved, Entry, IInv, HostTypes
    <3>2. /\ Len(nest') = Len(nest) + 1
          /\ \A i \in 1..Len(nest) + 1 : nest'[i] = IF i = 1 THEN Saved(h) ELSE nest[i - 1]
      BY <2>1, <3>1, <1>t, Push
    <3>3. 1 \in 0..EventMax /\ Set(h, 1)
      BY <2>1, HostAssumption
    <3>4. /\ obj' \in [Handles -> Objects]
          /\ \A g \in Handles : obj'[g].kind = obj[g].kind
          /\ \A g \in Handles : obj'[g].value = IF g = h THEN 1 ELSE obj[g].value
      BY Zenon, <3>3, <1>t, SetObject
    <3>5. \A i \in 1..Len(nest) : nest[i].lock # h
      BY Zenon DEF Opened
    <3>6. ASSUME NEW i \in 1..Len(nest'), nest'[i].lock # "region"
          PROVE  obj'[nest'[i].lock] = [kind |-> "spinlock", value |-> 1]
      <4>1. CASE i = 1
        BY <4>1, <3>1, <3>2, <3>4, <1>t DEF IsA, Objects
      <4>2. CASE i # 1
        <5>1. i - 1 \in 1..Len(nest) /\ nest'[i] = nest[i - 1]
          BY <4>2, <3>2, <1>t
        <5> QED
          BY ZenonT(30), <5>1, <3>6, <3>4, <3>5, <1>u DEF Objects
      <4> QED
        BY Zenon, <4>1, <4>2
    <3>7. ASSUME NEW i \in 1..Len(nest'), NEW j \in 1..Len(nest'),
                 nest'[i].lock = nest'[j].lock, nest'[i].lock # "region"
          PROVE  i = j
      <4>1. ASSUME NEW k \in 1..Len(nest'), k # 1
            PROVE  k - 1 \in 1..Len(nest) /\ nest'[k] = nest[k - 1]
        BY <4>1, <3>2, <1>t
      <4>2. nest'[1].lock = h
        BY <3>1, <3>2, <1>t
      <4>3. CASE i = 1 \/ j = 1
        BY Zenon, <4>1, <4>2, <4>3, <3>5, <3>7
      <4>4. CASE i # 1 /\ j # 1
        <5>1. /\ i - 1 \in 1..Len(nest) /\ j - 1 \in 1..Len(nest)
              /\ nest[i - 1].lock = nest[j - 1].lock /\ nest[i - 1].lock # "region"
          BY Zenon, <4>1, <4>4, <3>7
        <5>2. i - 1 = j - 1
          BY Zenon, <5>1 DEF IInv, SpinInv
        <5> QED
          BY <5>2, <3>2, <1>t
      <4> QED
        BY Zenon, <4>3, <4>4
    <3>8. ASSUME NEW g \in Handles, obj'[g].kind = "spinlock", obj'[g].value # 0
          PROVE  \E i \in 1..Len(nest') : nest'[i].lock = g
      <4>1. CASE g = h
        BY <4>1, <3>1, <3>2, <1>t
      <4>2. CASE g # h
        <5>1. PICK i \in 1..Len(nest) : nest[i].lock = g
          BY Zenon, <4>2, <3>8, <3>4 DEF IInv, SpinInv, IsA, Opened
        <5>2. i + 1 \in 1..Len(nest') /\ nest'[i + 1] = nest[i]
          BY <3>2, <1>t
        <5> QED
          BY Zenon, <5>1, <5>2
      <4> QED
        BY Zenon, <4>1, <4>2
    <3> QED
      BY Zenon, <3>6, <3>7, <3>8 DEF SpinInv, IsA, Opened
  <2>2. CASE obj[h].value # 0
    BY Zenon, <2>2, <1>1
  <2> QED
    BY Zenon, <2>1, <2>2
<1>6. ASSUME nest # <<>>, nest' = Tail(nest)
      PROVE  /\ Head(nest) = nest[1] /\ Len(nest) \in Nat \ {0} /\ Len(nest') = Len(nest) - 1
             /\ \A i \in 1..Len(nest') : i + 1 \in 1..Len(nest) /\ nest'[i] = nest[i + 1]
             /\ \A i \in 1..Len(nest) : i # 1 => i - 1 \in 1..Len(nest')
  BY <1>6, <1>t, Pop
<1>7. CASE uacpi_kernel_unlock_spinlock
  <2> USE <1>7 DEF uacpi_kernel_unlock_spinlock
  <2> DEFINE h == nest[1].lock
  <2>1. h \in Handles /\ 0 \in 0..EventMax /\ Set(h, 0)
    BY <1>6, <1>u, HostAssumption
  <2>2. /\ obj' \in [Handles -> Objects]
        /\ \A g \in Handles : obj'[g].kind = obj[g].kind
        /\ \A g \in Handles : obj'[g].value = IF g = h THEN 0 ELSE obj[g].value
    <3> HIDE DEF h
    <3> QED BY Zenon, <2>1, <1>t, SetObject
  <2>3. ASSUME NEW i \in 1..Len(nest'), nest'[i].lock # "region"
        PROVE  nest'[i].lock # h
    <3>1. i + 1 \in 1..Len(nest) /\ 1 \in 1..Len(nest) /\ nest'[i] = nest[i + 1] /\ i + 1 # 1
      BY <1>6
    <3> QED
      BY Zenon, <3>1, <2>3 DEF IInv, SpinInv
  <2>4. ASSUME NEW i \in 1..Len(nest'), nest'[i].lock # "region"
        PROVE  obj'[nest'[i].lock] = [kind |-> "spinlock", value |-> 1]
    BY <2>2, <2>3, <2>4, <1>6, <1>u DEF Objects
  <2>5. ASSUME NEW g \in Handles, obj'[g].kind = "spinlock", obj'[g].value # 0
        PROVE  \E i \in 1..Len(nest') : nest'[i].lock = g
    <3>1. PICK i \in 1..Len(nest) : nest[i].lock = g
      BY Zenon, <2>2, <2>5 DEF IInv, SpinInv, IsA, Opened
    <3>2. i # 1
      BY Zenon, <2>2, <2>5, <3>1
    <3> QED
      BY <3>1, <3>2, <1>6
  <2>6. \A i, j \in 1..Len(nest') :
          nest'[i].lock = nest'[j].lock /\ nest'[i].lock # "region" => i = j
    BY <1>6 DEF IInv, SpinInv
  <2> QED
    BY Zenon, <2>4, <2>5, <2>6 DEF SpinInv, IsA, Opened
<1>8. CASE uacpi_kernel_disable_interrupts
  <2> USE <1>8 DEF uacpi_kernel_disable_interrupts
  <2>1. Saved("region") \in Entry /\ Saved("region").lock = "region"
    BY Zenon DEF Saved, Entry, IInv, HostTypes
  <2>2. /\ Len(nest') = Len(nest) + 1
        /\ nest'[1].lock = "region"
        /\ \A i \in 1..Len(nest') : i # 1 => i - 1 \in 1..Len(nest) /\ nest'[i] = nest[i - 1]
        /\ \A i \in 1..Len(nest) : i + 1 \in 1..Len(nest') /\ nest'[i + 1] = nest[i]
    BY SMTT(30), <2>1, <1>t, Push
  <2>3. \A i \in 1..Len(nest') : nest'[i].lock # "region" =>
          obj'[nest'[i].lock] = [kind |-> "spinlock", value |-> 1]
    BY <2>2 DEF IInv, SpinInv
  <2>4. ASSUME NEW i \in 1..Len(nest'), NEW j \in 1..Len(nest'),
               nest'[i].lock = nest'[j].lock, nest'[i].lock # "region"
        PROVE  i = j
    <3>1. i - 1 = j - 1
      BY SMTT(30), <2>2, <2>4 DEF IInv, SpinInv
    <3> QED
      BY <3>1, <2>2, <1>t
  <2>5. ASSUME NEW g \in Handles, obj'[g].kind = "spinlock", obj'[g].value # 0
        PROVE  \E i \in 1..Len(nest') : nest'[i].lock = g
    BY <2>2, <2>5 DEF IInv, SpinInv, IsA, Opened
  <2> QED
    BY Zenon, <2>3, <2>4, <2>5 DEF SpinInv, IsA, Opened
<1>9. CASE uacpi_kernel_restore_interrupts
  <2> USE <1>9 DEF uacpi_kernel_restore_interrupts
  <2>1. ASSUME NEW g \in Handles, obj'[g].kind = "spinlock", obj'[g].value # 0
        PROVE  \E i \in 1..Len(nest') : nest'[i].lock = g
    <3>1. PICK i \in 1..Len(nest) : nest[i].lock = g
      BY Zenon, <2>1 DEF IInv, SpinInv, IsA, Opened
    <3>2. i # 1
      BY Zenon, <3>1, <1>6, HostAssumption
    <3> QED
      BY <3>1, <3>2, <1>6
  <2>2. \A i \in 1..Len(nest') : nest'[i].lock # "region" =>
          obj'[nest'[i].lock] = [kind |-> "spinlock", value |-> 1]
    BY <1>6 DEF IInv, SpinInv
  <2>3. \A i, j \in 1..Len(nest') :
          nest'[i].lock = nest'[j].lock /\ nest'[i].lock # "region" => i = j
    BY <1>6 DEF IInv, SpinInv
  <2> QED
    BY Zenon, <2>1, <2>2, <2>3 DEF SpinInv, IsA, Opened
<1>10. ASSUME NEW h \in Handles, uacpi_kernel_acquire_mutex(h)
       PROVE  SpinInv'
  BY <1>10, <1>1, <1>2, HostAssumption DEF uacpi_kernel_acquire_mutex, IsA
<1>11. ASSUME NEW h \in Handles, uacpi_kernel_release_mutex(h)
       PROVE  SpinInv'
  BY <1>11, <1>2, HostAssumption DEF uacpi_kernel_release_mutex, IsA, IInv, MutexInv
<1>12. ASSUME NEW h \in Handles, uacpi_kernel_signal_event(h)
       PROVE  SpinInv'
  <2>1. (obj[h].value + 1) % (EventMax + 1) \in 0..EventMax
    BY <1>t, HostAssumption DEF Objects
  <2> QED
    BY Zenon, <1>12, <2>1, <1>2 DEF uacpi_kernel_signal_event, IsA
<1>13. ASSUME NEW h \in Handles, uacpi_kernel_wait_for_event(h)
       PROVE  SpinInv'
  <2>1. obj[h].value > 0 => obj[h].value - 1 \in 0..EventMax
    BY <1>t, HostAssumption DEF Objects
  <2> QED
    BY Zenon, <1>13, <2>1, <1>1, <1>2 DEF uacpi_kernel_wait_for_event, IsA
<1>14. ASSUME NEW h \in Handles, uacpi_kernel_reset_event(h)
       PROVE  SpinInv'
  BY <1>14, <1>2, HostAssumption DEF uacpi_kernel_reset_event, IsA
<1>15. CASE \/ kmain \/ Sleeping \/ uacpi_kernel_get_nanoseconds_since_boot
            \/ (\E us \in StallTimes : uacpi_kernel_stall(us))
            \/ (\E base \in 0..PortMax, offset \in Offsets : uacpi_kernel_io_access(base, offset))
            \/ (\E type \in {"breakpoint", "fatal", "other"} :
                  uacpi_kernel_handle_firmware_request(type))
            \/ Unimplemented \/ UNCHANGED vars
  BY Zenon, <1>15, <1>1, SleepingLeaves, StallLeaves
     DEF kmain, uacpi_kernel_get_nanoseconds_since_boot, uacpi_kernel_io_access, uacpi_kernel_handle_firmware_request,
     Unimplemented, vars, client
<1> QED
  BY Zenon, <1>3, <1>4, <1>5, <1>7, <1>8, <1>9, <1>10, <1>11, <1>12, <1>13, <1>14, <1>15
     DEF Next, Sleeping, uacpi_kernel_create_mutex, uacpi_kernel_create_event,
         uacpi_kernel_create_spinlock, uacpi_kernel_free_mutex, uacpi_kernel_free_event,
         uacpi_kernel_free_spinlock, uacpi_kernel_pci_access, uacpi_kernel_sleep,
         uacpi_kernel_interrupt_handler, uacpi_kernel_work

(* A mutex is locked exactly while the client has it, and an event counts the *)
(* signals the client may wait for, whatever their memory held before.        *)
LEMMA ObjectsStep == IInv /\ [Next]_vars => MutexInv' /\ EventInv'
<1> SUFFICES ASSUME IInv, [Next]_vars PROVE MutexInv' /\ EventInv'
  BY Zenon
<1>t. /\ obj \in [Handles -> Objects] /\ owned \in SUBSET Handles
      /\ pending \in [Handles -> 0..EventMax] /\ nest \in Seq(Entry)
      /\ \A h \in Handles : obj[h].value \in 0..EventMax
  BY Zenon DEF IInv, HostTypes, Objects
<1> USE DEF IInv, MutexInv, EventInv, IsA
<1>1. CASE UNCHANGED <<obj, owned, pending>>
  BY Zenon, <1>1
<1>2. ASSUME NEW h \in Handles, NEW kind \in {"mutex", "event", "spinlock"}, create(kind, h)
      PROVE  MutexInv' /\ EventInv'
  BY Zenon, <1>2, <1>t DEF create, client
<1>3. ASSUME NEW h \in Handles, NEW kind \in {"mutex", "event", "spinlock"}, free(kind, h)
      PROVE  MutexInv' /\ EventInv'
  BY <1>3, <1>t DEF free
<1>4. ASSUME NEW h \in Handles, obj[h].kind = "spinlock", NEW v \in 0..EventMax, Set(h, v),
             UNCHANGED <<owned, pending>>
      PROVE  MutexInv' /\ EventInv'
  <2>1. /\ \A g \in Handles : obj'[g].kind = obj[g].kind
        /\ \A g \in Handles : obj'[g].value = IF g = h THEN v ELSE obj[g].value
    BY Zenon, <1>4, <1>t, SetObject
  <2> QED
    BY ZenonT(30), <2>1, <1>4, <1>t
<1>5. ASSUME NEW h \in Handles, uacpi_kernel_lock_spinlock(h)
      PROVE  MutexInv' /\ EventInv'
  <2>1. CASE obj[h].value = 0
    <3>1. 1 \in 0..EventMax
      BY HostAssumption
    <3> QED
      BY Zenon, <2>1, <3>1, <1>4, <1>5 DEF uacpi_kernel_lock_spinlock
  <2>2. CASE obj[h].value # 0
    BY Zenon, <2>2, <1>1, <1>5 DEF uacpi_kernel_lock_spinlock
  <2> QED
    BY Zenon, <2>1, <2>2
<1>6. CASE uacpi_kernel_unlock_spinlock
  <2> DEFINE h == nest[1].lock
  <2>1. /\ Head(nest) = nest[1] /\ nest[1] \in Entry /\ 1 \in 1..Len(nest)
    BY <1>6, <1>t, Pop DEF uacpi_kernel_unlock_spinlock
  <2>2. h \in Handles /\ obj[h].kind = "spinlock" /\ 0 \in 0..EventMax
    BY <1>6, <2>1, HostAssumption DEF uacpi_kernel_unlock_spinlock, SpinInv, Entry
  <2>3. Set(h, 0) /\ UNCHANGED <<owned, pending>>
    BY Zenon, <1>6, <2>1 DEF uacpi_kernel_unlock_spinlock
  <2> HIDE DEF h
  <2> QED
    BY Zenon, <2>2, <2>3, <1>4
<1>7. ASSUME NEW h \in Handles, uacpi_kernel_acquire_mutex(h)
      PROVE  MutexInv' /\ EventInv'
  <2>1. CASE obj[h].value = 0
    <3>1. 1 \in 0..EventMax /\ Set(h, 1) /\ owned' = owned \cup {h} /\ UNCHANGED pending
      BY <2>1, <1>7, HostAssumption DEF uacpi_kernel_acquire_mutex
    <3>2. /\ \A g \in Handles : obj'[g].kind = obj[g].kind
          /\ \A g \in Handles : obj'[g].value = IF g = h THEN 1 ELSE obj[g].value
      BY ZenonT(30), <3>1, <1>t, SetObject
    <3> QED
      BY SMTT(30), <3>1, <3>2, <1>t, <1>7 DEF uacpi_kernel_acquire_mutex
  <2>2. CASE obj[h].value # 0
    BY Zenon, <2>2, <1>1, <1>7 DEF uacpi_kernel_acquire_mutex
  <2> QED
    BY Zenon, <2>1, <2>2
<1>8. ASSUME NEW h \in Handles, uacpi_kernel_release_mutex(h)
      PROVE  MutexInv' /\ EventInv'
  <2>1. 0 \in 0..EventMax /\ Set(h, 0) /\ owned' = owned \ {h} /\ UNCHANGED pending
    BY <1>8, HostAssumption DEF uacpi_kernel_release_mutex
  <2>2. /\ \A g \in Handles : obj'[g].kind = obj[g].kind
        /\ \A g \in Handles : obj'[g].value = IF g = h THEN 0 ELSE obj[g].value
    BY <2>1, <1>t, SetObject
  <2> QED
    BY ZenonT(30), <2>1, <2>2, <1>t, <1>8 DEF uacpi_kernel_release_mutex
<1>9. ASSUME NEW h \in Handles, obj[h].kind = "event", NEW v \in 0..EventMax, Set(h, v),
             pending' = [pending EXCEPT ![h] = v], UNCHANGED owned
      PROVE  MutexInv' /\ EventInv'
  <2>1. /\ \A g \in Handles : obj'[g].kind = obj[g].kind
        /\ \A g \in Handles : obj'[g].value = IF g = h THEN v ELSE obj[g].value
    BY Zenon, <1>9, <1>t, SetObject
  <2> QED
    BY ZenonT(30), <2>1, <1>9, <1>t
<1>10. ASSUME NEW h \in Handles, uacpi_kernel_signal_event(h)
       PROVE  MutexInv' /\ EventInv'
  <2>1. pending[h] = obj[h].value /\ obj[h].value + 1 \in 0..EventMax
    BY <1>10, <1>t, HostAssumption DEF uacpi_kernel_signal_event
  <2>2. (obj[h].value + 1) % (EventMax + 1) = obj[h].value + 1
    BY <2>1, HostAssumption
  <2> QED
    BY Zenon, <2>1, <2>2, <1>9, <1>10 DEF uacpi_kernel_signal_event
<1>11. ASSUME NEW h \in Handles, uacpi_kernel_wait_for_event(h)
       PROVE  MutexInv' /\ EventInv'
  <2>1. CASE obj[h].value > 0
    <3>1. pending[h] = obj[h].value /\ obj[h].value - 1 \in 0..EventMax
      BY <2>1, <1>11, <1>t, HostAssumption DEF uacpi_kernel_wait_for_event
    <3> QED
      BY Zenon, <2>1, <3>1, <1>9, <1>11 DEF uacpi_kernel_wait_for_event
  <2>2. CASE ~(obj[h].value > 0)
    BY Zenon, <2>2, <1>1, <1>11 DEF uacpi_kernel_wait_for_event
  <2> QED
    BY Zenon, <2>1, <2>2
<1>12. ASSUME NEW h \in Handles, uacpi_kernel_reset_event(h)
       PROVE  MutexInv' /\ EventInv'
  <2>1. 0 \in 0..EventMax
    BY HostAssumption
  <2> QED
    BY Zenon, <2>1, <1>9, <1>12 DEF uacpi_kernel_reset_event
<1>13. CASE \/ kmain \/ Sleeping \/ uacpi_kernel_get_nanoseconds_since_boot
            \/ (\E us \in StallTimes : uacpi_kernel_stall(us))
            \/ (\E base \in 0..PortMax, offset \in Offsets : uacpi_kernel_io_access(base, offset))
            \/ (\E type \in {"breakpoint", "fatal", "other"} :
                  uacpi_kernel_handle_firmware_request(type))
            \/ uacpi_kernel_disable_interrupts \/ uacpi_kernel_restore_interrupts
            \/ Unimplemented \/ UNCHANGED vars
  BY Zenon, <1>13, <1>1, SleepingLeaves, StallLeaves
     DEF kmain, uacpi_kernel_get_nanoseconds_since_boot, uacpi_kernel_io_access, uacpi_kernel_handle_firmware_request,
     uacpi_kernel_disable_interrupts, uacpi_kernel_restore_interrupts, Unimplemented, vars, client
<1> HIDE DEF MutexInv, EventInv
<1> QED
  BY Zenon, <1>2, <1>3, <1>5, <1>6, <1>7, <1>8, <1>10, <1>11, <1>12, <1>13
     DEF Next, Sleeping, uacpi_kernel_create_mutex, uacpi_kernel_create_event,
         uacpi_kernel_create_spinlock, uacpi_kernel_free_mutex, uacpi_kernel_free_event,
         uacpi_kernel_free_spinlock, uacpi_kernel_pci_access, uacpi_kernel_sleep,
         uacpi_kernel_interrupt_handler, uacpi_kernel_work

(* sleep_local_us and the handlers of the timers keep the claim and the flag, *)
(* whatever the order of the interrupts.                                      *)
LEMMA SleepStep == IInv /\ [Next]_vars => SleepInv'
<1> SUFFICES ASSUME IInv, [Next]_vars PROVE SleepInv'
  BY Zenon
<1>t. SleepInv /\ lapic.count \in 0..CounterMax /\ lapic.masked \in BOOLEAN
  BY Zenon DEF IInv, SleepInv
<1>1. CASE UNCHANGED timer /\ (panicked' = NoPanic => panicked = NoPanic)
  BY Zenon, <1>1, <1>t DEF SleepInv, timer
<1>2. CASE kmain
  <2>1. 0 \in 0..CounterMax /\ \A c \in Calibrations : c \in 0..CounterMax
    BY HostAssumption
  <2>2. [count |-> 0, masked |-> FALSE] \in [count: 0..CounterMax, masked: BOOLEAN]
    BY <2>1
  <2>3. TICKS_PER_MS' \in 0..CounterMax
    BY Zenon, <1>2, <1>t, <2>1 DEF kmain, SleepInv
  <2>4. /\ lapic' \in [count: 0..CounterMax, masked: BOOLEAN]
        /\ lapic'.count = lapic.count \/ lapic'.count = 0
    <3>1. lapic' = lapic \/ lapic' = [count |-> 0, masked |-> FALSE]
      BY Zenon, <1>2 DEF kmain
    <3>2. lapic \in [count: 0..CounterMax, masked: BOOLEAN]
      BY Zenon, <1>t DEF SleepInv
    <3>3. [count |-> 0, masked |-> FALSE].count = 0
      OBVIOUS
    <3>4. CASE lapic' = lapic
      BY Zenon, <3>4, <3>2
    <3>5. CASE lapic' = [count |-> 0, masked |-> FALSE]
      BY Zenon, <3>5, <3>3, <2>2
    <3> QED
      BY Zenon, <3>1, <3>4, <3>5
  <2>5. UNCHANGED <<at, irr, TIMER_FLAGS, IS_SLEEPING, panicked>>
    BY Zenon, <1>2 DEF kmain
  <2> QED
    BY Zenon, <1>t, <2>3, <2>4, <2>5 DEF SleepInv
<1>3. ASSUME NEW us \in StallTimes, uacpi_kernel_stall(us)
      PROVE  SleepInv'
  <2>1. CASE IS_SLEEPING
    BY Zenon, <1>3, <1>t, <2>1 DEF uacpi_kernel_stall, SleepInv, Running
  <2>2. CASE ~IS_SLEEPING /\ (TICKS_PER_MS = 0 \/ Ticks(us) > CounterMax)
    <3>1. panicked' # NoPanic
      <4>1. Panic("stall", "none") \/ Panic("overflow", "none")
        BY Zenon, <1>3, <2>2 DEF uacpi_kernel_stall
      <4> QED
        BY Zenon, <4>1, PanicStops DEF Causes
    <3>2. /\ lapic' = [lapic EXCEPT !.masked = TRUE]
          /\ TIMER_FLAGS' = 1 /\ IS_SLEEPING' = TRUE
          /\ UNCHANGED <<at, irr, TICKS_PER_MS>>
      BY Zenon, <1>3, <2>2 DEF uacpi_kernel_stall
    <3> QED
      BY <3>1, <3>2, <1>t DEF SleepInv
  <2>3. CASE ~IS_SLEEPING /\ ~(TICKS_PER_MS = 0 \/ Ticks(us) > CounterMax)
    <3>1. /\ lapic' = [count |-> Ticks(us), masked |-> TRUE] /\ at' = "unmask"
          /\ TIMER_FLAGS' = 1 /\ IS_SLEEPING' = TRUE
          /\ UNCHANGED <<irr, TICKS_PER_MS>> /\ Running
      BY Zenon, <1>3, <2>3 DEF uacpi_kernel_stall
    <3>2. ~irr
      BY Zenon, <3>1, <1>t DEF SleepInv, Running
    <3>3. Ticks(us) \in 0..CounterMax
      BY <2>3, <1>t, HostAssumption, TicksFit DEF SleepInv
    <3> QED
      BY <3>1, <3>2, <3>3, <1>t DEF SleepInv
  <2> QED
    BY Zenon, <2>1, <2>2, <2>3
<1>4. CASE sleep_unmask \/ sleep_hlt \/ pit_interrupt
  <2>1. CASE sleep_unmask
    <3>1. lapic' = [lapic EXCEPT !.masked = FALSE] /\ at = "unmask" /\ at' = "check"
      BY Zenon, <2>1 DEF sleep_unmask
    <3>2. lapic'.count = lapic.count /\ lapic' \in [count: 0..CounterMax, masked: BOOLEAN]
      BY Zenon, <3>1, <1>t DEF SleepInv
    <3> QED
      BY ZenonT(30), <2>1, <3>1, <3>2, <1>t DEF sleep_unmask, SleepInv
  <2>2. CASE sleep_hlt
    BY Zenon, <2>2, <1>t DEF sleep_hlt, SleepInv
  <2>3. CASE pit_interrupt
    BY Zenon, <2>3, <1>t DEF pit_interrupt, Woken, SleepInv
  <2> QED
    BY Zenon, <1>4, <2>1, <2>2, <2>3
<1>5. CASE sleep_check
  BY <1>5, <1>t DEF sleep_check, SleepInv
<1>6. CASE TimePasses
  BY <1>6, <1>t, HostAssumption DEF TimePasses, SleepInv
<1>7. CASE lapic_clk_interrupt
  BY <1>7, <1>t DEF lapic_clk_interrupt, Woken, SleepInv
<1>8. ASSUME NEW h \in Handles, NEW kind, create(kind, h) \/ free(kind, h)
      PROVE  SleepInv'
  BY Zenon, <1>8, <1>1 DEF create, free
<1>9. ASSUME NEW h \in Handles,
             \/ uacpi_kernel_lock_spinlock(h) \/ uacpi_kernel_acquire_mutex(h)
             \/ uacpi_kernel_release_mutex(h) \/ uacpi_kernel_signal_event(h)
             \/ uacpi_kernel_wait_for_event(h) \/ uacpi_kernel_reset_event(h)
      PROVE  SleepInv'
  BY Zenon, <1>9, <1>1 DEF uacpi_kernel_lock_spinlock, uacpi_kernel_acquire_mutex,
     uacpi_kernel_release_mutex, uacpi_kernel_signal_event, uacpi_kernel_wait_for_event,
     uacpi_kernel_reset_event, Running
<1>10. CASE \/ uacpi_kernel_unlock_spinlock \/ uacpi_kernel_disable_interrupts
            \/ uacpi_kernel_restore_interrupts \/ uacpi_kernel_get_nanoseconds_since_boot
            \/ (\E base \in 0..PortMax, offset \in Offsets : uacpi_kernel_io_access(base, offset))
            \/ (\E type \in {"breakpoint", "fatal", "other"} :
                  uacpi_kernel_handle_firmware_request(type))
            \/ Unimplemented \/ UNCHANGED vars
  BY Zenon, <1>10, <1>1 DEF uacpi_kernel_unlock_spinlock, uacpi_kernel_disable_interrupts,
     uacpi_kernel_restore_interrupts, uacpi_kernel_get_nanoseconds_since_boot,
     uacpi_kernel_io_access, uacpi_kernel_handle_firmware_request, Unimplemented, vars, Running
<1> QED
  BY Zenon, <1>2, <1>3, <1>4, <1>5, <1>6, <1>7, <1>8, <1>9, <1>10
     DEF Next, uacpi_kernel_create_mutex, uacpi_kernel_create_event,
         uacpi_kernel_create_spinlock, uacpi_kernel_free_mutex, uacpi_kernel_free_event,
         uacpi_kernel_free_spinlock, uacpi_kernel_pci_access, uacpi_kernel_sleep,
         uacpi_kernel_interrupt_handler, uacpi_kernel_work

(* Locking a spinlock finds it unlocked; a stall finds the timer unclaimed,   *)
(* and what it writes fits the count.                                         *)
LEMMA PanicStep == IInv /\ [Next]_vars => LockInfallible' /\ StallsAccepted'
<1> DEFINE Refusals == {"spinlock", "sleeping", "overflow"}
<1> SUFFICES ASSUME IInv, [Next]_vars PROVE panicked'.cause \notin Refusals
  BY Zenon DEF LockInfallible, StallsAccepted
<1>1. CASE UNCHANGED panicked
  BY Zenon, <1>1 DEF IInv, LockInfallible, StallsAccepted
<1>2. ASSUME NEW c \in Causes \ ({"none"} \cup Refusals), NEW h \in Handles \cup {"none"},
             Panic(c, h)
      PROVE  panicked'.cause \notin Refusals
  BY Zenon, <1>2, PanicStops
<1>3. ASSUME NEW h \in Handles, uacpi_kernel_lock_spinlock(h)
      PROVE  UNCHANGED panicked
  BY Zenon, <1>3 DEF uacpi_kernel_lock_spinlock, IInv, SpinInv
<1>4. ASSUME NEW us \in StallTimes, uacpi_kernel_stall(us)
      PROVE  panicked'.cause \notin Refusals
  <2>1. ~IS_SLEEPING /\ TICKS_PER_MS \in 0..CounterMax
    BY Zenon, <1>4 DEF uacpi_kernel_stall, Running, IInv, SleepInv
  <2>2. ~(Ticks(us) > CounterMax)
    BY <2>1, TicksFit, HostAssumption
  <2>3. UNCHANGED panicked \/ Panic("stall", "none")
    BY Zenon, <1>4, <2>1, <2>2 DEF uacpi_kernel_stall
  <2> QED
    BY Zenon, <2>3, <1>1, <1>2 DEF Causes
<1>5. ASSUME NEW h \in Handles, uacpi_kernel_acquire_mutex(h) \/ uacpi_kernel_wait_for_event(h)
      PROVE  panicked'.cause \notin Refusals
  BY Zenon, <1>5, <1>1, <1>2 DEF uacpi_kernel_acquire_mutex, uacpi_kernel_wait_for_event, Causes
<1>6. CASE \/ uacpi_kernel_get_nanoseconds_since_boot \/ Unimplemented
           \/ (\E type \in {"breakpoint", "fatal", "other"} :
                 uacpi_kernel_handle_firmware_request(type))
  BY Zenon, <1>6, <1>1, <1>2 DEF uacpi_kernel_get_nanoseconds_since_boot, Unimplemented,
     uacpi_kernel_handle_firmware_request, Causes
<1>7. ASSUME NEW h \in Handles, NEW kind, create(kind, h) \/ free(kind, h)
      PROVE  UNCHANGED panicked
  BY Zenon, <1>7 DEF create, free
<1>8. ASSUME NEW h \in Handles,
             \/ uacpi_kernel_release_mutex(h) \/ uacpi_kernel_signal_event(h)
             \/ uacpi_kernel_reset_event(h)
      PROVE  UNCHANGED panicked
  BY Zenon, <1>8 DEF uacpi_kernel_release_mutex, uacpi_kernel_signal_event,
     uacpi_kernel_reset_event
<1>9. CASE \/ kmain \/ uacpi_kernel_unlock_spinlock \/ uacpi_kernel_disable_interrupts
           \/ uacpi_kernel_restore_interrupts \/ Sleeping \/ UNCHANGED vars
           \/ (\E base \in 0..PortMax, offset \in Offsets : uacpi_kernel_io_access(base, offset))
  BY Zenon, <1>9, <1>1, SleepingLeaves DEF kmain, uacpi_kernel_unlock_spinlock,
     uacpi_kernel_disable_interrupts, uacpi_kernel_restore_interrupts, uacpi_kernel_io_access, vars
<1> HIDE DEF Refusals
<1> QED
  BY Zenon, <1>1, <1>3, <1>4, <1>5, <1>6, <1>7, <1>8, <1>9
     DEF Next, Sleeping, uacpi_kernel_create_mutex, uacpi_kernel_create_event,
         uacpi_kernel_create_spinlock, uacpi_kernel_free_mutex, uacpi_kernel_free_event,
         uacpi_kernel_free_spinlock, uacpi_kernel_pci_access, uacpi_kernel_sleep,
         uacpi_kernel_interrupt_handler, uacpi_kernel_work

(* The sum of base and offset is a port, and narrowing it changes nothing.    *)
LEMMA PortStep == IInv /\ [Next]_vars => PortsExact'
<1> SUFFICES ASSUME IInv, [Next]_vars PROVE PortsExact'
  BY Zenon
<1>1. ASSUME NEW base \in 0..PortMax, NEW offset \in Offsets,
             uacpi_kernel_io_access(base, offset)
      PROVE  PortsExact'
  <2>1. base + offset <= PortMax => (base + offset) % (PortMax + 1) = base + offset
    BY HostAssumption
  <2>2. base + offset \in Nat
    BY HostAssumption
  <2> QED
    BY <1>1, <2>1, <2>2, HostAssumption DEF uacpi_kernel_io_access, IInv, PortsExact
<1>2. CASE UNCHANGED port
  BY Zenon, <1>2 DEF IInv, PortsExact
<1>3. ASSUME NEW h \in Handles, NEW kind, create(kind, h) \/ free(kind, h)
      PROVE  UNCHANGED port
  BY Zenon, <1>3 DEF create, free
<1>4. ASSUME NEW h \in Handles,
             \/ uacpi_kernel_lock_spinlock(h) \/ uacpi_kernel_acquire_mutex(h)
             \/ uacpi_kernel_release_mutex(h) \/ uacpi_kernel_signal_event(h)
             \/ uacpi_kernel_wait_for_event(h) \/ uacpi_kernel_reset_event(h)
      PROVE  UNCHANGED port
  BY Zenon, <1>4 DEF uacpi_kernel_lock_spinlock, uacpi_kernel_acquire_mutex,
     uacpi_kernel_release_mutex, uacpi_kernel_signal_event, uacpi_kernel_wait_for_event,
     uacpi_kernel_reset_event
<1>5. CASE \/ kmain \/ uacpi_kernel_unlock_spinlock \/ uacpi_kernel_disable_interrupts
           \/ uacpi_kernel_restore_interrupts \/ Sleeping
           \/ uacpi_kernel_get_nanoseconds_since_boot \/ Unimplemented \/ UNCHANGED vars
           \/ (\E us \in StallTimes : uacpi_kernel_stall(us))
           \/ (\E type \in {"breakpoint", "fatal", "other"} :
                 uacpi_kernel_handle_firmware_request(type))
  BY Zenon, <1>5, <1>2, SleepingLeaves, StallLeaves
     DEF kmain, uacpi_kernel_unlock_spinlock, uacpi_kernel_disable_interrupts,
     uacpi_kernel_restore_interrupts, Unimplemented, vars,
     uacpi_kernel_get_nanoseconds_since_boot, uacpi_kernel_handle_firmware_request
<1> QED
  BY Zenon, <1>1, <1>2, <1>3, <1>4, <1>5
     DEF Next, Sleeping, uacpi_kernel_create_mutex, uacpi_kernel_create_event,
         uacpi_kernel_create_spinlock, uacpi_kernel_free_mutex, uacpi_kernel_free_event,
         uacpi_kernel_free_spinlock, uacpi_kernel_pci_access, uacpi_kernel_sleep,
         uacpi_kernel_interrupt_handler, uacpi_kernel_work

-----------------------------------------------------------------------------
(* Theorems *)

(* The invariant of uacpi.rs holds at start, and every call keeps it.         *)
THEOREM HostInvariant == Spec => []IInv
<1>1. Init => IInv
  <2> SUFFICES ASSUME Init PROVE IInv
    BY Zenon
  <2>1. HostTypes
    BY HostAssumption, EmptySeq DEF Init, HostTypes, Objects, Free, Panics, Causes, NoPanic, Ports, NoPort
  <2>2. FlagInv /\ SpinInv
    BY EmptySeq DEF Init, FlagInv, SpinInv, Free, IsA
  <2>3. MutexInv /\ EventInv /\ LockInfallible /\ StallsAccepted /\ PortsExact
    BY Zenon DEF Init, MutexInv, EventInv, LockInfallible, StallsAccepted, PortsExact, Free, IsA,
       NoPanic, NoPort
  <2>4. SleepInv
    <3>1. 0 \in 0..CounterMax
      BY HostAssumption
    <3> QED
      BY Zenon, <3>1 DEF Init, SleepInv
  <2> QED
    BY Zenon, <2>1, <2>2, <2>3, <2>4 DEF IInv
<1>2. IInv /\ [Next]_vars => IInv'
  BY Zenon, TypesStep, FlagStep, SpinStep, ObjectsStep, SleepStep, PanicStep, PortStep DEF IInv
<1> QED
  BY <1>1, <1>2, PTL DEF Spec

(* The state of uacpi.rs and of its client keeps its types.                   *)
THEOREM TypeCorrect == Spec => []TypeOK
<1>1. IInv => TypeOK
  BY Zenon DEF IInv, HostTypes, SleepInv, TypeOK, Objects, Entry, Ports
<1> QED
  BY <1>1, HostInvariant, PTL

(* Interrupts stay masked until the outermost region or spinlock is closed,   *)
(* and are enabled after it, for any depth and order of nesting.              *)
THEOREM Masking == Spec => []MaskedWhileNested
<1>1. IInv => MaskedWhileNested
  BY Zenon DEF IInv, FlagInv, MaskedWhileNested, Running
<1> QED
  BY <1>1, HostInvariant, PTL

(* uacpi_kernel_lock_spinlock never meets a lock that is held.                *)
THEOREM LockingSucceeds == Spec => []LockInfallible
<1>1. IInv => LockInfallible
  BY Zenon DEF IInv
<1> QED
  BY <1>1, HostInvariant, PTL

(* sleep_local_us returns only after its timer has run down and the handler   *)
(* has run, for every count and every order of interrupts, time and code.     *)
THEOREM StallsLast == Spec => []StallRunsItsCourse
<1>1. IInv => StallRunsItsCourse
  BY Zenon DEF IInv, SleepInv, StallRunsItsCourse, Running
<1> QED
  BY <1>1, HostInvariant, PTL

(* sleep_local_us refuses no stall of uACPI after the calibration: the timer  *)
(* is unclaimed, and 8 bits of microseconds do not overflow the count.        *)
THEOREM StallsBegin == Spec => []StallsAccepted
<1>1. IInv => StallsAccepted
  BY Zenon DEF IInv
<1> QED
  BY <1>1, HostInvariant, PTL

(* io_read and io_write use the port that base and offset name, for a port of *)
(* any width and any offset.                                                  *)
THEOREM PortAccess == Spec => []PortsExact
<1>1. IInv => PortsExact
  BY Zenon DEF IInv
<1> QED
  BY <1>1, HostInvariant, PTL

==============================================================================
