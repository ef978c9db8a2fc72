------------------------- MODULE SwitchFramesProofs -------------------------
(***************************************************************************)
(* What a context switch does to the registers, for any set of tasks, any  *)
(* of them yielding, and any build that keeps the arguments of             *)
(* resume_scheduler out of reach of what interrupts it.                    *)
(***************************************************************************)
EXTENDS SwitchFrames, SequenceTheorems, FiniteSetTheorems, TLAPS

Whats  == Registers \cup {"any", "end_task", "sp", "info", "if", "rip", "preempted", "yielded"}
Words  == (Tasks \cup {Sched}) \X Whats \X Nat
Homes  == Registers \cup Slots
Owners == Tasks \cup {Sched}

Types ==
  /\ pc \in InScheduler \cup {"task", "enter", "restore", "astray"}
  /\ cur \in Owners /\ stale \in Owners
  /\ ifl \in BOOLEAN /\ armed \in BOOLEAN /\ tick \in BOOLEAN
  /\ regs \in [Homes -> Words] /\ mem \in [Owners -> Seq(Words)] /\ sp \in [Tasks -> Words]
  /\ flagged \subseteq Tasks /\ queue \in Seq(Tasks)
  /\ args \in [stack: Homes, kind: Homes] /\ todo \in Seq(Registers \cup {"btr"})
  /\ gen \in [Tasks -> {0, 1}] /\ relies \in [Tasks -> SUBSET Registers]
  /\ hit \in [Tasks -> BOOLEAN]

Queued(t) == \E i \in 1..Len(queue) : queue[i] = t

(* Whose code runs, and that it is not in the queue. *)
ControlInv ==
  /\ pc \in InScheduler \cup {"enter"} => cur = Sched
  /\ pc \in {"task", "restore"} => cur = stale
  /\ pc # "dispatch" => stale \in Tasks /\ ~Queued(stale)
  /\ \A i, j \in 1..Len(queue) : queue[i] = queue[j] => i = j
  /\ mem[Sched] = <<>>
  /\ pc # "astray"

(* The word w has what the task t may expect in register r. *)
Expected(t) == relies[t] \ (IF hit[t] THEN Scratch ELSE {})
Keeps(t, r, w) == r \in Expected(t) => w = Own(t, r)

(* The registers above the frame iretq consumes, from the bottom: all of      *)
(* them when the task was preempted, the callee-saved ones when it yielded or *)
(* has not run.  The flag tells which.                                        *)
Hows        == {"preempted", "yielded"}
How(t)      == IF t \in flagged THEN "preempted" ELSE "yielded"
Order(how)  == IF how = "preempted" THEN GpPushes \o StdPushes ELSE StdPushes
Height(how) == IF how = "preempted" THEN 16 ELSE 6

(* A task's stack with the first n of those registers on it. *)
Holds(t, how, n) ==
  /\ Len(mem[t]) = 5 + n
  /\ mem[t][1] = EndTask /\ mem[t][2] = SpOf(t, 1) /\ mem[t][5] = Rip(t)
  /\ Keeps(t, "rflags", mem[t][3])
  /\ \A j \in 1..n : Keeps(t, Order(how)[j], mem[t][5 + j])

Saved(t, how) ==
  /\ Holds(t, how, Height(how))
  /\ how = "yielded" => relies[t] \subseteq CalleeSaved

QueueInv ==
  \A t \in Tasks, how \in Hows :
    Queued(t) /\ how = How(t) => Saved(t, how) /\ sp[t] = SpOf(t, Len(mem[t]))

(* resume_scheduler has been handed what belongs to the frame on the stack. *)
Handed(stack, kind) ==
  /\ stale \notin flagged
  /\ \E how \in Hows :
       /\ Saved(stale, how)
       /\ regs[stack] = SpOf(stale, Len(mem[stale])) /\ regs[kind] = Kind(how)

HandedInv ==
  /\ pc = "enter" => Handed("rdi", "rsi")
  /\ pc \in {"int3", "requeue"} =>
       /\ args.stack \in Places /\ args.kind \in Places /\ args.stack # args.kind
       /\ Handed(args.stack, args.kind)

(* resume_task: the registers it has yet to pop are on the stack, the others  *)
(* are back.  The test of the flag stands between the two kinds.              *)
StdTodo == StdPops \o <<"btr">>
Suffix(list, n) == SubSeq(list, Len(list) - n + 1, Len(list))
Back(how, n) ==
  \A r \in Expected(cur) :
    r = "rflags" \/ (\E j \in 1..n : Order(how)[j] = r) \/ regs[r] = Own(cur, r)

RestoreStd(k) ==
  LET n == Height(How(cur)) - 6 + k
  IN  /\ todo = Suffix(StdTodo, k + 1)
      /\ regs["rdi"] = Word(cur, "info", 0)
      /\ Holds(cur, How(cur), n) /\ Back(How(cur), n)

RestoreGp(k) ==
  /\ cur \notin flagged /\ todo = Suffix(GpPops, k)
  /\ Holds(cur, "preempted", k) /\ Back("preempted", k)

RestoreInv ==
  pc = "restore" => \/ \E k \in 0..6 : RestoreStd(k)
                    \/ \E k \in 0..10 : RestoreGp(k)

RunningInv == pc = "task" => cur \notin flagged /\ StackBalanced /\ RegistersKept

IInv == Types /\ ControlInv /\ QueueInv /\ HandedInv /\ RestoreInv /\ RunningInv

-----------------------------------------------------------------------------
(* Words, frames and the order of the pops. *)

(* What is ever in a register or on a stack is a word. *)
LEMMA WordTyped ==
  ASSUME NEW t \in Owners, NEW n \in Nat, NEW w \in Whats, NEW b \in BOOLEAN
  PROVE  /\ Junk \in Words /\ EndTask \in Words /\ SpOf(t, n) \in Words /\ Word(t, w, 0) \in Words
         /\ Kind("preempted") \in Words /\ Kind("yielded") \in Words /\ IfWord(b) \in Words
         /\ Rip(t) \in Words /\ Word(t, w, n) \in Words
  BY Zenon DEF Junk, EndTask, SpOf, Kind, IfWord, Rip, Word, Words, Whats, Owners

(* The words tell tasks, registers and reasons apart. *)
LEMMA WordsDiffer ==
  /\ Kind("preempted") # Kind("yielded") /\ IfWord(TRUE) # IfWord(FALSE)
  /\ \A t, n : SpOf(t, n)[3] = n /\ Word(t, "info", 0)[1] = t
  BY DEF Kind, IfWord, Word, SpOf

(* The pushes of scheduler_preempt and release_task, and resume_task's pops. *)
LEMMA Lists ==
  /\ StdPushes \in Seq(Registers) /\ Len(StdPushes) = 6
  /\ GpPushes \in Seq(Registers) /\ Len(GpPushes) = 10
  /\ GpPops \in Seq(Registers) /\ Len(GpPops) = 10
  /\ StdPops \in Seq(Registers) /\ Len(StdPops) = 6
  /\ \A j \in 1..6 : StdPops[7 - j] = StdPushes[j] /\ StdPushes[j] \in CalleeSaved
  /\ \A j \in 1..10 : GpPops[11 - j] = GpPushes[j] /\ GpPushes[j] \in Registers \ CalleeSaved
<1>1. StdPushes \in Seq(Registers) /\ Len(StdPushes) = 6
  BY DEF StdPushes, Registers, CalleeSaved
<1>2. GpPushes \in Seq(Registers) /\ Len(GpPushes) = 10
  BY DEF GpPushes, Registers, CallerSaved
<1>3. GpPops \in Seq(Registers) /\ Len(GpPops) = 10
  BY DEF GpPops, Registers, CallerSaved
<1>4. StdPops \in Seq(Registers) /\ Len(StdPops) = 6
  BY DEF StdPops, Registers, CalleeSaved
<1>5. ASSUME NEW j \in 1..6
      PROVE  StdPops[7 - j] = StdPushes[j] /\ StdPushes[j] \in CalleeSaved
  <2>1. j \in {1, 2, 3, 4, 5, 6}
    OBVIOUS
  <2> QED
    BY <2>1 DEF StdPops, StdPushes, CalleeSaved
<1>6. ASSUME NEW j \in 1..10
      PROVE  GpPops[11 - j] = GpPushes[j] /\ GpPushes[j] \in Registers \ CalleeSaved
  <2>1. j \in {1, 2, 3, 4, 5, 6, 7, 8, 9, 10}
    OBVIOUS
  <2> QED
    BY <2>1 DEF GpPops, GpPushes, Registers, CallerSaved, CalleeSaved
<1> QED
  BY Zenon, <1>1, <1>2, <1>3, <1>4, <1>5, <1>6

(* The registers on a stack, from the bottom. *)
LEMMA OrderFacts ==
  /\ \A how \in Hows :
       /\ Height(how) \in Nat /\ Height(how) >= 6
       /\ \A j \in 1..Height(how) : Order(how)[j] \in Registers
       /\ \A j \in 1..6 : Order(how)[Height(how) - 6 + j] = StdPushes[j]
  /\ Height("preempted") = 16 /\ Height("yielded") = 6
  /\ \A j \in 1..10 : Order("preempted")[j] = GpPushes[j]
<1>0. /\ GpPushes \in Seq(Registers) /\ Len(GpPushes) = 10
      /\ StdPushes \in Seq(Registers) /\ Len(StdPushes) = 6
  BY Zenon, Lists
<1>1. /\ GpPushes \o StdPushes \in Seq(Registers) /\ Len(GpPushes \o StdPushes) = 16
      /\ \A j \in 1..16 : (GpPushes \o StdPushes)[j] =
           IF j <= 10 THEN GpPushes[j] ELSE StdPushes[j - 10]
  <2>1. /\ GpPushes \o StdPushes \in Seq(Registers)
        /\ Len(GpPushes \o StdPushes) = Len(GpPushes) + Len(StdPushes)
        /\ \A j \in 1..Len(GpPushes) + Len(StdPushes) : (GpPushes \o StdPushes)[j] =
             IF j <= Len(GpPushes) THEN GpPushes[j] ELSE StdPushes[j - Len(GpPushes)]
    BY Zenon, <1>0, ConcatProperties
  <2>2. Len(GpPushes) + Len(StdPushes) = 16
    BY <1>0
  <2> QED
    BY Zenon, <2>1, <2>2, <1>0
<1>2. \A j \in 1..16 : (GpPushes \o StdPushes)[j] \in Registers
  BY Zenon, <1>1, ElementOfSeq
<1>3. \A j \in 1..6 : (GpPushes \o StdPushes)[10 + j] = StdPushes[j]
  <2> TAKE j \in 1..6
  <2>1. 10 + j \in 1..16 /\ ~(10 + j <= 10) /\ (10 + j) - 10 = j
    OBVIOUS
  <2> QED
    BY Zenon, <2>1, <1>1
<1>4. Order("preempted") = GpPushes \o StdPushes /\ Order("yielded") = StdPushes
  BY Zenon DEF Order
<1>5. Height("preempted") = 16 /\ Height("yielded") = 6
  BY Zenon DEF Height
<1>6. \A j \in 1..6 : StdPushes[j] \in Registers
  BY Zenon, <1>0, ElementOfSeq
<1>7. \A j \in 1..10 : (GpPushes \o StdPushes)[j] = GpPushes[j]
  <2> TAKE j \in 1..10
  <2>1. j \in 1..16 /\ j <= 10
    OBVIOUS
  <2> QED
    BY Zenon, <2>1, <1>1
<1>8. \A j \in 1..6 : Order("yielded")[Height("yielded") - 6 + j] = StdPushes[j]
  <2> TAKE j \in 1..6
  <2>1. 6 - 6 + j = j
    OBVIOUS
  <2> QED
    BY Zenon, <2>1, <1>4, <1>5
<1>9. \A j \in 1..6 : Order("preempted")[Height("preempted") - 6 + j] = StdPushes[j]
  <2> TAKE j \in 1..6
  <2>1. 16 - 6 + j = 10 + j
    OBVIOUS
  <2> QED
    BY Zenon, <2>1, <1>3, <1>4, <1>5
<1> HIDE DEF Order, Height
<1>10. /\ \A j \in 1..Height("preempted") : Order("preempted")[j] \in Registers
       /\ \A j \in 1..Height("yielded") : Order("yielded")[j] \in Registers
       /\ \A j \in 1..10 : Order("preempted")[j] = GpPushes[j]
  BY Zenon, <1>2, <1>4, <1>5, <1>6, <1>7
<1>11. Hows = {"preempted", "yielded"}
  BY Zenon DEF Hows
<1> QED
  BY <1>5, <1>8, <1>9, <1>10, <1>11

(* Every callee-saved register is among the last six pushed. *)
LEMMA StdComplete ==
  \A r \in CalleeSaved : \E j \in 1..6 : StdPushes[j] = r
<1>1. /\ StdPushes[1] = "rbx" /\ StdPushes[2] = "rbp" /\ StdPushes[3] = "r12"
      /\ StdPushes[4] = "r13" /\ StdPushes[5] = "r14" /\ StdPushes[6] = "r15"
  BY Zenon DEF StdPushes
<1> QED
  BY <1>1 DEF CalleeSaved

(* Every other one is among the first ten of an interrupted task. *)
LEMMA GpComplete ==
  \A r \in Registers \ CalleeSaved : \E j \in 1..10 : GpPushes[j] = r
<1>1. /\ GpPushes[1] = "rflags" /\ GpPushes[2] = "rax" /\ GpPushes[3] = "rcx"
      /\ GpPushes[4] = "rdx" /\ GpPushes[5] = "rsi" /\ GpPushes[6] = "rdi" /\ GpPushes[7] = "r8"
      /\ GpPushes[8] = "r9" /\ GpPushes[9] = "r10" /\ GpPushes[10] = "r11"
  BY Zenon DEF GpPushes
<1> QED
  BY <1>1 DEF Registers, CallerSaved, CalleeSaved

(* What remains to be popped, one pop at a time. *)
LEMMA SuffixStep ==
  ASSUME NEW S, NEW list \in Seq(S), NEW n \in 1..Len(list)
  PROVE  /\ Suffix(list, n) \in Seq(S) /\ Len(Suffix(list, n)) = n
         /\ Head(Suffix(list, n)) = list[Len(list) - n + 1]
         /\ Tail(Suffix(list, n)) = Suffix(list, n - 1)
<1>1. Len(list) \in Nat /\ \A i \in 1..Len(list) : list[i] \in S
  BY Zenon, ElementOfSeq, LenProperties
<1> DEFINE m == Len(list) - n + 1
<1>2. m \in 1..Len(list) /\ Len(list) \in m..Len(list) /\ m + 1 = Len(list) - (n - 1) + 1
  BY <1>1
<1>3. SubSeq(list, m, Len(list)) \in Seq(S) /\ Len(SubSeq(list, m, Len(list))) = n
  BY <1>1, SubSeqProperties
<1>4. /\ Head(SubSeq(list, m, Len(list))) = list[m]
      /\ Tail(SubSeq(list, m, Len(list))) = SubSeq(list, m + 1, Len(list))
  BY Zenon, <1>2, HeadTailOfSubSeq
<1> QED
  BY Zenon, <1>2, <1>3, <1>4 DEF Suffix

(* The whole list, and the end of it. *)
LEMMA SuffixEnds ==
  ASSUME NEW S, NEW list \in Seq(S)
  PROVE  Suffix(list, Len(list)) = list /\ Suffix(list, 0) = <<>>
<1>1. Len(list) \in Nat
  BY Zenon, LenProperties
<1>2. Suffix(list, Len(list)) = list
  <2>1. Len(list) - Len(list) + 1 = 1
    BY <1>1
  <2> QED
    BY Zenon, <2>1, SubSeqFull DEF Suffix
<1>3. Suffix(list, 0) = <<>>
  BY <1>1, SubSeqEmpty DEF Suffix
<1> QED
  BY Zenon, <1>2, <1>3

(* resume_task pops the callee-saved registers in the reverse of the order of *)
(* the pushes, and then tests the flag.                                       *)
LEMMA StdSuffix ==
  /\ StdTodo = Suffix(StdTodo, 7) /\ Suffix(StdTodo, 1) = <<"btr">>
  /\ \A k \in 0..6 : Suffix(StdTodo, k + 1) # <<>>
                     /\ Suffix(StdTodo, k + 1) \in Seq(Registers \cup {"btr"})
  /\ \A k \in 1..6 : LET s == Suffix(StdTodo, k + 1) IN
       s # <<"btr">> /\ Head(s) = StdPushes[k] /\ Tail(s) = Suffix(StdTodo, k)
<1> DEFINE R == Registers \cup {"btr"}
<1>1. StdPops \in Seq(R) /\ Len(StdPops) = 6 /\ <<"btr">> \in Seq(R) /\ Len(<<"btr">>) = 1
  BY DEF StdPops, Registers, CalleeSaved
<1> HIDE DEF R
<1>2. /\ StdTodo \in Seq(R) /\ Len(StdTodo) = 7
      /\ \A i \in 1..7 : StdTodo[i] = IF i <= 6 THEN StdPops[i] ELSE <<"btr">>[i - 6]
  <2>1. /\ StdTodo \in Seq(R) /\ Len(StdTodo) = Len(StdPops) + Len(<<"btr">>)
        /\ \A i \in 1..Len(StdPops) + Len(<<"btr">>) :
             StdTodo[i] = IF i <= Len(StdPops) THEN StdPops[i] ELSE <<"btr">>[i - Len(StdPops)]
    BY Zenon, <1>1, ConcatProperties DEF StdTodo
  <2>2. Len(StdPops) + Len(<<"btr">>) = 7
    BY <1>1
  <2> QED
    BY Zenon, <2>1, <2>2, <1>1
<1>3. /\ \A n \in 1..7 : /\ Suffix(StdTodo, n) \in Seq(R) /\ Len(Suffix(StdTodo, n)) = n
                         /\ Head(Suffix(StdTodo, n)) = StdTodo[7 - n + 1]
                         /\ Tail(Suffix(StdTodo, n)) = Suffix(StdTodo, n - 1)
      /\ Suffix(StdTodo, 7) = StdTodo
  <2>1. ASSUME NEW n \in 1..7
        PROVE  /\ Suffix(StdTodo, n) \in Seq(R) /\ Len(Suffix(StdTodo, n)) = n
               /\ Head(Suffix(StdTodo, n)) = StdTodo[7 - n + 1]
               /\ Tail(Suffix(StdTodo, n)) = Suffix(StdTodo, n - 1)
    <3>1. n \in 1..Len(StdTodo)
      BY Zenon, <1>2
    <3> QED
      BY ZenonT(30), <3>1, <1>2, SuffixStep
  <2>2. Suffix(StdTodo, 7) = StdTodo
    BY Zenon, <1>2, SuffixEnds
  <2> QED
    BY Zenon, <2>1, <2>2
<1>4. Suffix(StdTodo, 1) = <<"btr">>
  <2>1. Suffix(StdTodo, 1) \in Seq(R) /\ Len(Suffix(StdTodo, 1)) = 1
        /\ Head(Suffix(StdTodo, 1)) = "btr"
    BY <1>2, <1>3
  <2> QED
    BY <2>1
<1>5. \A k \in 1..6 : LET s == Suffix(StdTodo, k + 1) IN
       s # <<"btr">> /\ Head(s) = StdPushes[k] /\ Tail(s) = Suffix(StdTodo, k)
  <2> TAKE k \in 1..6
  <2>1. k + 1 \in 1..7 /\ 7 - (k + 1) + 1 = 7 - k /\ 7 - k \in 1..7 /\ 7 - k <= 6
        /\ (k + 1) - 1 = k /\ k + 1 # 1
    OBVIOUS
  <2>2. StdTodo[7 - k] = StdPushes[k]
    BY Zenon, <2>1, <1>2, Lists
  <2> QED
    BY Zenon, <2>1, <2>2, <1>1, <1>3
<1>6. \A k \in 0..6 : Suffix(StdTodo, k + 1) # <<>> /\ Suffix(StdTodo, k + 1) \in Seq(R)
  <2> TAKE k \in 0..6
  <2>1. k + 1 \in 1..7 /\ k + 1 # 0 /\ Len(<<>>) = 0
    OBVIOUS
  <2> QED
    BY Zenon, <2>1, <1>3
<1> QED
  <2> USE DEF R
  <2>1. \A k \in 0..6 : Suffix(StdTodo, k + 1) # <<>>
                       /\ Suffix(StdTodo, k + 1) \in Seq(Registers \cup {"btr"})
    BY Zenon, <1>6
  <2> QED
    BY Zenon, <1>3, <1>4, <1>5, <2>1

(* The same of the other registers, for a task that was interrupted. *)
LEMMA GpSuffix ==
  /\ GpPops = Suffix(GpPops, 10) /\ Suffix(GpPops, 0) = <<>>
  /\ \A k \in 1..10 : LET s == Suffix(GpPops, k) IN
       /\ s # <<>> /\ s # <<"btr">> /\ s \in Seq(Registers)
       /\ Head(s) = GpPushes[k] /\ Tail(s) = Suffix(GpPops, k - 1)
<1>1. GpPops \in Seq(Registers) /\ Len(GpPops) = 10 /\ "btr" \notin Registers
  BY Zenon, Lists DEF Registers, CallerSaved, CalleeSaved
<1>2. /\ \A n \in 1..10 : /\ Suffix(GpPops, n) \in Seq(Registers) /\ Len(Suffix(GpPops, n)) = n
                          /\ Head(Suffix(GpPops, n)) = GpPops[10 - n + 1]
                          /\ Tail(Suffix(GpPops, n)) = Suffix(GpPops, n - 1)
      /\ Suffix(GpPops, 10) = GpPops /\ Suffix(GpPops, 0) = <<>>
  <2>1. ASSUME NEW n \in 1..10
        PROVE  /\ Suffix(GpPops, n) \in Seq(Registers) /\ Len(Suffix(GpPops, n)) = n
               /\ Head(Suffix(GpPops, n)) = GpPops[10 - n + 1]
               /\ Tail(Suffix(GpPops, n)) = Suffix(GpPops, n - 1)
    <3>1. n \in 1..Len(GpPops)
      BY Zenon, <1>1
    <3> QED
      BY Zenon, <3>1, <1>1, SuffixStep
  <2>2. Suffix(GpPops, 10) = GpPops /\ Suffix(GpPops, 0) = <<>>
    BY Zenon, <1>1, SuffixEnds
  <2> QED
    BY Zenon, <2>1, <2>2
<1>3. \A k \in 1..10 : LET s == Suffix(GpPops, k) IN
       /\ s # <<>> /\ s # <<"btr">> /\ s \in Seq(Registers)
       /\ Head(s) = GpPushes[k] /\ Tail(s) = Suffix(GpPops, k - 1)
  <2> TAKE k \in 1..10
  <2>1. 10 - k + 1 = 11 - k /\ k # 0 /\ Len(<<>>) = 0 /\ Head(<<"btr">>) = "btr"
    OBVIOUS
  <2>2. GpPops[11 - k] = GpPushes[k] /\ GpPushes[k] # "btr"
    BY Zenon, Lists, <1>1
  <2> QED
    BY Zenon, <2>1, <2>2, <1>2
<1> QED
  BY Zenon, <1>2, <1>3

-----------------------------------------------------------------------------
(* The interrupts that go back to where they came from. *)

(* A list of registers pushed on a stack. *)
LEMMA PushEffect ==
  ASSUME NEW s \in Seq(Words), NEW list \in Seq(Homes), NEW r \in [Homes -> Words]
  PROVE  /\ Push(s, list, r) \in Seq(Words)
         /\ Len(Push(s, list, r)) = Len(s) + Len(list)
         /\ \A i \in 1..Len(s) : Push(s, list, r)[i] = s[i]
         /\ \A j \in 1..Len(list) : Push(s, list, r)[Len(s) + j] = r[list[j]]
<1> DEFINE new == [i \in 1..Len(list) |-> r[list[i]]]
<1>1. Len(list) \in Nat /\ Len(s) \in Nat /\ \A i \in 1..Len(list) : list[i] \in Homes
  BY Zenon, LenProperties, ElementOfSeq
<1>2. new \in Seq(Words) /\ Len(new) = Len(list)
  <2>1. \A i \in 1..Len(list) : r[list[i]] \in Words
    BY Zenon, <1>1
  <2> HIDE DEF Words, Homes
  <2> QED
    BY <1>1, <2>1
<1>3. \A j \in 1..Len(list) : new[j] = r[list[j]]
  BY Zenon
<1> HIDE DEF new
<1>4. /\ s \o new \in Seq(Words) /\ Len(s \o new) = Len(s) + Len(new)
      /\ \A i \in 1..Len(s) + Len(new) : (s \o new)[i] =
           IF i <= Len(s) THEN s[i] ELSE new[i - Len(s)]
  BY Zenon, <1>2, ConcatProperties
<1>5. \A j \in 1..Len(list) : (s \o new)[Len(s) + j] = r[list[j]]
  <2> TAKE j \in 1..Len(list)
  <2>1. Len(s) + j \in 1..Len(s) + Len(new) /\ ~(Len(s) + j <= Len(s)) /\ (Len(s) + j) - Len(s) = j
    BY <1>1, <1>2
  <2> QED
    BY Zenon, <2>1, <1>3, <1>4
<1>6. \A i \in 1..Len(s) : (s \o new)[i] = s[i]
  <2> TAKE i \in 1..Len(s)
  <2>1. i \in 1..Len(s) + Len(new) /\ i <= Len(s)
    BY <1>1, <1>2
  <2> QED
    BY Zenon, <2>1, <1>4
<1> QED
  BY Zenon, <1>2, <1>4, <1>5, <1>6 DEF Push, new

(* The frame the processor pushes. *)
LEMMA IsfEffect ==
  ASSUME NEW s \in Seq(Words), NEW t \in Owners, NEW d \in Nat, NEW f \in Words, NEW w \in Words,
         NEW new, new = <<SpOf(t, d), f, w, Rip(t)>>
  PROVE  /\ s \o new \in Seq(Words)
         /\ Len(s \o new) = Len(s) + 4
         /\ \A i \in 1..Len(s) : (s \o new)[i] = s[i]
         /\ (s \o new)[Len(s) + 1] = SpOf(t, d)
         /\ (s \o new)[Len(s) + 2] = f
         /\ (s \o new)[Len(s) + 3] = w
         /\ (s \o new)[Len(s) + 4] = Rip(t)
<1>1. SpOf(t, d) \in Words /\ Rip(t) \in Words
  BY Zenon, WordTyped DEF Whats, Registers
<1>2. /\ new \in Seq(Words) /\ Len(new) = 4
      /\ new[1] = SpOf(t, d) /\ new[2] = f /\ new[3] = w /\ new[4] = Rip(t)
  BY <1>1
<1>3. Len(s) \in Nat
  BY Zenon, LenProperties
<1>4. /\ s \o new \in Seq(Words) /\ Len(s \o new) = Len(s) + Len(new)
      /\ \A i \in 1..Len(s) + Len(new) : (s \o new)[i] =
           IF i <= Len(s) THEN s[i] ELSE new[i - Len(s)]
  <2>1. new \in Seq(Words)
    BY Zenon, <1>2
  <2> QED
    BY Zenon, <2>1, ConcatProperties
<1>5. \A j \in 1..4 : (s \o new)[Len(s) + j] = new[j]
  <2> TAKE j \in 1..4
  <2>1. Len(s) + j \in 1..Len(s) + Len(new) /\ ~(Len(s) + j <= Len(s)) /\ (Len(s) + j) - Len(s) = j
    BY <1>2, <1>3
  <2> QED
    BY Zenon, <2>1, <1>4
<1>6. \A i \in 1..Len(s) : (s \o new)[i] = s[i]
  <2> TAKE i \in 1..Len(s)
  <2>1. i \in 1..Len(s) + Len(new) /\ i <= Len(s)
    BY <1>2, <1>3
  <2> QED
    BY Zenon, <2>1, <1>4
<1>7. /\ (s \o new)[Len(s) + 1] = new[1] /\ (s \o new)[Len(s) + 2] = new[2]
      /\ (s \o new)[Len(s) + 3] = new[3] /\ (s \o new)[Len(s) + 4] = new[4]
  <2>1. 1 \in 1..4 /\ 2 \in 1..4 /\ 3 \in 1..4 /\ 4 \in 1..4
    OBVIOUS
  <2> QED
    BY Zenon, <2>1, <1>5
<1>8. s \o new \in Seq(Words) /\ Len(s \o new) = Len(s) + 4
  BY Zenon, <1>2, <1>4
<1> QED
  BY Zenon, <1>2, <1>6, <1>7, <1>8

(* The lower end of a stack. *)
LEMMA Prefix ==
  ASSUME NEW q \in Seq(Words), NEW m \in 0..Len(q)
  PROVE  /\ SubSeq(q, 1, m) \in Seq(Words) /\ Len(SubSeq(q, 1, m)) = m
         /\ \A i \in 1..m : SubSeq(q, 1, m)[i] = q[i]
  OBVIOUS

(* Three registers that a handler pushes: the stack without them, *)
LEMMA BelowPushed ==
  ASSUME NEW s \in Seq(Words), NEW list \in Seq(Homes), Len(list) = 3, NEW r \in [Homes -> Words]
  PROVE  Without(Push(s, list, r), 3) = s
<1> DEFINE stack == Push(s, list, r)
           n     == Len(s)
<1>1. n \in Nat
  BY Zenon, LenProperties
<1>2. /\ stack \in Seq(Words) /\ Len(stack) = n + Len(list)
      /\ \A i \in 1..n : stack[i] = s[i]
  BY Zenon, PushEffect
<1> HIDE DEF stack
<1>3. Len(stack) - 3 = n /\ n \in 0..Len(stack)
  BY <1>1, <1>2
<1>4. /\ SubSeq(stack, 1, n) \in Seq(Words) /\ Len(SubSeq(stack, 1, n)) = Len(s)
      /\ \A i \in 1..Len(SubSeq(stack, 1, n)) : SubSeq(stack, 1, n)[i] = s[i]
  BY <1>2, <1>3, Prefix
<1>5. SubSeq(stack, 1, n) = s
  BY Zenon, <1>4, SeqEqual
<1> QED
  BY Zenon, <1>3, <1>5 DEF Without, stack

(* and the pops that get them back. *)
LEMMA PopPushed ==
  ASSUME NEW s \in Seq(Words), NEW x \in Homes, NEW y \in Homes, NEW z \in Homes,
         x # y, y # z, x # z, NEW r \in [Homes -> Words], NEW r2 \in [Homes -> Words]
  PROVE  Pop(Push(s, <<x, y, z>>, r), <<z, y, x>>, r2)
           = [h \in Homes |-> IF h \in {x, y, z} THEN r[h] ELSE r2[h]]
<1> DEFINE list  == <<x, y, z>>
           pops  == <<z, y, x>>
           stack == Push(s, list, r)
           n     == Len(s)
           Pos(h) == CHOOSE i \in 1..Len(pops) : pops[i] = h
<1>1. /\ list \in Seq(Homes) /\ Len(list) = 3 /\ list[1] = x /\ list[2] = y /\ list[3] = z
      /\ Len(pops) = 3 /\ pops[1] = z /\ pops[2] = y /\ pops[3] = x
  OBVIOUS
<1>2. n \in Nat
  BY Zenon, LenProperties
<1> HIDE DEF list, pops
<1>3. /\ stack \in Seq(Words) /\ Len(stack) = n + Len(list)
      /\ \A i \in 1..n : stack[i] = s[i]
      /\ \A j \in 1..Len(list) : stack[n + j] = r[list[j]]
  BY Zenon, <1>1, PushEffect
<1> HIDE DEF stack
<1>4. stack[n + 1] = r[x] /\ stack[n + 2] = r[y] /\ stack[n + 3] = r[z]
  <2>1. 1 \in 1..Len(list) /\ 2 \in 1..Len(list) /\ 3 \in 1..Len(list)
    BY <1>1
  <2> QED
    BY Zenon, <2>1, <1>1, <1>3
<1>6. \A h : (\E i \in 1..Len(pops) : pops[i] = h) <=> h \in {x, y, z}
  BY <1>1
<1>7. \A i \in 1..Len(pops) : i = 1 \/ i = 2 \/ i = 3
  BY <1>1
<1>8. Pos(z) = 1 /\ Pos(y) = 2 /\ Pos(x) = 3
  BY <1>1, <1>7
<1>9. Len(stack) + 1 - 1 = n + 3 /\ Len(stack) + 1 - 2 = n + 2 /\ Len(stack) + 1 - 3 = n + 1
  BY <1>1, <1>2, <1>3
<1> HIDE DEF Pos, n
<1>10. ASSUME NEW h \in Homes, h \in {x, y, z}
       PROVE  stack[Len(stack) + 1 - Pos(h)] = r[h]
  BY Zenon, <1>10, <1>4, <1>8, <1>9
<1>11. DOMAIN r2 = Homes
  BY Zenon
<1>12. ASSUME NEW h \in Homes
       PROVE  (IF \E i \in 1..Len(pops) : pops[i] = h
               THEN stack[Len(stack) + 1 - Pos(h)] ELSE r2[h])
              = IF h \in {x, y, z} THEN r[h] ELSE r2[h]
  <2>1. (\E i \in 1..Len(pops) : pops[i] = h) <=> h \in {x, y, z}
    BY Zenon, <1>6
  <2>2. CASE h \in {x, y, z}
    BY Zenon, <2>1, <2>2, <1>10
  <2>3. CASE h \notin {x, y, z}
    BY Zenon, <2>1, <2>3
  <2> QED
    BY Zenon, <2>2, <2>3
<1>13. Pop(stack, pops, r2) = [h \in Homes |-> IF h \in {x, y, z} THEN r[h] ELSE r2[h]]
  BY <1>11, <1>12, Zenon DEF Pop, Pos
<1> QED
  BY <1>13, Zenon DEF stack, list, pops

(* iretq restores the flags and the stack pointer from the frame it finds. *)
LEMMA IretRestores ==
  ASSUME NEW s \in Seq(Words), NEW t, NEW f, NEW w, NEW stack \in Seq(Words),
         Len(stack) = Len(s) + 4, \A i \in 1..Len(s) : stack[i] = s[i],
         stack[Len(s) + 1] = SpOf(t, Len(s)), stack[Len(s) + 2] = f, stack[Len(s) + 3] = w
  PROVE  /\ IretFlags(stack) = f /\ stack[Len(stack) - 1] = w
         /\ SubSeq(stack, 1, IretSp(stack)) = s
<1> DEFINE n == Len(s)
<1>1. n \in Nat
  BY Zenon, LenProperties
<1>2. Len(stack) - 3 = n + 1 /\ Len(stack) - 2 = n + 2 /\ Len(stack) - 1 = n + 3
      /\ n \in 0..Len(stack)
  BY <1>1
<1>3. IretFlags(stack) = f
  BY Zenon, <1>2 DEF IretFlags
<1>4. SpOf(t, n)[3] = n
  BY Zenon, WordsDiffer
<1>5. stack[Len(stack) - 1] = w /\ IretSp(stack) = n
  BY Zenon, <1>2, <1>4 DEF IretSp
<1>6. /\ SubSeq(stack, 1, n) \in Seq(Words) /\ Len(SubSeq(stack, 1, n)) = Len(s)
      /\ \A i \in 1..Len(SubSeq(stack, 1, n)) : SubSeq(stack, 1, n)[i] = s[i]
  BY Zenon, <1>2, Prefix
<1>7. SubSeq(stack, 1, n) = s
  BY Zenon, <1>6, SeqEqual
<1> QED
  BY Zenon, <1>3, <1>5, <1>7

(* iretq restores IF. *)
LEMMA IretFlag ==
  ASSUME NEW b \in BOOLEAN, NEW left, left[Len(left) - 1] = IfWord(b)
  PROVE  IretIf(left) = b
<1>1. (IfWord(b) = IfWord(TRUE)) <=> b
  BY DEF IfWord, Word
<1> QED
  BY Zenon, <1>1 DEF IretIf

(* A handler that pushes three registers and pops them leaves flags, IF and   *)
(* stack as they were.                                                        *)
LEMMA HandlerReturns ==
  ASSUME Types, NEW p \in Owners, NEW list \in Seq(Homes), Len(list) = 3,
         NEW isf, isf = <<SpOf(p, Len(mem[p])), regs["rflags"], IfWord(ifl), Rip(p)>>
  PROVE  LET base == mem[p] \o isf
             left == Without(Push(base, list, regs), 3)
         IN  /\ base \in Seq(Words) /\ IretFlags(left) = regs["rflags"] /\ IretIf(left) = ifl
             /\ SubSeq(left, 1, IretSp(left)) = mem[p]
<1> DEFINE base == mem[p] \o isf
           left == Without(Push(base, list, regs), 3)
           s == mem[p]
           f == regs["rflags"]
           w == IfWord(ifl)
<1>1. /\ regs \in [Homes -> Words] /\ mem \in [Owners -> Seq(Words)] /\ ifl \in BOOLEAN
      /\ w \in Words /\ "rflags" \in Homes
  BY Zenon DEF Types, IfWord, Word, Words, Whats, Homes, Owners, Registers
<1>2. s \in Seq(Words) /\ f \in Words /\ isf = <<SpOf(p, Len(s)), f, w, Rip(p)>>
  BY <1>1, Zenon
<1>3. base = s \o isf
  BY Zenon
<1> HIDE DEF s, f, w, base
<1>4. Len(s) \in Nat
  BY Zenon, <1>2, LenProperties
<1>5. /\ s \o isf \in Seq(Words) /\ Len(s \o isf) = Len(s) + 4
      /\ \A i \in 1..Len(s) : (s \o isf)[i] = s[i]
      /\ (s \o isf)[Len(s) + 1] = SpOf(p, Len(s))
      /\ (s \o isf)[Len(s) + 2] = f /\ (s \o isf)[Len(s) + 3] = w
  BY <1>1, <1>2, <1>4, IsfEffect
<1>6. /\ base \in Seq(Words) /\ Len(base) = Len(s) + 4
      /\ \A i \in 1..Len(s) : base[i] = s[i]
      /\ base[Len(s) + 1] = SpOf(p, Len(s))
      /\ base[Len(s) + 2] = f /\ base[Len(s) + 3] = w
  BY Zenon, <1>3, <1>5
<1>7. left = base
  <2>1. base \in Seq(Words) /\ regs \in [Homes -> Words]
    BY Zenon, <1>1, <1>6
  <2> QED
    BY Zenon, <2>1, BelowPushed
<1> HIDE DEF left
<1>8. /\ IretFlags(base) = f /\ base[Len(base) - 1] = w
      /\ SubSeq(base, 1, IretSp(base)) = s
  BY SMTT(90), <1>2, <1>6, IretRestores
<1>9. IretIf(left) = ifl
  BY Zenon, <1>1, <1>7, <1>8, IretFlag DEF w
<1> QED
  BY <1>6, <1>7, <1>8, <1>9, Zenon DEF s, f, base, left

(* hdint.rs, pit_interrupt: it changes nothing that the code it interrupts    *)
(* can see, wherever it is taken.                                             *)
LEMMA PitTransparent == Types /\ pit_interrupt => UNCHANGED vars
<1> SUFFICES ASSUME Types, pit_interrupt PROVE UNCHANGED vars
  BY Zenon
<1> DEFINE isf  == Isf(cur, Len(mem[cur]), regs["rflags"], ifl)
           base == mem[cur] \o isf
           list == <<"rax", "rbx", "rflags">>
           r2   == [regs EXCEPT !["rax"] = Junk, !["rbx"] = Junk, !["rflags"] = Junk]
           r    == Pop(Push(base, list, regs), <<"rflags", "rbx", "rax">>, r2)
           left == Without(Push(base, list, regs), 3)
<1>1. /\ regs' = [r EXCEPT !["rflags"] = IretFlags(left)] /\ ifl' = IretIf(left)
      /\ mem' = [mem EXCEPT ![cur] = SubSeq(left, 1, IretSp(left))]
      /\ UNCHANGED <<pc, cur, stale, sp, flagged, queue, args, todo, armed, tick, history>>
  BY Zenon DEF pit_interrupt
<1>2. /\ regs \in [Homes -> Words] /\ mem \in [Owners -> Seq(Words)] /\ cur \in Owners
      /\ ifl \in BOOLEAN /\ Junk \in Words
      /\ "rax" \in Homes /\ "rbx" \in Homes /\ "rflags" \in Homes
  BY Zenon DEF Types, Junk, Word, Words, Whats, Homes, Owners, Registers, CallerSaved, CalleeSaved
<1>3. r2 \in [Homes -> Words] /\ list \in Seq(Homes) /\ Len(list) = 3
  BY <1>2
<1>4. isf = <<SpOf(cur, Len(mem[cur])), regs["rflags"], IfWord(ifl), Rip(cur)>>
  BY Zenon DEF Isf
<1> HIDE DEF isf
<1>5. /\ base \in Seq(Words) /\ IretFlags(left) = regs["rflags"] /\ IretIf(left) = ifl
      /\ SubSeq(left, 1, IretSp(left)) = mem[cur]
  <2>1. cur \in Owners /\ list \in Seq(Homes) /\ Len(list) = 3
    BY Zenon, <1>2, <1>3
  <2> HIDE DEF list
  <2> QED
    BY Zenon, <2>1, <1>4, HandlerReturns
<1>6. r = [h \in Homes |-> IF h \in {"rax", "rbx", "rflags"} THEN regs[h] ELSE r2[h]]
  <2> HIDE DEF base, r2
  <2>1. "rax" # "rbx" /\ "rbx" # "rflags" /\ "rax" # "rflags"
    BY Zenon
  <2>2. base \in Seq(Words) /\ regs \in [Homes -> Words] /\ r2 \in [Homes -> Words]
    BY Zenon, <1>2, <1>3, <1>5
  <2>3. "rax" \in Homes /\ "rbx" \in Homes /\ "rflags" \in Homes
    BY Zenon, <1>2
  <2> QED
    BY SMTT(90), <2>1, <2>2, <2>3, PopPushed
<1>7. r = regs
  BY Zenon, <1>6, <1>2
<1>8. regs' = regs /\ mem' = mem /\ ifl' = ifl
  <2> HIDE DEF r, left
  <2> QED
    BY Zenon, <1>1, <1>2, <1>5, <1>7
<1> QED
  BY Zenon, <1>1, <1>8 DEF vars, history

(* scheduler.rs, scheduler_preempt in the scheduler itself: three registers   *)
(* are lost and nothing else.                                                 *)
LEMMA PreemptDropped ==
  ASSUME Types, preempt_scheduler, cur = Sched
  PROVE  /\ regs' = [regs EXCEPT !["r14"] = Junk, !["r15"] = Junk, !["rax"] = Junk]
         /\ UNCHANGED <<pc, cur, stale, ifl, mem, sp, flagged, queue, args, todo, armed, history>>
         /\ tick' = FALSE /\ pc \in InScheduler
<1> DEFINE isf  == Isf(Sched, Len(mem[Sched]), regs["rflags"], ifl)
           base == mem[Sched] \o isf
           list == <<"rflags", "rax", "rcx">>
           r2   == [regs EXCEPT !["r14"] = Junk, !["r15"] = Junk]
           r    == Pop(Push(base, list, regs), <<"rcx", "rax", "rflags">>, r2)
           left == Without(Push(base, list, regs), 3)
<1>1. /\ regs' = [r EXCEPT !["rax"] = Junk, !["rflags"] = IretFlags(left)] /\ ifl' = IretIf(left)
      /\ mem' = [mem EXCEPT ![Sched] = SubSeq(left, 1, IretSp(left))]
      /\ UNCHANGED <<pc, cur, stale, sp, flagged, queue, args, todo, armed, history>>
      /\ tick' = FALSE /\ pc \in InScheduler
  BY Zenon DEF preempt_scheduler
<1>2. /\ regs \in [Homes -> Words] /\ mem \in [Owners -> Seq(Words)] /\ Sched \in Owners
      /\ ifl \in BOOLEAN /\ Junk \in Words /\ "r14" \in Homes /\ "r15" \in Homes
      /\ "rax" \in Homes /\ "rcx" \in Homes /\ "rflags" \in Homes
  BY Zenon DEF Types, Junk, Word, Words, Whats, Homes, Owners, Registers, CallerSaved, CalleeSaved
<1>3. r2 \in [Homes -> Words] /\ list \in Seq(Homes) /\ Len(list) = 3
  BY <1>2
<1>4. isf = <<SpOf(Sched, Len(mem[Sched])), regs["rflags"], IfWord(ifl), Rip(Sched)>>
  BY Zenon DEF Isf
<1> HIDE DEF isf
<1>5. /\ base \in Seq(Words) /\ IretFlags(left) = regs["rflags"] /\ IretIf(left) = ifl
      /\ SubSeq(left, 1, IretSp(left)) = mem[Sched]
  <2>1. Sched \in Owners /\ list \in Seq(Homes) /\ Len(list) = 3
    BY Zenon, <1>2, <1>3
  <2> HIDE DEF list
  <2> QED
    BY Zenon, <2>1, <1>4, HandlerReturns
<1>6. r = [h \in Homes |-> IF h \in {"rflags", "rax", "rcx"} THEN regs[h] ELSE r2[h]]
  <2> HIDE DEF base, r2
  <2>1. "rflags" # "rax" /\ "rax" # "rcx" /\ "rflags" # "rcx"
    BY Zenon
  <2>2. base \in Seq(Words) /\ regs \in [Homes -> Words] /\ r2 \in [Homes -> Words]
    BY Zenon, <1>2, <1>3, <1>5
  <2>3. "rflags" \in Homes /\ "rax" \in Homes /\ "rcx" \in Homes
    BY Zenon, <1>2
  <2> QED
    BY SMTT(90), <2>1, <2>2, <2>3, PopPushed
<1>7. r = r2
  BY Zenon, <1>6, <1>2
<1>8. regs' = [r2 EXCEPT !["rax"] = Junk] /\ mem' = mem /\ ifl' = ifl
  <2>1. r2["rflags"] = regs["rflags"]
    BY Zenon, <1>2
  <2> HIDE DEF r, left, r2
  <2> QED
    BY Zenon, <2>1, <1>1, <1>2, <1>3, <1>5, <1>7
<1>9. regs' = [regs EXCEPT !["r14"] = Junk, !["r15"] = Junk, !["rax"] = Junk]
  BY <1>8, Zenon
<1> QED
  BY Zenon, <1>1, <1>8, <1>9

-----------------------------------------------------------------------------
(* The switches. *)

(* Bookkeeping: what the actions take for granted of the constants. *)
LEMMA Basics ==
  /\ Sched \in Owners /\ Tasks \subseteq Owners /\ Sched \notin Tasks
  /\ Junk \in Words /\ EndTask \in Words
  /\ \A t \in Owners, n \in Nat : SpOf(t, n) \in Words
  /\ Kind("preempted") \in Words /\ Kind("yielded") \in Words
  /\ Registers \subseteq Homes /\ Slots \subseteq Homes /\ "btr" \notin Registers
  /\ {"rax", "rdi", "rsi"} \subseteq CallerSaved /\ Scratch \subseteq CalleeSaved
  /\ CallerSaved \subseteq Registers /\ CalleeSaved \subseteq Registers /\ "rflags" \in Registers
  /\ CallerSaved \cap CalleeSaved = {} /\ "rflags" \notin CallerSaved \cup CalleeSaved
  /\ Registers = CallerSaved \cup CalleeSaved \cup {"rflags"}
<1>1. /\ Sched \in Owners /\ Tasks \subseteq Owners /\ Sched \notin Tasks
  BY Zenon, SwitchAssumption DEF Owners
<1>2. /\ Registers \subseteq Homes /\ Slots \subseteq Homes
      /\ CallerSaved \subseteq Registers /\ CalleeSaved \subseteq Registers /\ "rflags" \in Registers
      /\ Registers = CallerSaved \cup CalleeSaved \cup {"rflags"}
  BY Zenon DEF Homes, Registers
<1>3. /\ {"rax", "rdi", "rsi"} \subseteq CallerSaved /\ Scratch \subseteq CalleeSaved
      /\ CallerSaved \cap CalleeSaved = {} /\ "rflags" \notin CallerSaved \cup CalleeSaved
      /\ "btr" \notin Registers
  BY Zenon DEF CallerSaved, CalleeSaved, Scratch, Registers
<1>4. /\ Junk \in Words /\ EndTask \in Words
      /\ Kind("preempted") \in Words /\ Kind("yielded") \in Words
  BY Zenon, <1>1 DEF Junk, EndTask, Kind, Word, Words, Whats, Owners
<1>5. \A t \in Owners, n \in Nat : SpOf(t, n) \in Words
  BY Zenon DEF SpOf, Word, Words, Whats, Owners
<1> QED
  BY Zenon, <1>1, <1>2, <1>3, <1>4, <1>5

(* The frame on a stack that holds the address of end_task and nothing else. *)
LEMMA FrameOnEntry ==
  ASSUME Types, cur \in Tasks, pc = "task", StackBalanced, NEW w \in Words,
         NEW isf, isf = <<SpOf(cur, Len(mem[cur])), regs["rflags"], w, Rip(cur)>>
  PROVE  LET base == mem[cur] \o isf
         IN  /\ base \in Seq(Words) /\ Len(base) = 5 /\ base[1] = EndTask
             /\ base[2] = SpOf(cur, 1) /\ base[3] = regs["rflags"] /\ base[5] = Rip(cur)
<1> DEFINE s == mem[cur]
           f == regs["rflags"]
<1>1. <<EndTask>>[1] = EndTask /\ Len(<<EndTask>>) = 1
  BY Zenon
<1>2. Len(s) = 1 /\ s[1] = EndTask
  BY <1>1, Zenon DEF StackBalanced
<1>3. /\ s \in Seq(Words) /\ cur \in Owners /\ f \in Words
      /\ isf = <<SpOf(cur, Len(s)), f, w, Rip(cur)>>
  <2>1. /\ mem \in [Owners -> Seq(Words)] /\ regs \in [Homes -> Words]
        /\ cur \in Owners /\ "rflags" \in Homes
    BY Zenon, Basics DEF Types
  <2> QED
    BY <2>1, Zenon
<1> HIDE DEF s, f
<1>4. Len(s) \in Nat
  BY Zenon, <1>3, LenProperties
<1>5. /\ s \o isf \in Seq(Words)
      /\ Len(s \o isf) = Len(s) + 4
      /\ \A i \in 1..Len(s) : (s \o isf)[i] = s[i]
      /\ (s \o isf)[Len(s) + 1] = SpOf(cur, Len(s))
      /\ (s \o isf)[Len(s) + 2] = f
      /\ (s \o isf)[Len(s) + 4] = Rip(cur)
  BY <1>3, <1>4, IsfEffect
<1>6. 1 \in 1..Len(s) /\ Len(s) + 4 = 5 /\ Len(s) + 1 = 2 /\ Len(s) + 2 = 3
  BY <1>2
<1>7. (s \o isf)[1] = EndTask
  BY Zenon, <1>2, <1>5, <1>6
<1>8. /\ s \o isf \in Seq(Words) /\ Len(s \o isf) = 5 /\ (s \o isf)[1] = EndTask
      /\ (s \o isf)[2] = SpOf(cur, 1) /\ (s \o isf)[3] = f /\ (s \o isf)[5] = Rip(cur)
  BY Zenon, <1>2, <1>5, <1>6, <1>7
<1> QED
  BY <1>8, Zenon DEF s, f

(* release_task: the frame and the callee-saved registers. *)
LEMMA YieldPushes ==
  ASSUME Types, pc = "task", cur \in Tasks, StackBalanced, yield_task
  PROVE  /\ mem' = [mem EXCEPT ![cur] = mem'[cur]]
         /\ mem'[cur] \in Seq(Words) /\ Len(mem'[cur]) = 11
         /\ mem'[cur][1] = EndTask /\ mem'[cur][2] = SpOf(cur, 1) /\ mem'[cur][5] = Rip(cur)
         /\ \A j \in 1..6 : mem'[cur][5 + j] = regs[StdPushes[j]]
         /\ regs' = [regs EXCEPT !["rdi"] = SpOf(cur, 11), !["rsi"] = Kind("yielded"),
                                 !["rax"] = Junk, !["rflags"] = Junk]
<1> DEFINE isf   == Isf(cur, Len(mem[cur]), regs["rflags"], FALSE)
           base  == mem[cur] \o isf
           saved == Push(base, StdPushes, regs)
<1>1. /\ mem' = [mem EXCEPT ![cur] = saved]
      /\ regs' = [regs EXCEPT !["rdi"] = SpOf(cur, Len(saved)), !["rsi"] = Kind("yielded"),
                              !["rax"] = Junk, !["rflags"] = Junk]
  BY Zenon DEF yield_task
<1>2. /\ regs \in [Homes -> Words] /\ mem \in [Owners -> Seq(Words)] /\ cur \in Owners
      /\ IfWord(FALSE) \in Words /\ "rflags" \in Homes
  BY Zenon DEF Types, IfWord, Word, Words, Whats, Homes, Owners, Registers
<1>3. mem[cur] = <<EndTask>> /\ Len(mem[cur]) = 1 /\ regs["rflags"] \in Words
  BY Zenon, <1>2 DEF StackBalanced
<1>4. isf = <<SpOf(cur, Len(mem[cur])), regs["rflags"], IfWord(FALSE), Rip(cur)>>
  BY Zenon DEF Isf
<1> HIDE DEF isf
<1>5. /\ base \in Seq(Words) /\ Len(base) = 5 /\ base[1] = EndTask
      /\ base[2] = SpOf(cur, 1) /\ base[3] = regs["rflags"] /\ base[5] = Rip(cur)
  <2>1. IfWord(FALSE) \in Words
    BY Zenon, <1>2
  <2> QED
    BY Zenon, <2>1, <1>4, FrameOnEntry
<1> HIDE DEF base
<1>6. StdPushes \in Seq(Homes) /\ Len(StdPushes) = 6
  BY DEF StdPushes, Homes, Registers, CalleeSaved
<1>7. /\ Push(base, StdPushes, regs) \in Seq(Words)
      /\ Len(Push(base, StdPushes, regs)) = Len(base) + Len(StdPushes)
      /\ \A i \in 1..Len(base) : Push(base, StdPushes, regs)[i] = base[i]
      /\ \A j \in 1..Len(StdPushes) :
           Push(base, StdPushes, regs)[Len(base) + j] = regs[StdPushes[j]]
  <2>1. base \in Seq(Words) /\ StdPushes \in Seq(Homes) /\ regs \in [Homes -> Words]
    BY Zenon, <1>2, <1>5, <1>6
  <2> QED
    BY Zenon, <2>1, PushEffect
<1>8. 1 \in 1..Len(base) /\ 2 \in 1..Len(base) /\ 5 \in 1..Len(base)
      /\ Len(base) + Len(StdPushes) = 11
  BY <1>5, <1>6
<1> HIDE DEF saved
<1>9. /\ saved \in Seq(Words) /\ Len(saved) = 11 /\ saved[1] = EndTask
      /\ saved[2] = SpOf(cur, 1) /\ saved[5] = Rip(cur)
      /\ \A j \in 1..6 : saved[5 + j] = regs[StdPushes[j]]
  BY Zenon, <1>5, <1>6, <1>7, <1>8 DEF saved
<1>10. mem'[cur] = saved
  BY Zenon, <1>1, <1>2
<1> QED
  BY Zenon, <1>1, <1>9, <1>10

(* scheduler_preempt in a task: the frame and all registers, of which two are *)
(* not the task's any more.                                                   *)
LEMMA PreemptPushes ==
  ASSUME Types, pc = "task", cur \in Tasks, StackBalanced, preempt_task
  PROVE  LET r == [regs EXCEPT !["r14"] = Junk, !["r15"] = Junk]
         IN  /\ mem' = [mem EXCEPT ![cur] = mem'[cur]]
             /\ mem'[cur] \in Seq(Words) /\ Len(mem'[cur]) = 21
             /\ mem'[cur][1] = EndTask /\ mem'[cur][2] = SpOf(cur, 1)
             /\ mem'[cur][3] = regs["rflags"] /\ mem'[cur][5] = Rip(cur)
             /\ \A j \in 1..16 : mem'[cur][5 + j] = r[Order("preempted")[j]]
             /\ regs' = [r EXCEPT !["rdi"] = SpOf(cur, 21), !["rsi"] = Kind("preempted"),
                                  !["rax"] = Junk, !["rflags"] = Junk]
             /\ r \in [Homes -> Words]
<1> DEFINE r     == [regs EXCEPT !["r14"] = Junk, !["r15"] = Junk]
           isf   == Isf(cur, Len(mem[cur]), regs["rflags"], ifl)
           base  == mem[cur] \o isf
           gp    == Push(base, GpPushes, r)
           saved == Push(gp, StdPushes, r)
<1>1. /\ mem' = [mem EXCEPT ![cur] = saved]
      /\ regs' = [r EXCEPT !["rdi"] = SpOf(cur, Len(saved)), !["rsi"] = Kind("preempted"),
                           !["rax"] = Junk, !["rflags"] = Junk]
  BY Zenon DEF preempt_task
<1>2. /\ regs \in [Homes -> Words] /\ mem \in [Owners -> Seq(Words)] /\ cur \in Owners
      /\ IfWord(ifl) \in Words /\ Junk \in Words /\ "r14" \in Homes /\ "r15" \in Homes
  BY Zenon DEF Types, IfWord, Junk, Word, Words, Whats, Homes, Owners, Registers, CalleeSaved
<1>3. r \in [Homes -> Words]
  BY Zenon, <1>2
<1> HIDE DEF r
<1>4. isf = <<SpOf(cur, Len(mem[cur])), regs["rflags"], IfWord(ifl), Rip(cur)>>
  BY Zenon DEF Isf
<1> HIDE DEF isf
<1>5. /\ base \in Seq(Words) /\ Len(base) = 5 /\ base[1] = EndTask
      /\ base[2] = SpOf(cur, 1) /\ base[3] = regs["rflags"] /\ base[5] = Rip(cur)
  <2>1. IfWord(ifl) \in Words
    BY Zenon, <1>2
  <2> QED
    BY Zenon, <2>1, <1>4, FrameOnEntry
<1> HIDE DEF base
<1>6. /\ StdPushes \in Seq(Homes) /\ Len(StdPushes) = 6
      /\ GpPushes \in Seq(Homes) /\ Len(GpPushes) = 10
  BY DEF StdPushes, GpPushes, Homes, Registers, CalleeSaved, CallerSaved
<1>7. /\ Push(base, GpPushes, r) \in Seq(Words)
      /\ Len(Push(base, GpPushes, r)) = Len(base) + Len(GpPushes)
      /\ \A i \in 1..Len(base) : Push(base, GpPushes, r)[i] = base[i]
      /\ \A j \in 1..Len(GpPushes) : Push(base, GpPushes, r)[Len(base) + j] = r[GpPushes[j]]
  <2>1. base \in Seq(Words) /\ GpPushes \in Seq(Homes) /\ r \in [Homes -> Words]
    BY Zenon, <1>3, <1>5, <1>6
  <2> QED
    BY Zenon, <2>1, PushEffect
<1>8. /\ gp \in Seq(Words) /\ Len(gp) = 15 /\ gp[1] = EndTask /\ gp[2] = SpOf(cur, 1)
      /\ gp[3] = regs["rflags"] /\ gp[5] = Rip(cur)
      /\ \A j \in 1..10 : gp[5 + j] = r[GpPushes[j]]
  <2>1. /\ 1 \in 1..Len(base) /\ 2 \in 1..Len(base) /\ 3 \in 1..Len(base) /\ 5 \in 1..Len(base)
        /\ Len(base) + Len(GpPushes) = 15
    BY <1>5, <1>6
  <2>2. gp[1] = EndTask /\ gp[2] = SpOf(cur, 1) /\ gp[3] = regs["rflags"] /\ gp[5] = Rip(cur)
    BY Zenon, <2>1, <1>5, <1>7
  <2>3. \A j \in 1..10 : gp[5 + j] = r[GpPushes[j]]
    BY Zenon, <1>5, <1>6, <1>7
  <2>4. gp \in Seq(Words) /\ Len(gp) = 15
    BY Zenon, <2>1, <1>7
  <2> HIDE DEF gp
  <2> QED
    BY Zenon, <2>2, <2>3, <2>4
<1> HIDE DEF gp
<1>9. /\ Push(gp, StdPushes, r) \in Seq(Words)
      /\ Len(Push(gp, StdPushes, r)) = Len(gp) + Len(StdPushes)
      /\ \A i \in 1..Len(gp) : Push(gp, StdPushes, r)[i] = gp[i]
      /\ \A j \in 1..Len(StdPushes) : Push(gp, StdPushes, r)[Len(gp) + j] = r[StdPushes[j]]
  <2>1. gp \in Seq(Words) /\ StdPushes \in Seq(Homes) /\ r \in [Homes -> Words]
    BY Zenon, <1>3, <1>6, <1>8
  <2> QED
    BY Zenon, <2>1, PushEffect
<1> HIDE DEF saved
<1>10. /\ saved \in Seq(Words) /\ Len(saved) = 21
       /\ \A i \in 1..15 : saved[i] = gp[i]
       /\ \A j \in 1..6 : saved[15 + j] = r[StdPushes[j]]
  BY <1>6, <1>8, <1>9 DEF saved
<1>11. \A j \in 1..16 : saved[5 + j] = r[Order("preempted")[j]]
  <2> TAKE j \in 1..16
  <2>1. CASE j <= 10
    <3>1. j \in 1..10 /\ 5 + j \in 1..15
      BY <2>1
    <3>2. Order("preempted")[j] = GpPushes[j]
      BY Zenon, <3>1, OrderFacts
    <3> QED
      BY Zenon, <3>1, <3>2, <1>8, <1>10
  <2>2. CASE ~(j <= 10)
    <3>1. j - 10 \in 1..6 /\ 15 + (j - 10) = 5 + j /\ 16 - 6 + (j - 10) = j
      BY <2>2
    <3>2. \A k \in 1..6 : Order("preempted")[16 - 6 + k] = StdPushes[k]
      BY Zenon, OrderFacts DEF Hows
    <3>3. Order("preempted")[j] = StdPushes[j - 10]
      BY Zenon, <3>1, <3>2
    <3> QED
      BY SMTT(90), <3>1, <3>3, <1>10
  <2> QED
    BY Zenon, <2>1, <2>2
<1>12. saved[1] = EndTask /\ saved[2] = SpOf(cur, 1) /\ saved[3] = regs["rflags"] /\ saved[5] = Rip(cur)
  <2>1. 1 \in 1..15 /\ 2 \in 1..15 /\ 3 \in 1..15 /\ 5 \in 1..15
    OBVIOUS
  <2> QED
    BY Zenon, <2>1, <1>8, <1>10
<1>13. mem'[cur] = saved
  BY Zenon, <1>1, <1>2
<1>14. /\ mem' = [mem EXCEPT ![cur] = mem'[cur]]
       /\ mem'[cur] \in Seq(Words) /\ Len(mem'[cur]) = 21
       /\ mem'[cur][1] = EndTask /\ mem'[cur][2] = SpOf(cur, 1)
       /\ mem'[cur][3] = regs["rflags"] /\ mem'[cur][5] = Rip(cur)
       /\ \A j \in 1..16 : mem'[cur][5 + j] = r[Order("preempted")[j]]
       /\ regs' = [r EXCEPT !["rdi"] = SpOf(cur, 21), !["rsi"] = Kind("preempted"),
                            !["rax"] = Junk, !["rflags"] = Junk]
  BY Zenon, <1>1, <1>10, <1>11, <1>12, <1>13
<1> QED
  BY <1>3, <1>14, Zenon DEF r

(* run_scheduler: the stack it switches to is the one that was saved. *)
LEMMA SwitchTo ==
  ASSUME Types, QueueInv, run_scheduler
  PROVE  /\ mem' = mem /\ cur' = Head(queue) /\ queue # <<>> /\ Head(queue) \in Tasks
         /\ Head(queue) = queue[1] /\ 1 \in 1..Len(queue)
<1> DEFINE t == Head(queue)
<1>1. /\ queue \in Seq(Tasks) /\ queue # <<>> /\ mem \in [Owners -> Seq(Words)]
      /\ mem' = [mem EXCEPT ![t] = SubSeq(mem[t], 1, sp[t][3])] /\ cur' = t
  BY Zenon DEF Types, run_scheduler
<1>2. t \in Tasks /\ t = queue[1] /\ 1 \in 1..Len(queue)
  BY <1>1
<1>3. sp[t] = SpOf(t, Len(mem[t]))
  BY Zenon, <1>2 DEF QueueInv, Queued, How, Hows
<1> HIDE DEF t
<1>4. sp[t][3] = Len(mem[t])
  BY Zenon, <1>3, WordsDiffer
<1>5. mem[t] \in Seq(Words)
  BY Zenon, <1>1, <1>2, Basics
<1>6. SubSeq(mem[t], 1, Len(mem[t])) = mem[t]
  BY Zenon, <1>5, SubSeqFull
<1>7. mem' = mem
  BY Zenon, <1>1, <1>4, <1>6
<1> QED
  BY Zenon, <1>1, <1>2, <1>7 DEF t

(* What resume_task finds when it has popped everything. *)
LEMMA LastPop ==
  ASSUME RestoreInv, pc = "restore", todo = <<>>
  PROVE  RestoreGp(0)
<1>1. ASSUME NEW k \in 0..6 PROVE ~RestoreStd(k)
  BY Zenon, StdSuffix DEF RestoreStd
<1>2. ASSUME NEW k \in 0..10, RestoreGp(k) PROVE k = 0
  <2>1. todo = Suffix(GpPops, k)
    BY Zenon, <1>2 DEF RestoreGp
  <2>2. \A n \in 1..10 : Suffix(GpPops, n) # <<>>
    BY Zenon, GpSuffix
  <2> QED
    BY <2>1, <2>2
<1> QED
  BY Zenon, <1>1, <1>2 DEF RestoreInv

(* iretq at the end of resume_task: the task's stack is as it left it. *)
LEMMA IretToTask ==
  ASSUME Types, RestoreInv, resume_iretq, cur \in Tasks
  PROVE  /\ pc' = "task" /\ mem' = [mem EXCEPT ![cur] = <<EndTask>>]
         /\ regs' = [regs EXCEPT !["rflags"] = mem[cur][3]] /\ mem[cur][3] \in Words
         /\ ifl' \in BOOLEAN
<1>1. pc = "restore" /\ todo = <<>>
  BY Zenon DEF resume_iretq, At
<1>2. Holds(cur, "preempted", 0)
  BY Zenon, <1>1, LastPop DEF RestoreGp
<1>3. mem[cur] \in Seq(Words) /\ Len(mem[cur]) = 5 /\ mem[cur][1] = EndTask
      /\ mem[cur][2] = SpOf(cur, 1) /\ mem[cur][5] = Rip(cur)
  <2>1. mem[cur] \in Seq(Words)
    BY Zenon, Basics DEF Types
  <2> QED
    BY <2>1, <1>2 DEF Holds
<1>4. mem[cur] # <<>> /\ Top(mem[cur]) = Rip(cur) /\ Len(mem[cur]) >= 4
  BY <1>3 DEF Top
<1>5. IretSp(mem[cur]) = 1 /\ IretFlags(mem[cur]) = mem[cur][3]
  <2>1. Len(mem[cur]) - 3 = 2 /\ Len(mem[cur]) - 2 = 3
    BY <1>3
  <2>2. SpOf(cur, 1)[3] = 1
    BY Zenon, WordsDiffer
  <2> QED
    BY Zenon, <2>1, <2>2, <1>3 DEF IretSp, IretFlags
<1>6. SubSeq(mem[cur], 1, 1) = <<EndTask>>
  <2>1. 1 \in 0..Len(mem[cur]) /\ mem[cur] \in Seq(Words)
    BY <1>3
  <2>2. /\ SubSeq(mem[cur], 1, 1) \in Seq(Words) /\ Len(SubSeq(mem[cur], 1, 1)) = 1
        /\ \A i \in 1..1 : SubSeq(mem[cur], 1, 1)[i] = mem[cur][i]
    BY Zenon, <2>1, Prefix
  <2>3. <<EndTask>> \in Seq(Words) /\ Len(<<EndTask>>) = 1 /\ <<EndTask>>[1] = EndTask
    BY Basics
  <2> DEFINE a == SubSeq(mem[cur], 1, 1)
             b == <<EndTask>>
  <2> HIDE DEF b
  <2>4. a[1] = b[1] /\ Len(a) = 1 /\ Len(b) = 1
    <3>1. 1 \in 1..1
      OBVIOUS
    <3> QED
      BY Zenon, <3>1, <2>2, <2>3, <1>3 DEF b
  <2>5. Len(a) = Len(b) /\ \A i \in 1..Len(a) : a[i] = b[i]
    BY <2>4
  <2>6. a \in Seq(Words) /\ b \in Seq(Words)
    BY Zenon, <2>2, <2>3 DEF b
  <2> HIDE DEF a
  <2>7. a = b
    BY Zenon, <2>5, <2>6, SeqEqual
  <2> QED
    BY Zenon, <2>7 DEF a, b
<1>7. /\ pc' = "task" /\ ifl' = IretIf(mem[cur])
      /\ regs' = [regs EXCEPT !["rflags"] = IretFlags(mem[cur])]
      /\ mem' = [mem EXCEPT ![cur] = SubSeq(mem[cur], 1, IretSp(mem[cur]))]
  BY Zenon, <1>4 DEF resume_iretq
<1>8. mem[cur][3] \in Words
  BY <1>3, ElementOfSeq
<1>9. ifl' \in BOOLEAN
  BY Zenon, <1>7 DEF IretIf
<1> QED
  BY Zenon, <1>5, <1>6, <1>7, <1>8, <1>9

-----------------------------------------------------------------------------
(* Types *)

(* Every instruction of the switch leaves words in the registers and on the   *)
(* stacks, and tasks in the pointers and the queue.                           *)
LEMMA TypesStep == IInv /\ [Next]_vars => Types'
<1> SUFFICES ASSUME IInv, [Next]_vars PROVE Types'
  BY Zenon
<1>t. /\ Types /\ QueueInv /\ RestoreInv /\ ControlInv
      /\ regs \in [Homes -> Words] /\ mem \in [Owners -> Seq(Words)] /\ sp \in [Tasks -> Words]
      /\ Junk \in Words /\ Tasks \subseteq Owners /\ Sched \in Owners
      /\ cur \in Owners /\ stale \in Owners /\ queue \in Seq(Tasks) /\ flagged \subseteq Tasks
      /\ DOMAIN regs = Homes
  BY Zenon, Basics DEF IInv, Types
<1>p. /\ "task" \in InScheduler \cup {"task", "enter", "restore", "astray"}
      /\ "enter" \in InScheduler \cup {"task", "enter", "restore", "astray"}
      /\ "restore" \in InScheduler \cup {"task", "enter", "restore", "astray"}
      /\ InScheduler = {"int3", "requeue", "dispatch"}
  BY Zenon DEF InScheduler
<1>c. pc = "task" => cur \in Tasks /\ StackBalanced
  BY Zenon DEF IInv, ControlInv, RunningInv
<1>1. CASE TaskComputes
  <2>1. cur \in Tasks /\ gen \in [Tasks -> {0, 1}]
    BY Zenon, <1>1, <1>c, <1>t DEF TaskComputes, At, Types
  <2>2. gen' = [gen EXCEPT ![cur] = 1 - gen[cur]]
    BY Zenon, <1>1 DEF TaskComputes
  <2>3. gen' \in [Tasks -> {0, 1}] /\ gen'[cur] \in Nat
    BY <2>1, <2>2
  <2>4. \A r \in Registers : Word(cur, r, gen'[cur]) \in Words
    BY Zenon, <2>3, <1>t DEF Word, Words, Whats, Owners
  <2>5. regs' \in [Homes -> Words]
    <3>1. regs' = [r \in Homes |-> IF r \in Registers THEN Word(cur, r, gen'[cur]) ELSE regs[r]]
      BY Zenon, <1>1, <1>t DEF TaskComputes
    <3> QED
      BY Zenon, <3>1, <2>4, <1>t
  <2>6. relies' \in [Tasks -> SUBSET Registers] /\ hit' \in [Tasks -> BOOLEAN]
    BY Zenon, <1>1, <2>1, <1>t DEF TaskComputes, Types
  <2> QED
    BY Zenon, <1>1, <2>3, <2>5, <2>6, <1>t DEF TaskComputes, Types
<1>2. CASE yield_task
  <2>1. pc = "task" /\ cur \in Tasks
    BY Zenon, <1>2, <1>c DEF yield_task, At
  <2>2. /\ mem' = [mem EXCEPT ![cur] = mem'[cur]] /\ mem'[cur] \in Seq(Words)
        /\ regs' = [regs EXCEPT !["rdi"] = SpOf(cur, 11), !["rsi"] = Kind("yielded"),
                                !["rax"] = Junk, !["rflags"] = Junk]
    BY Zenon, <2>1, <1>2, <1>c, <1>t, YieldPushes
  <2>3. mem' \in [Owners -> Seq(Words)]
    BY Zenon, <2>2, <1>t
  <2>4. regs' \in [Homes -> Words]
    <3>1. SpOf(cur, 11) \in Words /\ Kind("yielded") \in Words
      BY Zenon, <1>t, Basics
    <3> QED
      BY Zenon, <3>1, <2>2, <1>t
  <2>5. relies' \in [Tasks -> SUBSET Registers]
    BY Zenon, <1>2, <2>1, <1>t DEF yield_task, Types
  <2>6. /\ pc' = "enter" /\ cur' = Sched /\ ifl' = FALSE
        /\ UNCHANGED <<stale, sp, flagged, queue, args, todo, armed, tick, gen, hit>>
    BY Zenon, <1>2 DEF yield_task
  <2> QED
    BY Zenon, <2>3, <2>4, <2>5, <2>6, <1>t, <1>p DEF Types
<1>3. CASE SliceEnds
  BY Zenon, <1>3, <1>t DEF SliceEnds, history, Types
<1>4. CASE preempt_task
  <2>1. pc = "task" /\ cur \in Tasks
    BY Zenon, <1>4, <1>c DEF preempt_task
  <2> DEFINE r == [regs EXCEPT !["r14"] = Junk, !["r15"] = Junk]
  <2>2. /\ mem' = [mem EXCEPT ![cur] = mem'[cur]] /\ mem'[cur] \in Seq(Words)
        /\ regs' = [r EXCEPT !["rdi"] = SpOf(cur, 21), !["rsi"] = Kind("preempted"),
                             !["rax"] = Junk, !["rflags"] = Junk]
        /\ r \in [Homes -> Words]
    BY Zenon, <2>1, <1>4, <1>c, <1>t, PreemptPushes
  <2> HIDE DEF r
  <2>3. mem' \in [Owners -> Seq(Words)]
    BY Zenon, <2>2, <1>t
  <2>4. regs' \in [Homes -> Words]
    <3>1. SpOf(cur, 21) \in Words /\ Kind("preempted") \in Words
      BY Zenon, <1>t, Basics
    <3> QED
      BY Zenon, <3>1, <2>2, <1>t
  <2>5. hit' \in [Tasks -> BOOLEAN]
    BY Zenon, <1>4, <2>1, <1>t DEF preempt_task, Types
  <2>6. /\ pc' = "enter" /\ cur' = Sched /\ ifl' = FALSE /\ tick' = FALSE
        /\ UNCHANGED <<stale, sp, flagged, queue, args, todo, armed, gen, relies>>
    BY Zenon, <1>4 DEF preempt_task
  <2> QED
    BY Zenon, <2>3, <2>4, <2>5, <2>6, <1>t, <1>p DEF Types
<1>5. CASE preempt_scheduler
  <2>1. cur = Sched
    BY Zenon, <1>5, <1>t DEF preempt_scheduler, ControlInv
  <2>2. /\ regs' = [regs EXCEPT !["r14"] = Junk, !["r15"] = Junk, !["rax"] = Junk]
        /\ UNCHANGED <<pc, cur, stale, ifl, mem, sp, flagged, queue, args, todo, armed, history>>
        /\ tick' = FALSE
    BY Zenon, <2>1, <1>5, <1>t, PreemptDropped
  <2>3. regs' \in [Homes -> Words]
    BY Zenon, <2>2, <1>t
  <2> QED
    BY Zenon, <2>2, <2>3, <1>t DEF Types, history
<1>6. CASE pit_interrupt \/ UNCHANGED vars
  <2>1. UNCHANGED vars
    BY Zenon, <1>6, <1>t, PitTransparent
  <2> QED
    BY Zenon, <2>1, <1>t DEF vars, Types
<1>7. CASE resume_scheduler_enter
  <2>1. PICK p \in Places, q \in Places :
          /\ args' = [stack |-> p, kind |-> q]
          /\ regs' = [r \in Homes |-> IF r = p THEN regs["rdi"]
                                      ELSE IF r = q THEN regs["rsi"] ELSE Junk]
    BY Zenon, <1>7, <1>t DEF resume_scheduler_enter
  <2>2. Places \subseteq Homes /\ "rdi" \in Homes /\ "rsi" \in Homes
    BY Zenon, SwitchAssumption, Basics
  <2>3. regs' \in [Homes -> Words]
    BY Zenon, <2>1, <2>2, <1>t
  <2>4. args' \in [stack: Homes, kind: Homes]
    BY Zenon, <2>1, <2>2
  <2> QED
    BY Zenon, <1>7, <2>3, <2>4, <1>t, <1>p DEF resume_scheduler_enter, history, Types
<1>8. CASE breakpoint
  <2>1. regs' \in [Homes -> Words]
    BY Zenon, <1>8, <1>t DEF breakpoint
  <2> QED
    BY Zenon, <1>8, <2>1, <1>t, <1>p DEF breakpoint, history, Types
<1>9. CASE resume_scheduler_requeue
  <2>1. stale \in Tasks /\ args.stack \in Homes
    BY Zenon, <1>9, <1>t DEF resume_scheduler_requeue, At, ControlInv, Types
  <2>2. regs' \in [Homes -> Words] /\ sp' \in [Tasks -> Words]
    BY Zenon, <1>9, <2>1, <1>t DEF resume_scheduler_requeue
  <2>3. queue' \in Seq(Tasks) /\ flagged' \subseteq Tasks
    BY <1>9, <2>1, <1>t DEF resume_scheduler_requeue
  <2> QED
    BY Zenon, <1>9, <2>2, <2>3, <1>t, <1>p DEF resume_scheduler_requeue, history, Types
<1>10. CASE run_scheduler
  <2>1. mem' = mem /\ Head(queue) \in Tasks /\ cur' = Head(queue) /\ queue # <<>>
    BY Zenon, <1>10, <1>t, SwitchTo
  <2>2. regs' \in [Homes -> Words]
    <3>1. Word(Head(queue), "info", 0) \in Words
      BY Zenon, <2>1, <1>t DEF Word, Words, Whats, Owners
    <3> QED
      BY Zenon, <1>10, <3>1, <1>t DEF run_scheduler
  <2>3. queue' \in Seq(Tasks)
    BY <1>10, <2>1, <1>t DEF run_scheduler
  <2>4. todo' \in Seq(Registers \cup {"btr"})
    BY <1>10 DEF run_scheduler, StdPops, Registers, CalleeSaved
  <2>5. /\ pc' = "restore" /\ stale' = Head(queue) /\ armed' = TRUE
        /\ UNCHANGED <<ifl, sp, flagged, args, tick, history>>
    BY Zenon, <1>10 DEF run_scheduler
  <2> QED
    BY Zenon, <2>1, <2>2, <2>3, <2>4, <2>5, <1>t, <1>p DEF history, Types
<1>11. CASE resume_pop
  <2>1. todo \in Seq(Registers \cup {"btr"}) /\ todo # <<>> /\ Head(todo) # "btr"
    BY Zenon, <1>11, <1>t DEF resume_pop, Types
  <2>2. Head(todo) \in Homes /\ Tail(todo) \in Seq(Registers \cup {"btr"})
    BY <2>1, HeadTailProperties, Basics
  <2>3. mem[cur] \in Seq(Words)
    BY Zenon, <1>t
  <2>4. Top(mem[cur]) \in Words
    BY <2>3, <1>t DEF Top
  <2>5. Without(mem[cur], 1) \in Seq(Words)
    <3>1. \A i \in 1..Len(mem[cur]) - 1 : mem[cur][i] \in Words
      BY <2>3, ElementOfSeq
    <3> QED
      BY <3>1, <2>3, SubSeqProperties DEF Without
  <2>6. regs' \in [Homes -> Words] /\ mem' \in [Owners -> Seq(Words)]
    BY Zenon, <1>11, <2>2, <2>4, <2>5, <1>t DEF resume_pop
  <2> QED
    BY Zenon, <1>11, <2>2, <2>6, <1>t DEF resume_pop, history, Types
<1>12. CASE resume_test_interrupted
  <2>1. regs' \in [Homes -> Words] /\ flagged' \subseteq Tasks
    BY Zenon, <1>12, <1>t DEF resume_test_interrupted
  <2>2. todo' = GpPops \/ todo' = <<>>
    BY Zenon, <1>12 DEF resume_test_interrupted
  <2>3. todo' \in Seq(Registers \cup {"btr"})
    <3>1. GpPops \in Seq(Registers \cup {"btr"})
      BY DEF GpPops, Registers, CallerSaved
    <3>2. <<>> \in Seq(Registers \cup {"btr"})
      OBVIOUS
    <3> HIDE DEF GpPops
    <3> QED
      BY Zenon, <2>2, <3>1, <3>2
  <2> QED
    BY Zenon, <1>12, <2>1, <2>3, <1>t DEF resume_test_interrupted, history, Types
<1>13. CASE resume_iretq
  <2>1. cur \in Tasks
    BY Zenon, <1>13, <1>t DEF resume_iretq, At, ControlInv
  <2>2. /\ pc' = "task" /\ mem' = [mem EXCEPT ![cur] = <<EndTask>>]
        /\ regs' = [regs EXCEPT !["rflags"] = mem[cur][3]] /\ mem[cur][3] \in Words
        /\ ifl' \in BOOLEAN
    BY Zenon, <1>13, <2>1, <1>t, IretToTask
  <2>3. <<EndTask>> \in Seq(Words)
    BY Basics
  <2>4. mem' \in [Owners -> Seq(Words)]
    BY Zenon, <2>2, <2>3, <1>t
  <2>5. regs' \in [Homes -> Words]
    BY Zenon, <2>2, <1>t
  <2> QED
    BY Zenon, <1>13, <2>2, <2>4, <2>5, <1>t, <1>p DEF resume_iretq, history, Types
<1> QED
  BY Zenon, 
     <1>1, <1>2, <1>3, <1>4, <1>5, <1>6, <1>7, <1>8, <1>9, <1>10, <1>11, <1>12, <1>13 DEF Next

-----------------------------------------------------------------------------
(* Who runs. *)

(* resume_scheduler appends STALE_TASK_PTR, which was not in the queue. *)
LEMMA Requeued ==
  ASSUME Types, ControlInv, stale \in Tasks, ~Queued(stale), queue' = Append(queue, stale)
  PROVE  /\ \A i, j \in 1..Len(queue') : queue'[i] = queue'[j] => i = j
         /\ \A t \in Tasks : Queued(t)' => Queued(t) \/ t = stale
<1>1. queue \in Seq(Tasks) /\ Len(queue) \in Nat
  BY Zenon, LenProperties DEF Types
<1>2. /\ Len(queue') = Len(queue) + 1 /\ queue'[Len(queue) + 1] = stale
      /\ \A i \in 1..Len(queue) : queue'[i] = queue[i]
  BY <1>1, AppendProperties
<1>3. \A i \in 1..Len(queue') : i \in 1..Len(queue) \/ i = Len(queue) + 1
  BY <1>1, <1>2
<1>4. \A i \in 1..Len(queue) : queue[i] # stale
  BY Zenon DEF Queued
<1>5. \A i, j \in 1..Len(queue) : queue[i] = queue[j] => i = j
  BY Zenon DEF ControlInv
<1>6. \A i, j \in 1..Len(queue') : queue'[i] = queue'[j] => i = j
  BY <1>2, <1>3, <1>4, <1>5
<1>7. \A t \in Tasks : Queued(t)' => Queued(t) \/ t = stale
  BY Zenon, <1>2, <1>3 DEF Queued
<1> QED
  BY Zenon, <1>6, <1>7

(* run_scheduler takes the first task out of the queue. *)
LEMMA Dequeued ==
  ASSUME Types, ControlInv, queue # <<>>, queue' = Tail(queue)
  PROVE  /\ \A i, j \in 1..Len(queue') : queue'[i] = queue'[j] => i = j
         /\ \A t \in Tasks : Queued(t)' => Queued(t) /\ t # queue[1]
<1>1. queue \in Seq(Tasks) /\ Len(queue) \in Nat
  BY Zenon, LenProperties DEF Types
<1>2. Len(queue') = Len(queue) - 1 /\ Len(queue) >= 1 /\ \A i \in 1..Len(queue) - 1 : queue'[i] = queue[i + 1]
  BY <1>1
<1>3. \A i \in 1..Len(queue') : i + 1 \in 1..Len(queue) /\ i + 1 # 1 /\ queue'[i] = queue[i + 1]
  BY <1>1, <1>2
<1>4. \A i, j \in 1..Len(queue) : queue[i] = queue[j] => i = j
  BY Zenon DEF ControlInv
<1>5. \A i, j \in 1..Len(queue') : queue'[i] = queue'[j] => i = j
  <2> SUFFICES ASSUME NEW i \in 1..Len(queue'), NEW j \in 1..Len(queue'), queue'[i] = queue'[j]
      PROVE i = j
    BY Zenon
  <2>1. i + 1 = j + 1
    BY <1>3, <1>4
  <2> QED
    BY <2>1
<1>6. 1 \in 1..Len(queue)
  BY <1>1, <1>2
<1>7. \A t \in Tasks : Queued(t)' => Queued(t) /\ t # queue[1]
  BY <1>3, <1>4, <1>6 DEF Queued
<1> QED
  BY Zenon, <1>5, <1>7

(* The scheduler runs as itself; a task that runs, is being restored or has   *)
(* just been suspended is STALE_TASK_PTR and not in the queue.                *)
LEMMA ControlStep == IInv /\ [Next]_vars => ControlInv'
<1> SUFFICES ASSUME IInv, [Next]_vars PROVE ControlInv'
  BY Zenon
<1>t. /\ Types /\ QueueInv /\ RestoreInv /\ ControlInv /\ mem \in [Owners -> Seq(Words)]
      /\ Sched \notin Tasks /\ Sched \in Owners /\ Tasks \subseteq Owners
      /\ InScheduler = {"int3", "requeue", "dispatch"}
  BY Zenon, Basics DEF IInv, Types, InScheduler
<1>c. pc = "task" => cur \in Tasks /\ StackBalanced
  BY Zenon DEF IInv, ControlInv, RunningInv
<1>q. queue' = queue => \A t : Queued(t)' <=> Queued(t)
  BY Zenon DEF Queued
<1>1. CASE TaskComputes \/ SliceEnds
  BY Zenon, <1>1, <1>t DEF TaskComputes, SliceEnds, ControlInv, Queued, At
<1>2. CASE yield_task \/ preempt_task
  <2>1. /\ pc = "task" /\ cur \in Tasks /\ cur' = Sched /\ pc' = "enter" /\ stale' = stale
        /\ queue' = queue
    BY Zenon, <1>2, <1>c DEF yield_task, preempt_task, At
  <2>2. mem' = [mem EXCEPT ![cur] = mem'[cur]]
    BY Zenon, <1>2, <1>c, <1>t, <2>1, YieldPushes, PreemptPushes
  <2>3. mem'[Sched] = mem[Sched]
    BY Zenon, <2>1, <2>2, <1>t
  <2> QED
    BY Zenon, <2>1, <2>3, <1>t DEF ControlInv, Queued
<1>3. CASE preempt_scheduler
  <2>1. cur = Sched
    BY Zenon, <1>3, <1>t DEF preempt_scheduler, ControlInv
  <2>2. UNCHANGED <<pc, cur, stale, mem, queue>>
    BY Zenon, <2>1, <1>3, <1>t, PreemptDropped
  <2> QED
    BY Zenon, <2>2, <1>t DEF ControlInv, Queued
<1>4. CASE pit_interrupt \/ UNCHANGED vars
  <2>1. UNCHANGED vars
    BY Zenon, <1>4, <1>t, PitTransparent
  <2> QED
    BY Zenon, <2>1, <1>t DEF vars, ControlInv, Queued
<1>5. CASE resume_scheduler_enter \/ breakpoint
  <2>1. /\ UNCHANGED <<cur, stale, mem, queue>> /\ pc \in {"enter", "int3"}
        /\ pc' \in {"int3", "requeue"}
    BY Zenon, <1>5 DEF resume_scheduler_enter, breakpoint, At
  <2> QED
    BY Zenon, <2>1, <1>t DEF ControlInv, Queued
<1>6. CASE resume_scheduler_requeue
  <2>1. /\ UNCHANGED <<cur, stale, mem>> /\ pc = "requeue" /\ pc' = "dispatch"
        /\ queue' = queue \/ queue' = Append(queue, stale)
    BY Zenon, <1>6 DEF resume_scheduler_requeue, At
  <2>2. stale \in Tasks /\ ~Queued(stale) /\ cur = Sched
    BY Zenon, <2>1, <1>t DEF ControlInv
  <2>3. \A i, j \in 1..Len(queue') : queue'[i] = queue'[j] => i = j
    BY Zenon, <2>1, <2>2, <1>t, Requeued DEF ControlInv
  <2> QED
    BY Zenon, <2>1, <2>2, <2>3, <1>t DEF ControlInv
<1>7. CASE run_scheduler
  <2>1. /\ mem' = mem /\ cur' = Head(queue) /\ queue # <<>> /\ Head(queue) \in Tasks
        /\ Head(queue) = queue[1]
    BY Zenon, <1>7, <1>t, SwitchTo
  <2>2. stale' = Head(queue) /\ pc' = "restore" /\ queue' = Tail(queue)
    BY Zenon, <1>7 DEF run_scheduler
  <2>3. /\ \A i, j \in 1..Len(queue') : queue'[i] = queue'[j] => i = j
        /\ \A t \in Tasks : Queued(t)' => Queued(t) /\ t # queue[1]
    BY Zenon, <2>1, <2>2, <1>t, Dequeued
  <2>4. \A i \in 1..Len(queue') : queue'[i] # stale'
    BY Zenon, <2>1, <2>2, <2>3 DEF Queued
  <2> QED
    BY Zenon, <2>1, <2>2, <2>3, <2>4, <1>t DEF ControlInv, Queued
<1>8. CASE resume_pop \/ resume_test_interrupted
  <2>1. UNCHANGED <<pc, cur, stale, queue>> /\ pc = "restore"
    BY Zenon, <1>8 DEF resume_pop, resume_test_interrupted, At
  <2>2. cur \in Tasks
    BY Zenon, <2>1, <1>t DEF ControlInv
  <2>3. mem' = mem \/ mem' = [mem EXCEPT ![cur] = Without(mem[cur], 1)]
    BY Zenon, <1>8 DEF resume_pop, resume_test_interrupted
  <2>4. mem'[Sched] = mem[Sched]
    BY Zenon, <2>2, <2>3, <1>t
  <2> QED
    BY Zenon, <2>1, <2>4, <1>t DEF ControlInv, Queued
<1>9. CASE resume_iretq
  <2>1. UNCHANGED <<cur, stale, queue>> /\ pc = "restore"
    BY Zenon, <1>9 DEF resume_iretq, At
  <2>2. cur \in Tasks
    BY Zenon, <2>1, <1>t DEF ControlInv
  <2>3. pc' = "task" /\ mem' = [mem EXCEPT ![cur] = <<EndTask>>]
    BY Zenon, <1>9, <2>2, <1>t, IretToTask
  <2>4. mem'[Sched] = mem[Sched]
    BY Zenon, <2>2, <2>3, <1>t
  <2> QED
    BY Zenon, <2>1, <2>3, <2>4, <1>t DEF ControlInv, Queued
<1> QED
  BY Zenon, <1>1, <1>2, <1>3, <1>4, <1>5, <1>6, <1>7, <1>8, <1>9 DEF Next

-----------------------------------------------------------------------------
(* The queue. *)

(* When resume_task tests the flag, all callee-saved registers are back and   *)
(* rdi still points to the TaskInfo of the task it restores.                  *)
LEMMA TestsOwnFlag ==
  ASSUME RestoreInv, pc = "restore", todo = <<"btr">>
  PROVE  RestoreStd(0) /\ regs["rdi"][1] = cur
<1>1. ASSUME NEW k \in 0..6, RestoreStd(k) PROVE k = 0
  <2>1. todo = Suffix(StdTodo, k + 1)
    BY Zenon, <1>1 DEF RestoreStd
  <2>2. \A n \in 1..6 : Suffix(StdTodo, n + 1) # <<"btr">>
    BY Zenon, StdSuffix
  <2> QED
    BY <2>1, <2>2
<1>2. ASSUME NEW k \in 0..10 PROVE ~RestoreGp(k)
  <2>1. \A n \in 1..10 : Suffix(GpPops, n) # <<"btr">>
    BY Zenon, GpSuffix
  <2>2. Suffix(GpPops, 0) # <<"btr">>
    <3>1. Suffix(GpPops, 0) = <<>>
      BY Zenon, GpSuffix
    <3>2. <<>> # <<"btr">>
      BY Zenon
    <3> QED
      BY <3>1, <3>2, Zenon
  <2> QED
    BY <2>1, <2>2 DEF RestoreGp
<1>3. RestoreStd(0)
  BY Zenon, <1>1, <1>2 DEF RestoreInv
<1>4. regs["rdi"] = Word(cur, "info", 0)
  BY Zenon, <1>3 DEF RestoreStd
<1> QED
  BY Zenon, <1>3, <1>4, WordsDiffer

(* A frame depends on nothing but the task's own stack and history. *)
LEMMA HoldsFrame ==
  ASSUME NEW t \in Tasks, mem'[t] = mem[t], gen'[t] = gen[t], relies'[t] = relies[t],
         hit'[t] = hit[t]
  PROVE  /\ Expected(t)' = Expected(t)
         /\ \A how \in Hows, n \in Nat : Holds(t, how, n)' <=> Holds(t, how, n)
         /\ \A how \in Hows : Saved(t, how)' <=> Saved(t, how)
<1>1. Expected(t)' = Expected(t) /\ \A r : Own(t, r)' = Own(t, r)
  BY Zenon DEF Expected, Own
<1>2. \A r, w : Keeps(t, r, w)' <=> Keeps(t, r, w)
  BY Zenon, <1>1 DEF Keeps
<1>3. \A how \in Hows, n \in Nat : Holds(t, how, n)' <=> Holds(t, how, n)
  BY Zenon, <1>2 DEF Holds
<1>4. \A how \in Hows : Saved(t, how)' <=> Saved(t, how)
  BY Zenon, <1>3, OrderFacts DEF Saved
<1> QED
  BY Zenon, <1>1, <1>3, <1>4

(* The tasks in the queue stay saved when a step leaves them alone. *)
LEMMA QueueFrame ==
  ASSUME QueueInv,
         \A t \in Tasks : Queued(t)' =>
           /\ Queued(t) /\ mem'[t] = mem[t] /\ gen'[t] = gen[t] /\ relies'[t] = relies[t]
           /\ hit'[t] = hit[t] /\ sp'[t] = sp[t] /\ (t \in flagged' <=> t \in flagged)
  PROVE  QueueInv'
<1> SUFFICES ASSUME NEW t \in Tasks, NEW how \in Hows, Queued(t)', how = How(t)'
             PROVE  Saved(t, how)' /\ sp'[t] = SpOf(t, Len(mem'[t]))
  BY Zenon DEF QueueInv
<1>1. /\ Queued(t) /\ mem'[t] = mem[t] /\ gen'[t] = gen[t] /\ relies'[t] = relies[t]
      /\ hit'[t] = hit[t] /\ sp'[t] = sp[t] /\ (t \in flagged' <=> t \in flagged)
  BY Zenon
<1>2. how = How(t)
  BY Zenon, <1>1 DEF How
<1>3. Saved(t, how) /\ sp[t] = SpOf(t, Len(mem[t]))
  BY Zenon, <1>1, <1>2 DEF QueueInv
<1>4. Saved(t, how)' <=> Saved(t, how)
  BY Zenon, <1>1, HoldsFrame
<1> QED
  BY Zenon, <1>1, <1>3, <1>4

(* Every task in the queue has a whole frame, of the kind its INTERRUPTED     *)
(* flag says, and TaskInfo::sp points to the top of it.                       *)
LEMMA QueueStep == IInv /\ [Next]_vars => QueueInv'
<1> SUFFICES ASSUME IInv, [Next]_vars PROVE QueueInv'
  BY Zenon
<1>t. /\ Types /\ QueueInv /\ RestoreInv /\ ControlInv /\ HandedInv
      /\ mem \in [Owners -> Seq(Words)] /\ Sched \notin Tasks /\ Tasks \subseteq Owners
      /\ InScheduler = {"int3", "requeue", "dispatch"}
      /\ gen \in [Tasks -> {0, 1}] /\ relies \in [Tasks -> SUBSET Registers]
      /\ hit \in [Tasks -> BOOLEAN] /\ sp \in [Tasks -> Words]
  BY Zenon, Basics DEF IInv, Types, InScheduler
<1>c. pc = "task" => cur \in Tasks /\ StackBalanced
  BY Zenon DEF IInv, ControlInv, RunningInv
<1>q. queue' = queue => \A t : Queued(t)' <=> Queued(t)
  BY Zenon DEF Queued
<1>r. pc \in {"task", "restore"} => cur \in Tasks /\ ~Queued(cur)
  BY Zenon, <1>t DEF ControlInv
<1>1. CASE TaskComputes
  <2>1. /\ pc = "task" /\ UNCHANGED <<queue, mem, sp, flagged>>
        /\ gen' = [gen EXCEPT ![cur] = 1 - gen[cur]]
        /\ relies' = [relies EXCEPT ![cur] = Registers] /\ hit' = [hit EXCEPT ![cur] = FALSE]
    BY Zenon, <1>1 DEF TaskComputes, At
  <2> QED
    BY ZenonT(30), <2>1, <1>t, <1>q, <1>r, QueueFrame
<1>2. CASE yield_task \/ preempt_task
  <2>1. /\ pc = "task" /\ UNCHANGED <<queue, sp, flagged, gen>>
        /\ relies' = relies \/ relies' = [relies EXCEPT ![cur] = relies[cur] \cap CalleeSaved]
        /\ hit' = hit \/ hit' = [hit EXCEPT ![cur] = TRUE]
    BY Zenon, <1>2 DEF yield_task, preempt_task, At
  <2>2. mem' = [mem EXCEPT ![cur] = mem'[cur]]
    BY Zenon, <1>2, <1>c, <1>t, <2>1, YieldPushes, PreemptPushes
  <2>3. \A t \in Tasks : t # cur => mem'[t] = mem[t] /\ relies'[t] = relies[t] /\ hit'[t] = hit[t]
    BY Zenon, <2>1, <2>2, <1>t
  <2> QED
    BY Zenon, <2>1, <2>3, <1>t, <1>q, <1>r, QueueFrame
<1>3. CASE preempt_scheduler
  <2>1. cur = Sched
    BY Zenon, <1>3, <1>t DEF preempt_scheduler, ControlInv
  <2>2. UNCHANGED <<mem, sp, flagged, queue, history>>
    BY Zenon, <2>1, <1>3, <1>t, PreemptDropped
  <2> QED
    BY Zenon, <2>2, <1>q, <1>t, QueueFrame DEF history
<1>4. CASE pit_interrupt \/ UNCHANGED vars
  <2>1. UNCHANGED vars
    BY Zenon, <1>4, <1>t, PitTransparent
  <2>2. UNCHANGED <<mem, sp, flagged, queue, gen, relies, hit>>
    BY Zenon, <2>1 DEF vars
  <2> QED
    BY Zenon, <2>2, <1>q, <1>t, QueueFrame
<1>5. CASE resume_scheduler_enter \/ breakpoint \/ SliceEnds
  <2>1. UNCHANGED <<mem, sp, flagged, queue, gen, relies, hit>>
    BY Zenon, <1>5 DEF resume_scheduler_enter, breakpoint, SliceEnds, history
  <2> QED
    BY Zenon, <2>1, <1>q, <1>t, QueueFrame
<1>6. CASE resume_scheduler_requeue
  <2> DEFINE kind == regs[args.kind]
  <2>1. /\ UNCHANGED <<stale, mem, gen, relies, hit>> /\ pc = "requeue"
        /\ flagged' = IF kind = Kind("preempted") THEN flagged \cup {stale} ELSE flagged
        /\ queue' = IF kind \in {Kind("preempted"), Kind("yielded")}
                    THEN Append(queue, stale) ELSE queue
        /\ sp' = [sp EXCEPT ![stale] = regs[args.stack]]
    BY Zenon, <1>6 DEF resume_scheduler_requeue, At, history
  <2>2. stale \in Tasks /\ ~Queued(stale) /\ Handed(args.stack, args.kind)
    BY Zenon, <2>1, <1>t DEF ControlInv, HandedInv
  <2>3. PICK h \in Hows : /\ Saved(stale, h) /\ kind = Kind(h) /\ stale \notin flagged
                          /\ regs[args.stack] = SpOf(stale, Len(mem[stale]))
    BY Zenon, <2>2 DEF Handed
  <2> HIDE DEF kind
  <2>4. h = "preempted" \/ h = "yielded"
    BY Zenon DEF Hows
  <2>5. queue' = Append(queue, stale)
    BY Zenon, <2>1, <2>3, <2>4
  <2>6. stale \in flagged' <=> h = "preempted"
    BY Zenon, <2>1, <2>3, <2>4, WordsDiffer
  <2>7. \A t \in Tasks : Queued(t)' => Queued(t) \/ t = stale
    BY Zenon, <2>2, <2>5, <1>t, Requeued
  <2>8. \A t \in Tasks : t # stale => (t \in flagged' <=> t \in flagged) /\ sp'[t] = sp[t]
    BY Zenon, <2>1, <1>t
  <2> SUFFICES ASSUME NEW t \in Tasks, NEW how \in Hows, Queued(t)', how = How(t)'
               PROVE  Saved(t, how)' /\ sp'[t] = SpOf(t, Len(mem'[t]))
    BY Zenon DEF QueueInv
  <2>9. Saved(t, how)' <=> Saved(t, how)
    BY Zenon, <2>1, HoldsFrame
  <2>10. CASE t = stale
    <3>1. how = h
      BY Zenon, <2>10, <2>6, <2>4 DEF How
    <3>2. sp'[t] = SpOf(t, Len(mem[t]))
      BY ZenonT(30), <2>10, <2>1, <2>3, <1>t
    <3> QED
      BY Zenon, <3>1, <3>2, <2>1, <2>3, <2>9, <2>10
  <2>11. CASE t # stale
    <3>1. Queued(t) /\ how = How(t) /\ sp'[t] = sp[t]
      BY Zenon, <2>7, <2>8, <2>11 DEF How
    <3> QED
      BY ZenonT(30), <3>1, <2>1, <2>9, <1>t DEF QueueInv
  <2> QED
    BY Zenon, <2>10, <2>11
<1>7. CASE run_scheduler
  <2>1. mem' = mem /\ queue # <<>>
    BY Zenon, <1>7, <1>t, SwitchTo
  <2>2. queue' = Tail(queue) /\ UNCHANGED <<sp, flagged, gen, relies, hit>>
    BY Zenon, <1>7 DEF run_scheduler, history
  <2>3. \A t \in Tasks : Queued(t)' => Queued(t) /\ t # queue[1]
    BY Zenon, <2>1, <2>2, <1>t, Dequeued
  <2> QED
    BY Zenon, <2>1, <2>2, <2>3, <1>t, QueueFrame
<1>8. CASE resume_pop
  <2>1. /\ UNCHANGED <<queue, sp, flagged, gen, relies, hit>> /\ pc = "restore"
        /\ mem' = [mem EXCEPT ![cur] = Without(mem[cur], 1)]
    BY Zenon, <1>8 DEF resume_pop, At, history
  <2>2. \A t \in Tasks : t # cur => mem'[t] = mem[t]
    BY Zenon, <2>1, <1>t
  <2> QED
    BY Zenon, <2>1, <2>2, <1>t, <1>q, <1>r, QueueFrame
<1>9. CASE resume_test_interrupted
  <2>1. /\ UNCHANGED <<queue, sp, mem, gen, relies, hit>> /\ pc = "restore"
        /\ flagged' = flagged \ {regs["rdi"][1]} /\ todo = <<"btr">>
    BY Zenon, <1>9 DEF resume_test_interrupted, At, history
  <2>2. regs["rdi"][1] = cur
    BY Zenon, <2>1, <1>t, TestsOwnFlag
  <2>3. \A t \in Tasks : t # cur => (t \in flagged' <=> t \in flagged)
    BY Zenon, <2>1, <2>2
  <2> QED
    BY Zenon, <2>1, <2>3, <1>t, <1>q, <1>r, QueueFrame
<1>10. CASE resume_iretq
  <2>1. UNCHANGED <<queue, sp, flagged, gen, relies, hit>> /\ pc = "restore"
    BY Zenon, <1>10 DEF resume_iretq, At, history
  <2>2. mem' = [mem EXCEPT ![cur] = <<EndTask>>]
    BY Zenon, <1>10, <2>1, <1>r, <1>t, IretToTask
  <2>3. \A t \in Tasks : t # cur => mem'[t] = mem[t]
    BY Zenon, <2>2, <1>t
  <2> QED
    BY Zenon, <2>1, <2>3, <1>t, <1>q, <1>r, QueueFrame
<1> QED
  BY Zenon, <1>1, <1>2, <1>3, <1>4, <1>5, <1>6, <1>7, <1>8, <1>9, <1>10 DEF Next

-----------------------------------------------------------------------------
(* The arguments of resume_scheduler. *)

(* They are untouched while the task and what holds them are. *)
LEMMA HandedFrame ==
  ASSUME NEW a, NEW b, NEW c, NEW d, Handed(a, b), stale \in Tasks,
         UNCHANGED <<stale, mem, flagged, gen, relies, hit>>,
         regs'[c] = regs[a], regs'[d] = regs[b]
  PROVE  Handed(c, d)'
<1>1. PICK how \in Hows : /\ Saved(stale, how)
                          /\ regs[a] = SpOf(stale, Len(mem[stale])) /\ regs[b] = Kind(how)
  BY Zenon DEF Handed
<1>2. PICK t \in Tasks : t = stale
  BY Zenon 
<1>3. Saved(t, how)' <=> Saved(t, how)
  BY Zenon, HoldsFrame
<1>4. Saved(stale, how)'
  BY Zenon, <1>1, <1>2, <1>3
<1> QED
  BY Zenon, <1>1, <1>4 DEF Handed

(* release_task saves what its caller may rely on: the callee-saved           *)
(* registers.                                                                 *)
LEMMA YieldSaves ==
  ASSUME Types, pc = "task", NEW t \in Tasks, t = cur, StackBalanced, RegistersKept, yield_task
  PROVE  Saved(t, "yielded")' /\ Len(mem'[t]) = 11
<1>1. /\ Len(mem'[t]) = 11
      /\ mem'[t][1] = EndTask /\ mem'[t][2] = SpOf(t, 1) /\ mem'[t][5] = Rip(t)
      /\ \A j \in 1..6 : mem'[t][5 + j] = regs[StdPushes[j]]
  BY Zenon, YieldPushes
<1>2. relies' = [relies EXCEPT ![t] = relies[t] \cap CalleeSaved] /\ UNCHANGED <<gen, hit>>
  BY Zenon DEF yield_task
<1>3. relies \in [Tasks -> SUBSET Registers]
  BY Zenon DEF Types
<1>4. relies'[t] \subseteq CalleeSaved /\ Expected(t)' \subseteq Expected(t)
  BY Zenon, <1>2, <1>3 DEF Expected
<1>5. "rflags" \notin Expected(t)'
  BY Zenon, <1>4, Basics DEF Expected
<1>6. \A r \in Expected(t) : regs[r] = Own(t, r)
  BY Zenon DEF RegistersKept, Expected
<1>7. \A r : Own(t, r)' = Own(t, r)
  BY Zenon, <1>2 DEF Own
<1>9. \A j \in 1..6 : Keeps(t, StdPushes[j], mem[t][5 + j])'
  BY Zenon, <1>1, <1>4, <1>6, <1>7 DEF Keeps
<1>10. Order("yielded") = StdPushes /\ Height("yielded") = 6
  BY Zenon DEF Order, Height
<1>11. Keeps(t, "rflags", mem[t][3])'
  BY Zenon, <1>5 DEF Keeps
<1>12. Holds(t, "yielded", 6)'
  BY SMTT(90), <1>1, <1>9, <1>10, <1>11 DEF Holds
<1> QED
  BY Zenon, <1>1, <1>4, <1>10, <1>12 DEF Saved

(* scheduler_preempt and scheduler_jump_out save all registers but the two    *)
(* that the compare has used by then.                                         *)
LEMMA PreemptSaves ==
  ASSUME Types, pc = "task", NEW t \in Tasks, t = cur, StackBalanced, RegistersKept, preempt_task
  PROVE  Saved(t, "preempted")' /\ Len(mem'[t]) = 21
<1> DEFINE v == [regs EXCEPT !["r14"] = Junk, !["r15"] = Junk]
<1>1. /\ Len(mem'[t]) = 21
      /\ mem'[t][1] = EndTask /\ mem'[t][2] = SpOf(t, 1) /\ mem'[t][5] = Rip(t)
      /\ mem'[t][3] = regs["rflags"]
      /\ \A j \in 1..16 : mem'[t][5 + j] = v[Order("preempted")[j]]
  BY Zenon, PreemptPushes
<1>2. hit' = [hit EXCEPT ![t] = TRUE] /\ UNCHANGED <<gen, relies>>
  BY Zenon DEF preempt_task
<1>3. /\ relies \in [Tasks -> SUBSET Registers] /\ hit \in [Tasks -> BOOLEAN]
      /\ regs \in [Homes -> Words] /\ Registers \subseteq Homes
  BY Zenon, Basics DEF Types
<1>4. /\ Expected(t)' \subseteq Expected(t) /\ Expected(t)' \subseteq Registers
      /\ \A r \in Expected(t)' : r # "r14" /\ r # "r15"
  BY Zenon, <1>2, <1>3 DEF Expected, Scratch
<1>5. \A r \in Expected(t)' : v[r] = regs[r]
  BY Zenon, <1>3, <1>4
<1> HIDE DEF v
<1>6. \A r \in Expected(t) : regs[r] = Own(t, r)
  BY Zenon DEF RegistersKept, Expected
<1>7. \A r : Own(t, r)' = Own(t, r)
  BY Zenon, <1>2 DEF Own
<1>8. \A j \in 1..16 : Keeps(t, Order("preempted")[j], mem[t][5 + j])'
  <2> SUFFICES ASSUME NEW j \in 1..16, NEW r, r = Order("preempted")[j], r \in Expected(t)'
               PROVE  mem'[t][5 + j] = Own(t, r)'
    BY Zenon DEF Keeps
  <2>1. mem'[t][5 + j] = v[r]
    BY Zenon, <1>1
  <2> QED
    BY Zenon, <2>1, <1>4, <1>5, <1>6, <1>7
<1>9. Keeps(t, "rflags", mem[t][3])'
  BY <1>1, <1>4, <1>6, <1>7 DEF Keeps
<1>10. Height("preempted") = 16
  BY Zenon DEF Height
<1>11. Holds(t, "preempted", 16)'
  BY <1>1, <1>8, <1>9 DEF Holds
<1>12. "preempted" # "yielded"
  BY Zenon
<1> QED
  BY Zenon, <1>1, <1>10, <1>11, <1>12 DEF Saved

(* resume_scheduler is handed the stack pointer and the reason that belong to *)
(* the frame, and still has them after int3 and a dropped tick.               *)
LEMMA HandedStep == OutOfReach /\ IInv /\ [Next]_vars => HandedInv'
<1> SUFFICES ASSUME OutOfReach, IInv, [Next]_vars PROVE HandedInv'
  BY Zenon
<1>t. /\ Types /\ RestoreInv /\ ControlInv /\ HandedInv /\ QueueInv
      /\ regs \in [Homes -> Words]
      /\ InScheduler = {"int3", "requeue", "dispatch"}
  BY Zenon DEF IInv, Types, InScheduler
<1>p. /\ Places \subseteq Homes
      /\ \A p \in Places : p \notin CallerSaved /\ p \notin {"r14", "r15", "rax"}
  <2>1. Slots \cap CallerSaved = {} /\ Slots \cap {"r14", "r15", "rax"} = {}
    BY Zenon DEF Slots, CallerSaved
  <2>2. "rax" \in CallerSaved /\ Scratch = {"r14", "r15"}
    BY Zenon DEF CallerSaved, Scratch
  <2>3. Places \subseteq (CalleeSaved \ Scratch) \cup Slots
    BY Zenon DEF OutOfReach
  <2>4. /\ CallerSaved \cap CalleeSaved = {} /\ CalleeSaved \subseteq Homes /\ Slots \subseteq Homes
    BY Zenon, Basics
  <2> QED
    BY Zenon, <2>1, <2>2, <2>3, <2>4
<1>r. pc = "task" => cur \in Tasks /\ cur = stale /\ cur \notin flagged /\ StackBalanced /\ RegistersKept
  BY Zenon DEF IInv, ControlInv, RunningInv
<1>h. {"rdi", "rsi", "rax", "rflags"} \subseteq Homes
  BY Zenon, Basics
<1>1. CASE pc' \notin {"enter", "int3", "requeue"}
  BY Zenon, <1>1 DEF HandedInv
<1>2. CASE yield_task
  <2>1. pc = "task" /\ pc' = "enter" /\ UNCHANGED <<stale, flagged>>
    BY Zenon, <1>2 DEF yield_task, At
  <2>2. PICK t \in Tasks : t = cur
    BY Zenon, <2>1, <1>r
  <2>3. Saved(t, "yielded")' /\ Len(mem'[t]) = 11
    BY Zenon, <2>1, <2>2, <1>2, <1>r, <1>t, YieldSaves
  <2>4. regs' = [regs EXCEPT !["rdi"] = SpOf(cur, 11), !["rsi"] = Kind("yielded"),
                                 !["rax"] = Junk, !["rflags"] = Junk]
    BY Zenon, <2>1, <1>2, <1>r, <1>t, YieldPushes
  <2>5. regs'["rdi"] = SpOf(t, 11) /\ regs'["rsi"] = Kind("yielded")
    BY Zenon, <2>2, <2>4, <1>t, <1>h
  <2>6. Handed("rdi", "rsi")'
    BY Zenon, <2>1, <2>2, <2>3, <2>5, <1>r DEF Handed, Hows
  <2> QED
    BY Zenon, <2>1, <2>6 DEF HandedInv
<1>3. CASE preempt_task
  <2> DEFINE v == [regs EXCEPT !["r14"] = Junk, !["r15"] = Junk]
  <2>1. pc = "task" /\ pc' = "enter" /\ UNCHANGED <<stale, flagged>>
    BY Zenon, <1>3 DEF preempt_task, At
  <2>2. PICK t \in Tasks : t = cur
    BY Zenon, <2>1, <1>r
  <2>3. Saved(t, "preempted")' /\ Len(mem'[t]) = 21
    BY Zenon, <2>1, <2>2, <1>3, <1>r, <1>t, PreemptSaves
  <2>4. /\ regs' = [v EXCEPT !["rdi"] = SpOf(cur, 21), !["rsi"] = Kind("preempted"),
                             !["rax"] = Junk, !["rflags"] = Junk]
        /\ v \in [Homes -> Words]
    BY Zenon, <2>1, <1>3, <1>r, <1>t, PreemptPushes
  <2> HIDE DEF v
  <2>5. regs'["rdi"] = SpOf(t, 21) /\ regs'["rsi"] = Kind("preempted")
    BY Zenon, <2>2, <2>4, <1>h
  <2>6. Handed("rdi", "rsi")'
    BY Zenon, <2>1, <2>2, <2>3, <2>5, <1>r DEF Handed, Hows
  <2> QED
    BY Zenon, <2>1, <2>6 DEF HandedInv
<1>4. CASE resume_scheduler_enter
  <2>1. PICK p \in Places, q \in Places :
          /\ p # q /\ args' = [stack |-> p, kind |-> q]
          /\ regs' = [r \in DOMAIN regs |-> IF r = p THEN regs["rdi"]
                                        ELSE IF r = q THEN regs["rsi"] ELSE Junk]
    BY Zenon, <1>4 DEF resume_scheduler_enter
  <2>2. /\ pc = "enter" /\ pc' = "int3"
        /\ UNCHANGED <<stale, mem, flagged, gen, relies, hit>>
    BY Zenon, <1>4 DEF resume_scheduler_enter, At, history
  <2>3. Handed("rdi", "rsi") /\ stale \in Tasks
    BY Zenon, <2>2, <1>t DEF HandedInv, ControlInv
  <2>4. regs'[p] = regs["rdi"] /\ regs'[q] = regs["rsi"]
    BY Zenon, <2>1, <1>t, <1>p
  <2>5. Handed(p, q)'
    BY Zenon, <2>2, <2>3, <2>4, HandedFrame
  <2>6. args'.stack = p /\ args'.kind = q
    BY Zenon, <2>1
  <2> QED
    BY Zenon, <2>1, <2>2, <2>5, <2>6 DEF HandedInv
<1>5. CASE preempt_scheduler \/ breakpoint \/ pit_interrupt \/ UNCHANGED vars
  <2>1. /\ UNCHANGED <<stale, mem, flagged, gen, relies, hit, args>>
        /\ \A r \in Homes : r \notin CallerSaved /\ r \notin {"r14", "r15", "rax"} => regs'[r] = regs[r]
        /\ pc' = pc \/ (pc = "int3" /\ pc' = "requeue")
    <3>1. CASE preempt_scheduler
      <4>1. cur = Sched
        BY Zenon, <3>1, <1>t DEF preempt_scheduler, ControlInv
      <4>2. /\ regs' = [regs EXCEPT !["r14"] = Junk, !["r15"] = Junk, !["rax"] = Junk]
            /\ UNCHANGED <<pc, cur, stale, ifl, mem, sp, flagged, queue, args, todo, armed, history>>
        BY Zenon, <4>1, <3>1, <1>t, PreemptDropped
      <4> QED
        BY Zenon, <4>2, <1>t DEF history
    <3>2. CASE breakpoint
      BY Zenon, <3>2, <1>t DEF breakpoint, At, history
    <3>3. CASE pit_interrupt \/ UNCHANGED vars
      BY Zenon, <3>3, <1>t, PitTransparent DEF vars
    <3> QED
      BY Zenon, <3>1, <3>2, <3>3, <1>5
  <2>2. CASE pc' \in {"int3", "requeue"}
    <3>1. pc \in {"int3", "requeue"}
      BY Zenon, <2>1, <2>2
    <3>2. /\ args.stack \in Places /\ args.kind \in Places /\ args.stack # args.kind
          /\ Handed(args.stack, args.kind) /\ stale \in Tasks
      BY Zenon, <3>1, <1>t DEF HandedInv, ControlInv
    <3>3. PICK p \in Places, q \in Places : p = args.stack /\ q = args.kind
      BY Zenon, <3>2
    <3>4. regs'[p] = regs[p] /\ regs'[q] = regs[q]
      BY Zenon, <2>1, <1>p
    <3>5. Handed(p, q)'
      BY Zenon, <2>1, <3>2, <3>3, <3>4, HandedFrame
    <3> QED
      BY Zenon, <2>1, <2>2, <3>2, <3>3, <3>5 DEF HandedInv
  <2>3. CASE pc' = "enter" /\ (pit_interrupt \/ UNCHANGED vars)
    <3>1. UNCHANGED vars
      BY Zenon, <2>3, <1>t, PitTransparent
    <3>2. UNCHANGED <<pc, regs>>
      BY Zenon, <3>1 DEF vars
    <3>3. Handed("rdi", "rsi") /\ stale \in Tasks
      BY Zenon, <2>3, <3>2, <1>t DEF HandedInv, ControlInv
    <3>4. Handed("rdi", "rsi")'
      BY Zenon, <3>2, <3>3, <2>1, HandedFrame
    <3> QED
      BY Zenon, <2>3, <3>4 DEF HandedInv
  <2>4. CASE pc' = "enter" /\ (preempt_scheduler \/ breakpoint)
    BY Zenon, <2>4, <2>1, <1>t DEF preempt_scheduler, breakpoint, At
  <2> QED
    BY Zenon, <2>2, <2>3, <2>4, <1>1, <1>5
<1>6. CASE resume_scheduler_requeue \/ run_scheduler \/ TaskComputes \/ SliceEnds
           \/ resume_pop \/ resume_test_interrupted
  <2>1. pc' \in {"dispatch", "restore", "task"}
    BY Zenon, <1>6 DEF resume_scheduler_requeue, run_scheduler, TaskComputes, SliceEnds,
                resume_pop, resume_test_interrupted, At
  <2> QED
    BY Zenon, <2>1, <1>1
<1>7. CASE resume_iretq
  BY Zenon, <1>7, <1>1 DEF resume_iretq
<1> QED
  BY Zenon, <1>2, <1>3, <1>4, <1>5, <1>6, <1>7 DEF Next

-----------------------------------------------------------------------------
(* resume_task *)

(* Every register a task may rely on is in its frame. *)
LEMMA OrderCovers ==
  ASSUME NEW how \in Hows, NEW r \in Registers, how = "yielded" => r \in CalleeSaved
  PROVE  \E j \in 1..Height(how) : Order(how)[j] = r
<1>1. CASE r \in CalleeSaved
  <2>1. PICK j \in 1..6 : StdPushes[j] = r
    BY Zenon, <1>1, StdComplete
  <2>2. /\ Height(how) \in Nat /\ Height(how) >= 6
        /\ Order(how)[Height(how) - 6 + j] = StdPushes[j]
    BY Zenon, OrderFacts
  <2>3. Height(how) - 6 + j \in 1..Height(how)
    BY <2>2
  <2> QED
    BY Zenon, <2>1, <2>2, <2>3
<1>2. CASE r \notin CalleeSaved
  <2>1. how = "preempted"
    BY Zenon, <1>2 DEF Hows
  <2>2. PICK j \in 1..10 : GpPushes[j] = r
    BY Zenon, <1>2, GpComplete
  <2>3. Order("preempted")[j] = GpPushes[j] /\ Height("preempted") = 16
    BY Zenon, OrderFacts
  <2>4. j \in 1..16
    OBVIOUS
  <2> QED
    BY Zenon, <2>1, <2>2, <2>3, <2>4
<1> QED
  BY Zenon, <1>1, <1>2

(* One pop: the register gets what the task may expect in it. *)
LEMMA PopStep ==
  ASSUME Types, NEW t \in Tasks, t = cur, NEW how \in Hows, NEW n \in 1..Height(how),
         Holds(t, how, n), Back(how, n), Head(todo) = Order(how)[n], resume_pop
  PROVE  Holds(t, how, n - 1)' /\ Back(how, n - 1)'
<1> DEFINE x == Order(how)[n]
           s == mem[t]
<1>1. /\ regs \in [Homes -> Words] /\ mem \in [Owners -> Seq(Words)] /\ t \in Owners
      /\ s \in Seq(Words)
  BY Zenon, Basics DEF Types
<1>2. Height(how) \in Nat /\ x \in Registers /\ n \in Nat /\ n >= 1
  <2>1. Height(how) \in Nat /\ \A j \in 1..Height(how) : Order(how)[j] \in Registers
    BY Zenon, OrderFacts
  <2>2. x \in Registers
    BY Zenon, <2>1
  <2> HIDE DEF x
  <2> QED
    BY <2>1, <2>2
<1>3. x \in Homes
  BY Zenon, <1>2, Basics
<1>4. /\ Len(s) = 5 + n /\ s[1] = EndTask /\ s[2] = SpOf(t, 1) /\ s[5] = Rip(t)
      /\ Keeps(t, "rflags", s[3]) /\ \A j \in 1..n : Keeps(t, Order(how)[j], s[5 + j])
  BY Zenon DEF Holds
<1>5. /\ regs' = [regs EXCEPT ![x] = Top(s)] /\ mem' = [mem EXCEPT ![t] = Without(s, 1)]
      /\ UNCHANGED <<cur, gen, relies, hit>>
  BY Zenon DEF resume_pop, history
<1> HIDE DEF x, s
<1>6. Top(s) = s[5 + n]
  <2>1. s # <<>>
    BY <1>1, <1>2, <1>4
  <2> QED
    BY Zenon, <2>1, <1>4 DEF Top
<1>7. /\ Len(Without(s, 1)) = 5 + (n - 1)
      /\ \A i \in 1..5 + (n - 1) : Without(s, 1)[i] = s[i]
  <2>1. Len(s) - 1 = 5 + (n - 1) /\ 5 + (n - 1) \in 0..Len(s)
    BY SMTT(90), <1>2, <1>4
  <2> QED
    BY Zenon, <2>1, <1>1, Prefix DEF Without
<1>8. mem'[t] = Without(s, 1) /\ regs'[x] = s[5 + n] /\ \A r \in Homes : r # x => regs'[r] = regs[r]
  BY Zenon, <1>1, <1>3, <1>5, <1>6
<1>9. Expected(t)' = Expected(t) /\ \A r : Own(t, r)' = Own(t, r)
  BY Zenon, <1>5 DEF Expected, Own
<1>10. \A r, w : Keeps(t, r, w)' <=> Keeps(t, r, w)
  BY Zenon, <1>9 DEF Keeps
<1>11. Holds(t, how, n - 1)'
  <2>1. 1 \in 1..5 + (n - 1) /\ 2 \in 1..5 + (n - 1) /\ 3 \in 1..5 + (n - 1) /\ 5 \in 1..5 + (n - 1)
    BY <1>2
  <2>2. \A j \in 1..n - 1 : j \in 1..n /\ 5 + j \in 1..5 + (n - 1)
    BY SMTT(90), <1>2
  <2>3. \A j \in 1..n - 1 : Keeps(t, Order(how)[j], mem'[t][5 + j])
    BY Zenon, <2>2, <1>4, <1>7, <1>8
  <2>4. Keeps(t, "rflags", mem'[t][3])
    BY Zenon, <2>1, <1>4, <1>7, <1>8
  <2>5. Len(mem'[t]) = 5 + (n - 1) /\ mem'[t][1] = EndTask /\ mem'[t][2] = SpOf(t, 1)
        /\ mem'[t][5] = Rip(t)
    BY Zenon, <2>1, <1>4, <1>7, <1>8
  <2> QED
    BY Zenon, <2>3, <2>4, <2>5, <1>10 DEF Holds
<1>12. Back(how, n - 1)'
  <2> SUFFICES ASSUME NEW r \in Expected(t), r # "rflags", ~ \E j \in 1..n - 1 : Order(how)[j] = r
               PROVE  regs'[r] = Own(t, r)
    BY Zenon, <1>5, <1>9 DEF Back
  <2>1. CASE r = x
    <3>1. n \in 1..n
      BY SMTT(90), <1>2
    <3>2. Keeps(t, x, s[5 + n])
      BY Zenon, <3>1, <1>4 DEF x
    <3> QED
      BY Zenon, <2>1, <3>2, <1>8 DEF Keeps
  <2>2. CASE r # x
    <3>1. ~ \E j \in 1..n : Order(how)[j] = r
      <4>1. \A j \in 1..n : j \in 1..n - 1 \/ j = n
        BY <1>2
      <4> QED
        BY Zenon, <4>1, <2>2 DEF x
    <3>2. regs[r] = Own(t, r)
      BY Zenon, <3>1 DEF Back
    <3>3. r \in Homes
      BY Zenon, Basics DEF Expected, Types
    <3> QED
      BY Zenon, <2>2, <3>2, <3>3, <1>8
  <2> QED
    BY Zenon, <2>1, <2>2
<1> QED
  BY Zenon, <1>11, <1>12

(* run_scheduler hands resume_task a whole frame. *)
LEMMA RestoreBegins ==
  ASSUME Types, QueueInv, run_scheduler
  PROVE  RestoreStd(6)'
<1>1. /\ mem' = mem /\ cur' = Head(queue) /\ Head(queue) \in Tasks
      /\ Head(queue) = queue[1] /\ 1 \in 1..Len(queue)
  BY Zenon, SwitchTo
<1>2. PICK t \in Tasks : t = Head(queue)
  BY Zenon, <1>1
<1>3. /\ todo' = StdTodo /\ UNCHANGED <<flagged, gen, relies, hit>>
      /\ regs' = [r \in DOMAIN regs |-> IF r = "rdi" THEN Word(t, "info", 0) ELSE Junk]
  BY Zenon, <1>2 DEF run_scheduler, StdTodo, history
<1>4. PICK how \in Hows : how = How(t)
  BY Zenon DEF How, Hows
<1>5. Saved(t, how)
  BY Zenon, <1>1, <1>2, <1>4 DEF QueueInv, Queued
<1>6. how = How(t)' /\ Holds(t, how, Height(how))'
  <2>1. Height(how) \in Nat
    BY Zenon, OrderFacts
  <2> QED
    BY ZenonT(30), <2>1, <1>1, <1>3, <1>4, <1>5, HoldsFrame DEF Saved, How
<1>7. todo' = Suffix(StdTodo, 6 + 1)
  <2>1. 6 + 1 = 7
    BY SMTT(90)
  <2> QED
    BY Zenon, <2>1, <1>3, StdSuffix
<1>8. regs'["rdi"] = Word(t, "info", 0)
  BY Zenon, <1>3, Basics DEF Types
<1>9. Back(how, Height(how))'
  <2> SUFFICES ASSUME NEW r \in Expected(t)'
               PROVE  \E j \in 1..Height(how) : Order(how)[j] = r
    BY Zenon, <1>1, <1>2 DEF Back
  <2>1. r \in relies[t] /\ r \in Registers
    BY Zenon, <1>3 DEF Expected, Types
  <2>2. how = "yielded" => r \in CalleeSaved
    BY Zenon, <2>1, <1>5 DEF Saved
  <2> QED
    BY Zenon, <2>1, <2>2, OrderCovers
<1>10. Height(how) - 6 + 6 = Height(how)
  BY OrderFacts
<1>11. cur' = t
  BY Zenon, <1>1, <1>2
<1> QED
  BY Zenon, <1>6, <1>7, <1>8, <1>9, <1>10, <1>11 DEF RestoreStd

(* A pop of the callee-saved registers, *)
LEMMA StdPop ==
  ASSUME Types, cur \in Tasks, NEW k \in 0..6, RestoreStd(k), resume_pop
  PROVE  k >= 1 /\ RestoreStd(k - 1)'
<1>1. PICK t \in Tasks : t = cur
  BY Zenon
<1>2. PICK how \in Hows : how = How(t)
  BY Zenon DEF How, Hows
<1> DEFINE n == Height(how) - 6 + k
<1>3. /\ todo = Suffix(StdTodo, k + 1) /\ regs["rdi"] = Word(t, "info", 0)
      /\ Holds(t, how, n) /\ Back(how, n)
  BY Zenon, <1>1, <1>2 DEF RestoreStd
<1>4. k # 0
  <2>1. Head(<<"btr">>) = "btr" /\ Head(todo) # "btr"
    BY DEF resume_pop
  <2>2. Suffix(StdTodo, 1) = <<"btr">>
    BY Zenon, StdSuffix
  <2> QED
    BY <2>1, <2>2, <1>3
<1>5. k \in 1..6
  BY SMTT(90), <1>4
<1>6. Head(todo) = StdPushes[k] /\ Tail(todo) = Suffix(StdTodo, k)
  BY Zenon, <1>3, <1>5, StdSuffix
<1>7. Height(how) \in Nat /\ Height(how) >= 6 /\ Order(how)[n] = StdPushes[k]
  BY Zenon, <1>5, OrderFacts
<1>8. n \in 1..Height(how) /\ n - 1 = Height(how) - 6 + (k - 1)
  BY SMTT(90), <1>5, <1>7
<1> HIDE DEF n
<1>9. Holds(t, how, n - 1)' /\ Back(how, n - 1)'
  BY Zenon, <1>1, <1>3, <1>6, <1>7, <1>8, PopStep
<1>10. /\ regs' = [regs EXCEPT ![Head(todo)] = Top(mem[cur])] /\ todo' = Tail(todo)
       /\ UNCHANGED <<cur, flagged>>
  BY Zenon DEF resume_pop
<1>11. Head(todo) # "rdi"
  <2>1. StdPushes[k] \in CalleeSaved
    BY Zenon, <1>5, Lists
  <2> QED
    BY Zenon, <2>1, <1>6, Basics
<1>12. regs'["rdi"] = Word(t, "info", 0)
  BY Zenon, <1>3, <1>10, <1>11, Basics DEF Types
<1>13. todo' = Suffix(StdTodo, (k - 1) + 1)
  <2>1. (k - 1) + 1 = k
    BY <1>5
  <2> QED
    BY Zenon, <2>1, <1>6, <1>10
<1>14. cur' = t /\ how = How(t)'
  BY Zenon, <1>1, <1>2, <1>10 DEF How
<1>15. Holds(t, how, Height(how) - 6 + (k - 1))' /\ Back(how, Height(how) - 6 + (k - 1))'
  BY Zenon, <1>8, <1>9
<1> QED
  BY <1>5, <1>12, <1>13, <1>14, <1>15 DEF RestoreStd

(* and of the others. *)
LEMMA GpPop ==
  ASSUME Types, cur \in Tasks, NEW k \in 0..10, RestoreGp(k), resume_pop
  PROVE  k >= 1 /\ RestoreGp(k - 1)'
<1>1. PICK t \in Tasks : t = cur
  BY Zenon
<1>2. /\ t \notin flagged /\ todo = Suffix(GpPops, k)
      /\ Holds(t, "preempted", k) /\ Back("preempted", k)
  BY Zenon, <1>1 DEF RestoreGp
<1>3. k # 0
  <2>1. todo # <<>>
    BY Zenon DEF resume_pop
  <2> QED
    BY Zenon, <2>1, <1>2, GpSuffix
<1>4. k \in 1..10
  BY <1>3
<1>5. Head(todo) = GpPushes[k] /\ Tail(todo) = Suffix(GpPops, k - 1)
  BY Zenon, <1>2, <1>4, GpSuffix
<1>6. Order("preempted")[k] = GpPushes[k] /\ Height("preempted") = 16 /\ "preempted" \in Hows
  BY Zenon, <1>4, OrderFacts DEF Hows
<1>7. k \in 1..Height("preempted")
  BY <1>4, <1>6
<1>8. Holds(t, "preempted", k - 1)' /\ Back("preempted", k - 1)'
  BY Zenon, <1>1, <1>2, <1>5, <1>6, <1>7, PopStep
<1>9. todo' = Tail(todo) /\ UNCHANGED <<cur, flagged>>
  BY Zenon DEF resume_pop
<1> QED
  BY SMTT(90), <1>1, <1>2, <1>4, <1>5, <1>8, <1>9 DEF RestoreGp

(* The test of the flag tells which frame this is. *)
LEMMA FlagTest ==
  ASSUME Types, RestoreInv, cur \in Tasks, resume_test_interrupted
  PROVE  \E k \in 0..10 : RestoreGp(k)'
<1>1. PICK t \in Tasks : t = cur
  BY Zenon
<1>2. RestoreStd(0) /\ regs["rdi"][1] = t
  BY Zenon, <1>1, TestsOwnFlag DEF resume_test_interrupted, At
<1>3. PICK how \in Hows : how = How(t)
  BY Zenon DEF How, Hows
<1>4. /\ todo' = IF t \in flagged THEN GpPops ELSE <<>>
      /\ flagged' = flagged \ {t} /\ regs' = [regs EXCEPT !["rflags"] = Junk]
      /\ UNCHANGED <<cur, mem, gen, relies, hit>>
  BY Zenon, <1>2 DEF resume_test_interrupted, history
<1> DEFINE n == Height(how) - 6
<1>5. Holds(t, how, n + 0) /\ Back(how, n + 0)
  BY Zenon, <1>1, <1>2, <1>3 DEF RestoreStd
<1>6. n \in Nat /\ n + 0 = n
  BY SMTT(90), OrderFacts
<1>7. Holds(t, how, n)'
  BY Zenon, <1>4, <1>5, <1>6, HoldsFrame
<1>8. Back(how, n)'
  <2>1. Expected(t)' = Expected(t) /\ \A r : Own(t, r)' = Own(t, r)
    BY Zenon, <1>4 DEF Expected, Own
  <2>2. \A r \in Expected(t) : r # "rflags" => regs'[r] = regs[r]
    BY Zenon, <1>4, Basics DEF Types, Expected
  <2> QED
    BY Zenon, <2>1, <2>2, <1>1, <1>4, <1>5, <1>6 DEF Back
<1>9. CASE t \in flagged
  <2>1. how = "preempted" /\ n = 10
    BY SMTT(90), <1>3, <1>9, OrderFacts DEF How
  <2>2. todo' = Suffix(GpPops, 10) /\ cur' = t /\ t \notin flagged'
    BY Zenon, <1>1, <1>4, <1>9, GpSuffix
  <2>3. RestoreGp(10)'
    BY Zenon, <2>1, <2>2, <1>7, <1>8 DEF RestoreGp
  <2> QED
    BY <2>3
<1>10. CASE t \notin flagged
  <2>1. how = "yielded" /\ n = 0
    BY SMTT(90), <1>3, <1>10, OrderFacts DEF How
  <2>2. todo' = Suffix(GpPops, 0) /\ cur' = t /\ t \notin flagged'
    BY Zenon, <1>1, <1>4, <1>10, GpSuffix
  <2>3. Holds(t, "preempted", 0)' /\ Back("preempted", 0)'
    BY <2>1, <1>7, <1>8 DEF Holds, Back
  <2>4. RestoreGp(0)'
    BY Zenon, <2>2, <2>3 DEF RestoreGp
  <2> QED
    BY SMTT(90), <2>4
<1> QED
  BY Zenon, <1>9, <1>10

(* While resume_task runs, what it has popped is back, and the rest is on the *)
(* stack in the order of its pops.                                            *)
LEMMA RestoreStep == IInv /\ [Next]_vars => RestoreInv'
<1> SUFFICES ASSUME IInv, [Next]_vars, pc' = "restore"
             PROVE  (\E k \in 0..6 : RestoreStd(k)') \/ (\E k \in 0..10 : RestoreGp(k)')
  BY Zenon DEF RestoreInv
<1>t. Types /\ QueueInv /\ RestoreInv /\ ControlInv
  BY Zenon DEF IInv
<1>c. pc = "restore" => cur \in Tasks
  BY Zenon, <1>t DEF ControlInv
<1>1. CASE run_scheduler
  BY <1>1, <1>t, RestoreBegins
<1>2. CASE resume_pop
  <2>1. pc = "restore"
    BY Zenon, <1>2 DEF resume_pop, At
  <2>2. CASE \E k \in 0..6 : RestoreStd(k)
    <3>1. PICK k \in 0..6 : RestoreStd(k)
      BY Zenon, <2>2
    <3>2. k >= 1 /\ RestoreStd(k - 1)'
      BY Zenon, <3>1, <2>1, <1>2, <1>c, <1>t, StdPop
    <3>3. k - 1 \in 0..6
      BY <3>2
    <3> QED
      BY Zenon, <3>2, <3>3
  <2>3. CASE \E k \in 0..10 : RestoreGp(k)
    <3>1. PICK k \in 0..10 : RestoreGp(k)
      BY Zenon, <2>3
    <3>2. k >= 1 /\ RestoreGp(k - 1)'
      BY Zenon, <3>1, <2>1, <1>2, <1>c, <1>t, GpPop
    <3>3. k - 1 \in 0..10
      BY SMTT(90), <3>2
    <3> QED
      BY Zenon, <3>2, <3>3
  <2> QED
    BY Zenon, <2>1, <2>2, <2>3, <1>t DEF RestoreInv
<1>3. CASE resume_test_interrupted
  BY Zenon, <1>3, <1>c, <1>t, FlagTest DEF resume_test_interrupted, At
<1>4. CASE pit_interrupt \/ UNCHANGED vars
  <2>1. UNCHANGED vars
    BY Zenon, <1>4, <1>t, PitTransparent
  <2>2. UNCHANGED <<pc, cur, regs, mem, flagged, todo, gen, relies, hit>>
    BY Zenon, <2>1 DEF vars
  <2>3. (\E k \in 0..6 : RestoreStd(k)) \/ (\E k \in 0..10 : RestoreGp(k))
    BY Zenon, <2>2, <1>t DEF RestoreInv
  <2>4. \A how, n : Back(how, n)' <=> Back(how, n)
    BY Zenon, <2>2 DEF Back, Expected, Own
  <2>5. \A t, how, n : Holds(t, how, n)' <=> Holds(t, how, n)
    BY <2>2 DEF Holds, Keeps, Expected, Own
  <2> QED
    BY Zenon, <2>2, <2>3, <2>4, <2>5 DEF RestoreStd, RestoreGp, How
<1>5. CASE preempt_scheduler
  BY Zenon, <1>5, <1>t DEF preempt_scheduler, InScheduler
<1>6. CASE TaskComputes \/ yield_task \/ SliceEnds \/ preempt_task \/ resume_scheduler_enter
           \/ breakpoint \/ resume_scheduler_requeue
  BY Zenon, 
     <1>6 DEF TaskComputes, yield_task, SliceEnds, preempt_task, resume_scheduler_enter,
              breakpoint, resume_scheduler_requeue, At
<1>7. CASE resume_iretq
  BY Zenon, <1>7 DEF resume_iretq
<1> QED
  BY Zenon, <1>1, <1>2, <1>3, <1>4, <1>5, <1>6, <1>7 DEF Next

-----------------------------------------------------------------------------
(* A running task has its registers and its stack. *)
LEMMA RunningStep == IInv /\ [Next]_vars => RunningInv'
<1> SUFFICES ASSUME IInv, [Next]_vars, pc' = "task"
             PROVE  cur' \notin flagged' /\ mem'[cur'] = <<EndTask>> /\ RegistersKept'
  BY Zenon DEF RunningInv, StackBalanced
<1>t. Types /\ QueueInv /\ RestoreInv /\ ControlInv /\ RunningInv
  BY Zenon DEF IInv
<1>y. /\ regs \in [Homes -> Words] /\ mem \in [Owners -> Seq(Words)] /\ Tasks \subseteq Owners
      /\ relies \in [Tasks -> SUBSET Registers] /\ hit \in [Tasks -> BOOLEAN]
      /\ Registers \subseteq Homes /\ DOMAIN regs = Homes /\ "rflags" \in Homes
  BY Zenon, <1>t, Basics DEF Types
<1>c. pc \in {"task", "restore"} => cur \in Tasks
  BY Zenon, <1>t DEF ControlInv
<1>k. ASSUME pc = "task"
      PROVE  cur \notin flagged /\ mem[cur] = <<EndTask>> /\ RegistersKept
  BY Zenon, <1>k, <1>t DEF RunningInv, StackBalanced
<1>1. CASE TaskComputes
  <2>1. /\ pc = "task" /\ UNCHANGED <<cur, mem, flagged>>
        /\ regs' = [r \in DOMAIN regs |-> IF r \in Registers THEN Word(cur, r, gen'[cur]) ELSE regs[r]]
        /\ relies' = [relies EXCEPT ![cur] = Registers]
    BY Zenon, <1>1 DEF TaskComputes, At
  <2>2. \A r \in relies'[cur] : regs'[r] = Word(cur, r, gen'[cur])
    BY Zenon, <2>1, <1>c, <1>y
  <2>3. RegistersKept'
    BY Zenon, <2>1, <2>2 DEF RegistersKept, Own
  <2> QED
    BY Zenon, <2>1, <2>3, <1>k
<1>2. CASE SliceEnds \/ pit_interrupt \/ UNCHANGED vars
  <2>1. UNCHANGED <<pc, cur, mem, flagged, regs, gen, relies, hit>>
    BY Zenon, <1>2, <1>t, PitTransparent DEF SliceEnds, vars, history
  <2>2. RegistersKept'
    BY Zenon, <2>1, <1>k DEF RegistersKept, Own
  <2> QED
    BY Zenon, <2>1, <2>2, <1>k
<1>3. CASE resume_iretq
  <2>1. pc = "restore" /\ todo = <<>> /\ UNCHANGED <<cur, flagged, gen, relies, hit>>
    BY Zenon, <1>3 DEF resume_iretq, At, history
  <2>2. cur \notin flagged /\ Holds(cur, "preempted", 0) /\ Back("preempted", 0)
    BY Zenon, <2>1, <1>t, LastPop DEF RestoreGp
  <2>3. /\ mem' = [mem EXCEPT ![cur] = <<EndTask>>]
        /\ regs' = [regs EXCEPT !["rflags"] = mem[cur][3]]
    BY Zenon, <2>1, <1>3, <1>c, <1>t, IretToTask
  <2>4. mem'[cur] = <<EndTask>>
    BY Zenon, <2>1, <2>3, <1>c, <1>y
  <2>5. \A r \in Expected(cur) : regs'[r] = Own(cur, r)
    <3> TAKE r \in Expected(cur)
    <3>1. r \in Homes
      BY Zenon, <2>1, <1>c, <1>y DEF Expected
    <3>2. CASE r = "rflags"
      <4>1. Keeps(cur, "rflags", mem[cur][3])
        BY Zenon, <2>2 DEF Holds
      <4>2. regs'["rflags"] = mem[cur][3]
        BY Zenon, <2>3, <1>y
      <4> QED
        BY Zenon, <3>2, <4>1, <4>2 DEF Keeps
    <3>3. CASE r # "rflags"
      <4>1. regs[r] = Own(cur, r)
        BY SMTT(90), <3>3, <2>2 DEF Back
      <4> QED
        BY Zenon, <3>1, <3>3, <4>1, <2>3, <1>y
    <3> QED
      BY Zenon, <3>2, <3>3
  <2>6. RegistersKept'
    BY Zenon, <2>1, <2>5 DEF RegistersKept, Expected, Own
  <2> QED
    BY Zenon, <2>1, <2>2, <2>4, <2>6
<1>4. CASE preempt_scheduler
  BY Zenon, <1>4 DEF preempt_scheduler, InScheduler
<1>5. CASE \/ yield_task \/ preempt_task \/ resume_scheduler_enter \/ breakpoint
           \/ resume_scheduler_requeue \/ run_scheduler \/ resume_pop \/ resume_test_interrupted
  BY ZenonT(30), <1>5 DEF yield_task, preempt_task, resume_scheduler_enter, breakpoint,
              resume_scheduler_requeue, run_scheduler, resume_pop, resume_test_interrupted, At
<1> QED
  BY Zenon, <1>1, <1>2, <1>3, <1>4, <1>5 DEF Next

-----------------------------------------------------------------------------
(* The theorems. *)

(* The stack spawn_task prepares has the shape release_task leaves. *)
LEMMA SpawnedFrame ==
  ASSUME Init, NEW t \in Tasks
  PROVE  /\ mem[t] \in Seq(Words) /\ Len(mem[t]) = 11 /\ mem[t][1] = EndTask
         /\ mem[t][2] = SpOf(t, 1) /\ mem[t][5] = Rip(t)
<1> DEFINE isf   == Isf(t, 1, Junk, TRUE)
           zeros == [i \in 1..6 |-> Junk]
           top   == <<EndTask>>
<1>1. mem[t] = top \o isf \o zeros
  BY Zenon, Basics DEF Init
<1>2. top \in Seq(Words) /\ Len(top) = 1 /\ top[1] = EndTask
  BY Basics
<1>3. zeros \in Seq(Words) /\ Len(zeros) = 6
  BY Basics
<1>4. /\ isf \in Seq(Words) /\ Len(isf) = 4 /\ isf[1] = SpOf(t, 1) /\ isf[4] = Rip(t)
  <2>1. /\ SpOf(t, 1) \in Words /\ Junk \in Words /\ IfWord(TRUE) \in Words /\ Rip(t) \in Words
    <3>1. t \in Owners /\ 1 \in Nat /\ "any" \in Whats
      BY Zenon, Basics DEF Whats
    <3>2. IfWord(TRUE) \in Words /\ Rip(t) \in Words
      BY ZenonT(30), <3>1, Basics DEF IfWord, Rip, Word, Words, Whats, Owners
    <3> QED
      BY Zenon, <3>1, <3>2, Basics
  <2>2. PICK w \in Words : w = IfWord(TRUE)
    BY <2>1, Zenon
  <2>3. isf = <<SpOf(t, 1), Junk, w, Rip(t)>>
    BY <2>2, Zenon DEF Isf
  <2> HIDE DEF isf
  <2> QED
    BY <2>1, <2>3
<1> HIDE DEF isf, zeros, top
<1> DEFINE base == top \o isf
<1>5. /\ base \in Seq(Words) /\ Len(base) = 5 /\ base[1] = top[1] /\ base[2] = isf[1]
      /\ base[5] = isf[4]
  <2>1. /\ base \in Seq(Words) /\ Len(base) = Len(top) + Len(isf)
        /\ \A i \in 1..Len(top) + Len(isf) : base[i] = IF i <= Len(top) THEN top[i] ELSE isf[i - Len(top)]
    BY Zenon, <1>2, <1>4, ConcatProperties
  <2>2. Len(top) + Len(isf) = 5 /\ 1 \in 1..5 /\ 2 \in 1..5 /\ 5 \in 1..5
    BY <1>2, <1>4
  <2>3. 1 <= Len(top) /\ ~(2 <= Len(top)) /\ ~(5 <= Len(top)) /\ 2 - Len(top) = 1 /\ 5 - Len(top) = 4
    BY <1>2
  <2> QED
    BY Zenon, <2>1, <2>2, <2>3
<1> HIDE DEF base
<1>6. /\ base \o zeros \in Seq(Words) /\ Len(base \o zeros) = 11
      /\ \A i \in 1..5 : (base \o zeros)[i] = base[i]
  <2>1. /\ base \o zeros \in Seq(Words) /\ Len(base \o zeros) = Len(base) + Len(zeros)
        /\ \A i \in 1..Len(base) + Len(zeros) :
             (base \o zeros)[i] = IF i <= Len(base) THEN base[i] ELSE zeros[i - Len(base)]
    BY Zenon, <1>3, <1>5, ConcatProperties
  <2>2. Len(base) + Len(zeros) = 11
    BY <1>3, <1>5
  <2>3. \A i \in 1..5 : i \in 1..11 /\ i <= Len(base)
    BY <1>5
  <2> QED
    BY Zenon, <2>1, <2>2, <2>3
<1>7. mem[t] = base \o zeros
  BY Zenon, <1>1 DEF base
<1>8. 1 \in 1..5 /\ 2 \in 1..5 /\ 5 \in 1..5
  OBVIOUS
<1> QED
  BY Zenon, <1>2, <1>4, <1>5, <1>6, <1>7, <1>8

(* The scheduler starts with every task in the queue and its frame made. *)
LEMMA InitInv == Init => IInv
<1> SUFFICES ASSUME Init PROVE IInv
  BY Zenon 
<1>b. /\ Sched \in Owners /\ Tasks \subseteq Owners /\ Sched \notin Tasks /\ Junk \in Words
      /\ Owners = Tasks \cup {Sched} /\ Homes = Registers \cup Slots
  BY Zenon, Basics DEF Owners, Homes
<1>1. /\ pc = "dispatch" /\ cur = Sched /\ stale = Sched /\ mem[Sched] = <<>>
      /\ DOMAIN mem = Owners /\ mem = [p \in Owners |-> mem[p]]
  BY Zenon, <1>b DEF Init
<1>2. mem \in [Owners -> Seq(Words)]
  <2>1. \A t \in Tasks : mem[t] \in Seq(Words)
    BY Zenon, SpawnedFrame
  <2> QED
    <3>1. \A p \in Owners : mem[p] \in Seq(Words)
      <4>1. mem[Sched] \in Seq(Words)
        BY <1>1
      <4>2. \A p \in Owners : p \in Tasks \/ p = Sched
        BY Zenon, <1>b
      <4> QED
        BY <2>1, <4>1, <4>2, Zenon
    <3> QED
      BY Zenon, <3>1, <1>1
<1>3. queue \in Seq(Tasks) /\ \A i, j \in 1..Len(queue) : queue[i] = queue[j] => i = j
  <2>1. Cardinality(Tasks) \in Nat
    BY Zenon, SwitchAssumption, FS_CardinalityType
  <2>2. /\ queue \in [1..Cardinality(Tasks) -> Tasks]
        /\ \A i, j \in DOMAIN queue : queue[i] = queue[j] => i = j
    BY Zenon DEF Init
  <2>3. queue \in Seq(Tasks)
    BY Zenon, <2>1, <2>2, SeqDef
  <2>4. DOMAIN queue = 1..Len(queue)
    BY Zenon, <2>3, LenProperties
  <2> QED
    BY Zenon, <2>2, <2>3, <2>4
<1>4. Types
  <2>1. regs \in [Homes -> Words]
    BY Zenon, <1>b DEF Init
  <2>2. sp \in [Tasks -> Words]
    <3>1. \A t \in Tasks : SpOf(t, 11) \in Words
      BY Zenon, <1>b, Basics
    <3> QED
      BY Zenon, <3>1 DEF Init
  <2>3. args \in [stack: Homes, kind: Homes]
    BY Zenon, <1>b DEF Init, Slots
  <2>4. todo \in Seq(Registers \cup {"btr"})
    BY SMTT(90) DEF Init
  <2>5. gen \in [Tasks -> {0, 1}] /\ relies \in [Tasks -> SUBSET Registers]
        /\ hit \in [Tasks -> BOOLEAN]
    BY Zenon DEF Init
  <2>6. pc \in InScheduler /\ ifl \in BOOLEAN /\ armed \in BOOLEAN /\ tick \in BOOLEAN
        /\ flagged \subseteq Tasks
    BY Zenon DEF Init, InScheduler
  <2> QED
    BY Zenon, <2>1, <2>2, <2>3, <2>4, <2>5, <2>6, <1>b, <1>1, <1>2, <1>3 DEF Types
<1>5. ControlInv
  BY Zenon, <1>1, <1>3 DEF ControlInv
<1>6. QueueInv
  <2> SUFFICES ASSUME NEW t \in Tasks
               PROVE  /\ How(t) = "yielded" /\ Saved(t, "yielded")
                      /\ sp[t] = SpOf(t, Len(mem[t]))
    BY Zenon DEF QueueInv
  <2>1. /\ Len(mem[t]) = 11 /\ mem[t][1] = EndTask
        /\ mem[t][2] = SpOf(t, 1) /\ mem[t][5] = Rip(t)
    BY Zenon, SpawnedFrame
  <2>2. relies[t] = {} /\ sp[t] = SpOf(t, 11) /\ How(t) = "yielded"
    BY Zenon DEF Init, How
  <2>3. \A r, w : Keeps(t, r, w)
    BY Zenon, <2>2 DEF Keeps, Expected
  <2>4. Height("yielded") = 6
    BY Zenon, OrderFacts
  <2>5. Saved(t, "yielded")
    BY <2>1, <2>2, <2>3, <2>4 DEF Saved, Holds
  <2> QED
    BY Zenon, <2>1, <2>2, <2>5
<1>7. HandedInv /\ RestoreInv /\ RunningInv
  BY Zenon, <1>1 DEF HandedInv, RestoreInv, RunningInv
<1> QED
  BY Zenon, <1>4, <1>5, <1>6, <1>7 DEF IInv

(* The inductive invariant: every suspended task has a whole frame of the     *)
(* kind its INTERRUPTED flag says, and resume_task takes it apart in order.   *)
THEOREM SwitchInvariant == OutOfReach => (Spec => []IInv)
<1> SUFFICES ASSUME OutOfReach PROVE Spec => []IInv
  BY Zenon
<1>1. Init => IInv
  BY Zenon, InitInv
<1>2. IInv /\ [Next]_vars => IInv'
  BY Zenon, TypesStep, ControlStep, QueueStep, HandedStep, RestoreStep, RunningStep DEF IInv
<1> QED
  BY <1>1, <1>2, PTL DEF Spec

(* A task finds in its registers what it put there, whatever preemptions,     *)
(* yields and interrupts came in between (the callee-saved ones after a       *)
(* yield; not r14 and r15 after a preemption).                                *)
THEOREM RegistersSurvive == OutOfReach => (Spec => []RegistersKept)
<1>1. IInv => RegistersKept
  BY Zenon DEF IInv, RunningInv, RegistersKept
<1> QED
  BY <1>1, SwitchInvariant, PTL

(* A task finds its stack as it left it. *)
THEOREM StacksBalanced == OutOfReach => (Spec => []StackBalanced)
<1>1. IInv => StackBalanced
  BY Zenon DEF IInv, RunningInv, StackBalanced
<1> QED
  BY <1>1, SwitchInvariant, PTL

(* iretq in resume_task always has the frame of the task on top. *)
THEOREM AlwaysReturns == OutOfReach => (Spec => []ReturnsToTask)
<1>1. IInv => ReturnsToTask
  BY Zenon DEF IInv, ControlInv, ReturnsToTask
<1> QED
  BY <1>1, SwitchInvariant, PTL

(* In a build that keeps them out of reach of int3's handler and of           *)
(* scheduler_preempt, resume_scheduler uses the stack pointer and the reason  *)
(* it was handed.  (A dropped tick overwrites r14, r15 and rax: an argument   *)
(* kept there is lost.)                                                       *)
THEOREM ArgumentsKept == OutOfReach => (Spec => []ArgumentsSurvive)
<1>1. IInv => ArgumentsSurvive
  <2> SUFFICES ASSUME IInv, pc \in {"int3", "requeue"}
               PROVE  /\ regs[args.stack] = SpOf(stale, Len(mem[stale]))
                      /\ regs[args.kind] = Kind(IF Len(mem[stale]) > 5 + Len(StdPushes)
                                                THEN "preempted" ELSE "yielded")
    BY Zenon DEF ArgumentsSurvive
  <2>1. Handed(args.stack, args.kind)
    BY Zenon DEF IInv, HandedInv
  <2>2. PICK how \in Hows :
          /\ Saved(stale, how)
          /\ regs[args.stack] = SpOf(stale, Len(mem[stale])) /\ regs[args.kind] = Kind(how)
    BY Zenon, <2>1 DEF Handed
  <2>3. Len(mem[stale]) = 5 + Height(how) /\ Len(StdPushes) = 6
    BY Zenon, <2>2, Lists DEF Saved, Holds
  <2>4. how = IF Len(mem[stale]) > 5 + Len(StdPushes) THEN "preempted" ELSE "yielded"
    BY <2>3, OrderFacts DEF Hows
  <2> QED
    BY Zenon, <2>2, <2>4
<1> QED
  BY <1>1, SwitchInvariant, PTL

=============================================================================
