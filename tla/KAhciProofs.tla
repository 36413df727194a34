---------------------------- MODULE KAhciProofs ----------------------------
(***************************************************************************)
(* Theorems about the running kernel: the scheduler, the key ring and the  *)
(* disk driver, interrupted anywhere.                                      *)
(***************************************************************************)
EXTENDS KAhci, ZerosLemmas

(* A step of the system is one of these, or leaves the scheduler alone: do_rw
   and the controller touch neither the scheduler nor the ring. *)
LEMMA StepCases ==
  ASSUME [AhciNext]_allVars
  PROVE  \/ timer_irq /\ UNCHANGED ahciVars
         \/ (\E sc \in Scancodes : keyboard_irq(sc)) /\ UNCHANGED ahciVars
         \/ BootStep /\ UNCHANGED ahciVars
         \/ BootHlt /\ UNCHANGED ahciVars
         \/ dpc = "none" /\ KshellStep /\ UNCHANGED ahciVars
         \/ (rw_prepare \/ do_rw \/ hba_complete \/ hba_error) /\ UNCHANGED vars
         \/ UNCHANGED allVars
<1>1. rw_prepare \/ do_rw \/ hba_complete \/ hba_error => UNCHANGED vars
  BY DEF rw_prepare, do_rw, rw_issue, rw_cli, rw_done, rw_timeout, Running,
         hba_complete, hba_error
<1>. QED
  BY <1>1 DEF AhciNext, Timer, Keyboard, Idle, Reading

(* The console without the disk: what a step does to vars is a step of Next. *)
LEMMA ConsoleStep ==
  ASSUME [AhciNext]_allVars
  PROVE  [Next]_vars
BY StepCases DEF Next, allVars
-----------------------------------------------------------------------------
(* The scheduler. *)

InUse == {i \in Slots : state[i] # "free"}

(* SchedTypeOK is inductive together with this: the current slot is in use,
   the slot process_create has found is not yet, and count is the number of
   slots in use except for the one being created. *)
SchedCounted ==
  /\ state[current] # "free" /\ state[0] # "free"
  /\ pc = "ready" => state[slot] = "free"
  /\ count = IF pc \in {"esp", "count"} THEN Cardinality(InUse) - 1
             ELSE Cardinality(InUse)

(* The process table has ProcMax slots, slot 0 among them. *)
LEMMA SlotsFinite ==
  /\ IsFiniteSet(Slots) /\ Cardinality(Slots) = ProcMax
  /\ 0 \in Slots
<1>1. 0 \in Int /\ ProcMax - 1 \in Int /\ ProcMax >= 2 BY SchedAssumption
<1>2. /\ IsFiniteSet(0 .. ProcMax - 1)
      /\ Cardinality(0 .. ProcMax - 1) = IF 0 > ProcMax - 1 THEN 0 ELSE (ProcMax - 1) - 0 + 1
  BY <1>1, FS_Interval, Zenon
<1>. QED BY <1>1, <1>2, SchedAssumption DEF Slots

(* At least one slot is in use, and no more than there are. *)
LEMMA InUseFinite ==
  ASSUME state[0] # "free"
  PROVE  IsFiniteSet(InUse) /\ Cardinality(InUse) \in 1 .. ProcMax
<1>1. InUse \in SUBSET Slots /\ 0 \in InUse BY SlotsFinite DEF InUse
<1>2. IsFiniteSet(InUse) /\ Cardinality(InUse) <= ProcMax /\ Cardinality(InUse) \in Nat
  BY <1>1, SlotsFinite, FS_Subset, FS_CardinalityType
<1>3. Cardinality(InUse) # 0 BY <1>1, <1>2, FS_EmptySet
<1>. QED BY <1>2, <1>3, SchedAssumption

(* scheduler_tick picks a slot that is ready in the table it scans. *)
LEMMA NextReadyIn ==
  ASSUME NEW st \in [Slots -> {"free", "ready", "running"}], SchedTypeOK,
         NEW k \in Slots, st[k] = "ready"
  PROVE  NextReady(st) \in Slots /\ st[NextReady(st)] = "ready"
<1>. DEFINE dist(i) == (i - current - 1) % ProcMax
            Ready == {j \in Slots : st[j] = "ready"}
            R == {dist(i) : i \in Ready}
<1>1. \A i \in Slots : dist(i) \in Nat
  BY SchedAssumption, ModFacts DEF SchedTypeOK, Slots
<1>2. R \subseteq Nat /\ R # {}
  <2>1. dist(k) \in R OBVIOUS
  <2>. QED BY <1>1, <2>1
<1>3. PICK r \in R : \A q \in R : r <= q BY <1>2, NatHasLeast
<1>4. PICK n \in Ready : r = dist(n) BY <1>3
<1>5. \A m \in Ready : dist(n) <= dist(m) BY <1>3, <1>4
<1>6. n \in Slots /\ st[n] = "ready" /\ \A m \in Slots : st[m] = "ready" => dist(n) <= dist(m)
  BY <1>4, <1>5
<1>. QED BY <1>6 DEF NextReady

(* What an interrupt does to the process table. *)
LEMMA RescheduleFacts ==
  ASSUME SchedTypeOK, Reschedule, count > 1
  PROVE  /\ current' \in Slots
         /\ esp' = [esp EXCEPT ![current] = cpu]
         /\ state' = [i \in Slots |-> IF i = current' THEN "running"
                                      ELSE IF i = current THEN "ready" ELSE state[i]]
         /\ current' = current \/ state[current'] = "ready"
         /\ cpu' = IF current' = current \/ esp[current'] = NoEsp THEN cpu
                   ELSE esp[current']
<1>. DEFINE st == [state EXCEPT ![current] = "ready"]
<1>1. /\ state \in [Slots -> {"free", "ready", "running"}]
      /\ esp \in [Slots -> Slots \cup {NoEsp}] /\ current \in Slots
      /\ count \in Nat
  BY SchedAssumption DEF SchedTypeOK
<1>2. st \in [Slots -> {"free", "ready", "running"}] /\ st[current] = "ready"
  BY <1>1
<1>3. NextReady(st) \in Slots /\ st[NextReady(st)] = "ready"
  BY <1>1, <1>2, NextReadyIn
<1>4. /\ esp' = [esp EXCEPT ![current] = cpu]
      /\ state' = [st EXCEPT ![NextReady(st)] = "running"]
      /\ current' = NextReady(st)
      /\ cpu' = IF NextReady(st) = current \/ esp'[NextReady(st)] = NoEsp THEN cpu
                ELSE esp'[NextReady(st)]
  <2>1. ~(count <= 1) BY <1>1
  <2>. QED BY <2>1, Zenon DEF Reschedule
<1>. QED BY <1>1, <1>2, <1>3, <1>4

(* An interrupt neither creates nor destroys threads. *)
LEMMA RescheduleKeeps ==
  ASSUME SchedTypeOK, SchedCounted, Reschedule, UNCHANGED <<count, pc, slot, left>>
  PROVE  SchedTypeOK' /\ SchedCounted'
<1>1. CASE count <= 1
  BY <1>1 DEF Reschedule, SchedTypeOK, SchedCounted, InUse
<1>2. CASE count > 1
  <2>1. /\ current' \in Slots
        /\ esp' = [esp EXCEPT ![current] = cpu]
        /\ state' = [i \in Slots |-> IF i = current' THEN "running"
                                      ELSE IF i = current THEN "ready" ELSE state[i]]
        /\ current' = current \/ state[current'] = "ready"
        /\ cpu' = IF current' = current \/ esp[current'] = NoEsp THEN cpu
                  ELSE esp[current']
    BY <1>2, RescheduleFacts
  <2>2. SchedTypeOK' BY <2>1 DEF SchedTypeOK
  <2>3. \A i \in Slots : state'[i] = "free" <=> state[i] = "free"
    BY <2>1 DEF SchedTypeOK, SchedCounted
  <2>4. InUse' = InUse BY <2>3 DEF InUse
  <2>. QED BY <2>1, <2>2, <2>3, <2>4, SlotsFinite DEF SchedCounted, SchedTypeOK
<1>. QED BY <1>1, <1>2, SchedAssumption DEF SchedTypeOK

(* process_create uses a slot that was free and counts it. *)
LEMMA BootKeeps ==
  ASSUME SchedTypeOK, SchedCounted, Boot
  PROVE  SchedTypeOK' /\ SchedCounted'
<1>0. IsFiniteSet(InUse) /\ Cardinality(InUse) \in 1 .. ProcMax
  BY InUseFinite DEF SchedCounted
<1>1. CASE FindSlot
  <2>1. CASE FreeSlots # {} /\ pc' = "ready"
             /\ slot' = CHOOSE i \in FreeSlots : \A j \in FreeSlots : i <= j
    <3>1. FreeSlots \subseteq Nat BY DEF FreeSlots, Slots
    <3>2. slot' \in FreeSlots BY <2>1, <3>1, NatHasLeast
    <3>. QED BY <1>1, <2>1, <3>2, SchedAssumption
             DEF FindSlot, FreeSlots, SchedTypeOK, SchedCounted, InUse
  <2>2. CASE UNCHANGED <<slot, pc>>
    BY <1>1, <2>2, SchedAssumption DEF FindSlot, SchedTypeOK, SchedCounted, InUse
  <2>. QED BY <1>1, <2>1, <2>2 DEF FindSlot
<1>2. CASE SetReady
  <2>1. slot \in Slots /\ state[slot] = "free" /\ pc = "ready" /\ pc' = "esp"
        /\ state' = [state EXCEPT ![slot] = "ready"] /\ count' = count
    BY <1>2 DEF SetReady, SchedTypeOK, SchedCounted
  <2>2. InUse' = InUse \cup {slot} /\ slot \notin InUse
    BY <2>1 DEF InUse, SchedTypeOK
  <2>3. Cardinality(InUse') = Cardinality(InUse) + 1
    BY <1>0, <2>2, FS_AddElement
  <2>. QED BY <1>0, <1>2, <2>1, <2>3, SlotsFinite DEF SetReady, SchedTypeOK, SchedCounted
<1>3. CASE SetEsp
  BY <1>3 DEF SetEsp, SchedTypeOK, SchedCounted, InUse
<1>4. CASE IncCount
  <2>1. count + 1 = Cardinality(InUse) /\ pc = "count"
    BY <1>0, <1>4 DEF IncCount, SchedCounted
  <2>2. InUse' = InUse BY <1>4 DEF IncCount, InUse
  <2>. QED BY <1>0, <1>4, <2>1, <2>2 DEF IncCount, SchedTypeOK, SchedCounted
<1>. QED BY <1>1, <1>2, <1>3, <1>4 DEF Boot

(* scheduler_init *)
LEMMA SchedInitKeeps == SchedInit => SchedTypeOK /\ SchedCounted
<1>. SUFFICES ASSUME SchedInit PROVE SchedTypeOK /\ SchedCounted OBVIOUS
<1>1. SchedTypeOK
  BY SlotsFinite, SchedAssumption DEF SchedInit, SchedTypeOK
<1>2. InUse = {0} BY SlotsFinite DEF SchedInit, InUse
<1>. QED BY <1>1, <1>2, FS_Singleton, SlotsFinite DEF SchedInit, SchedCounted
-----------------------------------------------------------------------------
(* Types of the running kernel. *)

ConsoleTyped == TypeOK /\ SchedCounted

(* buf_push keeps the key ring and its indices in range. *)
LEMMA PushTyped ==
  ASSUME TypeOK, NEW x \in Chars, buf_push(x)
  PROVE  /\ buf' \in [0 .. BufSize - 1 -> Chars] /\ tail' \in 0 .. BufSize - 1
         /\ accepted' \in Seq(Chars)
<1>1. tail \in Int /\ BufSize \in Nat \ {0}
  BY ConsoleAssumption DEF TypeOK
<1>2. (tail + 1) % BufSize \in 0 .. BufSize - 1
  BY <1>1, ModFacts
<1>3. CASE (tail + 1) % BufSize = head
  BY <1>3 DEF buf_push, TypeOK
<1>4. CASE (tail + 1) % BufSize # head
  <2>1. /\ buf' = [buf EXCEPT ![tail] = x] /\ tail' = (tail + 1) % BufSize
        /\ accepted' = Append(accepted, x)
    BY <1>4 DEF buf_push
  <2>. QED BY <1>2, <2>1 DEF TypeOK
<1>. QED BY <1>3, <1>4

(* The keyboard interrupt keeps the types. *)
LEMMA KeyboardTyped ==
  ASSUME TypeOK, NEW sc \in Scancodes, keyboard_irq(sc), SchedTypeOK'
  PROVE  TypeOK'
<1>1. scans' \in 0 .. MaxScans
  BY ConsoleAssumption DEF keyboard_irq, TypeOK
<1>2. pressed' \subseteq Shifts
  BY DEF keyboard_irq, TypeOK
<1>3. {shift_down', e0_prefix', halted'} \subseteq BOOLEAN
  BY DEF keyboard_irq, kbd_handler, kbd_shift, Interrupt, TypeOK
<1>4. /\ buf' \in [0 .. BufSize - 1 -> Chars] /\ tail' \in 0 .. BufSize - 1
      /\ accepted' \in Seq(Chars) /\ head' = head
  <2>1. CASE sc = "key" /\ ~e0_prefix
    <3>. DEFINE x == IF shift_down THEN "shifted" ELSE "plain"
    <3>1. x \in Chars BY DEF Chars
    <3>2. buf_push(x) BY <2>1 DEF keyboard_irq, kbd_handler
    <3>. HIDE DEF x
    <3>. QED BY <3>1, <3>2, PushTyped DEF keyboard_irq, kbd_handler
  <2>2. CASE ~(sc = "key" /\ ~e0_prefix)
    BY <2>2 DEF keyboard_irq, kbd_handler, TypeOK
  <2>. QED BY <2>1, <2>2
<1>5. UNCHANGED <<kpc, ch, seen>> BY DEF keyboard_irq
<1>. QED BY <1>1, <1>2, <1>3, <1>4, <1>5 DEF TypeOK

(* So does kshell's read, which leaves the scheduler alone. *)
LEMMA KshellTyped ==
  ASSUME TypeOK, KshellStep
  PROVE  TypeOK' /\ UNCHANGED schedVars
<1>1. CASE getchar_test
  BY <1>1 DEF getchar_test, TypeOK, SchedTypeOK, schedVars, keyVars
<1>2. CASE getchar_load
  BY <1>2 DEF getchar_load, TypeOK, SchedTypeOK, schedVars, keyVars
<1>3. CASE getchar_advance
  <2>1. (head + 1) % BufSize \in 0 .. BufSize - 1
    BY ConsoleAssumption, ModFacts DEF TypeOK
  <2>. QED BY <1>3, <2>1 DEF getchar_advance, TypeOK, SchedTypeOK, schedVars
<1>4. CASE readchar_hlt
  BY <1>4 DEF readchar_hlt, TypeOK, SchedTypeOK, schedVars, keyVars
<1>. QED BY <1>1, <1>2, <1>3, <1>4 DEF KshellStep

(* The kernel starts well typed. *)
LEMMA ConsoleTypedInit == Init => ConsoleTyped
<1>. SUFFICES ASSUME Init PROVE ConsoleTyped OBVIOUS
<1>1. SchedTypeOK /\ SchedCounted BY SchedInitKeeps DEF Init
<1>2. buf \in [0 .. BufSize - 1 -> Chars] /\ head \in 0 .. BufSize - 1 /\ tail \in 0 .. BufSize - 1
  BY ConsoleAssumption DEF Init, Chars
<1>3. {shift_down, e0_prefix, halted} \subseteq BOOLEAN BY Zenon DEF Init
<1>4. scans \in 0 .. MaxScans /\ pressed \subseteq Shifts /\ ch \in Chars
  BY ConsoleAssumption DEF Init, Chars
<1>5. accepted \in Seq(Chars) /\ seen \in Seq(Chars) BY DEF Init
<1>. QED BY <1>1, <1>2, <1>3, <1>4, <1>5 DEF Init, ConsoleTyped, TypeOK

(* Every step of the kernel keeps the types and the count of the slots in  *)
(* use.                                                                    *)
LEMMA ConsoleTypedNext == ConsoleTyped /\ [Next]_vars => ConsoleTyped'
<1>. SUFFICES ASSUME ConsoleTyped, [Next]_vars PROVE ConsoleTyped' OBVIOUS
<1>. USE DEF ConsoleTyped
<1>0. SchedTypeOK BY DEF TypeOK
<1>1. CASE timer_irq
  <2>1. SchedTypeOK' /\ SchedCounted'
    BY <1>0, <1>1, RescheduleKeeps DEF timer_irq, Interrupt
  <2>. QED BY <1>1, <2>1 DEF timer_irq, Interrupt, TypeOK, keyVars
<1>2. ASSUME NEW sc \in Scancodes, keyboard_irq(sc) PROVE ConsoleTyped'
  <2>1. SchedTypeOK' /\ SchedCounted'
    BY <1>0, <1>2, RescheduleKeeps DEF keyboard_irq, Interrupt
  <2>. QED BY <1>2, <2>1, KeyboardTyped
<1>3. CASE BootStep
  <2>1. SchedTypeOK' /\ SchedCounted' BY <1>0, <1>3, BootKeeps DEF BootStep
  <2>. QED BY <1>3, <2>1 DEF BootStep, TypeOK, keyVars
<1>4. CASE BootHlt
  BY <1>4 DEF BootHlt, TypeOK, SchedTypeOK, SchedCounted, InUse, schedVars, keyVars
<1>5. CASE KshellStep
  BY <1>5, KshellTyped DEF SchedCounted, InUse, schedVars
<1>6. CASE UNCHANGED vars
  BY <1>6 DEF vars, TypeOK, SchedTypeOK, SchedCounted, InUse, schedVars, keyVars
<1>. QED BY <1>1, <1>2, <1>3, <1>4, <1>5, <1>6 DEF Next

(* The kernel's variables stay in range for every number of process slots, *)
(* calls of process_create, ring size and order of interrupts: indices of  *)
(* the ring inside the array, current inside the process table, and count  *)
(* never above PROC_MAX.                                                   *)
THEOREM KernelTypeCorrect == AhciSpec => []TypeOK
<1>1. AhciInit => ConsoleTyped BY ConsoleTypedInit DEF AhciInit
<1>2. ConsoleTyped /\ [AhciNext]_allVars => ConsoleTyped'
  BY ConsoleStep, ConsoleTypedNext
<1>3. ConsoleTyped => TypeOK BY DEF ConsoleTyped
<1>. QED BY <1>1, <1>2, <1>3, PTL DEF AhciSpec
-----------------------------------------------------------------------------
(* Contexts.  kmain calls process_create once; while that call is under    *)
(* way count is 1 and no interrupt switches.                               *)

Framed(i) == state[i] = "ready" => esp[i] = i

Contexts ==
  /\ cpu = current /\ {i \in Slots : state[i] = "running"} = {current}
  /\ left + count <= 2 /\ (pc # "idle" => left + count <= 1)
  /\ \A i \in Slots \ {current} : (pc = "esp" /\ i = slot) \/ Framed(i)
  /\ pc = "ready" => state[slot] = "free"

(* scheduler_tick picks only a thread that has a frame to go back to, and  *)
(* leaves one behind for the thread it stops.                              *)
LEMMA RescheduleContexts ==
  ASSUME SchedTypeOK, Contexts, Reschedule, UNCHANGED <<count, pc, slot, left>>
  PROVE  Contexts'
<1>0. count \in Nat /\ left \in Nat BY SchedAssumption DEF SchedTypeOK
<1>1. CASE count <= 1
  BY <1>1 DEF Reschedule, Contexts, Framed
<1>2. CASE count > 1
  <2>1. /\ current' \in Slots
        /\ esp' = [esp EXCEPT ![current] = cpu]
        /\ state' = [i \in Slots |-> IF i = current' THEN "running"
                                      ELSE IF i = current THEN "ready" ELSE state[i]]
        /\ current' = current \/ state[current'] = "ready"
        /\ cpu' = IF current' = current \/ esp[current'] = NoEsp THEN cpu
                  ELSE esp[current']
    BY <1>2, RescheduleFacts
  <2>2. pc = "idle" BY <1>0, <1>2 DEF Contexts
  <2>3. current \in Slots /\ cpu = current /\ esp \in [Slots -> Slots \cup {NoEsp}]
    BY DEF SchedTypeOK, Contexts
  <2>4. \A i \in Slots \ {current} : Framed(i) BY <2>2 DEF Contexts
  <2>5. cpu' = current'
    <3>1. CASE current' = current BY <2>1, <2>3, <3>1
    <3>2. CASE current' # current
      <4>1. esp[current'] = current' BY <2>1, <2>4, <3>2 DEF Framed
      <4>. QED BY <2>1, <3>2, <4>1 DEF NoEsp, Slots
    <3>. QED BY <3>1, <3>2
  <2>6. \A i \in Slots \ {current} : state[i] # "running" BY DEF Contexts
  <2>7. {i \in Slots : state'[i] = "running"} = {current'}
    BY <2>1, <2>6
  <2>8. ASSUME NEW i \in Slots \ {current'} PROVE Framed(i)'
    <3>1. CASE i = current BY <2>1, <2>3, <3>1 DEF Framed
    <3>2. CASE i # current
      <4>1. state'[i] = state[i] /\ esp'[i] = esp[i] BY <2>1, <2>3, <3>2
      <4>. QED BY <2>4, <3>2, <4>1 DEF Framed
    <3>. QED BY <3>1, <3>2
  <2>. QED BY <2>2, <2>5, <2>7, <2>8 DEF Contexts
<1>. QED BY <1>0, <1>1, <1>2

(* process_create, store by store: the slot it fills is the one slot that  *)
(* may lack a frame.                                                       *)
LEMMA BootContexts ==
  ASSUME SchedTypeOK, Contexts, Boot
  PROVE  Contexts'
<1>0. count \in Nat /\ count >= 1 /\ left \in Nat /\ slot \in Slots
      /\ state \in [Slots -> {"free", "ready", "running"}]
      /\ esp \in [Slots -> Slots \cup {NoEsp}]
  BY SchedAssumption DEF SchedTypeOK
<1>1. CASE FindSlot
  <2>0. left > 0 /\ left' = left - 1 /\ pc = "idle" /\ UNCHANGED <<state, esp, current, count, cpu>>
    BY <1>1 DEF FindSlot
  <2>1. CASE FreeSlots # {} /\ pc' = "ready"
             /\ slot' = CHOOSE i \in FreeSlots : \A j \in FreeSlots : i <= j
    <3>1. FreeSlots \subseteq Nat BY DEF FreeSlots, Slots
    <3>2. slot' \in FreeSlots BY <2>1, <3>1, NatHasLeast
    <3>3. state[slot'] = "free" BY <3>2 DEF FreeSlots
    <3>. QED BY <1>0, <2>0, <2>1, <3>3 DEF Contexts, Framed
  <2>2. CASE UNCHANGED <<slot, pc>>
    BY <1>0, <2>0, <2>2 DEF Contexts, Framed
  <2>. QED BY <1>1, <2>1, <2>2 DEF FindSlot
<1>2. CASE SetReady
  <2>1. /\ pc = "ready" /\ pc' = "esp" /\ state[slot] = "free"
        /\ state' = [state EXCEPT ![slot] = "ready"]
        /\ UNCHANGED <<esp, current, count, cpu, slot, left>>
    BY <1>2 DEF SetReady, Contexts
  <2>2. {i \in Slots : state'[i] = "running"} = {i \in Slots : state[i] = "running"}
    BY <1>0, <2>1
  <2>. QED BY <1>0, <2>1, <2>2 DEF Contexts, Framed
<1>3. CASE SetEsp
  BY <1>0, <1>3 DEF SetEsp, Contexts, Framed
<1>4. CASE IncCount
  <2>1. pc = "count" /\ pc' = "idle" /\ left' + count' <= 2
    BY <1>0, <1>4 DEF IncCount, Contexts
  <2>2. UNCHANGED <<state, esp, current, cpu, slot>> BY <1>4 DEF IncCount
  <2>. QED BY <2>1, <2>2 DEF Contexts, Framed
<1>. QED BY <1>1, <1>2, <1>3, <1>4 DEF Boot

(* Every step of the kernel keeps the contexts, wherever the interrupt     *)
(* falls.                                                                  *)
LEMMA ContextsNext ==
  ConsoleTyped /\ Contexts /\ [Next]_vars => Contexts'
<1>. SUFFICES ASSUME ConsoleTyped, Contexts, [Next]_vars PROVE Contexts' OBVIOUS
<1>0. SchedTypeOK BY DEF ConsoleTyped, TypeOK
<1>1. CASE timer_irq
  BY <1>0, <1>1, RescheduleContexts DEF timer_irq, Interrupt
<1>2. ASSUME NEW sc \in Scancodes, keyboard_irq(sc) PROVE Contexts'
  BY <1>0, <1>2, RescheduleContexts DEF keyboard_irq, Interrupt
<1>3. CASE BootStep
  BY <1>0, <1>3, BootContexts DEF BootStep
<1>4. CASE UNCHANGED schedVars
  BY <1>4 DEF schedVars, Contexts, Framed
<1>5. BootHlt \/ KshellStep \/ UNCHANGED vars => UNCHANGED schedVars
  BY DEF BootHlt, KshellStep, getchar_test, getchar_load, getchar_advance,
         readchar_hlt, vars
<1>. QED BY <1>1, <1>2, <1>3, <1>4, <1>5 DEF Next

(* With the one process_create that kmain does, wherever the interrupts    *)
(* fall in it and however many slots there are: the CPU always executes    *)
(* the thread the scheduler thinks it does, and no thread is ever resumed  *)
(* from the frame of another.                                              *)
THEOREM ContextsAlwaysKept ==
  Creations <= 1 /\ AhciSpec => []ContextsKept
<1>1. Creations <= 1 /\ AhciInit => ConsoleTyped /\ Contexts
  <2>. SUFFICES ASSUME Creations <= 1, AhciInit PROVE ConsoleTyped /\ Contexts OBVIOUS
  <2>1. ConsoleTyped BY ConsoleTypedInit DEF AhciInit
  <2>2. SchedInit BY DEF AhciInit, Init
  <2>3. {i \in Slots : state[i] = "running"} = {0} BY <2>2, SlotsFinite DEF SchedInit
  <2>. QED BY <2>1, <2>2, <2>3, SchedAssumption, SlotsFinite DEF SchedInit, Contexts, Framed
<1>2. ConsoleTyped /\ Contexts /\ [AhciNext]_allVars => (ConsoleTyped /\ Contexts)'
  BY ConsoleStep, ConsoleTypedNext, ContextsNext
<1>3. ConsoleTyped /\ Contexts => ContextsKept
  <2>. SUFFICES ASSUME ConsoleTyped, Contexts PROVE ContextsKept OBVIOUS
  <2>1. count \in Nat /\ left \in Nat
    BY SchedAssumption DEF ConsoleTyped, TypeOK, SchedTypeOK
  <2>. QED BY <2>1 DEF Contexts, ContextsKept, Framed
<1>. QED BY <1>1, <1>2, <1>3, PTL DEF AhciSpec
-----------------------------------------------------------------------------
(* Keyboard. *)

(* NoStuckShift is inductive: kbd_handler forgets the shift with the same  *)
(* code that tells the keyboard has released it.                           *)
THEOREM ShiftNeverStuck == AhciSpec => []NoStuckShift
<1>1. AhciInit => NoStuckShift BY DEF AhciInit, Init, NoStuckShift
<1>2. NoStuckShift /\ [AhciNext]_allVars => NoStuckShift'
  <2>. SUFFICES ASSUME NoStuckShift, [Next]_vars PROVE NoStuckShift'
    BY ConsoleStep
  <2>1. ASSUME NEW sc \in Scancodes, keyboard_irq(sc) PROVE NoStuckShift'
    <3>1. CASE e0_prefix
      BY <2>1, <3>1 DEF keyboard_irq, kbd_handler, kbd_shift, NoStuckShift
    <3>2. CASE ~e0_prefix /\ sc \in Makes
      <4>1. PICK s \in Shifts : sc = Make[s] BY <3>2 DEF Makes
      <4>2. \A t \in Shifts : sc # Break[t] BY <4>1 DEF Shifts, Make, Break
      <4>3. s \in pressed' BY <2>1, <3>2, <4>1, <4>2 DEF keyboard_irq
      <4>. QED BY <4>3 DEF NoStuckShift
    <3>3. CASE ~e0_prefix /\ sc \notin Makes /\ sc \in Breaks
      BY <2>1, <3>3 DEF keyboard_irq, kbd_handler, kbd_shift, NoStuckShift
    <3>4. CASE ~e0_prefix /\ sc \notin Makes /\ sc \notin Breaks
      <4>1. pressed' = pressed
        BY <2>1, <3>4 DEF keyboard_irq, Makes, Breaks
      <4>. QED BY <2>1, <3>4, <4>1 DEF keyboard_irq, kbd_handler, kbd_shift, NoStuckShift
    <3>. QED BY <3>1, <3>2, <3>3, <3>4
  <2>2. CASE UNCHANGED <<pressed, shift_down>>
    BY <2>2 DEF NoStuckShift
  <2>3. timer_irq \/ BootStep \/ BootHlt \/ KshellStep \/ UNCHANGED vars
          => UNCHANGED <<pressed, shift_down>>
    BY DEF timer_irq, BootStep, BootHlt, KshellStep, getchar_test, getchar_load,
           getchar_advance, readchar_hlt, vars, keyVars
  <2>. QED BY <2>1, <2>2, <2>3 DEF Next
<1>. QED BY <1>1, <1>2, PTL DEF AhciSpec

(* Positions of the ring.  The keys between head and tail, in order, lie   *)
(* in cells other than tail; storing one more makes the distance one more  *)
(* and its cell is tail; reading one starts the same positions one later.  *)
LEMMA RingDistance ==
  ASSUME NEW h \in 0 .. BufSize - 1, NEW t \in 0 .. BufSize - 1
  PROVE  (t - h) % BufSize = IF h <= t THEN t - h ELSE t - h + BufSize
<1>0. BufSize \in Nat \ {0} BY ConsoleAssumption
<1>1. PICK x \in Int : x = t - h BY <1>0
<1>2. -BufSize <= x /\ x < BufSize /\ (h <= t <=> 0 <= x) BY <1>0, <1>1
<1>3. /\ 0 <= x /\ x < BufSize => x % BufSize = x
      /\ -BufSize <= x /\ x < 0 => x % BufSize = x + BufSize
  BY <1>0, ModFacts, Zenon
<1>4. x % BufSize = IF 0 <= x THEN x ELSE x + BufSize BY <1>2, <1>3
<1>. QED BY <1>1, <1>2, <1>4

(* An index that has gone around the ring once comes back by BufSize. *)
LEMMA RingCell ==
  ASSUME NEW x \in 0 .. 2 * BufSize - 1
  PROVE  x % BufSize = IF x < BufSize THEN x ELSE x - BufSize
<1>0. BufSize \in Nat \ {0} BY ConsoleAssumption
<1>1. x \in Int /\ 0 <= x /\ x < 2 * BufSize BY <1>0
<1>2. /\ 0 <= x /\ x < BufSize => x % BufSize = x
      /\ BufSize <= x /\ x < 2 * BufSize => x % BufSize = x - BufSize
  BY <1>0, <1>1, ModFacts, Zenon
<1>. QED BY <1>0, <1>1, <1>2

(* The cells between head and tail: how many there are, that tail is not   *)
(* one of them, and what one more key at the tail or one less at the head  *)
(* changes.                                                                *)
LEMMA RingPositions ==
  ASSUME NEW h \in 0 .. BufSize - 1, NEW t \in 0 .. BufSize - 1,
         NEW n, n = (t - h) % BufSize,
         NEW t1, t1 = (t + 1) % BufSize, NEW h1, h1 = (h + 1) % BufSize
  PROVE  /\ n \in 0 .. BufSize - 1 /\ (n = 0 <=> h = t)
         /\ \A i \in 1 .. n : (h + i - 1) % BufSize \in (0 .. BufSize - 1) \ {t}
         /\ (h + n) % BufSize = t
         /\ t1 \in 0 .. BufSize - 1 /\ (t1 # h => (t1 - h) % BufSize = n + 1)
         /\ h1 \in 0 .. BufSize - 1
         /\ h # t => /\ (t - h1) % BufSize = n - 1
                     /\ \A i \in 1 .. n - 1 :
                          (h1 + i - 1) % BufSize = (h + (i + 1) - 1) % BufSize
<1>0. BufSize \in Nat \ {0} /\ BufSize >= 2 BY ConsoleAssumption
<1>1. n = IF h <= t THEN t - h ELSE t - h + BufSize BY RingDistance
<1>2. n \in 0 .. BufSize - 1 /\ (n = 0 <=> h = t) BY <1>0, <1>1
<1>4. ASSUME NEW i \in 1 .. n
      PROVE  (h + i - 1) % BufSize \in (0 .. BufSize - 1) \ {t}
  <2>1. PICK x \in 0 .. 2 * BufSize - 1 : x = h + i - 1 BY <1>0, <1>2
  <2>2. x % BufSize = IF x < BufSize THEN x ELSE x - BufSize BY RingCell
  <2>. QED BY <1>0, <1>1, <1>2, <2>1, <2>2
<1>5. (h + n) % BufSize = t
  <2>1. PICK x \in 0 .. 2 * BufSize - 1 : x = h + n BY <1>0, <1>2
  <2>2. x % BufSize = IF x < BufSize THEN x ELSE x - BufSize BY RingCell
  <2>. QED BY <1>0, <1>1, <2>1, <2>2
<1>6. \A k \in 0 .. BufSize - 1 :
        (k + 1) % BufSize = IF k + 1 < BufSize THEN k + 1 ELSE 0
  <2>. TAKE k \in 0 .. BufSize - 1
  <2>1. PICK x \in 0 .. 2 * BufSize - 1 : x = k + 1 BY <1>0
  <2>2. x % BufSize = IF x < BufSize THEN x ELSE x - BufSize BY RingCell
  <2>. QED BY <1>0, <2>1, <2>2
<1>7. t1 \in 0 .. BufSize - 1 /\ t1 = IF t + 1 < BufSize THEN t + 1 ELSE 0
  BY <1>0, <1>6
<1>8. h1 \in 0 .. BufSize - 1 /\ h1 = IF h + 1 < BufSize THEN h + 1 ELSE 0
  BY <1>0, <1>6
<1>9. (t1 - h) % BufSize = IF h <= t1 THEN t1 - h ELSE t1 - h + BufSize
  BY <1>7, RingDistance
<1>10. t1 # h => (t1 - h) % BufSize = n + 1
  BY <1>0, <1>1, <1>7, <1>9
<1>11. (t - h1) % BufSize = IF h1 <= t THEN t - h1 ELSE t - h1 + BufSize
  BY <1>8, RingDistance
<1>12. h # t => (t - h1) % BufSize = n - 1
  BY <1>0, <1>1, <1>8, <1>11
<1>13. ASSUME NEW i \in 1 .. n - 1
       PROVE  (h1 + i - 1) % BufSize = (h + (i + 1) - 1) % BufSize
  <2>1. PICK x \in 0 .. 2 * BufSize - 1 : x = h1 + i - 1 BY <1>0, <1>2, <1>8
  <2>2. PICK y \in 0 .. 2 * BufSize - 1 : y = h + (i + 1) - 1 BY <1>0, <1>2
  <2>3. /\ x % BufSize = IF x < BufSize THEN x ELSE x - BufSize
        /\ y % BufSize = IF y < BufSize THEN y ELSE y - BufSize
    BY RingCell
  <2>4. x = y \/ x = y - BufSize BY <1>0, <1>8, <2>1, <2>2
  <2>. QED BY <1>0, <1>2, <1>8, <2>1, <2>2, <2>3, <2>4
<1>. QED BY <1>2, <1>4, <1>5, <1>7, <1>8, <1>10, <1>12, <1>13

(* What is between head and tail is a sequence of keys. *)
LEMMA PendingTyped ==
  ASSUME NEW b \in [0 .. BufSize - 1 -> Chars],
         NEW h \in 0 .. BufSize - 1, NEW t \in 0 .. BufSize - 1,
         NEW p, p = [i \in 1 .. (t - h) % BufSize |-> b[(h + i - 1) % BufSize]]
  PROVE  /\ p \in Seq(Chars) /\ Len(p) = (t - h) % BufSize
         /\ \A i \in 1 .. (t - h) % BufSize : p[i] = b[(h + i - 1) % BufSize]
<1>. DEFINE n == (t - h) % BufSize
<1>1. n \in 0 .. BufSize - 1
      /\ \A i \in 1 .. n : (h + i - 1) % BufSize \in 0 .. BufSize - 1
  BY RingPositions
<1>2. n \in Nat BY <1>1, ConsoleAssumption
<1>3. p = [i \in 1 .. n |-> b[(h + i - 1) % BufSize]] OBVIOUS
<1>4. \A i \in 1 .. n : b[(h + i - 1) % BufSize] \in Chars BY <1>1
<1>. HIDE DEF n
<1>5. p \in [1 .. n -> Chars] BY <1>3, <1>4
<1>6. p \in Seq(Chars) /\ Len(p) = n BY <1>2, <1>5, FunctionIsSeq
<1>7. \A i \in 1 .. n : p[i] = b[(h + i - 1) % BufSize] BY <1>3
<1>. QED BY <1>6, <1>7 DEF n

(* The same of the variables after a step. *)
LEMMA PendingTypedNext ==
  ASSUME TypeOK'
  PROVE  /\ Pending' \in Seq(Chars) /\ Len(Pending') = (tail' - head') % BufSize
         /\ \A i \in 1 .. (tail' - head') % BufSize :
              Pending'[i] = buf'[(head' + i - 1) % BufSize]
<1>1. /\ head' \in 0 .. BufSize - 1 /\ tail' \in 0 .. BufSize - 1
      /\ buf' \in [0 .. BufSize - 1 -> Chars]
  BY DEF TypeOK
<1>. QED BY <1>1, PendingTyped DEF Pending

(* buf_push stores at the end of what is pending, or drops the key. *)
LEMMA PushFifo ==
  ASSUME TypeOK, TypeOK', accepted = seen \o Pending, NEW x \in Chars,
         buf_push(x), head' = head, seen' = seen
  PROVE  /\ accepted' = seen' \o Pending'
         /\ head # tail => head' # tail' /\ buf'[head] = buf[head]
<1>0. /\ head \in 0 .. BufSize - 1 /\ tail \in 0 .. BufSize - 1
      /\ buf \in [0 .. BufSize - 1 -> Chars] /\ seen \in Seq(Chars)
      /\ accepted \in Seq(Chars)
  BY DEF TypeOK
<1>1. CASE (tail + 1) % BufSize = head
  BY <1>1 DEF buf_push, Pending
<1>2. CASE (tail + 1) % BufSize # head
  <2>1. /\ buf' = [buf EXCEPT ![tail] = x] /\ tail' = (tail + 1) % BufSize
        /\ accepted' = Append(accepted, x)
    BY <1>2 DEF buf_push
  <2>. DEFINE n == (tail - head) % BufSize
  <2>2. /\ n \in 0 .. BufSize - 1
        /\ \A i \in 1 .. n : (head + i - 1) % BufSize \in (0 .. BufSize - 1) \ {tail}
        /\ (head + n) % BufSize = tail
        /\ (tail' - head) % BufSize = n + 1
    BY <1>0, <1>2, <2>1, RingPositions
  <2>3. /\ Pending \in Seq(Chars) /\ Len(Pending) = n
        /\ \A i \in 1 .. n : Pending[i] = buf[(head + i - 1) % BufSize]
    BY <1>0, PendingTyped DEF Pending
  <2>4. /\ Pending' \in Seq(Chars) /\ Len(Pending') = (tail' - head') % BufSize
        /\ \A i \in 1 .. (tail' - head') % BufSize :
             Pending'[i] = buf'[(head' + i - 1) % BufSize]
    BY PendingTypedNext, Zenon
  <2>. HIDE DEF n
  <2>5. /\ n \in Nat /\ Len(Pending') = n + 1
        /\ \A i \in 1 .. n + 1 : Pending'[i] = buf'[(head + i - 1) % BufSize]
    BY <2>2, <2>4, ConsoleAssumption
  <2>6. ASSUME NEW i \in 1 .. n + 1
        PROVE  Pending'[i] = Append(Pending, x)[i]
    <3>1. CASE i \in 1 .. n
      <4>1. (head + i - 1) % BufSize \in (0 .. BufSize - 1) \ {tail} BY <2>2, <3>1
      <4>2. Pending'[i] = buf[(head + i - 1) % BufSize] BY <1>0, <2>1, <2>5, <4>1
      <4>3. Append(Pending, x)[i] = Pending[i] BY <2>3, <2>5, <3>1
      <4>. QED BY <2>3, <3>1, <4>2, <4>3
    <3>2. CASE i = n + 1
      <4>1. head + i - 1 = head + n BY <1>0, <2>5, <3>2
      <4>2. Pending'[i] = buf'[tail] BY <2>2, <2>4, <2>5, <3>2, <4>1
      <4>. QED BY <1>0, <2>1, <2>3, <2>5, <3>2, <4>2
    <3>3. i \in 1 .. n \/ i = n + 1 BY <2>5
    <3>. QED BY <3>1, <3>2, <3>3
  <2>7. Append(Pending, x) \in Seq(Chars) /\ Len(Append(Pending, x)) = n + 1
    BY <2>3
  <2>8. Pending' = Append(Pending, x)
    BY <2>4, <2>5, <2>6, <2>7, SeqEqual
  <2>9. Append(seen \o Pending, x) = seen \o Append(Pending, x)
    <3>1. <<x>> \in Seq(Chars) OBVIOUS
    <3>2. Append(Pending, x) = Pending \o <<x>> BY <2>3, AppendIsConcat
    <3>3. Append(seen \o Pending, x) = (seen \o Pending) \o <<x>>
      BY <1>0, AppendIsConcat
    <3>. QED BY <1>0, <2>3, <3>1, <3>2, <3>3, ConcatAssociative
  <2>. QED BY <1>0, <1>2, <2>1, <2>8, <2>9
<1>. QED BY <1>1, <1>2

(* keyboard_getchar takes the first of what is pending. *)
LEMMA AdvanceFifo ==
  ASSUME TypeOK, TypeOK', accepted = seen \o Pending, head # tail, ch = buf[head],
         head' = (head + 1) % BufSize, seen' = Append(seen, ch),
         buf' = buf, tail' = tail, accepted' = accepted
  PROVE  accepted' = seen' \o Pending'
<1>0. /\ head \in 0 .. BufSize - 1 /\ tail \in 0 .. BufSize - 1
      /\ buf \in [0 .. BufSize - 1 -> Chars] /\ seen \in Seq(Chars) /\ ch \in Chars
  BY DEF TypeOK
<1>. DEFINE n == (tail - head) % BufSize
<1>2. /\ n \in 0 .. BufSize - 1 /\ n # 0
      /\ (tail - head') % BufSize = n - 1
      /\ \A i \in 1 .. n - 1 :
           (head' + i - 1) % BufSize = (head + (i + 1) - 1) % BufSize
  BY <1>0, RingPositions
<1>3. /\ Pending \in Seq(Chars) /\ Len(Pending) = n
      /\ \A i \in 1 .. n : Pending[i] = buf[(head + i - 1) % BufSize]
  BY <1>0, PendingTyped DEF Pending
<1>4. /\ Pending' \in Seq(Chars) /\ Len(Pending') = (tail' - head') % BufSize
      /\ \A i \in 1 .. (tail' - head') % BufSize :
           Pending'[i] = buf'[(head' + i - 1) % BufSize]
  BY PendingTypedNext, Zenon
<1>. HIDE DEF n
<1>5. /\ n \in Nat \ {0} /\ Len(Pending') = n - 1
      /\ \A i \in 1 .. n - 1 : Pending'[i] = buf[(head' + i - 1) % BufSize]
  BY <1>2, <1>4, ConsoleAssumption
<1>6. Pending[1] = ch
  <2>1. (head + 1 - 1) % BufSize = head
    <3>1. head + 1 - 1 = head /\ head \in 0 .. 2 * BufSize - 1 /\ head < BufSize
      BY <1>0, ConsoleAssumption
    <3>. QED BY <3>1, RingCell
  <2>. QED BY <1>3, <1>5, <2>1
<1>7. Pending = <<ch>> \o Pending'
  <2>0. <<ch>> \in Seq(Chars) /\ Len(<<ch>>) = 1 BY <1>0
  <2>1. /\ <<ch>> \o Pending' \in Seq(Chars) /\ Len(<<ch>> \o Pending') = n
        /\ \A i \in 1 .. n : (<<ch>> \o Pending')[i] = IF i = 1 THEN ch ELSE Pending'[i - 1]
    BY <1>4, <1>5, <2>0
  <2>2. ASSUME NEW i \in 1 .. n PROVE Pending[i] = (<<ch>> \o Pending')[i]
    <3>1. CASE i = 1 BY <1>6, <2>1, <3>1
    <3>2. CASE i # 1
      <4>1. i - 1 \in 1 .. n - 1 /\ (i - 1) + 1 = i BY <1>5, <3>2
      <4>2. Pending'[i - 1] = buf[(head + ((i - 1) + 1) - 1) % BufSize]
        BY <1>2, <1>4, <1>5, <4>1
      <4>. QED BY <1>3, <2>1, <3>2, <4>1, <4>2
    <3>. QED BY <3>1, <3>2
  <2>. QED BY <1>3, <2>1, <2>2, SeqEqual
<1>8. Append(seen, ch) = seen \o <<ch>> /\ <<ch>> \in Seq(Chars)
  BY <1>0, AppendIsConcat
<1>9. (seen \o <<ch>>) \o Pending' = seen \o (<<ch>> \o Pending')
  BY <1>0, <1>4, <1>8, ConcatAssociative
<1>. QED BY <1>7, <1>8, <1>9

(* While kshell is between its test and its advance the ring is not empty, *)
(* because the handler never makes it so.                                  *)
RingBusy == RingFifo /\ (kpc \in {"load", "advance"} => head # tail)

(* Every step keeps the ring in order, with kshell's read and the          *)
(* handler's write interleaved in any way.                                 *)
LEMMA RingNext ==
  ConsoleTyped /\ ConsoleTyped' /\ RingBusy /\ [Next]_vars => RingBusy'
<1>. SUFFICES ASSUME TypeOK, TypeOK', RingBusy, [Next]_vars PROVE RingBusy'
  BY DEF ConsoleTyped
<1>1. CASE UNCHANGED <<buf, head, tail, accepted, seen, kpc, ch>>
  BY <1>1 DEF RingBusy, RingFifo, Pending
<1>2. timer_irq \/ BootStep \/ BootHlt \/ UNCHANGED vars
        => UNCHANGED <<buf, head, tail, accepted, seen, kpc, ch>>
  BY DEF timer_irq, BootStep, BootHlt, vars, keyVars
<1>3. ASSUME NEW sc \in Scancodes, keyboard_irq(sc) PROVE RingBusy'
  <2>1. UNCHANGED <<kpc, ch, seen>> /\ head' = head
    BY <1>3 DEF keyboard_irq, kbd_handler
  <2>2. CASE sc = "key" /\ ~e0_prefix
    <3>. DEFINE x == IF shift_down THEN "shifted" ELSE "plain"
    <3>1. x \in Chars BY DEF Chars
    <3>2. buf_push(x) BY <1>3, <2>2 DEF keyboard_irq, kbd_handler
    <3>. HIDE DEF x
    <3>3. /\ accepted' = seen' \o Pending'
          /\ head # tail => head' # tail' /\ buf'[head] = buf[head]
      BY <2>1, <3>1, <3>2, PushFifo DEF RingBusy, RingFifo
    <3>. QED BY <2>1, <3>3 DEF RingBusy, RingFifo
  <2>3. CASE ~(sc = "key" /\ ~e0_prefix)
    <3>1. UNCHANGED <<buf, tail, accepted>> BY <1>3, <2>3 DEF keyboard_irq, kbd_handler
    <3>. QED BY <1>1, <2>1, <3>1
  <2>. QED BY <2>2, <2>3
<1>4. CASE getchar_test
  BY <1>4 DEF getchar_test, RingBusy, RingFifo, Pending, keyVars
<1>5. CASE getchar_load
  BY <1>5 DEF getchar_load, RingBusy, RingFifo, Pending, keyVars
<1>6. CASE getchar_advance
  <2>1. /\ kpc = "advance" /\ kpc' = "test" /\ head' = (head + 1) % BufSize
        /\ seen' = Append(seen, ch) /\ UNCHANGED <<buf, tail, accepted>>
    BY <1>6 DEF getchar_advance
  <2>2. accepted' = seen' \o Pending'
    BY <2>1, AdvanceFifo DEF RingBusy, RingFifo
  <2>. QED BY <2>1, <2>2 DEF RingBusy, RingFifo
<1>7. CASE readchar_hlt
  BY <1>7 DEF readchar_hlt, RingBusy, RingFifo, Pending, keyVars
<1>. QED BY <1>1, <1>2, <1>3, <1>4, <1>5, <1>6, <1>7 DEF Next, KshellStep

(* kbd_handler and keyboard_getchar share the ring without a lock and lose, *)
(* repeat and reorder nothing, for every ring size, however the interrupts *)
(* fall between the accesses and also when the ring is full.               *)
THEOREM RingAlwaysFifo == AhciSpec => []RingFifo
<1>1. AhciInit => ConsoleTyped /\ RingBusy
  <2>. SUFFICES ASSUME AhciInit PROVE ConsoleTyped /\ RingBusy OBVIOUS
  <2>1. ConsoleTyped BY ConsoleTypedInit DEF AhciInit
  <2>2. Pending \in Seq(Chars) /\ Len(Pending) = 0
    <3>1. Pending \in Seq(Chars) /\ Len(Pending) = (tail - head) % BufSize
      BY <2>1, PendingTyped DEF ConsoleTyped, TypeOK, Pending
    <3>2. (tail - head) % BufSize = 0
      BY <2>1, RingDistance DEF AhciInit, Init, ConsoleTyped, TypeOK
    <3>. QED BY <3>1, <3>2
  <2>3. accepted = seen \o Pending BY <2>2 DEF AhciInit, Init
  <2>. QED BY <2>1, <2>3 DEF AhciInit, Init, RingBusy, RingFifo
<1>2. ConsoleTyped /\ RingBusy /\ [AhciNext]_allVars => (ConsoleTyped /\ RingBusy)'
  BY ConsoleStep, ConsoleTypedNext, RingNext
<1>3. RingBusy => RingFifo BY DEF RingBusy
<1>. QED BY <1>1, <1>2, <1>3, PTL DEF AhciSpec
-----------------------------------------------------------------------------
(* The disk. *)

(* Before a time-out the slot is free outside do_rw, and a busy slot holds *)
(* the command in the table: what completes is what was asked for.         *)
SlotHonest ==
  ~gave_up =>
    /\ claimed \subseteq moved
    /\ dpc \in {"none", "issue"} => ~ci
    /\ dpc \in {"cli", "poll"} =>
         IF ci THEN active \in {0, table} ELSE is30 \/ table \in moved

(* do_rw answers 0 only for transfers that have been done.  A disk error   *)
(* is never taken for success, nor is the completion of another command.   *)
THEOREM TransfersAlwaysHonest == AhciSpec => []TransfersHonest
<1>1. AhciInit => SlotHonest BY DEF AhciInit, SlotHonest
<1>2. SlotHonest /\ [AhciNext]_allVars => SlotHonest'
  <2>. SUFFICES ASSUME SlotHonest, [AhciNext]_allVars PROVE SlotHonest' OBVIOUS
  <2>1. CASE rw_prepare BY <2>1 DEF rw_prepare, SlotHonest
  <2>2. CASE rw_issue BY <2>2 DEF rw_issue, SlotHonest
  <2>3. CASE rw_cli BY <2>3 DEF rw_cli, SlotHonest
  <2>4. CASE rw_done BY <2>4 DEF rw_done, SlotHonest
  <2>5. CASE rw_timeout BY <2>5 DEF rw_timeout, SlotHonest
  <2>6. CASE hba_complete BY <2>6 DEF hba_complete, SlotHonest
  <2>7. CASE hba_error BY <2>7 DEF hba_error, SlotHonest
  <2>8. CASE UNCHANGED ahciVars BY <2>8 DEF ahciVars, SlotHonest
  <2>. QED BY <2>1, <2>2, <2>3, <2>4, <2>5, <2>6, <2>7, <2>8, StepCases DEF do_rw, allVars
<1>3. SlotHonest => TransfersHonest BY DEF SlotHonest, TransfersHonest
<1>. QED BY <1>1, <1>2, <1>3, PTL DEF AhciSpec
=============================================================================
