------------------------------- MODULE KSched -------------------------------
(***************************************************************************)
(* kernel/scheduler.c under interrupts: the round-robin scheduler that     *)
(* irq_common calls at the end of every IRQ, and process_create running    *)
(* with interrupts on, one store at a time.  KConsole adds the devices     *)
(* that interrupt and the threads that run.                                *)
(*                                                                         *)
(* A saved stack pointer is identified with the thread whose frame it      *)
(* points at.  An IRQ runs with interrupts off (interrupt gates), so it is *)
(* one step, and it can come between any two steps of the running thread.  *)
(***************************************************************************)
EXTENDS Integers, FiniteSets

CONSTANTS
  ProcMax,      \* PROC_MAX
  Creations     \* process_create calls the boot thread makes

ASSUME SchedAssumption ==
  /\ ProcMax \in Nat /\ ProcMax >= 2
  /\ Creations \in Nat

VARIABLES
  state, esp,   \* procs[i].state and procs[i].esp
  current, count,
  cpu,          \* the thread whose registers the CPU holds
  pc,           \* where the boot thread is
  slot,         \* process_create's local
  left          \* process_create calls still to come

schedVars == <<state, esp, current, count, cpu, pc, slot, left>>

Slots  == 0 .. ProcMax - 1
NoEsp  == -1                    \* the 0 that irq_common takes for "no switch"

(* scheduler_init: slot 0 is the boot thread. *)
SchedInit ==
  /\ state = [i \in Slots |-> IF i = 0 THEN "running" ELSE "free"]
  /\ esp = [i \in Slots |-> NoEsp]
  /\ current = 0 /\ count = 1 /\ cpu = 0
  /\ pc = "idle" /\ slot = 0 /\ left = Creations

-----------------------------------------------------------------------------
(* process_create, executed by the boot thread.  pmm_alloc may fail. *)

FreeSlots == {i \in Slots \ {0} : state[i] = "free"}

FindSlot ==
  /\ cpu = 0 /\ pc = "idle" /\ left > 0
  /\ left' = left - 1
  /\ \/ /\ FreeSlots # {}
        /\ slot' = CHOOSE i \in FreeSlots : \A j \in FreeSlots : i <= j
        /\ pc' = "ready"
     \/ UNCHANGED <<slot, pc>>              \* no slot or no page: -1
  /\ UNCHANGED <<state, esp, current, count, cpu>>

SetReady ==
  /\ cpu = 0 /\ pc = "ready"
  /\ state' = [state EXCEPT ![slot] = "ready"] /\ pc' = "esp"
  /\ UNCHANGED <<esp, current, count, cpu, slot, left>>

Mut_SetEsp ==
  /\ cpu = 0 /\ pc = "esp"
  /\ count' = count + 1 /\ pc' = "count"
  /\ UNCHANGED <<state, esp, current, cpu, slot, left>>

SetEsp ==
  /\ cpu = 0 /\ pc = "esp"
  /\ esp' = [esp EXCEPT ![slot] = slot] /\ pc' = "count"
  /\ UNCHANGED <<state, current, count, cpu, slot, left>>

IncCount ==
  /\ cpu = 0 /\ pc = "count"
  /\ count' = count + 1 /\ pc' = "idle"
  /\ UNCHANGED <<state, esp, current, cpu, slot, left>>

Boot == FindSlot \/ SetReady \/ SetEsp \/ IncCount

-----------------------------------------------------------------------------
(* irq_handler ends with scheduler_tick(esp of the interrupted thread);    *)
(* irq_common loads the stack pointer it returns unless that is 0.         *)

(* The next READY slot after current, current itself last. *)
Mut_NextReady(st) ==
  CHOOSE n \in Slots : st[n] = "ready" /\ \A m \in Slots : st[m] = "ready" => n <= m

NextReady(st) ==
  LET dist(i) == (i - current - 1) % ProcMax
  IN  CHOOSE n \in Slots :
        st[n] = "ready" /\ \A m \in Slots : st[m] = "ready" => dist(n) <= dist(m)

(* scheduler_tick and the switch in irq_common. *)
Reschedule ==
  LET st   == [state EXCEPT ![current] = "ready"]
      next == NextReady(st)
  IN  IF count <= 1 THEN UNCHANGED <<state, esp, current, cpu>>
      ELSE /\ esp' = [esp EXCEPT ![current] = cpu]
           /\ state' = [st EXCEPT ![next] = "running"]
           /\ current' = next
           /\ cpu' = IF next = current \/ esp'[next] = NoEsp THEN cpu
                     ELSE esp'[next]

-----------------------------------------------------------------------------
SchedTypeOK ==
  /\ state \in [Slots -> {"free", "ready", "running"}]
  /\ esp \in [Slots -> Slots \cup {NoEsp}]
  /\ current \in Slots /\ cpu \in Slots /\ slot \in Slots
  /\ count \in 1 .. ProcMax
  /\ pc \in {"idle", "ready", "esp", "count"} /\ left \in 0 .. Creations

(* Whatever moment the interrupts choose: the CPU executes the thread the  *)
(* scheduler thinks it does, the only one marked running, and every other  *)
(* thread that can be chosen is resumed from its own frame, never from     *)
(* another's or from none.                                                 *)
ContextsKept ==
  /\ cpu = current /\ {i \in Slots : state[i] = "running"} = {current}
  /\ count > 1 => \A i \in Slots \ {current} : state[i] = "ready" => esp[i] = i

(* Round robin starves no one: a thread that is ready gets the CPU. *)
EveryoneRuns == \A i \in Slots : state[i] = "ready" ~> cpu = i
=============================================================================
