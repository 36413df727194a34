------------------------------ MODULE KConsole ------------------------------
(***************************************************************************)
(* The running kernel: the boot thread that creates kshell and idles, and  *)
(* kshell waiting for keys, on one CPU that the timer and the keyboard     *)
(* interrupt (idt.c, keyboard.c, input.c, timer.c, kernel.c).              *)
(*                                                                         *)
(* keyboard_getchar runs with interrupts on, one access to the shared ring *)
(* at a time.  A character is the shift state it was typed with: that is   *)
(* enough to tell two characters apart.                                    *)
(***************************************************************************)
EXTENDS KSched, Sequences

CONSTANTS
  BufSize,      \* BUF_SIZE, a power of two
  MaxScans      \* bound: scancodes the keyboard sends

ASSUME ConsoleAssumption == BufSize \in Nat /\ BufSize >= 2 /\ MaxScans \in Nat

VARIABLES
  buf, head, tail, shift_down, e0_prefix,
  halted,       \* the CPU is in hlt
  kpc, ch,      \* kshell: where it is, the character it has loaded
  scans,        \* scancodes sent so far
  pressed,      \* history: shift keys held down
  accepted,     \* history: characters stored in the ring
  seen          \* history: characters keyboard_getchar returned

keyVars == <<buf, head, tail, shift_down, e0_prefix, scans, pressed, accepted>>
vars    == <<schedVars, keyVars, halted, kpc, ch, seen>>

(* Scancodes, one of each kind kbd_handler tells apart, the codes of the   *)
(* two shift keys by name.                                                 *)
Shifts    == {"left", "right"}
Make      == [left |-> "2A", right |-> "36"]
Break     == [left |-> "AA", right |-> "B6"]
Makes     == {Make[s] : s \in Shifts}
Breaks    == {Break[s] : s \in Shifts}
Scancodes == {"E0", "key", "key_up"} \cup Makes \cup Breaks
Chars     == {"plain", "shifted"}
Kshell    == 1

Init ==
  /\ SchedInit
  /\ buf = [i \in 0 .. BufSize - 1 |-> "plain"] /\ head = 0 /\ tail = 0
  /\ shift_down = FALSE /\ e0_prefix = FALSE /\ halted = FALSE
  /\ kpc = "test" /\ ch = "plain" /\ scans = 0
  /\ pressed = {} /\ accepted = <<>> /\ seen = <<>>

-----------------------------------------------------------------------------
(* A device interrupts: the CPU leaves hlt and the scheduler runs. *)
Interrupt == halted' = FALSE /\ Reschedule

Mut_timer_irq ==
  /\ halted' = FALSE
  /\ UNCHANGED <<schedVars, keyVars, kpc, ch, seen>>

timer_irq ==
  /\ Interrupt
  /\ UNCHANGED <<count, pc, slot, left, keyVars, kpc, ch, seen>>

Mut_buf_push(x) ==
  /\ buf' = [buf EXCEPT ![tail] = x] /\ tail' = (tail + 1) % BufSize
  /\ accepted' = Append(accepted, x)

Mut_buf_next(x) ==
  IF tail + 1 = head THEN UNCHANGED <<buf, tail, accepted>>
  ELSE /\ buf' = [buf EXCEPT ![tail] = x] /\ tail' = tail + 1
       /\ accepted' = Append(accepted, x)

buf_push(x) ==
  IF (tail + 1) % BufSize = head THEN UNCHANGED <<buf, tail, accepted>>
  ELSE /\ buf' = [buf EXCEPT ![tail] = x] /\ tail' = (tail + 1) % BufSize
       /\ accepted' = Append(accepted, x)

(* kbd_handler.  The codes of other keys and their releases change at most *)
(* e0_prefix, as "key_up" does.                                            *)
Mut_kbd_shift(sc) ==
  shift_down' = IF sc \in Makes THEN TRUE
                ELSE IF sc \in Breaks /\ ~e0_prefix THEN FALSE
                ELSE shift_down

kbd_shift(sc) ==
  shift_down' = IF e0_prefix THEN shift_down
                ELSE IF sc \in Makes THEN TRUE
                ELSE IF sc \in Breaks THEN FALSE
                ELSE shift_down

kbd_handler(sc) ==
  /\ e0_prefix' = (sc = "E0")
  /\ kbd_shift(sc)
  /\ IF sc = "key" /\ ~e0_prefix
     THEN buf_push(IF shift_down THEN "shifted" ELSE "plain")
     ELSE UNCHANGED <<buf, tail, accepted>>
  /\ UNCHANGED head

(* The keyboard sends codes a hand on it can produce: a shift key goes up  *)
(* only after it went down, and the shift codes it adds around extended    *)
(* keys come after an E0.                                                  *)
keyboard_irq(sc) ==
  /\ scans < MaxScans /\ scans' = scans + 1
  /\ sc = "E0" => ~e0_prefix
  /\ \A s \in Shifts : sc = Break[s] /\ ~e0_prefix => s \in pressed
  /\ pressed' = IF e0_prefix THEN pressed
                ELSE (pressed \cup {s \in Shifts : sc = Make[s]})
                     \ {s \in Shifts : sc = Break[s]}
  /\ kbd_handler(sc)
  /\ Interrupt
  /\ UNCHANGED <<count, pc, slot, left, kpc, ch, seen>>

-----------------------------------------------------------------------------
(* Threads.  They execute when the CPU has their registers and is awake. *)

BootStep == ~halted /\ Boot /\ UNCHANGED <<keyVars, halted, kpc, ch, seen>>

(* kmain's idle loop *)
BootHlt ==
  /\ ~halted /\ cpu = 0 /\ pc = "idle" /\ left = 0
  /\ halted' = TRUE
  /\ UNCHANGED <<schedVars, keyVars, kpc, ch, seen>>

OnKshell == ~halted /\ cpu = Kshell

(* input_readchar: keyboard_getchar until it has a character *)
getchar_test ==
  /\ OnKshell /\ kpc = "test"
  /\ kpc' = IF head = tail THEN "hlt" ELSE "load"
  /\ UNCHANGED <<schedVars, keyVars, halted, ch, seen>>

getchar_load ==
  /\ OnKshell /\ kpc = "load"
  /\ ch' = buf[head] /\ kpc' = "advance"
  /\ UNCHANGED <<schedVars, keyVars, halted, seen>>

getchar_advance ==
  /\ OnKshell /\ kpc = "advance"
  /\ head' = (head + 1) % BufSize
  /\ seen' = Append(seen, ch) /\ kpc' = "test"
  /\ UNCHANGED <<schedVars, buf, tail, shift_down, e0_prefix, scans, pressed,
                 accepted, halted, ch>>

readchar_hlt ==
  /\ OnKshell /\ kpc = "hlt"
  /\ halted' = TRUE /\ kpc' = "test"
  /\ UNCHANGED <<schedVars, keyVars, ch, seen>>

KshellStep == getchar_test \/ getchar_load \/ getchar_advance \/ readchar_hlt

Next == \/ timer_irq \/ \E sc \in Scancodes : keyboard_irq(sc)
        \/ BootStep \/ BootHlt \/ KshellStep

(* The timer keeps ticking.  A tick lasts long enough for the thread it    *)
(* resumes to execute, hence strong fairness of the threads.               *)
Spec ==
  /\ Init /\ [][Next]_vars
  /\ WF_vars(timer_irq)
  /\ SF_vars(BootStep) /\ SF_vars(KshellStep)
-----------------------------------------------------------------------------
TypeOK ==
  /\ SchedTypeOK
  /\ buf \in [0 .. BufSize - 1 -> Chars]
  /\ head \in 0 .. BufSize - 1 /\ tail \in 0 .. BufSize - 1
  /\ {shift_down, e0_prefix, halted} \subseteq BOOLEAN
  /\ kpc \in {"test", "load", "advance", "hlt"} /\ ch \in Chars
  /\ scans \in 0 .. MaxScans /\ pressed \subseteq Shifts
  /\ accepted \in Seq(Chars) /\ seen \in Seq(Chars)

(* The ring loses, repeats and reorders nothing it has stored, however the *)
(* handler's stores fall between the accesses of keyboard_getchar, and     *)
(* also when it is full: what was read, what is in the ring, in order, is  *)
(* what was stored.                                                        *)
Pending == [i \in 1 .. (tail - head) % BufSize |-> buf[(head + i - 1) % BufSize]]
RingFifo == /\ accepted = seen \o Pending
            /\ kpc = "advance" => ch = buf[head]

(* Once kshell exists every key stored is read: the test that finds the    *)
(* ring empty, the interrupt that fills it and the hlt that follows may    *)
(* fall in the worst order (input.c:13 "el próximo IRQ1 despertará la CPU  *)
(* del hlt").                                                              *)
KeysDelivered ==
  \A n \in 1 .. MaxScans :
    state[Kshell] # "free" /\ Len(accepted) >= n ~> Len(seen) >= n

(* With both shift keys up the keyboard types plain characters again,      *)
(* whatever order they were used in and whatever extended keys were hit.   *)
NoStuckShift == pressed = {} => ~shift_down
=============================================================================
