------------------------------- MODULE KAhci -------------------------------
(***************************************************************************)
(* kernel/arch/x86/ahci.c in the running kernel: between two lines kshell  *)
(* runs commands that transfer sectors, with do_rw polling the controller  *)
(* while interrupts are off.                                               *)
(*                                                                         *)
(* A transfer is a number.  The controller (external) executes the command *)
(* table it finds when ci goes from 0 to 1; ci = 1 over a command that is  *)
(* still active starts nothing.  It clears ci when it has finished, and    *)
(* sets bit 30 of is instead of finishing when the disk reports an error,  *)
(* after which it does nothing until it is started again, which no code    *)
(* does.                                                                   *)
(***************************************************************************)
EXTENDS KConsole

CONSTANT MaxRw      \* bound: transfers

ASSUME AhciAssumption == MaxRw \in Nat

VARIABLES
  intr,         \* the interrupt flag
  dpc,          \* where kshell is in do_rw; "none" outside
  table,        \* the transfer the command table describes
  ci, is30,     \* g_port->ci & 1, bit 30 of g_port->is
  active,       \* controller: the transfer it works on, 0 none
  dead,         \* controller: stopped by an error
  rws,          \* history: transfers asked for
  moved,        \* history: transfers the disk has done
  claimed,      \* history: transfers do_rw has answered 0 for
  gave_up       \* history: a transfer timed out

ahciVars == <<intr, dpc, table, ci, is30, active, dead, rws, moved, claimed, gave_up>>
allVars  == <<vars, ahciVars>>

AhciInit ==
  /\ Init
  /\ intr = TRUE /\ dpc = "none" /\ table = 0 /\ ci = FALSE /\ is30 = FALSE
  /\ active = 0 /\ dead = FALSE /\ rws = 0 /\ moved = {} /\ claimed = {} /\ gave_up = FALSE

-----------------------------------------------------------------------------
(* do_rw, executed by kshell.  What the interrupts may do to it is between *)
(* its steps, up to cli.                                                   *)

Running == OnKshell /\ UNCHANGED vars

(* disk_read_sector or disk_write_sector: the header and the table of slot *)
(* 0 are overwritten.                                                      *)
rw_prepare ==
  /\ Running /\ kpc = "test" /\ dpc = "none" /\ rws < MaxRw
  /\ rws' = rws + 1 /\ table' = rws + 1 /\ dpc' = "issue"
  /\ UNCHANGED <<intr, ci, is30, active, dead, moved, claimed, gave_up>>

rw_issue ==
  /\ Running /\ dpc = "issue" /\ dpc' = "cli"
  /\ is30' = FALSE /\ ci' = TRUE /\ active' = IF ci THEN active ELSE table
  /\ UNCHANGED <<intr, table, dead, rws, moved, claimed, gave_up>>

rw_cli ==
  /\ Running /\ dpc = "cli" /\ dpc' = "poll" /\ intr' = FALSE
  /\ UNCHANGED <<table, ci, is30, active, dead, rws, moved, claimed, gave_up>>

Mut_rw_done ==
  /\ Running /\ dpc = "poll" /\ ~ci
  /\ claimed' = claimed \cup {table}
  /\ dpc' = "none" /\ intr' = TRUE
  /\ UNCHANGED <<table, ci, is30, active, dead, rws, moved, gave_up>>

(* CI[0] = 0: 0, or -1 when bit 30 is set. *)
rw_done ==
  /\ Running /\ dpc = "poll" /\ ~ci
  /\ claimed' = IF is30 THEN claimed ELSE claimed \cup {table}
  /\ dpc' = "none" /\ intr' = TRUE
  /\ UNCHANGED <<table, ci, is30, active, dead, rws, moved, gave_up>>

(* The polls run out: -1, and the command stays in the slot. *)
rw_timeout ==
  /\ Running /\ dpc = "poll" /\ ci
  /\ gave_up' = TRUE /\ dpc' = "none" /\ intr' = TRUE
  /\ UNCHANGED <<table, ci, is30, active, dead, rws, moved, claimed>>

do_rw == rw_issue \/ rw_cli \/ rw_done \/ rw_timeout

-----------------------------------------------------------------------------
(* The controller (external). *)

hba_complete ==
  /\ ci /\ active # 0 /\ ~dead
  /\ moved' = moved \cup {active} /\ active' = 0 /\ ci' = FALSE
  /\ UNCHANGED <<vars, intr, dpc, table, is30, dead, rws, claimed, gave_up>>

(* The disk reports an error: bit 30, and ci as the controller leaves it. *)
hba_error ==
  /\ ci /\ active # 0 /\ ~dead
  /\ is30' = TRUE /\ dead' = TRUE /\ active' = 0 /\ ci' \in BOOLEAN
  /\ UNCHANGED <<vars, intr, dpc, table, rws, moved, claimed, gave_up>>

-----------------------------------------------------------------------------
Timer    == intr /\ timer_irq /\ UNCHANGED ahciVars
Keyboard == intr /\ (\E sc \in Scancodes : keyboard_irq(sc)) /\ UNCHANGED ahciVars
Idle     == (BootStep \/ BootHlt) /\ UNCHANGED ahciVars
BootRuns == BootStep /\ UNCHANGED ahciVars
Reading  == dpc = "none" /\ KshellStep /\ UNCHANGED ahciVars

AhciNext ==
  \/ Timer \/ Keyboard \/ Idle \/ Reading
  \/ rw_prepare \/ do_rw
  \/ hba_complete \/ hba_error

(* The fairness of KConsole.  kshell also gets on with a transfer, which   *)
(* its bounded polling ends whatever the controller does.                  *)
AhciSpec ==
  /\ AhciInit /\ [][AhciNext]_allVars
  /\ WF_allVars(Timer)
  /\ SF_allVars(BootRuns) /\ SF_allVars(Reading) /\ SF_allVars(do_rw)
-----------------------------------------------------------------------------
(* A transfer do_rw answers 0 for has been done, by the command it issued  *)
(* and not by an earlier one, as long as none has timed out; a disk error  *)
(* is never taken for success.                                             *)
TransfersHonest == ~gave_up => claimed \subseteq moved
=============================================================================
