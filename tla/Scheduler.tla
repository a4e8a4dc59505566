----------------------------- MODULE Scheduler -----------------------------
(***************************************************************************)
(* The master clock and the table of pending events (src/scheduler.h,      *)
(* src/scheduler.cpp).                                                     *)
(*                                                                         *)
(* Each kind of event has one slot holding the timestamp it is due at.     *)
(* Nothing pending is the timestamp NEVER, a number no clock reaches: the  *)
(* code writes UINT64_MAX, and every comparison below is the plain         *)
(* comparison of timestamps the code makes.                                *)
(***************************************************************************)
EXTENDS Integers

CONSTANTS
  NEVER,    \* the timestamp of a slot with nothing pending
  Horizon   \* bound: the clock stops being advanced past this cycle

\* EventKind, and the place of each kind in the enum.
Kind == {"Hblank", "CdRom", "Timers", "Spu", "Sio", "Dma"}

EnumOrder ==
  [Hblank |-> 0, CdRom |-> 1, Timers |-> 2, Spu |-> 3, Sio |-> 4, Dma |-> 5]

VARIABLES
  now,        \* the master clock, in CPU cycles
  deadlines   \* deadlines[kind]: when that kind is due, or NEVER

\* The timestamps the table can hold.
Timestamp == 0 .. NEVER

\* The table `d` after schedule_at(k, t), which overwrites what was pending
\* for that kind, and after a slot has been emptied.
ScheduledAt(d, k, t) == [d EXCEPT ![k] = t]
Cleared(d, k) == [d EXCEPT ![k] = NEVER]

\* Mutant: the scan goes by enum order alone.
BeforeByEnum(d, j, k) == EnumOrder[j] <= EnumOrder[k]

\* Whether j's slot beats k's in the scan of next_due: it is earlier, or it
\* is as early and comes first in the enum.
Before(d, j, k) ==
  d[j] < d[k] \/ (d[j] = d[k] /\ EnumOrder[j] <= EnumOrder[k])

\* Mutant: an event is due only after its cycle.
DueLate == {k \in Kind : deadlines[k] < now}

\* The kinds whose time has come.
Due == {k \in Kind : deadlines[k] <= now}

\* next_due() returns the event of kind k.
NextDue(k) == k \in Due /\ \A j \in Due : Before(deadlines, k, j)
=============================================================================
