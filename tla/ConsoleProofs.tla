--------------------------- MODULE ConsoleProofs ---------------------------
(***************************************************************************)
(* Proofs about the run loop, for every period, cost, horizon and beam.    *)
(*                                                                         *)
(* The invariants of Console are not inductive by themselves: load_state   *)
(* puts back a state saved earlier, so what is claimed of the machine has  *)
(* to be claimed of the snapshot too, and a snapshot is only ever taken    *)
(* between instructions.                                                   *)
(***************************************************************************)
EXTENDS Console, TLAPS

SnapshotType ==
  [now : 0 .. Horizon, deadlines : [Kind -> Timestamp], dmaReady : BOOLEAN,
   scanline : 0 .. LinesPerFrame - 1, frames : Nat, status : SUBSET Watched,
   fired : [Periodic -> Nat], lastFired : Nat, beamMoved : BOOLEAN]

\* The heartbeats are on rate at clock n, with table d and f of them fired.
RatesHold(n, d, f) ==
  \A k \in Periodic : d[k] = (f[k] + 1) * Period[k] /\ f[k] * Period[k] <= n

\* Nothing is pending for a moment before l, the last one dispatched.
InOrder(n, d, l) == l <= n /\ \A k \in Kind : l <= d[k]

\* Nothing is due.
Quiet(n, d) == \A k \in Kind : n < d[k]

Types == TypeOK /\ saved \in SnapshotType

\* The inductive invariant: of the machine, and of the last state saved.
Inductive ==
  /\ Types
  /\ RatesHold(now, deadlines, fired)
  /\ InOrder(now, deadlines, lastFired)
  /\ phase = "cpu" => Quiet(now, deadlines)
  /\ RatesHold(saved.now, saved.deadlines, saved.fired)
  /\ InOrder(saved.now, saved.deadlines, saved.lastFired)
  /\ Quiet(saved.now, saved.deadlines)

-----------------------------------------------------------------------------
\* Every periodic kind is a kind, and the two that fire once are too.
LEMMA KindFacts ==
  /\ Periodic \subseteq Kind
  /\ "Sio" \in Kind \ Periodic /\ "Dma" \in Kind \ Periodic
  /\ "Hblank" \in Periodic /\ "CdRom" \in Periodic
  /\ "Timers" \in Periodic /\ "Spu" \in Periodic
BY DEF Kind, Periodic

\* The deadline after the next is one period on: the step a heartbeat takes.
LEMMA NextOccurrence ==
  ASSUME NEW n \in Nat, NEW p \in Nat
  PROVE  (n + 1) * p + p = ((n + 1) + 1) * p
OBVIOUS

\* A period is long enough to move a deadline and too short to reach NEVER.
LEMMA PeriodBounds ==
  ASSUME NEW k \in Periodic, NEW d \in Nat, d <= Horizon
  PROVE  /\ Period[k] \in Nat \ {0}
         /\ d + Period[k] \in Timestamp
         /\ d < d + Period[k]
BY ConsoleAssumption, NeverIsNever DEF Timestamp

\* The machine as it is built satisfies the invariant.
LEMMA InitInductive == Init => Inductive
<1> SUFFICES ASSUME Init PROVE Inductive
  OBVIOUS
<1>1. PowerOnDeadlines \in [Kind -> Timestamp]
  BY ConsoleAssumption, NeverIsNever, KindFacts DEF PowerOnDeadlines, Timestamp
<1>2. \A k \in Kind : 0 < PowerOnDeadlines[k]
  BY ConsoleAssumption, NeverIsNever, KindFacts DEF PowerOnDeadlines
<1>3. TypeOK
  <2>1. dmaReady \in BOOLEAN /\ beamMoved \in BOOLEAN
    BY Zenon DEF Init
  <2>2. now \in 0 .. Horizon /\ scanline \in 0 .. LinesPerFrame - 1
    BY ConsoleAssumption DEF Init
  <2>3. hold \in Nat /\ frames \in Nat /\ lastFired \in Nat
    BY DEF Init
  <2>4. status \in SUBSET Watched /\ fired \in [Periodic -> Nat]
    BY DEF Init
  <2> QED
    BY <1>1, <2>1, <2>2, <2>3, <2>4 DEF Init, TypeOK
<1>4. saved \in SnapshotType
  BY <1>1, ConsoleAssumption DEF Init, PowerOn, SnapshotType
<1>5. RatesHold(0, PowerOnDeadlines, [k \in Periodic |-> 0])
  BY ConsoleAssumption, KindFacts DEF RatesHold, PowerOnDeadlines
<1>6. InOrder(0, PowerOnDeadlines, 0) /\ Quiet(0, PowerOnDeadlines)
  BY <1>1, <1>2 DEF InOrder, Quiet, Timestamp
<1> QED
  BY <1>3, <1>4, <1>5, <1>6 DEF Init, Inductive, Types, PowerOn
-----------------------------------------------------------------------------
\* What a step must keep of the clock, the table and the history of what has
\* been dispatched; the rest of the invariant is types.
Dispatched ==
  /\ deadlines \in [Kind -> Timestamp]
  /\ fired \in [Periodic -> Nat]
  /\ lastFired \in Nat
  /\ RatesHold(now, deadlines, fired)
  /\ InOrder(now, deadlines, lastFired)

\* The event next_due hands over is due and no later than any other.
LEMMA FiresOldest ==
  ASSUME Inductive, NEW k \in Kind, Fires(k)
  PROVE  /\ deadlines[k] \in Nat /\ deadlines[k] <= now /\ now <= Horizon
         /\ \A j \in Kind : deadlines[k] <= deadlines[j]
         /\ lastFired' = deadlines[k]
         /\ now' = now
<1>1. now \in Nat /\ now <= Horizon /\ \A j \in Kind : deadlines[j] \in Nat
  BY ConsoleAssumption DEF Inductive, Types, TypeOK, Timestamp
<1>2. k \in Due /\ \A j \in Due : deadlines[k] <= deadlines[j]
  BY <1>1 DEF Fires, NextDue, Before, Due
<1>3. \A j \in Kind : deadlines[k] <= deadlines[j]
  BY <1>1, <1>2 DEF Due
<1> QED
  BY <1>1, <1>2, <1>3 DEF Fires, Due

\* A heartbeat fires: the table, the counts and the order of things keep.
LEMMA HeartbeatDispatched ==
  ASSUME Inductive, NEW k \in Periodic, Fires(k), Repeats(k)
  PROVE  Dispatched'
<1> USE KindFacts
<1>1. k \in Kind
  OBVIOUS
<1>2. /\ deadlines[k] \in Nat /\ deadlines[k] <= now /\ now <= Horizon
      /\ \A j \in Kind : deadlines[k] <= deadlines[j]
      /\ lastFired' = deadlines[k] /\ now' = now
  BY <1>1, FiresOldest
<1>3. /\ deadlines \in [Kind -> Timestamp] /\ fired \in [Periodic -> Nat]
      /\ now \in Nat
      /\ RatesHold(now, deadlines, fired)
  BY ConsoleAssumption DEF Inductive, Types, TypeOK
<1>4. /\ Period[k] \in Nat \ {0} /\ deadlines[k] + Period[k] \in Timestamp
      /\ deadlines[k] < deadlines[k] + Period[k]
  BY <1>2, <1>3, PeriodBounds, ConsoleAssumption
<1>5. /\ deadlines' = [deadlines EXCEPT ![k] = deadlines[k] + Period[k]]
      /\ fired' = [fired EXCEPT ![k] = fired[k] + 1]
  BY DEF Repeats, ScheduledAt
<1>6. deadlines' \in [Kind -> Timestamp] /\ fired' \in [Periodic -> Nat]
  BY <1>1, <1>3, <1>4, <1>5
<1>7. RatesHold(now, deadlines', fired')
  <2> SUFFICES ASSUME NEW j \in Periodic
               PROVE  /\ deadlines'[j] = (fired'[j] + 1) * Period[j]
                      /\ fired'[j] * Period[j] <= now
    BY DEF RatesHold
  <2>1. CASE j = k
    <3>1. deadlines[k] = (fired[k] + 1) * Period[k] /\ fired[k] \in Nat
      BY <1>3 DEF RatesHold
    <3>2. deadlines'[k] = deadlines[k] + Period[k] /\ fired'[k] = fired[k] + 1
      BY <1>1, <1>3, <1>5
    <3>3. (fired[k] + 1) * Period[k] + Period[k] = ((fired[k] + 1) + 1) * Period[k]
      BY <1>4, <3>1, NextOccurrence
    <3> QED
      BY <1>2, <2>1, <3>1, <3>2, <3>3
  <2>2. CASE j # k
    <3>1. deadlines'[j] = deadlines[j] /\ fired'[j] = fired[j]
      BY <1>3, <1>5, <2>2
    <3> QED
      BY <1>3, <3>1 DEF RatesHold
  <2> QED
    BY <2>1, <2>2
<1>8. InOrder(now, deadlines', deadlines[k])
  <2> SUFFICES ASSUME NEW j \in Kind PROVE deadlines[k] <= deadlines'[j]
    BY <1>2 DEF InOrder
  <2>1. deadlines'[j] = IF j = k THEN deadlines[k] + Period[k] ELSE deadlines[j]
    BY <1>3, <1>5
  <2> QED
    BY <1>2, <1>4, <2>1
<1> QED
  BY <1>2, <1>6, <1>7, <1>8 DEF Dispatched

\* An event that fires once moves its own slot, and not to before itself.
LEMMA OneShotDispatched ==
  ASSUME Inductive, NEW k \in Kind \ Periodic, Fires(k),
         NEW t \in Timestamp, deadlines[k] <= t,
         deadlines' = [deadlines EXCEPT ![k] = t], UNCHANGED fired
  PROVE  Dispatched'
<1> USE KindFacts
<1>1. k \in Kind
  OBVIOUS
<1>2. /\ deadlines[k] \in Nat /\ deadlines[k] <= now
      /\ \A j \in Kind : deadlines[k] <= deadlines[j]
      /\ lastFired' = deadlines[k] /\ now' = now
  BY <1>1, FiresOldest
<1>3. deadlines \in [Kind -> Timestamp] /\ fired \in [Periodic -> Nat]
  BY DEF Inductive, Types, TypeOK
<1>4. deadlines' \in [Kind -> Timestamp]
  BY <1>3
<1>5. \A j \in Kind : deadlines'[j] = IF j = k THEN t ELSE deadlines[j]
  BY <1>3
<1>6. RatesHold(now, deadlines', fired')
  <2>1. \A j \in Periodic : deadlines'[j] = deadlines[j]
    BY <1>5
  <2> QED
    BY <2>1 DEF Inductive, RatesHold
<1>7. InOrder(now, deadlines', deadlines[k])
  BY <1>2, <1>5 DEF InOrder
<1> QED
  BY <1>2, <1>3, <1>4, <1>6, <1>7 DEF Dispatched

\* An instruction moves the clock on and may schedule the two one-shot kinds
\* for no earlier than the cycle it ran on.
LEMMA InstructionDispatched ==
  ASSUME Inductive, NEW c \in CpuCycles, Retire(c),
         NEW k \in Kind \ Periodic, NEW t \in Timestamp, now <= t,
         deadlines' \in {deadlines, [deadlines EXCEPT ![k] = t]}
  PROVE  Dispatched' /\ now' \in 0 .. Horizon
<1> USE KindFacts
<1>1. /\ deadlines \in [Kind -> Timestamp] /\ fired \in [Periodic -> Nat]
      /\ lastFired \in Nat /\ now \in Nat /\ hold \in Nat
      /\ RatesHold(now, deadlines, fired) /\ InOrder(now, deadlines, lastFired)
  BY ConsoleAssumption DEF Inductive, Types, TypeOK
<1>2. now <= now' /\ now' \in 0 .. Horizon
  BY <1>1, ConsoleAssumption DEF Retire, DmaStall
<1>3. fired' = fired /\ lastFired' = lastFired
  BY DEF Retire
<1>4. deadlines' \in [Kind -> Timestamp]
  BY <1>1
<1>5. \A j \in Kind : deadlines'[j] = deadlines[j] \/ (j = k /\ deadlines'[j] = t)
  BY <1>1
<1>6. RatesHold(now', deadlines', fired)
  <2> SUFFICES ASSUME NEW j \in Periodic
               PROVE  /\ deadlines'[j] = (fired[j] + 1) * Period[j]
                      /\ fired[j] * Period[j] <= now'
    BY DEF RatesHold
  <2>1. deadlines'[j] = deadlines[j]
    BY <1>5
  <2>2. deadlines[j] = (fired[j] + 1) * Period[j] /\ fired[j] * Period[j] <= now
    BY <1>1 DEF RatesHold
  <2>3. fired[j] * Period[j] \in Nat
    BY <1>1, ConsoleAssumption
  <2> QED
    BY <1>1, <1>2, <2>1, <2>2, <2>3
<1>7. InOrder(now', deadlines', lastFired)
  BY <1>1, <1>2, <1>4, <1>5 DEF InOrder, Timestamp
<1> QED
  BY <1>1, <1>2, <1>3, <1>4, <1>6, <1>7 DEF Dispatched
-----------------------------------------------------------------------------
\* What is left of the invariant once Dispatched is known: the types of the
\* machine's other parts, and nothing due between instructions.
Rest ==
  /\ now \in 0 .. Horizon
  /\ phase \in {"cpu", "dispatch"}
  /\ hold \in Nat
  /\ dmaReady \in BOOLEAN
  /\ scanline \in 0 .. LinesPerFrame - 1
  /\ frames \in Nat
  /\ status \in SUBSET Watched
  /\ beamMoved \in BOOLEAN
  /\ phase = "cpu" => Quiet(now, deadlines)

\* The invariant splits into the two, and what is saved.
LEMMA Split ==
  ASSUME Inductive PROVE Dispatched /\ Rest
BY DEF Inductive, Types, TypeOK, Dispatched, Rest

\* A step that leaves the saved state alone has only those two to keep.
LEMMA Join ==
  ASSUME Inductive, Dispatched', Rest', UNCHANGED saved
  PROVE  Inductive'
<1>1. TypeOK'
  BY DEF Dispatched, Rest, TypeOK
<1>2. Types'
  BY <1>1 DEF Inductive, Types
<1> QED
  BY <1>2 DEF Inductive, Dispatched, Rest, RatesHold, InOrder, Quiet

\* Raising lines keeps the type of I_STAT.
LEMMA RaisedType ==
  ASSUME status \in SUBSET Watched, NEW S, Raised(S)
  PROVE  status' \in SUBSET Watched
BY DEF Raised

\* The instructions keep the invariant.
LEMMA CpuStepInductive ==
  ASSUME Inductive, CpuStep PROVE Inductive'
<1> USE KindFacts
<1>1. PICK c \in CpuCycles :
        \/ Plain(c)
        \/ \E ready \in BOOLEAN : WriteDma(c, ready)
        \/ \E line \in Watched : WriteIStat(c, Line \ {line})
        \/ \E delay \in AckDelays : SendByte(c, delay)
        \/ WriteGp1Reset(c)
  BY DEF CpuStep
<1>2. Retire(c)
  BY <1>1 DEF Plain, WriteDma, WriteIStat, SendByte, WriteGp1Reset
<1>3. Rest
  BY Split
<1>4. now \in Timestamp
  BY <1>3, ConsoleAssumption, NeverIsNever DEF Rest, Timestamp
<1>5. /\ phase' = "dispatch" /\ hold' = hold /\ frames' = frames /\ saved' = saved
      /\ now + DmaStall + c <= Horizon
  BY <1>2 DEF Retire
<1>6. hold' \in Nat /\ frames' \in Nat
  BY <1>3, <1>5 DEF Rest
<1>7. CASE Plain(c)
  <2>1. Dispatched' /\ now' \in 0 .. Horizon
    <3>1. deadlines' \in {deadlines, [deadlines EXCEPT !["Dma"] = now]}
      BY <1>7 DEF Plain
    <3> QED
      BY <1>2, <1>3, <1>4, <3>1, InstructionDispatched DEF Rest
  <2>2. Rest'
    BY <1>3, <1>5, <1>6, <1>7, <2>1 DEF Plain, Rest
  <2> QED
    BY <1>5, <2>1, <2>2, Join
<1>8. ASSUME NEW ready \in BOOLEAN, WriteDma(c, ready) PROVE Inductive'
  <2>1. deadlines' \in {deadlines, [deadlines EXCEPT !["Dma"] = now]}
    BY <1>8 DEF WriteDma, ScheduledAt
  <2>2. Dispatched' /\ now' \in 0 .. Horizon
    BY <1>2, <1>3, <1>4, <2>1, InstructionDispatched DEF Rest
  <2>3. status' \in SUBSET Watched
    BY <1>3, <1>8, RaisedType DEF WriteDma, Rest
  <2>4. Rest'
    BY <1>3, <1>5, <1>6, <1>8, <2>2, <2>3 DEF WriteDma, Rest
  <2> QED
    BY <1>5, <2>2, <2>4, Join
<1>9. ASSUME NEW line \in Watched, WriteIStat(c, Line \ {line}) PROVE Inductive'
  <2>1. Dispatched' /\ now' \in 0 .. Horizon
    <3>1. deadlines' \in {deadlines, [deadlines EXCEPT !["Dma"] = now]}
      BY <1>9 DEF WriteIStat
    <3> QED
      BY <1>2, <1>3, <1>4, <3>1, InstructionDispatched DEF Rest
  <2>2. status' \in SUBSET Watched
    BY <1>3, <1>9 DEF WriteIStat, Rest
  <2>3. Rest'
    BY <1>3, <1>5, <1>6, <1>9, <2>1, <2>2 DEF WriteIStat, Rest
  <2> QED
    BY <1>5, <2>1, <2>3, Join
<1>10. ASSUME NEW delay \in AckDelays, SendByte(c, delay) PROVE Inductive'
  <2>1. deadlines' = [deadlines EXCEPT !["Sio"] = now + delay]
    BY <1>10 DEF SendByte, ScheduledAt
  <2>2. now + delay \in Timestamp /\ now <= now + delay
    BY <1>3, ConsoleAssumption, NeverIsNever DEF Rest, Timestamp
  <2>3. Dispatched' /\ now' \in 0 .. Horizon
    BY <1>2, <2>1, <2>2, InstructionDispatched
  <2>4. Rest'
    BY <1>3, <1>5, <1>6, <1>10, <2>3 DEF SendByte, Rest
  <2> QED
    BY <1>5, <2>3, <2>4, Join
<1>11. CASE WriteGp1Reset(c)
  <2>1. Dispatched' /\ now' \in 0 .. Horizon
    <3>1. deadlines' \in {deadlines, [deadlines EXCEPT !["Dma"] = now]}
      BY <1>11 DEF WriteGp1Reset
    <3> QED
      BY <1>2, <1>3, <1>4, <3>1, InstructionDispatched DEF Rest
  <2>2. scanline' \in 0 .. LinesPerFrame - 1
    BY <1>11, ConsoleAssumption DEF WriteGp1Reset
  <2>3. beamMoved' \in BOOLEAN /\ dmaReady' = dmaReady /\ status' = status
    BY <1>11, Zenon DEF WriteGp1Reset
  <2>4. Rest'
    BY <1>3, <1>5, <1>6, <2>1, <2>2, <2>3 DEF Rest
  <2> QED
    BY <1>5, <2>1, <2>4, Join
<1> QED
  BY <1>1, <1>7, <1>8, <1>9, <1>10, <1>11

\* A dispatched event leaves the loop where it was.
LEMMA FiresRest ==
  ASSUME Inductive, NEW k \in Kind, Fires(k)
  PROVE  /\ phase' = "dispatch" /\ now' \in 0 .. Horizon
         /\ beamMoved' = beamMoved /\ saved' = saved
BY DEF Fires, Inductive, Types, TypeOK

\* The handlers keep the invariant, and so does the end of the loop.
LEMMA DispatchInductive ==
  ASSUME Inductive, Dispatch PROVE Inductive'
<1> USE KindFacts
<1>1. Rest /\ Dispatched
  BY Split
<1>2. deadlines["Dma"] \in Nat /\ deadlines["Sio"] \in Timestamp
  BY <1>1, ConsoleAssumption DEF Dispatched, Timestamp
<1>3. CASE Hblank
  <2>1. Dispatched'
    BY <1>3, HeartbeatDispatched DEF Hblank
  <2>2. /\ phase' = "dispatch" /\ now' \in 0 .. Horizon
        /\ beamMoved' = beamMoved /\ saved' = saved
    BY <1>3, FiresRest DEF Hblank
  <2>3. scanline' \in 0 .. LinesPerFrame - 1
    BY <1>1, <1>3, ConsoleAssumption DEF Hblank, NextScanline, Rest
  <2>4. frames' \in Nat
    BY <1>1, <1>3 DEF Hblank, Rest
  <2>5. status' \in SUBSET Watched
    BY <1>1, <1>3, RaisedType DEF Hblank, Rest
  <2>6. Rest'
    BY <1>1, <1>3, <2>2, <2>3, <2>4, <2>5 DEF Hblank, Rest
  <2> QED
    BY <2>1, <2>2, <2>6, Join
<1>4. ASSUME NEW k \in Periodic, NEW line, Heartbeat(k, line) PROVE Inductive'
  <2>1. Dispatched'
    BY <1>4, HeartbeatDispatched DEF Heartbeat
  <2>2. /\ phase' = "dispatch" /\ now' \in 0 .. Horizon
        /\ beamMoved' = beamMoved /\ saved' = saved
    BY <1>4, FiresRest DEF Heartbeat
  <2>3. status' \in SUBSET Watched
    BY <1>1, <1>4, RaisedType DEF Heartbeat, Rest
  <2>4. Rest'
    BY <1>1, <1>4, <2>2, <2>3 DEF Heartbeat, Rest
  <2> QED
    BY <2>1, <2>2, <2>4, Join
<1>5. CASE Sio
  <2>1. deadlines' = [deadlines EXCEPT !["Sio"] = NEVER] /\ UNCHANGED fired
    BY <1>5 DEF Sio, Cleared
  <2>2. NEVER \in Timestamp /\ deadlines["Sio"] <= NEVER
    BY <1>2, ConsoleAssumption DEF Timestamp
  <2>3. Dispatched'
    BY <1>5, <2>1, <2>2, OneShotDispatched DEF Sio
  <2>4. /\ phase' = "dispatch" /\ now' \in 0 .. Horizon
        /\ beamMoved' = beamMoved /\ saved' = saved
    BY <1>5, FiresRest DEF Sio
  <2>5. status' \in SUBSET Watched
    BY <1>1, <1>5, RaisedType DEF Sio, Rest
  <2>6. Rest'
    BY <1>1, <1>5, <2>4, <2>5 DEF Sio, Rest
  <2> QED
    BY <2>3, <2>4, <2>6, Join
<1>6. CASE DmaIdle
  <2>1. deadlines' = [deadlines EXCEPT !["Dma"] = NEVER] /\ UNCHANGED fired
    BY <1>6 DEF DmaIdle, Cleared
  <2>2. NEVER \in Timestamp /\ deadlines["Dma"] <= NEVER
    BY <1>1, ConsoleAssumption DEF Timestamp, Dispatched
  <2>3. Dispatched'
    BY <1>6, <2>1, <2>2, OneShotDispatched DEF DmaIdle
  <2>4. /\ phase' = "dispatch" /\ now' \in 0 .. Horizon
        /\ beamMoved' = beamMoved /\ saved' = saved
    BY <1>6, FiresRest DEF DmaIdle
  <2>5. Rest'
    BY <1>1, <1>6, <2>4 DEF DmaIdle, Rest
  <2> QED
    BY <2>3, <2>4, <2>5, Join
<1>7. CASE DmaRetry
  <2>1. deadlines["Dma"] <= Horizon
    BY <1>1, <1>2, <1>7, FiresOldest, ConsoleAssumption DEF DmaRetry, Rest
  <2>2. /\ deadlines' = [deadlines EXCEPT !["Dma"] = deadlines["Dma"] + RetryCycles]
        /\ UNCHANGED fired
    BY <1>7 DEF DmaRetry, ScheduledAt
  <2>3. /\ deadlines["Dma"] + RetryCycles \in Timestamp
        /\ deadlines["Dma"] <= deadlines["Dma"] + RetryCycles
    BY <1>2, <2>1, ConsoleAssumption, NeverIsNever DEF Timestamp
  <2>4. Dispatched'
    BY <1>7, <2>2, <2>3, OneShotDispatched DEF DmaRetry
  <2>5. /\ phase' = "dispatch" /\ now' \in 0 .. Horizon
        /\ beamMoved' = beamMoved /\ saved' = saved
    BY <1>7, FiresRest DEF DmaRetry
  <2>6. Rest'
    BY <1>1, <1>7, <2>5 DEF DmaRetry, Rest
  <2> QED
    BY <2>4, <2>5, <2>6, Join
<1>8. CASE DmaBlock
  <2>1. deadlines["Dma"] <= Horizon
    BY <1>1, <1>2, <1>8, FiresOldest, ConsoleAssumption DEF DmaBlock, Rest
  <2>2. PICK h \in DmaHolds, g \in DmaGaps :
          /\ hold' = deadlines["Dma"] + h
          /\ deadlines' = [deadlines EXCEPT !["Dma"] = deadlines["Dma"] + Spent(h, g)]
    BY <1>8 DEF DmaBlock, ScheduledAt
  <2>3. /\ deadlines["Dma"] + Spent(h, g) \in Timestamp
        /\ deadlines["Dma"] <= deadlines["Dma"] + Spent(h, g)
    BY <1>2, <2>1, ConsoleAssumption, NeverIsNever DEF Timestamp, Spent
  <2>4. Dispatched'
    BY <1>8, <2>2, <2>3, OneShotDispatched DEF DmaBlock
  <2>5. /\ phase' = "dispatch" /\ now' \in 0 .. Horizon
        /\ beamMoved' = beamMoved /\ saved' = saved
    BY <1>8, FiresRest DEF DmaBlock
  <2>6. hold' \in Nat
    BY <1>2, <2>2, ConsoleAssumption
  <2>7. status' \in SUBSET Watched
    BY <1>1, <1>8, RaisedType DEF DmaBlock, Rest
  <2>8. Rest'
    BY <1>1, <1>8, <2>5, <2>6, <2>7 DEF DmaBlock, Rest
  <2> QED
    BY <2>4, <2>5, <2>8, Join
<1>9. CASE Drained
  <2>1. Dispatched'
    BY <1>1, <1>9 DEF Drained, clock, history, Dispatched
  <2>2. Quiet(now, deadlines)
    BY <1>1, <1>9, ConsoleAssumption DEF Drained, Due, Quiet, Dispatched, Rest, Timestamp
  <2>3. Rest' /\ UNCHANGED saved
    BY <1>1, <1>9, <2>2 DEF Drained, clock, history, Rest
  <2> QED
    BY <2>1, <2>3, Join
<1> QED
  BY <1>3, <1>4, <1>5, <1>6, <1>7, <1>8, <1>9 DEF Dispatch
-----------------------------------------------------------------------------
\* The host's operations keep the invariant: a reset is the power-on state as
\* far as it goes, a save is taken where nothing is due, a load puts back
\* what a save took.
LEMMA HostInductive ==
  ASSUME Inductive, Reset \/ Save \/ Load PROVE Inductive'
<1>1. Rest /\ Dispatched
  BY Split
<1>2. CASE Reset
  <2>1. Dispatched'
    <3>1. /\ PowerOnDeadlines \in [Kind -> Timestamp]
          /\ \A k \in Kind : 0 <= PowerOnDeadlines[k]
      BY ConsoleAssumption, NeverIsNever, KindFacts DEF PowerOnDeadlines, Timestamp
    <3>2. RatesHold(0, PowerOnDeadlines, [k \in Periodic |-> 0])
      BY ConsoleAssumption, KindFacts DEF RatesHold, PowerOnDeadlines
    <3> QED
      BY <1>2, <3>1, <3>2 DEF Reset, Dispatched, InOrder
  <2>2. Quiet(0, PowerOnDeadlines)
    BY ConsoleAssumption, NeverIsNever, KindFacts DEF PowerOnDeadlines, Quiet
  <2>3. dmaReady' \in BOOLEAN /\ beamMoved' \in BOOLEAN
    BY <1>2, Zenon DEF Reset
  <2>4. now' \in 0 .. Horizon /\ scanline' \in 0 .. LinesPerFrame - 1
    BY <1>2, ConsoleAssumption DEF Reset
  <2>5. Rest'
    BY <1>1, <1>2, <2>2, <2>3, <2>4 DEF Reset, Rest, Quiet
  <2> QED
    BY <1>2, <2>1, <2>5, Join DEF Reset
<1>3. CASE Save
  <2>1. saved' \in SnapshotType
    BY <1>1, <1>3 DEF Save, Snapshot, SnapshotType, Dispatched, Rest
  <2>2. TypeOK'
    BY <1>3 DEF Save, clock, history, Inductive, Types, TypeOK
  <2>3. Quiet(now, deadlines)
    BY <1>1, <1>3 DEF Save, Rest
  <2>4. /\ saved'.now = now /\ saved'.deadlines = deadlines
        /\ saved'.fired = fired /\ saved'.lastFired = lastFired
    BY <1>3 DEF Save, Snapshot
  <2>5. UNCHANGED <<now, deadlines, fired, lastFired, phase>>
    BY <1>3 DEF Save, clock, history
  <2> QED
    BY <1>1, <2>1, <2>2, <2>3, <2>4, <2>5
    DEF Inductive, Types, Dispatched, RatesHold, InOrder, Quiet
<1>4. CASE Load
  <2>1. saved \in SnapshotType
    BY DEF Inductive, Types
  <2>2. Dispatched'
    BY <1>4, <2>1
    DEF Load, SnapshotType, Inductive, Dispatched, RatesHold, InOrder
  <2>3. /\ now' \in 0 .. Horizon /\ dmaReady' \in BOOLEAN
        /\ scanline' \in 0 .. LinesPerFrame - 1 /\ frames' \in Nat
        /\ status' \in SUBSET Watched /\ beamMoved' \in BOOLEAN
    BY <1>4, <2>1 DEF Load, SnapshotType
  <2>4. Quiet(now', deadlines')
    BY <1>4 DEF Load, Inductive, Quiet
  <2>5. Rest'
    BY <1>1, <1>4, <2>3, <2>4 DEF Load, Rest, Quiet
  <2> QED
    BY <1>4, <2>2, <2>5, Join DEF Load
<1> QED
  BY <1>2, <1>3, <1>4

\* A step that changes nothing keeps the invariant.
LEMMA StutterInductive ==
  ASSUME Inductive, UNCHANGED vars PROVE Inductive'
BY DEF vars, clock, history, Inductive, Types, TypeOK, RatesHold, InOrder, Quiet

\* The inductive invariant of the run loop.
THEOREM ConsoleInductive == Spec => []Inductive
<1>1. Init => Inductive
  BY InitInductive
<1>2. Inductive /\ [Next]_vars => Inductive'
  BY CpuStepInductive, DispatchInductive, HostInductive, StutterInductive DEF Next
<1> QED
  BY <1>1, <1>2, PTL DEF Spec

\* Type correctness of the run loop: the clock never passes the horizon, no
\* slot of the event table passes NEVER, the beam never leaves the frame.
THEOREM ConsoleTypeOK == Spec => []TypeOK
<1>1. Inductive => TypeOK
  BY DEF Inductive, Types
<1> QED
  BY <1>1, ConsoleInductive, PTL

\* Every heartbeat stays exactly on rate for ever, whatever instructions
\* cost, however long DMA stalls them, and across resets and save states.
THEOREM ConsoleOnRate == Spec => []OnRate
<1>1. Inductive => OnRate
  BY KindFacts DEF Inductive, RatesHold, Quiet, OnRate
<1> QED
  BY <1>1, ConsoleInductive, PTL

\* Events fire in chronological order across devices and instructions.
THEOREM ConsoleChronological == Spec => []Chronological
<1>1. Inductive => Chronological
  BY DEF Inductive, InOrder, Chronological
<1> QED
  BY <1>1, ConsoleInductive, PTL

\* No instruction runs while an event it should have seen is still pending.
THEOREM ConsoleNothingOverdue == Spec => []NothingOverdue
<1>1. Inductive => NothingOverdue
  BY DEF Inductive, Quiet, NothingOverdue
<1> QED
  BY <1>1, ConsoleInductive, PTL

\* An event that puts its own slot later moves the loop on.
LEMMA OwnSlotMovesOn ==
  ASSUME Inductive, NEW k \in Kind, Fires(k), NEW t \in Nat, deadlines[k] < t,
         deadlines' = [deadlines EXCEPT ![k] = t]
  PROVE  DispatchMovesOn
<1>1. k \in Due /\ now' = now
  BY DEF Fires, NextDue
<1>2. deadlines \in [Kind -> Timestamp]
  BY DEF Inductive, Types, TypeOK
<1>3. deadlines'[k] = t /\ \A j \in Kind \ {k} : deadlines'[j] = deadlines[j]
  BY <1>2
<1>4. deadlines'[k] > deadlines[k]
  BY <1>2, <1>3, ConsoleAssumption DEF Timestamp
<1> QED
  BY <1>1, <1>3, <1>4 DEF DispatchMovesOn

\* A heartbeat's next occurrence is a period later, and a period is not nothing.
LEMMA HeartbeatMovesOn ==
  ASSUME Inductive, NEW k \in Periodic, Fires(k), Repeats(k)
  PROVE  DispatchMovesOn
<1>1. k \in Kind
  BY KindFacts
<1>2. deadlines[k] \in Nat /\ deadlines[k] <= Horizon
  BY <1>1, FiresOldest, ConsoleAssumption DEF Inductive, Types, TypeOK
<1>3. deadlines[k] + Period[k] \in Nat /\ deadlines[k] < deadlines[k] + Period[k]
  BY <1>2, PeriodBounds
<1>4. deadlines' = [deadlines EXCEPT ![k] = deadlines[k] + Period[k]]
  BY DEF Repeats, ScheduledAt
<1> QED
  BY <1>1, <1>2, <1>3, <1>4, OwnSlotMovesOn

\* Every step that stays in the loop moves it on.
LEMMA StepMovesOn == ASSUME Inductive, Next PROVE DispatchMovesOn
<1> USE KindFacts
<1>1. ASSUME NEW k \in Kind, Fires(k)
      PROVE  deadlines[k] \in Nat /\ deadlines[k] <= Horizon
  BY <1>1, FiresOldest, ConsoleAssumption DEF Inductive, Types, TypeOK
<1>2. CASE CpuStep \/ Reset \/ Save \/ Load \/ Drained
  <2>1. phase = "cpu" \/ phase' = "cpu"
    BY <1>2 DEF CpuStep, Plain, WriteDma, WriteIStat, SendByte, WriteGp1Reset,
                Retire, Reset, Save, Load, Drained
  <2> QED
    BY <2>1 DEF DispatchMovesOn
<1>3. CASE Hblank
  BY <1>3, HeartbeatMovesOn DEF Hblank
<1>4. ASSUME NEW k \in Periodic, NEW line, Heartbeat(k, line)
      PROVE  DispatchMovesOn
  BY <1>4, HeartbeatMovesOn DEF Heartbeat
<1>5. ASSUME NEW k \in {"Sio", "Dma"}, Fires(k), deadlines' = Cleared(deadlines, k)
      PROVE  DispatchMovesOn
  <2>1. deadlines[k] < NEVER /\ NEVER \in Nat
    BY <1>1, <1>5, ConsoleAssumption, NeverIsNever
  <2> QED
    BY <1>5, <2>1, OwnSlotMovesOn DEF Cleared
<1>6. CASE Sio
  BY <1>5, <1>6 DEF Sio
<1>7. CASE DmaIdle
  BY <1>5, <1>7 DEF DmaIdle
<1>8. CASE DmaRetry
  <2>1. /\ deadlines["Dma"] + RetryCycles \in Nat
        /\ deadlines["Dma"] < deadlines["Dma"] + RetryCycles
    BY <1>1, <1>8, ConsoleAssumption DEF DmaRetry
  <2> QED
    BY <1>8, <2>1, OwnSlotMovesOn DEF DmaRetry, ScheduledAt
<1>9. CASE DmaBlock
  <2>1. PICK h \in DmaHolds, g \in DmaGaps :
          deadlines' = [deadlines EXCEPT !["Dma"] = deadlines["Dma"] + Spent(h, g)]
    BY <1>9 DEF DmaBlock, ScheduledAt
  <2>2. Spent(h, g) \in Nat \ {0}
    BY ConsoleAssumption DEF Spent
  <2>3. /\ deadlines["Dma"] + Spent(h, g) \in Nat
        /\ deadlines["Dma"] < deadlines["Dma"] + Spent(h, g)
    BY <1>1, <1>9, <2>2 DEF DmaBlock
  <2> QED
    BY <1>9, <2>1, <2>3, OwnSlotMovesOn DEF DmaBlock
<1> QED
  BY <1>2, <1>3, <1>4, <1>6, <1>7, <1>8, <1>9 DEF Next, Dispatch

\* The event loop inside an instruction always runs dry: each of its turns
\* puts one of the slots that are due strictly later and moves no other.
THEOREM ConsoleDispatchAdvances == Spec => DispatchAdvances
<1>1. Inductive /\ [Next]_vars => [DispatchMovesOn]_vars
  BY StepMovesOn
<1> QED
  BY <1>1, ConsoleInductive, PTL DEF Spec, DispatchAdvances

-----------------------------------------------------------------------------
(* The beam.  The GPU steps it line by line and the root counters divide   *)
(* it out of the clock: what both agree on is the lines fired, cut into    *)
(* whole frames and a part of one, in which vertical blank has begun or    *)
(* has not.  The same is kept of the last state saved.                     *)

BeamAt(moved, line, count, lines) ==
  ~moved => \E q \in Nat :
    /\ lines = (q * LinesPerFrame) + line
    /\ count = q + (IF line >= VisibleLines THEN 1 ELSE 0)

BeamInv ==
  /\ BeamAt(beamMoved, scanline, frames, fired["Hblank"])
  /\ BeamAt(saved.beamMoved, saved.scanline, saved.frames, saved.fired["Hblank"])

\* Quotient and remainder are what they are said to be, for any divisor.
LEMMA Quotient ==
  ASSUME NEW C \in Nat \ {0}, NEW q \in Nat, NEW r \in 0 .. C - 1
  PROVE  ((q * C) + r) \div C = q /\ ((q * C) + r) % C = r
<1> DEFINE a == (q * C) + r
<1> DEFINE d == a \div C
<1> DEFINE m == a % C
<1>1. a \in Nat
  OBVIOUS
<1> HIDE DEF a
<1>2. d \in Nat /\ m \in 0 .. C - 1 /\ a = (d * C) + m
  BY <1>1
<1>3. (d * C) + m = (q * C) + r
  BY <1>2 DEF a
<1> HIDE DEF d, m
<1>4. (d - q) * C = r - m
  <2>1. (d - q) * C = (d * C) - (q * C)
    BY <1>2
  <2>2. d * C \in Int /\ q * C \in Int
    BY <1>2
  <2> QED
    BY <1>2, <1>3, <2>1, <2>2
<1>5. d = q
  <2>1. CASE d - q >= 1
    <3>1. (d - q - 1) * C >= 0
      BY <1>2, <2>1
    <3>2. (d - q - 1) * C = ((d - q) * C) - C
      BY <1>2
    <3> QED
      BY <1>2, <1>4, <3>1, <3>2
  <2>2. CASE d - q <= -1
    <3>1. (q - d - 1) * C >= 0
      BY <1>2, <2>2
    <3>2. (q - d - 1) * C = -((d - q) * C) - C
      BY <1>2
    <3> QED
      BY <1>2, <1>4, <3>1, <3>2
  <2> QED
    BY <1>2, <2>1, <2>2
<1>6. m = r
  BY <1>2, <1>4, <1>5
<1> QED
  BY <1>5, <1>6 DEF d, m, a

\* A line more: the same frame, or the first line of the next.
LEMMA BeamSteps ==
  ASSUME Inductive, BeamInv, Hblank
  PROVE  BeamInv'
<1>1. /\ scanline \in 0 .. LinesPerFrame - 1 /\ frames \in Nat
      /\ fired \in [Periodic -> Nat]
  BY DEF Inductive, Types, TypeOK
<1>2. /\ fired'["Hblank"] = fired["Hblank"] + 1
      /\ beamMoved' = beamMoved /\ saved' = saved
      /\ scanline' = IF scanline + 1 >= LinesPerFrame THEN 0 ELSE scanline + 1
      /\ frames' = IF scanline + 1 = VisibleLines THEN frames + 1 ELSE frames
  BY <1>1, KindFacts DEF Hblank, Fires, NextScanline, VBlankBegins, Repeats
<1>3. /\ LinesPerFrame \in Nat /\ VisibleLines \in Nat
      /\ 0 < VisibleLines /\ VisibleLines < LinesPerFrame
  BY ConsoleAssumption
<1>4. ASSUME ~beamMoved
      PROVE  \E q \in Nat :
               /\ fired'["Hblank"] = (q * LinesPerFrame) + scanline'
               /\ frames' = q + (IF scanline' >= VisibleLines THEN 1 ELSE 0)
  <2>1. PICK q \in Nat : /\ fired["Hblank"] = (q * LinesPerFrame) + scanline
                         /\ frames = q + (IF scanline >= VisibleLines THEN 1 ELSE 0)
    BY <1>4 DEF BeamInv, BeamAt
  <2>2. q * LinesPerFrame \in Nat /\ (q + 1) * LinesPerFrame = (q * LinesPerFrame) + LinesPerFrame
    BY <1>3
  <2>3. CASE scanline + 1 >= LinesPerFrame
    <3>1. scanline' = 0 /\ fired'["Hblank"] = ((q + 1) * LinesPerFrame) + scanline'
      BY <1>1, <1>2, <1>3, <2>1, <2>2, <2>3
    <3>2. frames' = (q + 1) + (IF scanline' >= VisibleLines THEN 1 ELSE 0)
      BY <1>1, <1>2, <1>3, <2>1, <2>3, <3>1
    <3> QED
      BY <3>1, <3>2
  <2>4. CASE ~(scanline + 1 >= LinesPerFrame)
    <3>1. scanline' = scanline + 1 /\ fired'["Hblank"] = (q * LinesPerFrame) + scanline'
      BY <1>1, <1>2, <1>3, <2>1, <2>2, <2>4
    <3>2. frames' = q + (IF scanline' >= VisibleLines THEN 1 ELSE 0)
      BY <1>1, <1>2, <1>3, <2>1, <2>4, <3>1
    <3> QED
      BY <3>1, <3>2
  <2> QED
    BY <2>3, <2>4
<1> QED
  BY <1>2, <1>4 DEF BeamInv, BeamAt

\* Software that puts the beam back is excused; nothing else moves it.
LEMMA BeamKept ==
  ASSUME Inductive, BeamInv, [Next]_vars
  PROVE  BeamInv'
<1>1. ASSUME UNCHANGED <<beamMoved, scanline, frames, saved>>,
             fired'["Hblank"] = fired["Hblank"]
      PROVE  BeamInv'
  BY <1>1 DEF BeamInv
<1>2. CASE CpuStep
  <2>1. PICK c \in CpuCycles :
          \/ Plain(c)
          \/ \E ready \in BOOLEAN : WriteDma(c, ready)
          \/ \E line \in Watched : WriteIStat(c, Line \ {line})
          \/ \E delay \in AckDelays : SendByte(c, delay)
          \/ WriteGp1Reset(c)
    BY <1>2 DEF CpuStep
  <2>2. CASE WriteGp1Reset(c)
    BY <2>2 DEF WriteGp1Reset, Retire, BeamInv, BeamAt
  <2>3. CASE ~WriteGp1Reset(c)
    BY <1>1, <2>1, <2>3 DEF Plain, WriteDma, WriteIStat, SendByte, Retire
  <2> QED
    BY <2>2, <2>3
<1>3. CASE Hblank
  BY <1>3, BeamSteps
<1>4. ASSUME NEW k \in {"CdRom", "Timers", "Spu"}, NEW line, Heartbeat(k, line)
      PROVE  BeamInv'
  <2>1. fired \in [Periodic -> Nat] /\ k # "Hblank"
    BY DEF Inductive, Types, TypeOK
  <2>2. fired'["Hblank"] = fired["Hblank"]
    BY <1>4, <2>1, KindFacts DEF Heartbeat, Repeats
  <2> QED
    BY <1>1, <1>4, <2>2 DEF Heartbeat, Fires
<1>5. CASE Sio \/ DmaIdle \/ DmaRetry \/ DmaBlock \/ Drained
  BY <1>1, <1>5 DEF Sio, DmaIdle, DmaRetry, DmaBlock, Drained, Fires, history
<1>6. CASE Dispatch
  BY <1>3, <1>4, <1>5, <1>6 DEF Dispatch
<1>7. CASE Reset
  <2>1. /\ ~beamMoved' /\ scanline' = 0 /\ frames' = 0 /\ saved' = saved
        /\ fired'["Hblank"] = 0
    BY <1>7, KindFacts DEF Reset
  <2>2. 0 = (0 * LinesPerFrame) + 0 /\ ~(0 >= VisibleLines)
    BY ConsoleAssumption
  <2> QED
    BY <2>1, <2>2 DEF BeamInv, BeamAt
<1>8. CASE Save
  BY <1>8 DEF Save, Snapshot, history, BeamInv
<1>9. CASE Load
  BY <1>9 DEF Load, BeamInv
<1>10. CASE UNCHANGED vars
  BY <1>1, <1>10 DEF vars, history
<1> QED
  BY <1>2, <1>6, <1>7, <1>8, <1>9, <1>10 DEF Next

LEMMA BeamStarts == Init => BeamInv
<1> SUFFICES ASSUME Init PROVE BeamInv
  OBVIOUS
<1>1. 0 = (0 * LinesPerFrame) + 0 /\ ~(0 >= VisibleLines)
  BY ConsoleAssumption
<1>2. fired["Hblank"] = 0 /\ scanline = 0 /\ frames = 0
  BY KindFacts DEF Init
<1>3. saved.fired["Hblank"] = 0 /\ saved.scanline = 0 /\ saved.frames = 0
  BY KindFacts DEF Init, PowerOn
<1> QED
  BY <1>1, <1>2, <1>3 DEF BeamInv, BeamAt

\* The lines fired are the whole lines the clock has run.
LEMMA LineOfClock ==
  ASSUME Inductive, phase = "cpu"
  PROVE  fired["Hblank"] \in Nat /\ now \div Period["Hblank"] = fired["Hblank"]
<1> DEFINE P == Period["Hblank"]
<1> DEFINE n == fired["Hblank"]
<1>1. P \in Nat \ {0} /\ n \in Nat /\ now \in Nat
  BY KindFacts, ConsoleAssumption DEF Inductive, Types, TypeOK
<1>2. n * P <= now /\ now < (n + 1) * P
  <2>1. "Hblank" \in Kind /\ "Hblank" \in Periodic
    BY KindFacts
  <2> QED
    BY <2>1 DEF Inductive, RatesHold, Quiet
<1> HIDE DEF P, n
<1> DEFINE r == now - (n * P)
<1>3. (n + 1) * P = (n * P) + P /\ n * P \in Nat
  BY <1>1
<1>4. r \in 0 .. P - 1 /\ now = (n * P) + r
  BY <1>1, <1>2, <1>3
<1> HIDE DEF r
<1>5. now \div P = n
  BY <1>1, <1>4, Quotient
<1> QED
  BY <1>1, <1>5 DEF P, n

\* The beam the GPU steps is where the root counters work it out to be from
\* the clock, and frames counts the vertical blanks begun, for any shape of a
\* picture, any instructions, and over resets, saves and loads.
THEOREM ConsoleBeamFollowsClock == Spec => []BeamFollowsClock
<1>1. Inductive /\ BeamInv => BeamFollowsClock
  <2> SUFFICES ASSUME Inductive, BeamInv, phase = "cpu", ~beamMoved
               PROVE  LET line == now \div Period["Hblank"] IN
                      /\ scanline = line % LinesPerFrame
                      /\ frames = (line + LinesPerFrame - VisibleLines) \div LinesPerFrame
    BY DEF BeamFollowsClock
  <2> DEFINE line == fired["Hblank"]
  <2>1. line \in Nat /\ now \div Period["Hblank"] = line
    BY LineOfClock
  <2>2. PICK q \in Nat : /\ line = (q * LinesPerFrame) + scanline
                         /\ frames = q + (IF scanline >= VisibleLines THEN 1 ELSE 0)
    BY DEF BeamInv, BeamAt
  <2> HIDE DEF line
  <2>3. /\ LinesPerFrame \in Nat \ {0} /\ VisibleLines \in Nat
        /\ 0 < VisibleLines /\ VisibleLines < LinesPerFrame
        /\ scanline \in 0 .. LinesPerFrame - 1
    BY ConsoleAssumption DEF Inductive, Types, TypeOK
  <2>4. line % LinesPerFrame = scanline
    BY <2>2, <2>3, Quotient
  <2>5. (line + LinesPerFrame - VisibleLines) \div LinesPerFrame = frames
    <3>1. q * LinesPerFrame \in Nat
          /\ (q + 1) * LinesPerFrame = (q * LinesPerFrame) + LinesPerFrame
      BY <2>3
    <3>2. CASE scanline >= VisibleLines
      <4> DEFINE r == scanline - VisibleLines
      <4>1. r \in 0 .. LinesPerFrame - 1 /\ q + 1 \in Nat /\ frames = q + 1
        BY <2>2, <2>3, <3>2
      <4>2. line + LinesPerFrame - VisibleLines = ((q + 1) * LinesPerFrame) + r
        BY <2>2, <2>3, <3>1
      <4> HIDE DEF r
      <4> QED
        BY <2>3, <4>1, <4>2, Quotient, ZenonT(40)
    <3>3. CASE ~(scanline >= VisibleLines)
      <4> DEFINE r == scanline + LinesPerFrame - VisibleLines
      <4>1. r \in 0 .. LinesPerFrame - 1 /\ frames = q
        BY <2>2, <2>3, <3>3
      <4>2. line + LinesPerFrame - VisibleLines = (q * LinesPerFrame) + r
        BY <2>2, <2>3, <3>1
      <4> HIDE DEF r
      <4> QED
        BY <2>3, <4>1, <4>2, Quotient
    <3> QED
      BY <3>2, <3>3
  <2> QED
    BY <2>1, <2>4, <2>5
<1>2. BeamInv /\ Inductive /\ [Next]_vars => BeamInv'
  BY BeamKept
<1> QED
  BY <1>1, <1>2, BeamStarts, ConsoleInductive, PTL DEF Spec

=============================================================================
