------------------------------- MODULE Stamps -------------------------------
(***************************************************************************)
(* Stamps and the hybrid clock (src-tauri/src/sync/stamp.rs, and the clock *)
(* triggers of migrations/0008_sync.sql).                                  *)
(*                                                                         *)
(* A stamp is the text {ms:013}-{counter:04x}-{device:8 hex}. The code     *)
(* compares stamps as text; the width is fixed, so that order is the       *)
(* lexicographic order of (ms, counter, device) and a stamp is modelled as *)
(* a record of three numbers. Device ids are random; here they are the     *)
(* numbers 1 .. LastDevice - 1, with the two ids the code reserves for     *)
(* stamps it works out itself, "00000000" and "ffffffff", at the ends.     *)
(***************************************************************************)
EXTENDS Naturals

CONSTANTS
  MaxCounter,   \* the largest counter of a stamp (65535 in the code)
  LastDevice    \* the number standing for the device part "ffffffff"

ASSUME MaxCounterAssumption == MaxCounter \in Nat
ASSUME LastDeviceAssumption == LastDevice \in Nat \ {0}

(***************************************************************************)
(* What sync_clock holds (last_ms, last_counter), and what a stamp holds.  *)
(***************************************************************************)
Clock == [ms : Nat, counter : 0..MaxCounter]
Stamp == [ms : Nat, counter : 0..MaxCounter, device : 0..LastDevice]

ZeroDevice == 0

\* The stamp of a row whose owner gave it up in a conflict: below every other.
UNSET_STAMP == [ms |-> 0, counter |-> 0, device |-> ZeroDevice]

\* a is behind b: the order of the clock, which ignores the device.
Behind(a, b) ==
  \/ a.ms < b.ms
  \/ a.ms = b.ms /\ a.counter < b.counter

AtMost(a, b) == Behind(a, b) \/ (a.ms = b.ms /\ a.counter = b.counter)

\* The order of stamps: a is an older change than b.
Older(a, b) ==
  \/ Behind(a, b)
  \/ a.ms = b.ms /\ a.counter = b.counter /\ a.device < b.device

NewerStamp(a, b) == IF Older(a, b) THEN b ELSE a

(***************************************************************************)
(* One step on from a time, carrying an overflowing counter into the       *)
(* milliseconds.                                                           *)
(***************************************************************************)
StepOn(t) ==
  IF t.counter >= MaxCounter
  THEN [ms |-> t.ms + 1, counter |-> 0]
  ELSE [ms |-> t.ms, counter |-> t.counter + 1]

\* Mutant of Tick: two changes in one millisecond get one stamp.
TickWithoutCounter(clock, now) ==
  IF now > clock.ms THEN [ms |-> now, counter |-> 0] ELSE clock

\* Mutant of Tick: the wall clock, even when it is behind what was seen.
TickOfWallClock(clock, now) ==
  IF now # clock.ms THEN [ms |-> now, counter |-> 0] ELSE StepOn(clock)

\* The clock after `tick` at the wall time `now`: the wall clock when it is
\* ahead, otherwise one step on. The stamp of the change is the clock's new time.
Tick(clock, now) ==
  IF now > clock.ms THEN [ms |-> now, counter |-> 0] ELSE StepOn(clock)

StampAt(clock, device) ==
  [ms |-> clock.ms, counter |-> clock.counter, device |-> device]

\* The clock after `observe`: moved up to a stamp that is ahead of it.
Observe(clock, stamp) ==
  IF Behind(clock, stamp)
  THEN [ms |-> stamp.ms, counter |-> stamp.counter]
  ELSE clock

(***************************************************************************)
(* Stamps that follow from other stamps, so that two devices work out the  *)
(* same one (engine.rs: derive, after, moved).                             *)
(***************************************************************************)
Derive(a, b) == StampAt(StepOn(NewerStamp(a, b)), ZeroDevice)

After(stamp) == Derive(stamp, stamp)

Moved(stamp) == [stamp EXCEPT !.device = LastDevice]
=============================================================================
