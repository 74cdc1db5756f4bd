----------------------------- MODULE Registers -----------------------------
(***************************************************************************)
(* The shared rows of a device as registers: what the modules about the    *)
(* clock and about a sync have in common.                                  *)
(*                                                                         *)
(* A table is a function from rows (their sync_ids) to records with at     *)
(* least a stamp and a version, the content the row stands for. A deletion *)
(* marker is a content like any other here: the code compares its stamp    *)
(* with that of a row in the same way (engine.rs: put_marker, remove_      *)
(* marker). Version 0 means that the device does not hold the row; the     *)
(* stamp beside it is never looked at.                                     *)
(***************************************************************************)
EXTENDS Stamps

CONSTANT Items        \* the shared rows (their sync_ids)

Holds(table, i) == table[i].version # 0

\* No stamp of the table is ahead of the time.
Covers(time, table) == \A i \in Items : Holds(table, i) => AtMost(table[i].stamp, time)

\* `catch_up`: the clock, moved up to the newest stamp of the table if it is
\* behind it. (A set of one time: the only one of these that covers the table.)
CatchUp(time, table) ==
  {t \in {time} \cup {Observe(time, table[i].stamp) : i \in {j \in Items : Holds(table, j)}} :
     Covers(t, table)}

\* What a device holds of a row after taking an incoming version of it over or
\* not: one that is not newer than what is here is left alone.
Newer(incoming, mine) ==
  IF incoming.version = 0 THEN mine
  ELSE IF mine.version = 0 \/ Older(mine.stamp, incoming.stamp) THEN incoming
  ELSE mine
=============================================================================
