---------------------------- MODULE BackupStream ----------------------------
(***************************************************************************)
(* What a backup promises to the program, without threads, FIFOs and       *)
(* signals: each session is a stream of its own; what the program is given *)
(* in a session is what was produced for that session, once and in order,  *)
(* without what a read that failed had taken already; and the end is       *)
(* reported only of a backup that was produced completely.                 *)
(***************************************************************************)
EXTENDS Integers

CONSTANTS
  Sessions,   \* backups, numbered from 1 in the order they are begun
  Units       \* units in a complete backup

VARIABLES
  session,    \* the latest backup
  produced,   \* units produced for each backup
  delivered,  \* units the program was given of each backup
  lost,       \* units of each backup that went with a read that failed
  finished,   \* backups that were produced completely
  ended       \* the program was told that the latest backup is complete

vars == <<session, produced, delivered, lost, finished, ended>>

Init ==
  /\ session = 0
  /\ produced = [s \in Sessions |-> 0]
  /\ delivered = [s \in Sessions |-> 0]
  /\ lost = [s \in Sessions |-> 0]
  /\ finished = {}
  /\ ended = FALSE

\* another backup, or a failed attempt at one
Begin ==
  /\ session' \in {session, session + 1}
  /\ ended' = FALSE
  /\ UNCHANGED <<produced, delivered, lost, finished>>

Produce(s) ==
  /\ produced[s] < Units
  /\ produced' = [produced EXCEPT ![s] = @ + 1]
  /\ UNCHANGED <<session, delivered, lost, finished, ended>>

Finish(s) ==
  /\ produced[s] = Units
  /\ finished' = finished \cup {s}
  /\ UNCHANGED <<session, produced, delivered, lost, ended>>

\* only the latest backup is read, and nothing that was not produced for it
Available(n) == delivered[session] + lost[session] + n <= produced[session]

Deliver(n) ==
  /\ Available(n)
  /\ delivered' = [delivered EXCEPT ![session] = @ + n]
  /\ UNCHANGED <<session, produced, lost, finished, ended>>

\* a read fails after it has taken n units
Lose(n) ==
  /\ Available(n)
  /\ lost' = [lost EXCEPT ![session] = @ + n]
  /\ UNCHANGED <<session, produced, delivered, finished, ended>>

Report ==
  /\ session \in finished
  /\ ended' = TRUE
  /\ UNCHANGED <<session, produced, delivered, lost, finished>>

Next ==
  \/ Begin
  \/ \E s \in Sessions : Produce(s) \/ Finish(s)
  \/ \E n \in 1..Units : session \in Sessions /\ (Deliver(n) \/ Lose(n))
  \/ Report

Spec == Init /\ [][Next]_vars
=============================================================================
