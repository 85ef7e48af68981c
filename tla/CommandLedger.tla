---------------------------- MODULE CommandLedger ----------------------------
(***************************************************************************)
(* What a run of the pipelines promises its callers, whatever the commands *)
(* do: the statuses PipelineContext holds are those of a prefix of the     *)
(* planned units, recorded one at a time in plan order; the units that     *)
(* must succeed did; a run that is returned has recorded every unit, and a *)
(* run is given up only at a unit that must succeed.                       *)
(***************************************************************************)
EXTENDS Naturals

CONSTANTS
  Length,       \* number of planned units
  Key,          \* where the status of each unit is kept
  MustSucceed,  \* the units, of 1..Length, whose failure ends the run
  Statuses,
  OK,
  NotRun

VARIABLES state, count, ledger

vars == <<state, count, ledger>>

Empty == [k \in {Key[i] : i \in 1..Length} |-> NotRun]

Init == state = "idle" /\ count = 0 /\ ledger = Empty

Begin ==
  /\ state # "running"
  /\ state' = "running" /\ count' = 0 /\ ledger' = Empty

Record(status) ==
  /\ state = "running" /\ count < Length
  /\ count + 1 \in MustSucceed => status = OK
  /\ ledger' = [ledger EXCEPT ![Key[count + 1]] = status]
  /\ count' = count + 1
  /\ UNCHANGED state

Halt ==
  /\ state = "running" /\ count + 1 \in MustSucceed
  /\ state' = "halted"
  /\ UNCHANGED <<count, ledger>>

Complete ==
  /\ state = "running" /\ count = Length
  /\ state' = "complete"
  /\ UNCHANGED <<count, ledger>>

\* The process and its memory are lost.
Lose ==
  /\ state = "running"
  /\ state' = "idle" /\ count' = 0 /\ ledger' = Empty

Next == Begin \/ (\E s \in Statuses : Record(s)) \/ Halt \/ Complete \/ Lose

Spec == Init /\ [][Next]_vars
=============================================================================
