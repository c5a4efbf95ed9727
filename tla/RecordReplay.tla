---------------------------- MODULE RecordReplay ----------------------------
(***************************************************************************)
(* What a capture and its replays promise together, without log files,     *)
(* requests or calls: the payloads a rank received are recorded in the     *)
(* order it received them, and a replay hands them out again in that       *)
(* order, none skipped, none changed, none made up.                        *)
(***************************************************************************)
EXTENDS Naturals, Sequences

CONSTANT Vals

VARIABLES recorded, played

Record ==
  /\ played = <<>>
  /\ \E v \in Vals : recorded' = Append(recorded, v)
  /\ UNCHANGED played

Play ==
  /\ Len(played) < Len(recorded)
  /\ played' = Append(played, recorded[Len(played) + 1])
  /\ UNCHANGED recorded

Rewind == played' = <<>> /\ UNCHANGED recorded

Init == recorded = <<>> /\ played = <<>>

Next == Record \/ Play \/ Rewind

Spec == Init /\ [][Next]_<<recorded, played>>
=============================================================================
