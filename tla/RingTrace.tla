----------------------------- MODULE RingTrace -----------------------------
(***************************************************************************)
(* The flight recorder: one thread pushes rows on a ring, another freezes  *)
(* it, sleeps 20 ms and writes the rows to a file.                         *)
(*                                                                         *)
(* The values of a row are the number of its push.  Its time and its data  *)
(* are stored one after the other, and the freeze is only looked at when a *)
(* push begins.                                                            *)
(***************************************************************************)
EXTENDS Integers, Sequences

CONSTANTS
  cap,       \* cap_: rows of the ring
  MaxPush,   \* pushes, a bound of the model
  Prompt     \* no push takes longer than Dump sleeps

ASSUME TraceAssumption == cap \in Nat \ {0} /\ MaxPush \in Nat /\ Prompt \in BOOLEAN

VARIABLES
  head, t_ns, data, frozen,   \* the object
  wpc,                        \* Push: "idle", "time", "data", "head"
  dpc, n, k,                  \* Dump: where it is, and its locals
  file                        \* the rows written

vars == <<head, t_ns, data, frozen, wpc, dpc, n, k, file>>

Slots == 0 .. cap - 1

Init ==
  /\ head = 0 /\ frozen = FALSE
  /\ t_ns = [i \in Slots |-> 0]
  /\ data = [i \in Slots |-> 0]
  /\ wpc = "idle"
  /\ dpc = "none" /\ n = 0 /\ k = 0
  /\ file = <<>>
-----------------------------------------------------------------------------
(* Push *)

PushBegin ==
  /\ wpc = "idle" /\ head < MaxPush
  /\ ~ frozen
  /\ wpc' = "time"
  /\ UNCHANGED <<head, t_ns, data, frozen, dpc, n, k, file>>

PushTime ==
  /\ wpc = "time"
  /\ t_ns' = [t_ns EXCEPT ![head % cap] = head + 1]
  /\ wpc' = "data"
  /\ UNCHANGED <<head, data, frozen, dpc, n, k, file>>

PushData ==
  /\ wpc = "data"
  /\ data' = [data EXCEPT ![head % cap] = head + 1]
  /\ wpc' = "head"
  /\ UNCHANGED <<head, t_ns, frozen, dpc, n, k, file>>

PushHead ==
  /\ wpc = "head"
  /\ head' = head + 1
  /\ wpc' = "idle"
  /\ UNCHANGED <<t_ns, data, frozen, dpc, n, k, file>>
-----------------------------------------------------------------------------
(* Dump *)
Freeze ==
  /\ dpc = "none"
  /\ frozen' = TRUE
  /\ dpc' = "sleep"
  /\ UNCHANGED <<head, t_ns, data, wpc, n, k, file>>

ReadHead ==
  /\ dpc = "sleep"
  /\ Prompt => wpc = "idle"
  /\ n' = head
  /\ dpc' = "rows"
  /\ UNCHANGED <<head, t_ns, data, frozen, wpc, k, file>>

count == IF n < cap THEN n ELSE cap

(* Mutant of start: a ring that has gone round is read from its first slot. *)
startFirst == 0

start == IF n > cap THEN n % cap ELSE 0

WriteRow ==
  /\ dpc = "rows" /\ k < count
  /\ LET i == (start + k) % cap IN file' = Append(file, [time |-> t_ns[i], data |-> data[i]])
  /\ k' = k + 1
  /\ UNCHANGED <<head, t_ns, data, frozen, wpc, dpc, n>>

DumpEnds ==
  /\ dpc = "rows" /\ k = count
  /\ dpc' = "done"
  /\ UNCHANGED <<head, t_ns, data, frozen, wpc, n, k, file>>

Next ==
  \/ PushBegin \/ PushTime \/ PushData \/ PushHead
  \/ Freeze \/ ReadHead \/ WriteRow \/ DumpEnds

Spec == Init /\ [][Next]_vars
-----------------------------------------------------------------------------
(* Types. *)
TypeOK ==
  /\ head \in 0 .. MaxPush /\ frozen \in BOOLEAN
  /\ t_ns \in [Slots -> 0 .. MaxPush] /\ data \in [Slots -> 0 .. MaxPush]
  /\ wpc \in {"idle", "time", "data", "head"}
  /\ dpc \in {"none", "sleep", "rows", "done"}
  /\ n \in 0 .. MaxPush /\ k \in 0 .. cap
  /\ file \in Seq([time : 0 .. MaxPush, data : 0 .. MaxPush])

(* "Keeps the N newest rows" and "so that no row is torn"                  *)
(* (debug_recorder.h): the file is the last cap pushes, oldest first, none *)
(* missing and none twice, each row of one push.  It is the sleep of Dump  *)
(* that does it: without Prompt it is violated.                            *)
NewestInOrder ==
  dpc = "done" =>
    /\ Len(file) = IF head < cap THEN head ELSE cap
    /\ \A j \in DOMAIN file : LET push == head - Len(file) + j
                              IN file[j] = [time |-> push, data |-> push]
=============================================================================
