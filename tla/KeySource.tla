----------------------------- MODULE KeySource -----------------------------
(***************************************************************************)
(* What GpioThreadFunc is to the rest of OledModule, and the EventQueue    *)
(* between them (event_queue.h): it requests its lines once, queues events *)
(* until it sees run_flag_ cleared, and clears the flag itself when it     *)
(* cannot have a line.  Gpio implements it; Oled is built on it.           *)
(***************************************************************************)
EXTENDS Integers, Sequences

Event == {"ENC_CW", "ENC_CCW", "ENC_PUSH", "BTN_BACK"}

VARIABLES
  source,    \* GpioThreadFunc: "init", "open", "poll", "ended"
  q,         \* q_
  run_flag   \* run_flag_ of the module

sourceVars == <<source, q, run_flag>>

SourceInit == source = "init" /\ q = <<>> /\ run_flag = TRUE

push(e) == q' = Append(q, e)

Open ==
  /\ source = "open"
  /\ \/ source' = "poll" /\ UNCHANGED run_flag
     \/ source' = "ended" /\ run_flag' = FALSE
  /\ UNCHANGED q

(* An event pushed after the flag is cleared belongs to an iteration that  *)
(* began before.                                                           *)
Produce == source = "poll" /\ (\E e \in Event : push(e)) /\ UNCHANGED <<source, run_flag>>

Leave == source = "poll" /\ ~ run_flag /\ source' = "ended" /\ UNCHANGED <<q, run_flag>>

(* The other threads: Start, MainLoop and Shutdown. *)
Launch == source = "init" /\ source' = "open" /\ UNCHANGED <<q, run_flag>>
pop    == q # <<>> /\ q' = Tail(q) /\ UNCHANGED <<source, run_flag>>
clear  == q' = <<>> /\ UNCHANGED <<source, run_flag>>
Halt   == run_flag' = FALSE /\ UNCHANGED <<source, q>>
Wake   == push("BTN_BACK") /\ UNCHANGED <<source, run_flag>>

SourceNext == Open \/ Produce \/ Leave \/ Launch \/ pop \/ clear \/ Halt \/ Wake
SourceSpec == SourceInit /\ [][SourceNext]_sourceVars
=============================================================================
