----------------------------- MODULE SocketCan -----------------------------
(***************************************************************************)
(* The transmit side of SocketCAN: callers push frames on a bounded queue  *)
(* and notify, the sender thread waits on the condition variable, pops and *)
(* writes, and close() ends it.                                            *)
(*                                                                         *)
(* Only the sender ever takes tx_mutex_: a push, a notification and the    *)
(* store of receiving_ in close() can all fall between the sender's test   *)
(* of its predicate and the moment it waits.                               *)
(***************************************************************************)
EXTENDS Integers, Sequences

CONSTANTS
  Sender,        \* the threads that call transmit
  Loop,          \* those of them that call it again and again (TransmitAll)
  TxQueueSize,   \* TX_QUEUE_SIZE
  MaxCalls       \* calls of transmit by each other thread, a bound of the model

ASSUME SocketAssumption ==
  /\ Loop \subseteq Sender
  /\ TxQueueSize \in Nat \ {0}
  /\ MaxCalls \in Nat

VARIABLES
  frames,        \* tx_queue_: who sent each waiting frame
  caller,        \* thread -> "idle", or "notify" between push and notify_one
  calls,         \* thread -> calls of transmit so far; Loop's are not counted
  spc,           \* the sender thread
  receiving,     \* receiving_
  sockfd,        \* "open" or "closed"
  closer         \* close(): "none", "flag", "join", "done"

socketVars == <<frames, caller, calls, spc, receiving, sockfd, closer>>

SocketInit ==
  /\ frames = <<>>
  /\ caller = [u \in Sender |-> "idle"]
  /\ calls = [u \in Sender |-> 0]
  /\ spc = "loop"
  /\ receiving = TRUE /\ sockfd = "open"
  /\ closer = "none"

(* transmit: nothing once the socket is closed; a full queue drops the     *)
(* frame, and the caller notifies all the same.                            *)
Push(u) ==
  /\ caller[u] = "idle" /\ sockfd = "open"
  /\ u \notin Loop => calls[u] < MaxCalls
  /\ frames' = IF Len(frames) < TxQueueSize THEN Append(frames, u) ELSE frames
  /\ calls' = IF u \in Loop THEN calls ELSE [calls EXCEPT ![u] = @ + 1]
  /\ caller' = [caller EXCEPT ![u] = "notify"]
  /\ UNCHANGED <<spc, receiving, sockfd, closer>>

(* Mutant of Notified: the notification is forgotten. *)
NotifiedNobody == spc

(* notify_one has an effect only on a thread that waits already. *)
Notified == IF spc = "waiting" THEN "loop" ELSE spc

Notify(u) ==
  /\ caller[u] = "notify"
  /\ spc' = Notified
  /\ caller' = [caller EXCEPT ![u] = "idle"]
  /\ UNCHANGED <<frames, calls, receiving, sockfd, closer>>
-----------------------------------------------------------------------------
(* The sender thread.  "loop" stands for both tests of receiving_ and the  *)
(* predicate: the outcome is the same.                                     *)
Leave ==
  /\ spc = "loop" /\ ~ receiving
  /\ spc' = "ended"
  /\ UNCHANGED <<frames, caller, calls, receiving, sockfd, closer>>

FindEmpty ==
  /\ spc = "loop" /\ receiving /\ frames = <<>>
  /\ spc' = "blocking"
  /\ UNCHANGED <<frames, caller, calls, receiving, sockfd, closer>>

(* The wait releases the mutex and blocks. *)
Block ==
  /\ spc = "blocking"
  /\ spc' = "waiting"
  /\ UNCHANGED <<frames, caller, calls, receiving, sockfd, closer>>

Pop ==
  /\ spc = "loop" /\ receiving /\ frames # <<>>
  /\ frames' = Tail(frames)
  /\ spc' = "write"
  /\ UNCHANGED <<caller, calls, receiving, sockfd, closer>>

(* The frame is written, or given up after MAX_RETRY_COUNT refusals. *)
Write ==
  /\ spc = "write"
  /\ spc' = "loop"
  /\ UNCHANGED <<frames, caller, calls, receiving, sockfd, closer>>

SenderThread == Leave \/ FindEmpty \/ Block \/ Pop \/ Write
-----------------------------------------------------------------------------
(* close() *)
CloseFlag ==
  /\ closer = "none"
  /\ receiving' = FALSE
  /\ closer' = "flag"
  /\ UNCHANGED <<frames, caller, calls, spc, sockfd>>

CloseNotify ==
  /\ closer = "flag"
  /\ spc' = Notified
  /\ closer' = "join"
  /\ UNCHANGED <<frames, caller, calls, receiving, sockfd>>

(* Mutant of CloseJoin: the socket is closed under the sender thread. *)
CloseDetached ==
  /\ closer = "join"
  /\ sockfd' = "closed"
  /\ closer' = "done"
  /\ UNCHANGED <<frames, caller, calls, spc, receiving>>

CloseJoin ==
  /\ closer = "join" /\ spc = "ended"
  /\ sockfd' = "closed"
  /\ closer' = "done"
  /\ UNCHANGED <<frames, caller, calls, spc, receiving>>

Close == CloseFlag \/ CloseNotify \/ CloseJoin

SocketNext == (\E u \in Sender : Push(u) \/ Notify(u)) \/ SenderThread \/ Close

(* The threads run; nobody need call transmit, except the control loop,    *)
(* nor close.                                                              *)
Fairness ==
  /\ \A u \in Sender : WF_socketVars(Notify(u))
  /\ \A u \in Loop : WF_socketVars(Push(u))
  /\ WF_socketVars(SenderThread)
  /\ WF_socketVars(CloseNotify) /\ WF_socketVars(CloseJoin)

SocketSpec == SocketInit /\ [][SocketNext]_socketVars /\ Fairness
-----------------------------------------------------------------------------
(* Types. *)
SocketTypeOK ==
  /\ frames \in Seq(Sender) /\ Len(frames) <= TxQueueSize
  /\ caller \in [Sender -> {"idle", "notify"}]
  /\ calls \in [Sender -> 0 .. MaxCalls]
  /\ spc \in {"loop", "blocking", "waiting", "write", "ended"}
  /\ receiving \in BOOLEAN
  /\ sockfd \in {"open", "closed"}
  /\ closer \in {"none", "flag", "join", "done"}

(* The sender never writes to a socket that close() has closed, whose      *)
(* descriptor another open may have been given.                            *)
NoWriteAfterClose == spc = "write" => sockfd = "open"

(* A frame waits behind a sleeping sender only until its caller's          *)
(* notification, or because that notification fell between the sender's    *)
(* test and its wait; as long as a control loop goes on transmitting, the  *)
(* next cycle wakes the sender and every frame leaves the queue.           *)
Waiting(u) == \E n \in DOMAIN frames : frames[n] = u

FramesLeave == \A u \in Sender \ Loop : Waiting(u) ~> (~ Waiting(u) \/ ~ receiving)

(* can_bus.cpp: "step 4: fire exactly once", when nothing else is sent. *)
OneShotLeaves == \A u \in Sender : Waiting(u) ~> (~ Waiting(u) \/ ~ receiving)
=============================================================================
