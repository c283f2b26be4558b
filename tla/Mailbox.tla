------------------------------ MODULE Mailbox ------------------------------
(***************************************************************************)
(* What a service may assume of its message queue: an unbounded FIFO that  *)
(* is scheduled (known to the workers) whenever it holds a message.        *)
(* RingQueue is shown to implement this module.                            *)
(***************************************************************************)
EXTENDS Sequences

CONSTANT Message          \* the messages services exchange

VARIABLES
  msgs,                   \* the messages not yet received, oldest first
  scheduled               \* TRUE while some worker will look at the queue

mailboxVars == <<msgs, scheduled>>

\* A queue is created scheduled: its service is still being launched.
Init == msgs = <<>> /\ scheduled = TRUE

\* Sending appends the message and makes sure the queue is scheduled.
Send(m) == msgs' = Append(msgs, m) /\ scheduled' = TRUE

\* A scheduled queue is read from its oldest message on.
Receive ==
  /\ scheduled /\ msgs # <<>>
  /\ msgs' = Tail(msgs)
  /\ UNCHANGED scheduled

\* Only an empty queue may go out of sight of the workers.
Park ==
  /\ scheduled /\ msgs = <<>>
  /\ scheduled' = FALSE
  /\ UNCHANGED msgs

Next == (\E m \in Message : Send(m)) \/ Receive \/ Park

Spec == Init /\ [][Next]_mailboxVars
=============================================================================
