------------------------ MODULE Ec2IntelligenceQueue -------------------------
(***************************************************************************)
(* The SQS work queue and its dead-letter queue, as the code uses them: a  *)
(* message is sent by the producer, delivered to one Lambda invocation     *)
(* (batch size 1), hidden for the visibility timeout, deleted when the     *)
(* invocation reports no failure for it, delivered again otherwise, and    *)
(* moved to the dead-letter queue once it was received MaxReceiveCount     *)
(* times.  A standard queue may also deliver a hidden message again; at    *)
(* most MaxDuplicates such deliveries are explored.                        *)
(***************************************************************************)
EXTENDS Naturals

CONSTANTS
  Messages,           \* message identifiers; bounds how many sends there are
  MaxReceiveCount,    \* RedrivePolicy.maxReceiveCount
  VisibilityTimeout,  \* VisibilityTimeout, in clock ticks
  MaxDuplicates       \* bound: deliveries of a message that is still hidden

ASSUME QueueAssumption ==
  /\ Messages # {}
  /\ MaxReceiveCount \in Nat \ {0}
  /\ VisibilityTimeout \in Nat \ {0}
  /\ MaxDuplicates \in Nat

VARIABLES
  queue,       \* queue[m]: where message m is, and its SQS attributes
  duplicates   \* how many duplicate deliveries there have been

queueVars == <<queue, duplicates>>

MessageStates == {"unsent", "sent", "deleted", "dead"}

UnsentMessage(j) == [state |-> "unsent", job |-> j, receives |-> 0, hidden |-> 0]

SentMessage(j) == [state |-> "sent", job |-> j, receives |-> 0, hidden |-> 0]

QueueTypeOK(Js) ==
  /\ queue \in [Messages ->
                  [state : MessageStates, job : Js,
                   receives : 0 .. MaxReceiveCount,
                   hidden : 0 .. VisibilityTimeout]]
  /\ duplicates \in 0 .. MaxDuplicates

InQueue(m) == queue[m].state = "sent"

\* SendMessage: the message gets an identifier that was not used yet.
SendMessage(j) ==
  LET unsent == {m \in Messages : queue[m].state = "unsent"}
  IN  /\ unsent # {}
      /\ queue' = [queue EXCEPT ![CHOOSE m \in unsent : TRUE] = SentMessage(j)]
      /\ UNCHANGED duplicates

Delivered(m) ==
  [queue EXCEPT ![m].receives = @ + 1, ![m].hidden = VisibilityTimeout]

\* A visible message is received.
ReceiveVisible(m) ==
  /\ InQueue(m) /\ queue[m].hidden = 0
  /\ queue[m].receives < MaxReceiveCount
  /\ queue' = Delivered(m)
  /\ UNCHANGED duplicates

\* At-least-once delivery: a hidden message is received once more.
ReceiveDuplicate(m) ==
  /\ InQueue(m) /\ queue[m].hidden > 0
  /\ queue[m].receives < MaxReceiveCount
  /\ duplicates < MaxDuplicates
  /\ queue' = Delivered(m)
  /\ duplicates' = duplicates + 1

ReceiveMessage(m) == ReceiveVisible(m) \/ ReceiveDuplicate(m)

\* The event source mapping deletes a message whose invocation did not list it
\* in batchItemFailures.  A message already dead-lettered is not touched.
DeleteMessage(m) ==
  /\ queue' = [queue EXCEPT ![m].state = IF @ = "sent" THEN "deleted" ELSE @]
  /\ UNCHANGED duplicates

\* Mutant: the queue has no redrive policy.
DeadLetter_None(m) == FALSE /\ UNCHANGED queueVars

\* Redrive to the dead-letter queue.
DeadLetter(m) ==
  /\ InQueue(m) /\ queue[m].hidden = 0
  /\ queue[m].receives >= MaxReceiveCount
  /\ queue' = [queue EXCEPT ![m].state = "dead"]
  /\ UNCHANGED duplicates

\* One clock tick on the visibility timeouts.
AgedQueue ==
  [m \in Messages |-> [queue[m] EXCEPT !.hidden = IF @ > 0 THEN @ - 1 ELSE 0]]
=============================================================================
