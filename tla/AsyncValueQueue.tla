---------------------------- MODULE AsyncValueQueue ----------------------------
(***************************************************************************)
(* AsyncValueQueue (core/async-value-queue.ts): the bounded queue of the   *)
(* kernel's commands and events and of the Claude prompts.  next takes a   *)
(* buffered value or waits; pushMany hands values to the waiters first and *)
(* buffers the rest, all or none; a reserve of its own holds the terminal  *)
(* event when the queue is full; close ends the waiters and may discard.   *)
(*                                                                         *)
(* Values are numbered in the order in which they are pushed, calls of     *)
(* next in the order in which they are made.                               *)
(***************************************************************************)
EXTENDS Naturals, Sequences, FiniteSets, SequencesExt

CONSTANTS
  MaxSize, MaxBytes,       \* the limits of the queue
  ReserveSize, ReserveBytes,
  MaxBatch,                \* bound: values of one pushMany
  MaxPushed, MaxCalls      \* bounds: values pushed, calls of next

ASSUME QueueBounds ==
  /\ MaxSize \in Nat /\ MaxBytes \in Nat /\ ReserveSize \in Nat /\ ReserveBytes \in Nat
  /\ MaxBatch \in Nat \ {0} /\ MaxPushed \in Nat /\ MaxCalls \in Nat

VARIABLES
  values,                  \* #values: [id, bytes, reserved]
  waiters,                 \* #waiters: calls of next
  used,                    \* #bytes, #size
  reserved,                \* #reservedBytes, #reservedSize
  closed,                  \* #closed
  pushed,                  \* values accepted so far
  calls,                   \* calls of next so far
  answer,                  \* call |-> the value it returned, 0 for done
  discarded                \* close({ discard }) dropped something

queueVars == <<values, waiters, used, reserved, closed, pushed, calls, answer, discarded>>

Sizes == 0..(MaxBytes + 1)             \* what #measure returns
Nothing == [bytes |-> 0, size |-> 0]
Waiting == MaxPushed + 1               \* the answer of a call that waits

QueueInit ==
  /\ values = << >> /\ waiters = << >>
  /\ used = Nothing /\ reserved = Nothing
  /\ closed = FALSE /\ discarded = FALSE
  /\ pushed = 0 /\ calls = 0
  /\ answer = [c \in 1..MaxCalls |-> Waiting]

TotalBytes(buffered) == FoldLeft(LAMBDA sum, v : sum + v.bytes, 0, buffered)
Spend(budget, buffered) ==
  [bytes |-> budget.bytes + TotalBytes(buffered), size |-> budget.size + Len(buffered)]
DirectNone(count) == 0                 \* bug: buffers past the waiters
Direct(count) == IF count < Len(waiters) THEN count ELSE Len(waiters)

(* The first waiters take the first values.                                *)
HandedReversed(direct) ==              \* bug: serves the waiters from the last to the first
  [c \in 1..MaxCalls |->
     IF \E i \in 1..direct : waiters[i] = c
     THEN pushed + 1 + direct - (CHOOSE i \in 1..direct : waiters[i] = c)
     ELSE answer[c]]
Handed(direct) ==
  [c \in 1..MaxCalls |->
     IF \E i \in 1..direct : waiters[i] = c
     THEN pushed + (CHOOSE i \in 1..direct : waiters[i] = c)
     ELSE answer[c]]

(* pushMany: measured, checked against both limits, then committed.        *)
Fits(budget, buffered) ==
  /\ budget.size + Len(buffered) <= MaxSize
  /\ TotalBytes(buffered) <= MaxBytes - budget.bytes
PushMany ==
  \E sizes \in BoundedSeq(Sizes, MaxBatch) :
    LET direct == Direct(Len(sizes))
        buffered == [i \in 1..(Len(sizes) - direct) |->
                       [id |-> pushed + direct + i, bytes |-> sizes[direct + i],
                        reserved |-> FALSE]]
    IN  /\ ~closed /\ sizes # << >>
        /\ pushed + Len(sizes) <= MaxPushed
        /\ Fits(used, buffered)
        /\ answer' = Handed(direct)
        /\ waiters' = SubSeq(waiters, direct + 1, Len(waiters))
        /\ values' = values \o buffered
        /\ used' = Spend(used, buffered)
        /\ pushed' = pushed + Len(sizes)
        /\ UNCHANGED <<reserved, closed, calls, discarded>>

(* pushReserved: a waiter takes the value, or the reserve does.            *)
FitsReserve(size) ==
  /\ reserved.size < ReserveSize
  /\ size <= ReserveBytes - reserved.bytes
PushReserved ==
  \E size \in Sizes :
    LET entry == [id |-> pushed + 1, bytes |-> size, reserved |-> TRUE]
    IN  /\ ~closed /\ pushed < MaxPushed
        /\ size <= ReserveBytes
        /\ pushed' = pushed + 1
        /\ IF waiters # << >>
           THEN /\ answer' = Handed(1)
                /\ waiters' = Tail(waiters)
                /\ UNCHANGED <<values, reserved>>
           ELSE /\ FitsReserve(size)
                /\ values' = Append(values, entry)
                /\ reserved' = Spend(reserved, <<entry>>)
                /\ UNCHANGED <<answer, waiters>>
        /\ UNCHANGED <<used, closed, calls, discarded>>

RefundItems(budget, entry) == [budget EXCEPT !.size = @ - 1]          \* bug: keeps the bytes
Refund(budget, entry) == [bytes |-> budget.bytes - entry.bytes, size |-> budget.size - 1]
Next ==
  /\ calls < MaxCalls
  /\ calls' = calls + 1
  /\ IF values # << >>
     THEN LET entry == Head(values)
          IN  /\ values' = Tail(values)
              /\ answer' = [answer EXCEPT ![calls + 1] = entry.id]
              /\ used' = IF entry.reserved THEN used ELSE Refund(used, entry)
              /\ reserved' = IF entry.reserved THEN Refund(reserved, entry) ELSE reserved
              /\ UNCHANGED waiters
     ELSE IF closed
     THEN /\ answer' = [answer EXCEPT ![calls + 1] = 0]
          /\ UNCHANGED <<values, used, reserved, waiters>>
     ELSE /\ waiters' = Append(waiters, calls + 1)
          /\ UNCHANGED <<values, used, reserved, answer>>
  /\ UNCHANGED <<closed, pushed, discarded>>

(* close, again with discard after a close without it.                     *)
Ended == [c \in 1..MaxCalls |-> IF c \in Range(waiters) THEN 0 ELSE answer[c]]
Close ==
  \E discard \in BOOLEAN :
    /\ discard \/ ~closed
    /\ IF discard
       THEN /\ values' = << >> /\ used' = Nothing /\ reserved' = Nothing
            /\ discarded' = (discarded \/ values # << >>)
       ELSE UNCHANGED <<values, used, reserved, discarded>>
    /\ closed' = TRUE
    /\ answer' = Ended
    /\ waiters' = << >>
    /\ UNCHANGED <<pushed, calls>>

QueueNext == PushMany \/ PushReserved \/ Next \/ Close

QueueSpec == QueueInit /\ [][QueueNext]_queueVars

-----------------------------------------------------------------------------
(* Properties                                                              *)

Entries == [id : 1..MaxPushed, bytes : Sizes, reserved : BOOLEAN]

QueueTypeOK ==
  /\ values \in Seq(Entries)
  /\ waiters \in Seq(1..MaxCalls)
  /\ used \in [bytes : 0..MaxBytes, size : 0..MaxSize]
  /\ reserved \in [bytes : 0..ReserveBytes, size : 0..ReserveSize]
  /\ closed \in BOOLEAN /\ discarded \in BOOLEAN
  /\ pushed \in 0..MaxPushed /\ calls \in 0..MaxCalls
  /\ answer \in [1..MaxCalls -> 0..(MaxPushed + 1)]

(* The counters the limits are checked against are those of the buffer,    *)
(* after any sequence of pushes, direct hand-overs, takes and discards, so *)
(* that neither the queue nor its reserve ever holds more than its limit.  *)
CountersAreTrue ==
  LET plain == SelectSeq(values, LAMBDA v : ~v.reserved)
      kept == SelectSeq(values, LAMBDA v : v.reserved)
  IN  /\ used = Spend(Nothing, plain) /\ reserved = Spend(Nothing, kept)
      /\ Len(plain) <= MaxSize /\ TotalBytes(plain) <= MaxBytes
      /\ Len(kept) <= ReserveSize /\ TotalBytes(kept) <= ReserveBytes

(* The n-th call of next that gets a value gets the n-th value pushed:     *)
(* direct hand-over and buffering, plain and reserved values, never reorder, *)
(* lose or repeat one; only a discarding close drops what is buffered.     *)
(* Nobody waits for what is there, and nobody waits after the close.       *)
ServedInOrder ==
  /\ waiters # << >> => values = << >> /\ ~closed
  /\ \A c \in 1..calls : answer[c] \in {0, Waiting, c}
  /\ \A i \in 1..Len(values) : values[i].id = pushed - Len(values) + i
  /\ ~discarded =>
       Cardinality({c \in 1..calls : answer[c] \in 1..MaxPushed}) + Len(values) = pushed

(* The queue keeps its order and its counts together.                      *)
QueueIsTrue == ServedInOrder /\ CountersAreTrue
=============================================================================
