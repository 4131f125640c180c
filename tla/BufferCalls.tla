------------------------------ MODULE BufferCalls ------------------------------
(***************************************************************************)
(* The calls a thread may make on a BlockingCircBuffer and what they       *)
(* return: the vocabulary shared by the buffer (BlockingCircBuffer) and by *)
(* the specification of what it promises (BoundedFifo).                    *)
(***************************************************************************)
EXTENDS Filtering

CONSTANTS
  Thread,         \* the callers
  Value,          \* items that convert to the buffer's dtype
  BadValue,       \* objects for which the conversion in write_append raises
  Calls,          \* Calls[t]: the calls thread t may make
  WarningsRaise   \* TRUE when the warning filter turns DataSizeWarning into an error

\* timed: the timeout argument is not negative.
AppendCall == [op : {"append"}, value : Value \cup BadValue, timed : BOOLEAN]
ExtendCall == [op : {"extend"}, block : Seq(Value), timed : BOOLEAN,
               warn_size : BOOLEAN]
ReadCall   == [op : {"read"}, n : Nat, timed : BOOLEAN, partial : BOOLEAN]
ClearCall  == [op : {"clear"}] \cup [op : {"remove"}, target : SUBSET Value]
NoCall     == [op |-> "none"]

WriteCall  == AppendCall \cup ExtendCall
QueueCall  == WriteCall \cup ReadCall      \* the calls that wait in a queue

ASSUME ThreadAssumption  == Thread # {}
ASSUME ValueAssumption   == Value \cap BadValue = {}
ASSUME CallsAssumption   == \A t \in Thread : Calls[t] \subseteq QueueCall \cup ClearCall
ASSUME WarningAssumption == WarningsRaise \in BOOLEAN

Queue == {"write", "read"}

QueueOf(c) == IF c.op = "read" THEN "read" ELSE "write"

\* How many items a call asks for.
Count(c) == CASE c.op = "append" -> 1
              [] c.op = "extend" -> Len(c.block)
              [] c.op = "read"   -> c.n

\* What a call returns: True or an array ("ok"), False or an empty array
\* ("false"), or an exception; "none" while nothing is returned.
Status   == {"none", "ok", "false", "raised"}
NoResult == [status |-> "none", data |-> <<>>]
===============================================================================
