---------------------------- MODULE AtLeastOnce ----------------------------
(***************************************************************************)
(* What a durable consumer of the event stream is promised, without        *)
(* connections, batches or retries: its stored offset passes an event only *)
(* after the consumer's callback has returned for it.                      *)
(***************************************************************************)
EXTENDS Naturals

CONSTANTS
  Wanted,      \* sequences that pass the consumer's filters and access
  Unset        \* the consumer has no usable offset yet

VARIABLES
  log,         \* visible sequences of the workspace
  offset,      \* the consumer's stored offset, or Unset
  base,        \* where the consumer's history starts
  handled      \* sequences whose callback has returned since then

vars == <<log, offset, base, handled>>

Init == /\ log = {}
        /\ offset = Unset
        /\ base = 0
        /\ handled = {}

(* Every wanted event after the start and up to n was handled. *)
HandledThrough(n) == \A s \in log \cap Wanted : base < s /\ s <= n => s \in handled

Append == /\ log \subseteq log'
          /\ \A old \in log, new \in log' \ log : old < new
          /\ offset # Unset => \A new \in log' \ log : offset < new
          /\ log' \subseteq Nat
          /\ UNCHANGED <<offset, base, handled>>

Handle == /\ \E s \in log \cap Wanted : handled' = handled \cup {s}
          /\ UNCHANGED <<log, offset, base>>

(* The consumer's starting point is fixed before its first event, never after. *)
Begin == /\ handled = {}
         /\ offset' \in Nat
         /\ base' = offset'
         /\ offset # Unset => offset <= offset'
         /\ UNCHANGED <<log, handled>>

Acknowledge == /\ offset # Unset
               /\ offset' \in Nat
               /\ offset <= offset'
               /\ HandledThrough(offset')
               /\ UNCHANGED <<log, base, handled>>

(* An operator starts the consumer over. *)
StartOver == /\ offset' = 0
             /\ base' = 0
             /\ handled' = {}
             /\ UNCHANGED log

Next == Append \/ Handle \/ Begin \/ Acknowledge \/ StartOver

Spec == Init /\ [][Next]_vars

(* No event between the start and the stored offset was left out. *)
NothingSkipped == offset # Unset => HandledThrough(offset)
============================================================================
