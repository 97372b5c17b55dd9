----------------------------- MODULE ViewStream -----------------------------
(***************************************************************************)
(* What a triangle subscription promises to the one who receives its       *)
(* views: they arrive in the order they were made, each at most once, no    *)
(* book ever goes back, and the end of the stream is told only after every  *)
(* view that was accepted. Views may be missing; how they travel is left    *)
(* out.                                                                     *)
(***************************************************************************)
EXTENDS Naturals, Sequences

CONSTANT Symbols  \* the three symbols of the triangle

VARIABLES
  pending,   \* the views accepted and not yet received
  received,  \* the views received, oldest first
  status     \* "open", "complete" once the end was told, or "abandoned"

vars == <<pending, received, status>>

Init == pending = <<>> /\ received = <<>> /\ status = "open"

\* The later view was made later, and none of its books is older.
Precedes(earlier, later) ==
  /\ earlier.nr < later.nr
  /\ \A s \in Symbols : earlier.books[s] <= later.books[s]

\* A view is accepted, after all those accepted before.
Accept ==
  /\ status = "open"
  /\ Len(pending') = Len(pending) + 1
  /\ \E v \in {pending'[Len(pending) + 1]} :
       /\ pending' = Append(pending, v)
       /\ \A i \in 1..Len(pending) : Precedes(pending[i], v)
       /\ \A i \in 1..Len(received) : Precedes(received[i], v)
  /\ UNCHANGED <<received, status>>

Receive ==
  /\ status = "open" /\ pending # <<>>
  /\ received' = Append(received, Head(pending))
  /\ pending' = Tail(pending)
  /\ UNCHANGED status

\* The end of the stream is told when nothing is left to receive.
Complete ==
  /\ status = "open" /\ pending = <<>>
  /\ status' = "complete"
  /\ UNCHANGED <<pending, received>>

\* The receiver is gone, and what was on its way to it with it.
Abandon ==
  /\ status = "open"
  /\ status' = "abandoned" /\ pending' = <<>>
  /\ UNCHANGED received

Next == Accept \/ Receive \/ Complete \/ Abandon

Spec == Init /\ [][Next]_vars
=============================================================================
