----------------------------- MODULE RoundLedger -----------------------------
(***************************************************************************)
(* What the pool promises about the shares it has credited: each is        *)
(* entered once, into the open round, and a round closes with the share    *)
(* that found its block and takes everything entered since the last one.   *)
(* A closed round never changes, unless a block of its own height closes   *)
(* another one in its place.                                               *)
(***************************************************************************)
CONSTANTS Entries, Heights

VARIABLES
  entered,   \* shares entered so far
  open,      \* those of the round under way
  closed,    \* those of the round each height's block closed
  booked     \* blocks to be paid, as share and height

ledgerVars == <<entered, open, closed, booked>>

Init ==
  /\ entered = {}
  /\ open = {}
  /\ closed = [h \in Heights |-> {}]
  /\ booked = {}

Enter(s) ==
  /\ s \notin entered
  /\ entered' = entered \union {s}

Count(s) ==
  /\ Enter(s)
  /\ open' = open \union {s}
  /\ UNCHANGED <<closed, booked>>

Close(s, h) ==
  /\ Enter(s)
  /\ open' = {}
  /\ closed' = [closed EXCEPT ![h] = open \union {s}]
  /\ booked' = booked \union {<<s, h>>}

Next == \E s \in Entries : Count(s) \/ \E h \in Heights : Close(s, h)

Spec == Init /\ [][Next]_ledgerVars
=============================================================================
