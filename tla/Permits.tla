------------------------------ MODULE Permits ------------------------------
(***************************************************************************)
(* What a throttle promises: at most maxCount permits are out, whoever has *)
(* to wait stands in line, and a permit that is given back goes to the     *)
(* head of the line.  A holder that never gives its permit back loses it   *)
(* for everybody.  HttpGet implements this specification.                  *)
(***************************************************************************)
EXTENDS Naturals, Sequences, FiniteSets

CONSTANTS Requests, maxCount

VARIABLES
  holders,   \* who has a permit
  line,      \* who waits for one
  lost       \* permits that will never be given back

vars == <<holders, line, lost>>

Init == holders = {} /\ line = <<>> /\ lost = 0

Ask(r) ==
  /\ r \notin holders
  /\ \A i \in 1 .. Len(line) : line[i] # r
  /\ IF Cardinality(holders) + lost < maxCount
     THEN holders' = holders \cup {r} /\ line' = line
     ELSE holders' = holders /\ line' = Append(line, r)
  /\ lost' = lost

GiveBack(r) ==
  /\ r \in holders
  /\ IF line = <<>>
     THEN holders' = holders \ {r} /\ line' = line
     ELSE holders' = (holders \ {r}) \cup {Head(line)} /\ line' = Tail(line)
  /\ lost' = lost

Lose(r) ==
  /\ r \in holders /\ holders' = holders \ {r}
  /\ line' = line /\ lost' = lost + 1

Next == \E r \in Requests : Ask(r) \/ GiveBack(r) \/ Lose(r)

Spec == Init /\ [][Next]_vars
=============================================================================
