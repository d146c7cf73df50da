---------------------------- MODULE AuditBuffer ----------------------------
(***************************************************************************)
(* The ring in which Harvey keeps the newest events it audited: Capacity   *)
(* places, the place written next and how many are in use.                 *)
(***************************************************************************)
EXTENDS Integers, Sequences

CONSTANTS Capacity, NoEvent

ASSUME CapacityAssumption == Capacity \in Nat \ {0}

Places == 0 .. Capacity - 1

NewAuditBuffer == [events |-> [i \in Places |-> NoEvent], head |-> 0, count |-> 0]

\* Variant: the count goes on past the capacity.
AddUncapped(b, e) == [events |-> [b.events EXCEPT ![b.head] = e],
                      head   |-> (b.head + 1) % Capacity,
                      count  |-> b.count + 1]

Add(b, e) == [events |-> [b.events EXCEPT ![b.head] = e],
              head   |-> (b.head + 1) % Capacity,
              count  |-> IF b.count < Capacity THEN b.count + 1 ELSE b.count]

Start(b) == IF b.head = 0 THEN Capacity - 1 ELSE b.head - 1

Index(b, i) == IF Start(b) - i < 0 THEN Start(b) - i + Capacity ELSE Start(b) - i

\* The newest n events, newest first: result[i] of the code is the (i+1)th here.
Get(b, n) == [i \in 1 .. IF n < b.count THEN n ELSE b.count |-> b.events[Index(b, i - 1)]]

GetAll(b) == Get(b, b.count)

Clear(b) == NewAuditBuffer
=============================================================================
