---------------------------- MODULE BookingLedger ----------------------------
(***************************************************************************)
(* What the booking component promises, with every operation atomic: the   *)
(* rules of capacity and uniqueness hold at the moment a reservation is    *)
(* made or resized, a cancelled reservation is never confirmed again, and  *)
(* a withdrawn one never comes back.                                       *)
(***************************************************************************)
EXTENDS Naturals, FiniteSets

CONSTANTS Users, Organiser, BookingIds, Capacities, SeatLimits, MaxSeats, None

VARIABLES
    ledger,  \* ledger[b]: [status, user, seats]
    rules    \* [capacity, maxSeats] the organiser has set

ledgerVars == <<ledger, rules>>

confirmedOf(u) ==
    {b \in BookingIds : ledger[b].status = "confirmed" /\ ledger[b].user = u}

\* One element per seat held by the reservations of B.
seatsOf(B) ==
    {s \in B \X (1 .. MaxSeats) :
        ledger[s[1]].status = "confirmed" /\ s[2] <= ledger[s[1]].seats}

Available(b, seats) ==
    \/ rules.capacity = None
    \/ Cardinality(seatsOf(BookingIds \ {b})) + seats <= rules.capacity

LedgerInit ==
    /\ ledger = [b \in BookingIds |-> [status |-> "none", user |-> None, seats |-> 0]]
    /\ rules \in [capacity : Capacities, maxSeats : SeatLimits]

Reserve(b, u, seats) ==
    /\ ledger[b].status = "none"
    /\ u # Organiser
    /\ confirmedOf(u) = {}
    /\ seats <= rules.maxSeats
    /\ Available(b, seats)
    /\ ledger' = [ledger EXCEPT ![b] =
                    [status |-> "confirmed", user |-> u, seats |-> seats]]
    /\ UNCHANGED rules

Resize(b, seats) ==
    /\ ledger[b].status = "confirmed"
    /\ seats <= rules.maxSeats
    /\ Available(b, seats)
    /\ ledger' = [ledger EXCEPT ![b].seats = seats]
    /\ UNCHANGED rules

Cancel(b) ==
    /\ ledger[b].status = "confirmed"
    /\ ledger' = [ledger EXCEPT ![b].status = "cancelled"]
    /\ UNCHANGED rules

Withdraw(B) ==
    /\ \A b \in B : ledger[b].status \in {"confirmed", "cancelled"}
    /\ ledger' = [b \in BookingIds |->
                    IF b \in B THEN [status |-> "removed", user |-> None, seats |-> 0]
                               ELSE ledger[b]]
    /\ UNCHANGED rules

ChangeRules ==
    /\ rules' \in [capacity : Capacities, maxSeats : SeatLimits]
    /\ UNCHANGED ledger

LedgerNext ==
    \/ \E b \in BookingIds, u \in Users, seats \in 1 .. MaxSeats : Reserve(b, u, seats)
    \/ \E b \in BookingIds, seats \in 1 .. MaxSeats : Resize(b, seats)
    \/ \E b \in BookingIds : Cancel(b)
    \/ \E B \in SUBSET BookingIds : Withdraw(B)
    \/ ChangeRules

LedgerSpec == LedgerInit /\ [][LedgerNext]_ledgerVars

=============================================================================
