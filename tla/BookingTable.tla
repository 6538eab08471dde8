---------------------------- MODULE BookingTable ----------------------------
(***************************************************************************)
(* What the booking of desks promises to those who book: a table of rows   *)
(* that only grows at its end.  Each row goes for a reason of its own, one *)
(* at a time, and is never exchanged for another.  Booking implements it   *)
(* with handlers that work on lists which others make stale.               *)
(***************************************************************************)
EXTENDS Integers

CONSTANTS
    Maps,       \* names of maps
    Bookings,   \* records with date, map, desk and user
    Zones       \* time zones

VARIABLES
    rows,       \* row number -> booking
    last,       \* the last row number given
    today,      \* zone -> date
    cancelled   \* what users are taking back: <<user, date, desk>>

vars == <<rows, last, today, cancelled>>

Claim(b) == <<b.user, b.date, b.desk>>
Claims   == {Claim(b) : b \in Bookings}

Init ==
    /\ rows = [k \in {} |-> k] /\ last = 0 /\ cancelled = {}
    /\ today = [z \in Zones |-> 1]

\* A new row gets the next number, and all others stay.
Add ==
    /\ last' = last + 1
    /\ \E b \in Bookings :
          rows' = [k \in DOMAIN rows \cup {last'} |-> IF k = last' THEN b ELSE rows[k]]
    /\ UNCHANGED <<today, cancelled>>

\* A user takes a booking back; that ends when its rows are gone.
TakeBack ==
    /\ UNCHANGED <<rows, last, today>>
    /\ \E c \in cancelled' \cap Claims : cancelled' = cancelled \cup {c}

EndTakingBack ==
    /\ UNCHANGED <<rows, last, today>>
    /\ \E c \in cancelled : cancelled' = cancelled \ {c}

\* One row goes: its day is over somewhere, or its user took it back.
Drop(k) ==
    /\ rows' = [l \in DOMAIN rows \ {k} |-> rows[l]]
    /\ \/ /\ \E z \in Zones : rows[k].date < today[z]
          /\ UNCHANGED cancelled
       \/ /\ Claim(rows[k]) \in cancelled
          /\ cancelled' \in {cancelled, cancelled \ {Claim(rows[k])}}
    /\ UNCHANGED <<last, today>>

\* All rows of a map follow it to its new name.
Move ==
    /\ UNCHANGED <<last, today, cancelled>>
    /\ \E m, n \in Maps :
          rows' = [k \in DOMAIN rows |-> IF rows[k].map = m
                                         THEN [rows[k] EXCEPT !.map = n] ELSE rows[k]]

NextDay ==
    /\ UNCHANGED <<rows, last, cancelled>>
    /\ \E z \in Zones : today' = [today EXCEPT ![z] = @ + 1]

Next ==
    \/ Move \/ Add \/ NextDay \/ TakeBack \/ EndTakingBack
    \/ \E k \in DOMAIN rows : Drop(k)

Spec == Init /\ [][Next]_vars
=============================================================================
