----------------------------- MODULE HeaderQueue ----------------------------
(***************************************************************************)
(* What the realtime worker promises for the headers it is sent: they are  *)
(* handled one at a time and in the order of their arrival, none twice and *)
(* none left out; and when a header is done with, a row for its number is  *)
(* stored, or a statement or call has failed.  Only the end of the process *)
(* loses headers.                                                          *)
(***************************************************************************)
EXTENDS Sequences, Integers

CONSTANT Headers

VARIABLES
    up,        \* does the process run?
    pending,   \* headers that have arrived and are not done with
    stored,    \* numbers with a row
    failures   \* number of failures so far

vars == <<up, pending, stored, failures>>

Init == up = TRUE /\ pending = <<>>

Arrive(header) ==
    /\ up = TRUE
    /\ pending' = Append(pending, header)
    /\ UNCHANGED <<up, stored, failures>>

Handle ==
    /\ pending # <<>> /\ Head(pending).number \in stored
    /\ pending' = Tail(pending)
    /\ UNCHANGED <<up, stored, failures>>

Fail ==
    /\ pending # <<>>
    /\ pending' = Tail(pending)
    /\ failures' = failures + 1
    /\ UNCHANGED <<up, stored>>

\* Other activities store rows and fail, too.
Others ==
    /\ stored \subseteq stored'
    /\ failures <= failures'
    /\ UNCHANGED <<up, pending>>

Stop  == up = TRUE /\ up' = FALSE /\ pending' = <<>> /\ UNCHANGED <<stored, failures>>
Start == up = FALSE /\ up' = TRUE /\ UNCHANGED <<pending, stored, failures>>

Next == Others \/ Handle \/ Fail \/ Stop \/ Start \/ \E header \in Headers : Arrive(header)

Spec == Init /\ [][Next]_vars
=============================================================================
