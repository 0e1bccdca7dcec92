--------------------------- MODULE LeadIntakeClaims ---------------------------
(***************************************************************************)
(* A statement the repository makes about intake that the code does not     *)
(* keep.  A run of its own finds it violated.                               *)
(***************************************************************************)
EXTENDS LeadIntake

\* "numbers already starting '62' or any other international form pass through
\* digit-only" (the migration that adds the keys).  The plus sign is dropped with
\* the other non-digits first, so a foreign number whose country code starts with
\* 8 is taken for an Indonesian one.
InternationalPassesThrough ==
  \A l \in Leads :
    LET phone == row[l].fields["phone"]
    IN Stored(l) /\ phone # None /\ Head(phone) = "+"
         => KeyOf("phone", l) = Digits(phone)
=============================================================================
