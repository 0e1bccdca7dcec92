----------------------------- MODULE MCLeadIntake -----------------------------
(***************************************************************************)
(* Small instances of LeadIntake: two people, one of them with two phones,  *)
(* and spellings of their contacts that look different.                     *)
(***************************************************************************)
EXTENDS LeadIntakeClaims

CONSTANTS w1, s1, s2, o1, p1, visitor

Local == <<"0", "8", "1">>
International == <<"+", "6", "2", " ", "8", "1">>
Bare == <<"8", "1">>
Second == <<"0", "8", "3">>
Stranger == <<"0", "8", "2">>
Foreign == <<"+", "8", "1">>
Mail == <<"a">>
Shouted == <<" ", "A">>

Contacts == {Local, International, Bare, Second, Stranger, Foreign, Mail, Shouted}

Lines == [c \in Contacts |->
  CASE c \in {Local, International, Bare} -> "first"
    [] c = Second -> "second"
    [] c = Stranger -> "other"
    [] c = Foreign -> "abroad"
    [] OTHER -> "mailbox"]

Owners == [l \in {"first", "second", "other", "abroad", "mailbox"} |->
             IF l \in {"other", "abroad"} THEN l ELSE "first"]

Labels == [s \in {"WhatsApp", "whatsapp", "fax"} |-> IF s = "WhatsApp" THEN "whatsapp" ELSE s]

\* Lead 1 was captured and converted; the other ids have no row yet.
SeedRows == [l \in Leads |->
  [life |-> IF l = 1 THEN "active" ELSE "unborn",
   status |-> IF l = 1 THEN "converted" ELSE "new",
   party |-> IF l = 1 THEN p1 ELSE None, merged_into |-> None,
   fields |-> [f \in Fields |-> IF l = 1 /\ f = "phone" THEN Bare ELSE None]]]

Arrival == [l \in Leads |-> l]
OneOrg == [l \in Leads |-> o1]

Web(phone, email) == [phone |-> phone, email |-> email, visitor |-> visitor]
Sent(phone, email, source) == [phone |-> phone, email |-> email, source |-> source]

\* The first person, from either phone and with the same mailbox.
Visits == {Web(International, Mail), Web(Second, Shouted)}

\* A stranger who left no email.
Calls == {Sent(Stranger, None, None)}

\* A caller from a country whose code is 81, and bodies that are not taken: nobody
\* to reach, a source nobody knows, and one in the wrong case.
Abroad == {Sent(Foreign, None, None), Sent(None, None, None), Sent(Bare, None, "fax"),
           Sent(Bare, None, "WhatsApp")}

\* Nobody of this instance gives another person's contact along with their own.
ASSUME CallersNameThemselves == ArrivalsNameOnePerson

\* The default page, the smallest one, and a scan that is refused.
Scans == {[min_group_size |-> n, limit |-> 50] : n \in {1, 2}}
           \cup {[min_group_size |-> 2, limit |-> 1]}
=============================================================================
