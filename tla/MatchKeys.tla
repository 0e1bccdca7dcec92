------------------------------ MODULE MatchKeys ------------------------------
(***************************************************************************)
(* The keys leads are matched by.  A contact is stored as it was typed, a   *)
(* generated column folds it to a key, and the capture match folds what a   *)
(* form submits in Rust before it compares.  The two foldings are written   *)
(* twice and have to agree.  A contact is a sequence of characters.         *)
(***************************************************************************)
EXTENDS Sequences, Naturals

CONSTANT None   \* NULL: no contact, or no key

IsDigit(c) == c \in {"0", "1", "2", "3", "4", "5", "6", "7", "8", "9"}

\* The digits of a phone in their order, everything else taken out.
Digits(phone) ==
  LET upTo[i \in 0..Len(phone)] ==
        IF i = 0 THEN <<>>
        ELSE IF IsDigit(phone[i]) THEN Append(upTo[i - 1], phone[i]) ELSE upTo[i - 1]
  IN upTo[Len(phone)]

CountryCode == <<"6", "2">>

StartsWith(s, prefix) == Len(prefix) <= Len(s) /\ SubSeq(s, 1, Len(prefix)) = prefix

Trim(s, blank) ==
  LET kept == {i \in DOMAIN s : s[i] \notin blank}
  IN IF kept = {} THEN <<>>
     ELSE SubSeq(s, CHOOSE i \in kept : \A j \in kept : i <= j,
                    CHOOSE i \in kept : \A j \in kept : j <= i)

\* The letters of the model's alphabet that have an upper case.
Lower(s) == [i \in DOMAIN s |-> IF s[i] = "A" THEN "a" ELSE IF s[i] = "B" THEN "b" ELSE s[i]]

OrNull(key) == IF key = <<>> THEN None ELSE key

-----------------------------------------------------------------------------
\* Mutation of StoredPhoneKey: a bare local number keeps its missing country code.
BarePhoneKey(phone) ==
  LET digits == Digits(phone)
  IN IF phone = None THEN None
     ELSE IF StartsWith(digits, <<"0">>) THEN CountryCode \o Tail(digits)
     ELSE OrNull(digits)

\* The generated columns phone_key and whatsapp_key.
StoredPhoneKey(phone) ==
  IF phone = None THEN None
  ELSE LET digits == Digits(phone)
       IN CASE digits = <<>> -> None
            [] StartsWith(digits, CountryCode) -> digits
            [] StartsWith(digits, <<"0">>) -> CountryCode \o Tail(digits)
            [] StartsWith(digits, <<"8">>) -> CountryCode \o digits
            [] OTHER -> digits

\* find_capture_match folds the submitted phone itself, and binds NULL for an
\* absent or empty key.
SubmittedPhoneKey(phone) ==
  LET digits == Digits(phone)
      folded == IF digits = <<>> \/ StartsWith(digits, CountryCode) THEN digits
                ELSE IF StartsWith(digits, <<"0">>) THEN CountryCode \o Tail(digits)
                ELSE IF StartsWith(digits, <<"8">>) THEN CountryCode \o digits
                ELSE digits
  IN IF phone = None THEN None ELSE OrNull(folded)

-----------------------------------------------------------------------------
\* Mutation of StoredEmailKey: an absent email has an empty key, not none.
KeylessEmailKey(email) == IF email = None THEN <<>> ELSE Lower(Trim(email, {" "}))

\* The generated column email_key: btrim takes blanks off, not other whitespace.
StoredEmailKey(email) ==
  IF email = None THEN None ELSE OrNull(Lower(Trim(email, {" "})))

\* Rust trims every kind of whitespace and lowers; the query trims and lowers again.
SubmittedEmailKey(email) ==
  IF email = None THEN None
  ELSE OrNull(Trim(Lower(Lower(Trim(email, {" ", "\t"}))), {" "}))
=============================================================================
