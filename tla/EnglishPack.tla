---------------------------- MODULE EnglishPack ----------------------------
(* The English language pack: its numbers, its clauses of the policy and the *)
(* parts of its phrases.                                                     *)
EXTENDS SpokenText

And == <<"and", 0>>

TwoDigits[x \in 0 .. 99] ==
  IF x = 0 THEN <<>>
  ELSE IF x < 20 THEN <<Word(x)>>
  ELSE <<Word(x - (x % 10))>> \o (IF x % 10 = 0 THEN <<>> ELSE <<Word(x % 10)>>)

ThreeDigits[x \in 0 .. 999] ==
  IF x < 100 THEN TwoDigits[x]
  ELSE <<Word(x \div 100), Word(100)>> \o (IF x % 100 = 0 THEN <<>> ELSE <<And>> \o TwoDigits[x % 100])

NumberToWords(n) == IndianNumber(n, TwoDigits, ThreeDigits)

(* "If `value` is a bare number, spell it out": every sign but the minus is  *)
(* dropped first, a decimal point too.                                       *)
EnsureNumberWords(value) ==
  IF "latin" \notin Kinds(value) /\ IsInt(Cleaned(value))
  THEN NumberToWords(AbsInt(Cleaned(value)))
  ELSE value

FormatDate(date) == date

(* name_with_title: the gender of the request chooses the title.             *)
NameWithTitle(p) ==
  (CASE p.gender \in {"male", "m"} -> <<<<"Mister", 0>>>>
     [] p.gender \in {"female", "f"} -> <<<<"Miss", 0>>>>
     [] OTHER -> <<>>) \o p.customer_name

(* A clause of the declaration is <<what it tells, the text it tells it by>>.*)
PremiumSchedule(p) ==
  LET key == NormalizeFrequency(p.premium_frequency)
      paid == IF p.premium_amount = <<>> THEN <<>> ELSE <<<<"premium_amount", p.premium_amount>>>>
      pays == IF key = "" THEN <<>> ELSE <<<<"premium_frequency", <<<<key, 0>>>>>>>>
      term == IF p.premium_paying_term = <<>> THEN <<>> ELSE <<<<"premium_paying_term", p.premium_paying_term>>>>
  IN  IF key = "single" THEN paid \o pays ELSE paid \o pays \o term

BuildDeclaration(p) == Declaration(p, PremiumSchedule(p))

(* The number in the awareness phrase stands outside a <var> span.           *)
Phrases == Templates
=============================================================================
