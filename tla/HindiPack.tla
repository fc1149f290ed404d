----------------------------- MODULE HindiPack -----------------------------
(* The Hindi language pack: every number below a hundred is a word of its    *)
(* own, dates are spelled out, and the schedule knows its five frequencies.  *)
EXTENDS SpokenText

TwoDigits[x \in 0 .. 99] == IF x = 0 THEN <<>> ELSE <<Word(x)>>

ThreeDigits[x \in 0 .. 999] ==
  IF x < 100 THEN TwoDigits[x] ELSE <<Word(x \div 100), Word(100)>> \o TwoDigits[x % 100]

NumberToWords(n) == IndianNumber(n, TwoDigits, ThreeDigits)

(* A value with letters of either script is left alone; otherwise all signs  *)
(* but the minus are dropped.                                                *)
EnsureNumberWords(value) ==
  IF {"latin", "native"} \cap Kinds(value) = {} /\ IsInt(Cleaned(value))
  THEN NumberToWords(AbsInt(Cleaned(value)))
  ELSE value

(* Years of the second millennium by centuries, the others as numbers; a day *)
(* loses its ordinal suffix, and a padded one is no key of _HI_DAYS.         *)
Year(y) ==
  IF y \in 1000 .. 1999
  THEN NumberToWords(y \div 100) \o <<Word(100)>> \o TwoDigits[y % 100]
  ELSE NumberToWords(y)

HI_DAYS == 1 .. 31

FormatDate(date) ==
  FlattenSeq(Each(date, LAMBDA t :
    CASE t[1] = "year" -> Year(t[2])
      [] t[1] \in {"day", "ordinal"} /\ t[2] \in HI_DAYS -> <<Word(t[2])>>
      [] OTHER -> <<t>>))

NameWithTitle(p) ==
  (CASE p.gender \in {"male", "m"} -> <<<<"shriman", 0>>>>
     [] p.gender \in {"female", "f"} -> <<<<"shrimati", 0>>>>
     [] OTHER -> <<>>) \o p.customer_name

FrequencyPhrases == {"monthly", "quarterly", "half_yearly", "yearly", "single"}

(* The term is told only with a frequency of the table.                      *)
PremiumSchedule(p) ==
  LET key == NormalizeFrequency(p.premium_frequency)
      known == key \in FrequencyPhrases
      paid == IF p.premium_amount = <<>> THEN <<>> ELSE <<<<"premium_amount", p.premium_amount>>>>
      pays == <<<<"premium_frequency", <<<<key, 0>>>>>>>>
      term == IF p.premium_paying_term = <<>> THEN <<>> ELSE <<<<"premium_paying_term", p.premium_paying_term>>>>
  IN  IF ~known THEN paid ELSE IF key = "single" THEN paid \o pays ELSE paid \o term \o pays

BuildDeclaration(p) == Declaration(p, PremiumSchedule(p))

(* The number in the awareness phrase stands in a <var> span.                *)
Phrases == [Templates EXCEPT !.awareness = Asks("words")]
=============================================================================
