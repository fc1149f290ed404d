----------------------------- MODULE SpokenText -----------------------------
(* Texts as the brain writes and reads them, word by word: a text is a        *)
(* sequence of tokens <<kind, n>>.  Written tokens are digits, signs and      *)
(* words; spoken ones are number words and digits spelled one by one.         *)
EXTENDS Integers, Sequences, SequencesExt

Digit(d) == <<"digit", d>>        \* a digit as written
NativeDigit(d) == <<"native digit", d>>   \* one in another script
Spelled(d) == <<"spelled", d>>    \* its word, from DIGIT_WORDS
Word(n) == <<"number", n>>        \* one number word: five, eighty, thousand
Words == <<"words", 0>>           \* wording no property looks into

(* The kinds of token: strings, and the provers must be told of the literals. *)
PackKinds == {"digit", "native digit", "number", "spelled", "words", "at the rate", "dot", "and", ",",
              "Mister", "Miss", "shriman", "shrimati"}
Frequencies == {"monthly", "quarterly", "half_yearly", "yearly", "single"}
Token == (STRING \cup PackKinds \cup Frequencies) \X Nat
(* What a form holds: none of the words a pack chooses, and digits are digits.*)
Written == {t \in Token : /\ t[1] \notin {"number", "spelled"}
                          /\ t[1] = "digit" => t[2] \in 0 .. 9}

Lakh == 100000
Crore == 10000000

Kinds(text) == {text[i][1] : i \in DOMAIN text}
OfKind(text, kinds) ==
  FlattenSeq([i \in DOMAIN text |-> IF text[i][1] \in kinds THEN <<text[i]>> ELSE <<>>])
Each(text, Op(_)) == [i \in DOMAIN text |-> Op(text[i])]
(* A text read word by word.  A step is a function, so that a lemma can speak *)
(* of any.                                                                    *)
Scan(step, start, text) ==
  LET read[i \in 0 .. Len(text)] == IF i = 0 THEN start ELSE step[read[i - 1]][text[i]]
  IN  read[Len(text)]

(* int() of the characters re.sub leaves over: a sign anywhere but in front   *)
(* raises; number_to_words then takes abs().                                  *)
Cleaned(text) == OfKind(text, {"digit", "-"})
IsInt(text) == "digit" \in Kinds(text) /\ \A i \in 2 .. Len(text) : text[i][1] # "-"
AppendDigit == [n \in Nat |-> [t \in Token |-> 10 * n + t[2]]]
AbsInt(text) == Scan(AppendDigit, 0, OfKind(text, {"digit"}))

(* number_to_words of both packs: crores by recursion, then lakhs, thousands  *)
(* and hundreds; the packs differ in how they say what is below a hundred and *)
(* a thousand.                                                                *)
IndianNumber(n, small, hundreds) ==
  LET Group(x, unit) == IF x = 0 THEN <<>> ELSE small[x] \o <<Word(unit)>>
      build[x \in Nat] ==
        (IF x >= Crore THEN build[x \div Crore] \o <<Word(Crore)>> ELSE <<>>)
        \o Group((x % Crore) \div Lakh, Lakh)
        \o Group((x % Lakh) \div 1000, 1000)
        \o hundreds[x % 1000]
  IN  IF n = 0 THEN <<Word(0)>> ELSE build[n]

(* format_phone, and the digit spelling of e-mail and postal address.         *)
SpellPhone(text) == Each(OfKind(text, {"digit"}), LAMBDA t : Spelled(t[2]))
SpellDigits(text) == Each(text, LAMBDA t : IF t[1] = "digit" THEN Spelled(t[2]) ELSE t)
SpellEmail(text) ==
  SpellDigits(Each(text, LAMBDA t : IF t[1] = "@" THEN <<"at the rate", 0>>
                                    ELSE IF t[1] = "." THEN <<"dot", 0>> ELSE t))

(* "५".isdigit() is true and the table of words has no such key.              *)
Raises(text) == "native digit" \in Kinds(text)

Synonyms ==
  [ monthly     |-> {"monthly", "per month", "every month"},
    quarterly   |-> {"quarterly", "quaterly", "every three months", "once in three months", "three months once"},
    half_yearly |-> {"half yearly", "halfyearly", "biyearly", "bi yearly", "biannual", "bi annual",
                     "every six months", "twice a year", "two times in a year"},
    yearly      |-> {"yearly", "annual", "annually", "once a year", "per year"},
    single      |-> {"one time", "single", "single premium", "one off", "lumpsum", "lump sum"} ]
NormalizeFrequency(raw) ==
  IF \E key \in DOMAIN Synonyms : raw \in Synonyms[key]
  THEN CHOOSE key \in DOMAIN Synonyms : raw \in Synonyms[key]
  ELSE raw

(* build_declaration: clauses <<what it tells, the text it tells it by>>.     *)
Declaration(p, schedule) ==
  <<<<"application_date", p.application_date>>, <<"company", p.company>>, <<"plan_name", p.plan_name>>,
    <<"insured_name", p.insured_name>>, <<"dob_life_assured", p.dob_life_assured>>>>
  \o (IF p.nominee_name = <<>> THEN <<>> ELSE <<<<"nominee_name", p.nominee_name>>>>)
  \o <<<<"policy_term", p.policy_term>>, <<"sum_insured", p.sum_insured>>>>
  \o schedule

(* The parts of a phrase: slow ones stand between <var> and </var>; each holds *)
(* fixed words and placeholders in order.                                     *)
Plain(holds) == [slow |-> FALSE, holds |-> holds]
Var(holds) == [slow |-> TRUE, holds |-> holds]
Fixed == <<Plain(<<"words">>)>>
Asks(placeholder) == <<Plain(<<"words">>), Var(<<placeholder>>), Plain(<<"words">>)>>

(* PHRASES, as far as both packs agree.                                       *)
Templates ==
  [ greeting           |-> <<Plain(<<"greeting", "words", "customer_name", "words">>)>>,
    congrats           |-> <<Plain(<<"customer_name", "words", "company", "words">>)>>,
    declaration_intro  |-> Fixed,
    declaration_text   |-> <<Plain(<<"declaration">>)>>,
    verification_intro |-> Fixed,
    q_mobile           |-> Asks("phone"),
    q_alt_mobile       |-> Asks("alt_phone"),
    q_email            |-> Asks("email"),
    q_address          |-> Asks("address"),
    q_medical          |-> Fixed,
    q_no_merge         |-> Fixed,
    q_own_discretion   |-> Fixed,
    awareness          |-> Fixed,
    closing            |-> <<Plain(<<"words", "customer_name", "words">>)>>,
    failed             |-> Fixed,
    silence_prompt     |-> Fixed ]

-----------------------------------------------------------------------------
(* The listener: what a text means, written or spoken.  These definitions     *)
(* know nothing of how the packs choose their words.                          *)
HearWord ==
  [acc \in [total : Nat, part : Nat] |-> [t \in Token |->
     CASE t[2] = Crore -> [total |-> (acc.total + acc.part) * Crore, part |-> 0]
       [] t[2] \in {Lakh, 1000} -> [total |-> acc.total + acc.part * t[2], part |-> 0]
       [] t[2] = 100 -> [acc EXCEPT !.part = @ * 100]
       [] OTHER -> [acc EXCEPT !.part = @ + t[2]]]]
Heard(words) ==
  LET heard == Scan(HearWord, [total |-> 0, part |-> 0], words)
  IN  heard.total + heard.part

(* Rupees and paise of an amount; words that hold no number stand for         *)
(* themselves.                                                                *)
Amount(text) ==
  LET dots == {i \in DOMAIN text : text[i][1] = "."}
      point == IF dots = {} THEN Len(text) + 1 ELSE CHOOSE i \in dots : \A j \in dots : i <= j
      paise == OfKind(SubSeq(text, point, Len(text)), {"digit"})
  IN  IF "number" \in Kinds(text)
      THEN [rupees |-> Heard(OfKind(text, {"number"})), paise |-> 0, words |-> <<>>]
      ELSE [rupees |-> AbsInt(SubSeq(text, 1, point - 1)),
            paise  |-> IF paise = <<>> THEN 0 ELSE 10 * paise[1][2] + IF Len(paise) = 1 THEN 0 ELSE paise[2][2],
            words  |-> OfKind(text, {"latin", "native"})]

(* The numbers of a date, the month as a negative one: adjacent number words  *)
(* are one number, a month or a comma ends it.                                *)
HearDate ==
  [acc \in [told : SUBSET Int, run : Seq(Token)] |-> [t \in Token |->
     IF t[1] = "number" THEN [acc EXCEPT !.run = Append(@, t)]
     ELSE [told |-> acc.told
                    \cup (IF acc.run = <<>> THEN {} ELSE {Heard(acc.run)})
                    \cup (IF t[1] = "," THEN {} ELSE IF t[1] = "month" THEN {-t[2]} ELSE {t[2]}),
           run  |-> <<>>]]]
DateMeaning(text) == Scan(HearDate, [told |-> {}, run |-> <<>>], Append(text, <<",", 0>>)).told

(* A date whose numbers do not touch: said in words, two that do would be     *)
(* heard as one number.                                                       *)
Counts(t) == t[1] \in {"day", "ordinal", "year"}
Spaced(date) == \A i \in 1 .. (Len(date) - 1) : ~(Counts(date[i]) /\ Counts(date[i + 1]))

(* A postal address: its places in order, and between them its numbers, in    *)
(* words or digit by digit.                                                   *)
HearAddress ==
  [acc \in [told : Seq(Token), number : Nat, open : BOOLEAN] |-> [t \in Token |->
     IF t[1] \in {"digit", "native digit", "spelled"}
     THEN [told |-> acc.told, number |-> 10 * acc.number + t[2], open |-> TRUE]
     ELSE IF t[1] = "number" THEN [told |-> acc.told, number |-> acc.number + t[2], open |-> TRUE]
     ELSE [told |-> acc.told \o (IF acc.open THEN <<Word(acc.number)>> ELSE <<>>) \o <<<<t[1], 0>>>>,
           number |-> 0, open |-> FALSE]]]
AddressMeaning(text) ==
  Scan(HearAddress, [told |-> <<>>, number |-> 0, open |-> FALSE], Append(text, <<",", 0>>)).told
=============================================================================
