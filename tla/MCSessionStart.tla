--------------------------- MODULE MCSessionStart ---------------------------
EXTENDS SessionStart

Decimal[n \in Nat] == IF n < 10 THEN <<Digit(n)>> ELSE Append(Decimal[n \div 10], Digit(n % 10))
Sign(c) == <<<<c, 0>>>>

(* An amount the way a form holds it: plain, with a separator, with a symbol *)
(* in front, or as 5000/-.                                                   *)
Form(n) ==
  LET w == Decimal[n]
  IN  CASE n % 4 = 0 -> w
        [] n % 4 = 1 -> SubSeq(w, 1, 1) \o Sign(",") \o SubSeq(w, 2, Len(w))
        [] n % 4 = 2 -> Sign("rupee sign") \o w
        [] OTHER -> w \o Sign("slash") \o Sign("-")

Base(lang) ==
  [ language |-> lang, gender |-> "male",
    customer_name |-> Sign("given") \o Sign("family"), insured_name |-> Sign("insured"),
    nominee_name |-> <<>>, company |-> Sign("insurer"), plan_name |-> Sign("plan"),
    primary_mobile |-> Sign("+") \o Decimal[9876], alternative_mobile |-> <<>>,
    email |-> Sign("user") \o Decimal[70] \o Sign("@") \o Sign("host") \o Sign(".") \o Sign("com"),
    address |-> Decimal[12] \o Sign("street") \o Decimal[110096],
    policy_term |-> Decimal[20], premium_amount |-> Decimal[5000], premium_paying_term |-> Decimal[10],
    premium_frequency |-> "monthly", sum_insured |-> Decimal[1000000],
    application_date |-> <<<<"month", 7>>, <<"ordinal", 3>>, <<",", 0>>, <<"year", 2024>>>>,
    dob_life_assured |-> <<<<"day", 31>>, <<"month", 12>>, <<"year", 1990>>>> ]

Langs == {"english", "hindi"}
Boundaries ==
  {9, 10, 11, 19, 20, 21, 99, 100, 101, 110, 119, 120, 999, 1000, 1001, 1100, 9999, 10000, 19999, 20000,
   99999, 100000, 100001, 100100, 101000, 110000, 999999, 1000000, 1999999, 9999999, 10000000, 10000001,
   10100000, 11000000, 99999999, 100000000, 123456789, 1000000000, 2147483647}

Amounts ==
  {[Base(lang) EXCEPT !.sum_insured = Decimal[n], !.premium_amount = Form(n), !.policy_term = Decimal[n % 100],
                      !.premium_paying_term = Decimal[(n \div 10) % 100]] :
     lang \in Langs, n \in Boundaries \cup {1037 * k : k \in 1 .. 60}}

Schedules ==
  {[Base(lang) EXCEPT !.premium_frequency = f, !.gender = g, !.nominee_name = nominee] :
     lang \in Langs, f \in {"every month", "quarterly", "twice a year", "annually", "lumpsum"},
     g \in {"male", "f", ""}, nominee \in {<<>>, Sign("nominee")}}

Contacts ==
  {[Base(lang) EXCEPT !.alternative_mobile = Decimal[45067], !.nominee_name = Sign("nominee"), !.address = addr] :
     lang \in Langs \cup {"tamil"},
     addr \in {Decimal[7], Sign("street"), <<>>,
               Sign("flat") \o <<Digit(0)>> \o Decimal[7] \o Sign("slash") \o Decimal[100] \o Sign("-") \o Decimal[12]}}

Dates ==
  {[Base(lang) EXCEPT !.dob_life_assured = <<<<d, 5>>, <<"month", 1>>, <<"year", y>>>>] :
     lang \in Langs, d \in {"day", "padded day", "ordinal"}, y \in {1900, 1947, 1999, 2000, 2005}}

(* Digits of another script, which no pack can spell. *)
ForeignDigits ==
  {[Base(lang) EXCEPT ![f] = Sign("native digit")] : lang \in Langs, f \in {"primary_mobile", "address"}}

WholeRequests == Amounts \cup Schedules \cup Contacts \cup Dates \cup ForeignDigits

(* Amounts with paise. *)
PaiseRequests ==
  {[Base("english") EXCEPT !.premium_amount = Decimal[n] \o Sign(".") \o <<Digit(d), Digit(0)>>] :
     n \in {500, 25000}, d \in {0, 5}}

(* What the theorem about the declaration asks of a request holds of all of   *)
(* the first and of none of the others.                                       *)
ASSUME TellableRequests ==
  (\A r \in WholeRequests : Tellable(r)) /\ (\A r \in PaiseRequests : ~Tellable(r))
=============================================================================
