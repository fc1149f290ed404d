---------------------------- MODULE SessionStart ----------------------------
(* POST /start: the customer's data is converted to the script of the        *)
(* language, every phrase of the call is resolved with it, and a session is  *)
(* created whose greeting is turn 0.  The handler suspends only while the    *)
(* names and the address are converted (asyncio.gather).                     *)
EXTENDS SpokenText, TtsPlan

CONSTANTS Starts,     \* the requests
          Requests    \* what a request may hold: the fields that are spoken

SchemaLanguages == {"english", "hindi", "bengali", "gujarati", "kannada", "tamil", "telugu"}
RequestFields ==
  {"language", "customer_name", "insured_name", "primary_mobile", "alternative_mobile", "email", "address",
   "company", "plan_name", "policy_term", "premium_amount", "premium_paying_term", "premium_frequency",
   "sum_insured", "application_date", "dob_life_assured", "gender", "nominee_name"}
TextFields == RequestFields \ {"language", "gender", "premium_frequency"}
NumberFields == {"policy_term", "sum_insured", "premium_amount", "premium_paying_term"}
DateFields == {"application_date", "dob_life_assured"}
(* Strings, one of the languages of the schema, and numbers and dates in      *)
(* ASCII digits; the other fields may hold any digits.                        *)
ASSUME RequestsAssumption ==
  \A r \in Requests : /\ DOMAIN r = RequestFields /\ r.language \in SchemaLanguages
                      /\ r.gender \in STRING /\ r.premium_frequency \in STRING
                      /\ \A f \in TextFields : r[f] \in Seq(Written)
                      /\ \A f \in NumberFields \cup DateFields : ~Raises(r[f])

En == INSTANCE EnglishPack
Hi == INSTANCE HindiPack

SupportedLanguages == {"english", "hindi"}
NAME_FIELDS == {"customer_name", "insured_name", "nominee_name", "company", "plan_name"}

NoSession == [language |-> "none"]

VARIABLES
  client,     \* there is an OpenAI client
  request,    \* the request of each start
  pc,         \* "posted", "converting", "answered" or "error"
  session,    \* what session_manager holds for it
  told        \* history: the clauses of its declaration

vars == <<client, request, pc, session, told>>

-----------------------------------------------------------------------------
(* build_phrases_for_session                                                 *)
EnsureNumberWords(lang, v) == IF lang = "hindi" THEN Hi!EnsureNumberWords(v) ELSE En!EnsureNumberWords(v)
FormatDate(lang, v) == IF lang = "hindi" THEN Hi!FormatDate(v) ELSE En!FormatDate(v)
BuildDeclaration(lang, p) == IF lang = "hindi" THEN Hi!BuildDeclaration(p) ELSE En!BuildDeclaration(p)
NameWithTitle(lang, p) == IF lang = "hindi" THEN Hi!NameWithTitle(p) ELSE En!NameWithTitle(p)
Phrases(lang) == IF lang = "hindi" THEN Hi!Phrases ELSE En!Phrases

ForDeclaration(lang, p) ==
  [f \in DOMAIN p |-> CASE f \in NumberFields -> EnsureNumberWords(lang, p[f])
                        [] f \in DateFields -> FormatDate(lang, p[f])
                        [] OTHER -> p[f]]

DeclarationClauses(lang, p) == BuildDeclaration(lang, ForDeclaration(lang, p))
DeclarationText(clauses) == FlattenSeq([i \in DOMAIN clauses |-> clauses[i][2]])

(* Faulty variant: the alternative number is filled in from the primary one. *)
ReplacementsSamePhone(lang, req, p) ==
  [ words |-> <<Words>>, greeting |-> <<Words>>,
    customer_name |-> NameWithTitle(lang, p), company |-> p.company,
    phone |-> SpellPhone(req.primary_mobile), alt_phone |-> SpellPhone(req.primary_mobile),
    email |-> SpellEmail(p.email), address |-> SpellDigits(p.address),
    declaration |-> DeclarationText(DeclarationClauses(lang, p)) ]

Replacements(lang, req, p) ==
  [ words |-> <<Words>>, greeting |-> <<Words>>,
    customer_name |-> NameWithTitle(lang, p), company |-> p.company,
    phone |-> SpellPhone(req.primary_mobile), alt_phone |-> SpellPhone(req.alternative_mobile),
    email |-> SpellEmail(p.email), address |-> SpellDigits(p.address),
    declaration |-> DeclarationText(DeclarationClauses(lang, p)) ]

Resolve(parts, repl) ==
  [i \in DOMAIN parts |->
     [slow |-> parts[i].slow,
      text |-> FlattenSeq([k \in DOMAIN parts[i].holds |-> repl[parts[i].holds[k]]])]]

BuildPhrases(lang, req, p) ==
  LET repl == Replacements(lang, req, p)
  IN  [state \in DOMAIN Phrases(lang) |-> Resolve(Phrases(lang)[state], repl)]

-----------------------------------------------------------------------------
(* LanguagePreprocessor: the fields to convert are the ones that hold        *)
(* something; a call that raises or returns nothing keeps the original.      *)
Tasks(req) == {f \in NAME_FIELDS \cup {"address"} : req[f] # <<>>}
Native(text) == Each(text, LAMBDA t : IF t[1] = "digit" THEN t ELSE <<t[1], 1>>)

(* The address prompt: places in the script of the language, numbers in      *)
(* words of it, and the pincode digit by digit.  Which number is the pincode *)
(* is the model's to tell; a number it does not convert stays as it is, or   *)
(* comes in digits of the script.  A number in words counts as one word.     *)
Manners == {"words", "digit by digit", "as written", "native digits"}
SayNumber(number, manner) ==
  CASE manner = "words" -> <<Word(Scan(AppendDigit, 0, number))>>
    [] manner = "digit by digit" -> Each(number, LAMBDA t : Spelled(t[2]))
    [] manner = "native digits" -> Each(number, LAMBDA t : NativeDigit(t[2]))
    [] OTHER -> number

IsDigit(t) == t[1] \in {"digit", "native digit"}
Numbers(text) ==
  LET IsNumber(i, j) == /\ i <= j /\ \A k \in i .. j : IsDigit(text[k])
                        /\ i > 1 => ~IsDigit(text[i - 1])
                        /\ j < Len(text) => ~IsDigit(text[j + 1])
  IN  {SubSeq(text, at[1], at[2]) : at \in {x \in (1 .. Len(text)) \X (1 .. Len(text)) : IsNumber(x[1], x[2])}}

WithNumber(acc, how) ==
  IF acc.number = <<>> THEN acc.said ELSE acc.said \o SayNumber(acc.number, how[acc.number])
ConvertWord(how) ==
  [acc \in [said : Seq(Token), number : Seq(Token)] |-> [t \in Token |->
     IF IsDigit(t) THEN [acc EXCEPT !.number = Append(@, t)]
     ELSE [said |-> Append(WithNumber(acc, how), <<t[1], 1>>), number |-> <<>>]]]
NativeAddress(text, how) == WithNumber(Scan(ConvertWord(how), [said |-> <<>>, number |-> <<>>], text), how)

NativeField(req, f, how) == IF f = "address" THEN NativeAddress(req[f], how) ELSE Native(req[f])

(* Faulty variant: a call that returned nothing replaces the original.       *)
ConvertedOrEmpty(req, done, how) ==
  [f \in DOMAIN req |->
     IF f \notin Tasks(req) THEN req[f] ELSE IF f \in done THEN NativeField(req, f, how) ELSE <<>>]

Converted(req, done, how) ==
  [f \in DOMAIN req |-> IF f \in Tasks(req) \cap done THEN NativeField(req, f, how) ELSE req[f]]

(* session_manager.create and the greeting as turn 0.                        *)
NewSession(req, phrases) ==
  [ language |-> req.language, phrases |-> phrases,
    hasAlt |-> req.alternative_mobile # <<>>,
    pending |-> phrases["greeting"],
    transcript |-> <<StripVarMarkup(phrases["greeting"])>> ]

(* The rest of start_session, from the phrases to the answer, is one step.   *)
Finish(s, p) ==
  LET req == request[s]
      phrases == BuildPhrases(req.language, req, p)
  IN  IF Raises(req.primary_mobile) \/ Raises(req.alternative_mobile) \/ Raises(p.email) \/ Raises(p.address)
      THEN pc' = [pc EXCEPT ![s] = "error"] /\ UNCHANGED <<session, told>>
      ELSE /\ session' = [session EXCEPT ![s] = NewSession(req, phrases)]
           /\ told' = [told EXCEPT ![s] = DeclarationClauses(req.language, p)]
           /\ pc' = [pc EXCEPT ![s] = "answered"]

(* A language the schema allows and no pack speaks raises.                   *)
Refuse(s) ==
  /\ pc[s] = "posted" /\ request[s].language \notin SupportedLanguages
  /\ pc' = [pc EXCEPT ![s] = "error"]
  /\ UNCHANGED <<client, request, session, told>>

NeedsConversion(s) == request[s].language # "english" /\ client /\ Tasks(request[s]) # {}

PassThrough(s) ==
  /\ pc[s] = "posted" /\ request[s].language \in SupportedLanguages /\ ~NeedsConversion(s)
  /\ Finish(s, request[s])
  /\ UNCHANGED <<client, request>>

StartConversion(s) ==
  /\ pc[s] = "posted" /\ request[s].language \in SupportedLanguages /\ NeedsConversion(s)
  /\ pc' = [pc EXCEPT ![s] = "converting"]
  /\ UNCHANGED <<client, request, session, told>>

(* gather has every result; done are the fields whose call gave a text.      *)
Gathered(s) ==
  /\ pc[s] = "converting"
  /\ \E done \in SUBSET Tasks(request[s]), how \in [Numbers(request[s].address) -> Manners] :
       Finish(s, Converted(request[s], done, how))
  /\ UNCHANGED <<client, request>>

Init ==
  /\ client \in BOOLEAN
  /\ request \in [Starts -> Requests]
  /\ pc = [s \in Starts |-> "posted"]
  /\ session = [s \in Starts |-> NoSession]
  /\ told = [s \in Starts |-> <<>>]

Next == \E s \in Starts : Refuse(s) \/ PassThrough(s) \/ StartConversion(s) \/ Gathered(s)

Spec == Init /\ [][Next]_vars

-----------------------------------------------------------------------------
(* A field is told by the words of the request or their conversion.          *)
SameWords(text, written) ==
  /\ Len(text) = Len(written)
  /\ \A i \in DOMAIN text : text[i][1] = written[i][1]

Told(s, field) ==
  LET at == {i \in DOMAIN told[s] : told[s][i][1] = field}
  IN  IF at = {} THEN <<>> ELSE told[s][CHOOSE i \in at : \A j \in at : i <= j][2]

(* The requests whose policy the packs can tell whole: a frequency of the     *)
(* table, dates whose numbers do not touch, and amounts without a decimal     *)
(* point or, in English, letters of another script, all of which the English  *)
(* formatter drops.                                                           *)
Tellable(req) ==
  /\ NormalizeFrequency(req.premium_frequency) \in Frequencies
  /\ \A f \in DateFields : Spaced(req[f])
  /\ \A f \in NumberFields : /\ "." \notin Kinds(req[f])
                             /\ "native" \in Kinds(req[f]) => req.language = "hindi"

(* The declaration tells the policy of the request: every amount and term is *)
(* heard as the number that was written, every date as its day, month and    *)
(* year, every name in its place whether or not its conversion failed, the   *)
(* frequency by its meaning, and the premium term unless it is a single      *)
(* payment (build_phrases_for_session and the packs' formatters).            *)
DeclarationTellsPolicy ==
  \A s \in Starts : pc[s] = "answered" =>
    LET req == request[s]
        frequency == NormalizeFrequency(req.premium_frequency)
    IN  /\ \A f \in {"policy_term", "sum_insured", "premium_amount"} : Amount(Told(s, f)) = Amount(req[f])
        /\ frequency # "single" =>
             Amount(Told(s, "premium_paying_term")) = Amount(req.premium_paying_term)
        /\ \A f \in DateFields : DateMeaning(Told(s, f)) = DateMeaning(req[f])
        /\ \A f \in {"insured_name", "nominee_name", "company", "plan_name"} : SameWords(Told(s, f), req[f])
        /\ Told(s, "premium_frequency") = <<<<frequency, 0>>>>

(* The verification questions ask for the customer's own data, slowly: the   *)
(* digits of the two numbers one by one and in order, each in its question,  *)
(* the e-mail word for word, and the address as it was written, its places   *)
(* and its numbers in order, whether the conversion put a number into words, *)
(* spelled it, left it or failed, without a digit left for the voice to      *)
(* read its own way; an address nobody converts is spelled digit by digit    *)
(* (format_phone, _spell_digits, _convert_address).                          *)
SlowText(s, state) ==
  FlattenSeq([i \in DOMAIN session[s].phrases[state] |->
    IF session[s].phrases[state][i].slow THEN session[s].phrases[state][i].text ELSE <<>>])

SaysDigits(text, written) ==
  LET digits == OfKind(written, {"digit"})
  IN  OfKind(text, {"spelled", "digit"}) = [i \in DOMAIN digits |-> Spelled(digits[i][2])]

QuestionsAskOwnData ==
  \A s \in Starts : pc[s] = "answered" =>
    /\ SaysDigits(SlowText(s, "q_mobile"), request[s].primary_mobile)
    /\ session[s].hasAlt => SaysDigits(SlowText(s, "q_alt_mobile"), request[s].alternative_mobile)
    /\ SaysDigits(SlowText(s, "q_email"), request[s].email)
    /\ Len(SlowText(s, "q_email")) = Len(request[s].email)
    /\ AddressMeaning(SlowText(s, "q_address")) = AddressMeaning(request[s].address)
    /\ Kinds(SlowText(s, "q_address")) \cap {"digit", "native digit"} = {}
    /\ ~NeedsConversion(s) => SaysDigits(SlowText(s, "q_address"), request[s].address)

(* What the customer hears of a phrase is what the transcript keeps of it,   *)
(* in order and without a part lost or said twice, and every slow part       *)
(* stands between two silences (build_tts_plan, strip_var_markup).           *)
SaidInPlan(plan) ==
  FlattenSeq([i \in DOMAIN plan |-> IF plan[i].kind = "speech" THEN plan[i].text ELSE <<>>])

PlanSaysTranscript ==
  \A s \in Starts : pc[s] = "answered" =>
    \A state \in DOMAIN session[s].phrases :
      LET plan == BuildTtsPlan(session[s].phrases[state])
      IN  /\ SaidInPlan(plan) = StripVarMarkup(session[s].phrases[state])
          /\ \A i \in DOMAIN plan :
               plan[i].slow => i > 1 /\ i < Len(plan) /\ plan[i - 1] = Silence /\ plan[i + 1] = Silence
=============================================================================
