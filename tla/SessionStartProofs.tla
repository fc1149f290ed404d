------------------------- MODULE SessionStartProofs -------------------------
(****************************************************************************)
(* Proofs about /start: what is spoken of the phrases it makes, for every   *)
(* request, whichever of its conversions succeed.                           *)
(*                                                                          *)
(* The plan and the questions go token by token, so their lemmas are about  *)
(* Expand and Mapped of one token more.  The numbers go by the listener of  *)
(* SpokenText: a text Tells when it takes him from one state to another,    *)
(* and texts that tell go one after the other.                              *)
(****************************************************************************)
EXTENDS SessionStart, SequenceLemmas

----------------------------------------------------------------------------
(* The plan of a text (tts_plan.py).                                        *)

(* What a text is made of, and what the player is handed (tts_plan.py).     *)
Parts == [slow : BOOLEAN, text : Seq(Token)]
PlanItems == [kind : {"silence", "speech"}, text : Seq(Token), slow : BOOLEAN]

(* A text as the items of its plan, a text as what it says, a plan as       *)
(* what is heard.                                                           *)
Plan == [p \in Parts |-> Segments(p)]
Kept == [p \in Parts |-> p.text]
Said == [g \in PlanItems |-> IF g.kind = "speech" THEN g.text ELSE <<>>]

(* A part gives speech and silences.                                        *)
LEMMA SegmentsType == \A p \in Parts : Segments(p) \in Seq(PlanItems)
<1>1. SUFFICES ASSUME NEW p \in Parts PROVE Segments(p) \in Seq(PlanItems)
  OBVIOUS
<1>2. Silence \in PlanItems /\ Speech(p) \in PlanItems
  BY <1>1, EmptySeq DEF Parts, PlanItems, Silence, Speech
<1>3. \A a, b, c \in PlanItems : <<>> \in Seq(PlanItems) /\ <<b>> \in Seq(PlanItems) /\ <<a, b, c>> \in Seq(PlanItems)
  OBVIOUS
<1>4. Segments(p) \in {<<>>, <<Speech(p)>>, <<Silence, Speech(p), Silence>>}
  BY <1>1 DEF Segments, Parts
<1> QED
  BY <1>2, <1>3, <1>4

(* Each of the three maps is total.                                         *)
LEMMA PlanTypes ==
    /\ Plan \in [Parts -> Seq(PlanItems)]
    /\ Kept \in [Parts -> Seq(Token)]
    /\ Said \in [PlanItems -> Seq(Token)]
<1>1. \A p \in Parts : p.text \in Seq(Token)
  BY DEF Parts
<1>2. \A g \in PlanItems : (IF g.kind = "speech" THEN g.text ELSE <<>>) \in Seq(Token)
  BY EmptySeq DEF PlanItems
<1> QED
  BY <1>1, <1>2, SegmentsType DEF Plan, Kept, Said

(* build_tts_plan, strip_var_markup and a listener go part by part.         *)
LEMMA PlanExpands == \A parts \in Seq(Parts) : BuildTtsPlan(parts) = Expand(Plan, parts)
<1>1. SUFFICES ASSUME NEW parts \in Seq(Parts) PROVE BuildTtsPlan(parts) = Expand(Plan, parts)
  OBVIOUS
<1>2. \A i \in DOMAIN parts : parts[i] \in Parts
  BY ElementOfSeq, LenProperties
<1>3. [i \in DOMAIN parts |-> Segments(parts[i])] = [i \in DOMAIN parts |-> Plan[parts[i]]]
  BY <1>2 DEF Plan
<1> QED
  BY Zenon, <1>3 DEF BuildTtsPlan, Expand

LEMMA StripExpands == \A parts \in Seq(Parts) : StripVarMarkup(parts) = Expand(Kept, parts)
<1>1. SUFFICES ASSUME NEW parts \in Seq(Parts) PROVE StripVarMarkup(parts) = Expand(Kept, parts)
  OBVIOUS
<1>2. \A i \in DOMAIN parts : parts[i] \in Parts
  BY ElementOfSeq, LenProperties
<1>3. [i \in DOMAIN parts |-> parts[i].text] = [i \in DOMAIN parts |-> Kept[parts[i]]]
  BY <1>2 DEF Kept
<1> QED
  BY Zenon, <1>3 DEF StripVarMarkup, Expand

LEMMA SaidExpands == \A plan \in Seq(PlanItems) : SaidInPlan(plan) = Expand(Said, plan)
<1>1. SUFFICES ASSUME NEW plan \in Seq(PlanItems) PROVE SaidInPlan(plan) = Expand(Said, plan)
  OBVIOUS
<1>2. \A i \in DOMAIN plan : plan[i] \in PlanItems
  BY ElementOfSeq, LenProperties
<1>3. [i \in DOMAIN plan |-> IF plan[i].kind = "speech" THEN plan[i].text ELSE <<>>]
      = [i \in DOMAIN plan |-> Said[plan[i]]]
  BY <1>2 DEF Said
<1> QED
  BY Zenon, <1>3 DEF SaidInPlan, Expand

(* A part is spoken as it is written, whether it is slow or empty.          *)
LEMMA SegmentsSay == \A p \in Parts : Expand(Said, Segments(p)) = p.text
<1>1. SUFFICES ASSUME NEW p \in Parts PROVE Expand(Said, Segments(p)) = p.text
  OBVIOUS
<1>2. /\ Silence \in PlanItems /\ Said[Silence] = <<>>
      /\ Speech(p) \in PlanItems /\ Said[Speech(p)] = p.text /\ p.text \in Seq(Token)
  BY <1>1, EmptySeq DEF Parts, PlanItems, Silence, Speech, Said
<1>3. \A t \in Seq(Token) : <<>> \o t = t /\ t \o <<>> = t
  BY ConcatEmptySeq
<1>4. ASSUME NEW g \in PlanItems PROVE Expand(Said, <<g>>) = Said[g]
  <2>1. <<>> \in Seq(PlanItems) /\ Append(<<>>, g) = <<g>>
    BY EmptySeq
  <2>2. Expand(Said, Append(<<>>, g)) = Expand(Said, <<>>) \o Said[g]
    BY <2>1, PlanTypes, ExpandAppend
  <2> QED
    BY <1>3, <2>1, <2>2, ExpandEmpty, PlanTypes
<1>5. CASE p.text = <<>>
  <2>1. Segments(p) = <<>>
    BY <1>5 DEF Segments
  <2> QED
    BY <1>5, <2>1, ExpandEmpty
<1>6. CASE p.text # <<>> /\ ~p.slow
  BY <1>2, <1>4, <1>6 DEF Segments
<1>7. CASE p.text # <<>> /\ p.slow
  <2> DEFINE a == <<Silence>>
             b == <<Silence, Speech(p)>>
             c == <<Silence, Speech(p), Silence>>
  <2>1. a \in Seq(PlanItems) /\ b \in Seq(PlanItems) /\ b = Append(a, Speech(p)) /\ c = Append(b, Silence)
    BY <1>2
  <2>2. Expand(Said, b) = Expand(Said, a) \o Said[Speech(p)] /\ Expand(Said, c) = Expand(Said, b) \o Said[Silence]
    BY ZenonT(60), <1>2, <2>1, PlanTypes, ExpandAppend
  <2>3. Expand(Said, c) = p.text
    BY <1>2, <1>3, <1>4, <2>2
  <2> QED
    BY <1>7, <2>3 DEF Segments
<1> QED
  BY <1>1, <1>5, <1>6, <1>7

(* Plans one after the other say their texts one after the other.           *)
LEMMA SaidConcat ==
    ASSUME NEW a \in Seq(PlanItems), NEW b \in Seq(PlanItems)
    PROVE  Expand(Said, a \o b) = Expand(Said, a) \o Expand(Said, b)
<1>1. Said \in [PlanItems -> Seq(Token)]
  BY PlanTypes
<1> QED
  BY <1>1, ExpandConcat

(* A plan says the transcript of its text, for every text.                  *)
LEMMA PlanSays ==
    \A parts \in Seq(Parts) : SaidInPlan(BuildTtsPlan(parts)) = StripVarMarkup(parts)
<1> DEFINE T == {parts \in Seq(Parts) : Expand(Said, Expand(Plan, parts)) = Expand(Kept, parts)}
<1>1. <<>> \in T
  BY ExpandEmpty, EmptySeq
<1>2. ASSUME NEW parts \in Seq(Parts), NEW p \in Parts, parts \in T PROVE Append(parts, p) \in T
  <2>1. Expand(Plan, Append(parts, p)) = Expand(Plan, parts) \o Plan[p]
    BY PlanTypes, ExpandAppend
  <2>2. Expand(Kept, Append(parts, p)) = Expand(Kept, parts) \o Kept[p]
    BY PlanTypes, ExpandAppend
  <2>3. Expand(Plan, parts) \in Seq(PlanItems) /\ Plan[p] \in Seq(PlanItems)
    BY PlanTypes, ExpandType
  <2>4. Expand(Said, Expand(Plan, parts) \o Plan[p]) = Expand(Said, Expand(Plan, parts)) \o Expand(Said, Plan[p])
    <3> DEFINE a == Expand(Plan, parts)
               b == Plan[p]
    <3>1. a \in Seq(PlanItems) /\ b \in Seq(PlanItems) /\ Said \in [PlanItems -> Seq(Token)]
      BY <2>3, PlanTypes
    <3> HIDE DEF a, b
    <3>2. Expand(Said, a \o b) = Expand(Said, a) \o Expand(Said, b)
      BY <3>1, SaidConcat
    <3> QED
      BY <3>2 DEF a, b
  <2>5. Expand(Said, Plan[p]) = Kept[p]
    BY SegmentsSay DEF Plan, Kept
  <2>6. Append(parts, p) \in Seq(Parts)
    BY AppendProperties
  <2> QED
    BY <1>2, <2>1, <2>2, <2>4, <2>5, <2>6
<1> HIDE DEF T
<1>3. \A parts \in Seq(Parts) : parts \in T
  BY <1>1, <1>2, SeqInduction
<1>4. SUFFICES ASSUME NEW parts \in Seq(Parts) PROVE SaidInPlan(BuildTtsPlan(parts)) = StripVarMarkup(parts)
  OBVIOUS
<1>5. Expand(Plan, parts) \in Seq(PlanItems)
  BY PlanTypes, ExpandType
<1>6. Expand(Said, Expand(Plan, parts)) = Expand(Kept, parts)
  BY <1>3 DEF T
<1> QED
  BY <1>5, <1>6, PlanExpands, SaidExpands, StripExpands

(* Every slow item stands between two silences.                              *)
Paused(plan) ==
  \A i \in DOMAIN plan :
    plan[i].slow => i > 1 /\ i < Len(plan) /\ plan[i - 1] = Silence /\ plan[i + 1] = Silence

(* Two paused plans one after the other are a paused plan.                  *)
LEMMA PausedConcat ==
    ASSUME NEW a \in Seq(PlanItems), NEW b \in Seq(PlanItems), Paused(a), Paused(b)
    PROVE  Paused(a \o b)
<1> DEFINE c == a \o b
           n == Len(a)
<1>1. /\ n \in Nat /\ Len(b) \in Nat /\ Len(c) = n + Len(b) /\ c \in Seq(PlanItems)
      /\ \A i \in 1..n : c[i] = a[i]
      /\ \A i \in 1..Len(b) : c[n + i] = b[i]
      /\ DOMAIN c = 1..Len(c) /\ DOMAIN a = 1..n /\ DOMAIN b = 1..Len(b)
  BY ConcatItems, LenProperties
<1> HIDE DEF c, n
<1>2. ASSUME NEW i \in DOMAIN c, c[i].slow
      PROVE  i > 1 /\ i < Len(c) /\ c[i - 1] = Silence /\ c[i + 1] = Silence
  <2>1. CASE i \in 1..n
    <3>1. a[i].slow
      BY <1>1, <1>2, <2>1
    <3>2. i > 1 /\ i < n /\ a[i - 1] = Silence /\ a[i + 1] = Silence
      BY <1>1, <2>1, <3>1 DEF Paused, n
    <3>3. i - 1 \in 1..n /\ i + 1 \in 1..n
      BY <1>1, <2>1, <3>2
    <3> QED
      BY <1>1, <3>2, <3>3
  <2>2. CASE i \notin 1..n
    <3> DEFINE k == i - n
    <3>1. k \in 1..Len(b) /\ n + k = i
      BY <1>1, <2>2
    <3> HIDE DEF k
    <3>2. b[k].slow
      BY <1>1, <1>2, <3>1
    <3>3. k > 1 /\ k < Len(b) /\ b[k - 1] = Silence /\ b[k + 1] = Silence
      BY <1>1, <3>1, <3>2 DEF Paused
    <3>4. /\ k - 1 \in 1..Len(b) /\ k + 1 \in 1..Len(b)
          /\ n + (k - 1) = i - 1 /\ n + (k + 1) = i + 1 /\ i > 1 /\ i < Len(c)
      BY <1>1, <3>1, <3>3
    <3> QED
      BY <1>1, <3>3, <3>4
  <2> QED
    BY <2>1, <2>2
<1> QED
  BY <1>2 DEF Paused, c

(* No slow item is spoken without a silence before and after it, for        *)
(* every text.                                                              *)
LEMMA PlanPaused == \A parts \in Seq(Parts) : Paused(BuildTtsPlan(parts))
<1> DEFINE T == {parts \in Seq(Parts) : Paused(Expand(Plan, parts))}
<1>1. <<>> \in T
  BY ExpandEmpty, EmptySeq DEF Paused
<1>2. ASSUME NEW parts \in Seq(Parts), NEW p \in Parts, parts \in T PROVE Append(parts, p) \in T
  <2>1. Expand(Plan, Append(parts, p)) = Expand(Plan, parts) \o Plan[p]
    BY PlanTypes, ExpandAppend
  <2>2. Expand(Plan, parts) \in Seq(PlanItems) /\ Plan[p] \in Seq(PlanItems)
    BY PlanTypes, ExpandType
  <2>3. Paused(Segments(p))
    <3>1. CASE p.text # <<>> /\ p.slow
      <4> DEFINE c == <<Silence, Speech(p), Silence>>
      <4>1. Segments(p) = c
        BY <3>1 DEF Segments
      <4>2. Len(c) = 3 /\ DOMAIN c = 1..3 /\ c[1] = Silence /\ c[3] = Silence /\ ~Silence.slow
        BY DEF Silence
      <4> HIDE DEF c
      <4>3. \A i \in 1..3 : i = 1 \/ i = 2 \/ i = 3
        OBVIOUS
      <4> QED
        BY <4>1, <4>2, <4>3 DEF Paused
    <3>2. CASE ~(p.text # <<>> /\ p.slow)
      <4>1. CASE p.text = <<>>
        <5>1. Segments(p) = <<>>
          BY <4>1 DEF Segments
        <5> QED
          BY <5>1 DEF Paused
      <4>2. CASE p.text # <<>>
        <5>1. Segments(p) = <<Speech(p)>> /\ ~Speech(p).slow
          BY <3>2, <4>2 DEF Segments, Speech, Parts
        <5>2. \A x : DOMAIN <<x>> = {1} /\ <<x>>[1] = x
          OBVIOUS
        <5> HIDE DEF Segments
        <5> QED
          BY <5>1, <5>2 DEF Paused
      <4> QED
        BY <4>1, <4>2
    <3> QED
      BY <3>1, <3>2
  <2>4. Append(parts, p) \in Seq(Parts)
    BY AppendProperties
  <2> QED
    BY <1>2, <2>1, <2>2, <2>3, <2>4, PausedConcat DEF Plan
<1> HIDE DEF T
<1>3. \A parts \in Seq(Parts) : parts \in T
  BY <1>1, <1>2, SeqInduction
<1> QED
  BY <1>3, PlanExpands DEF T

----------------------------------------------------------------------------
(* Texts read token by token.                                               *)

(* The states of a reading, one for each token read.                        *)
Reads(f, step, start, text) ==
    f = [i \in 0 .. Len(text) |-> IF i = 0 THEN start ELSE step[f[i - 1]][text[i]]]

(* A reading ends in the last of its states.                                *)
LEMMA ScanReads ==
    ASSUME NEW step, NEW start, NEW text, \E f : Reads(f, step, start, text)
    PROVE  \E f : Reads(f, step, start, text) /\ Scan(step, start, text) = f[Len(text)]
<1> DEFINE g == CHOOSE f : f = [i \in 0 .. Len(text) |-> IF i = 0 THEN start ELSE step[f[i - 1]][text[i]]]
<1>1. Reads(g, step, start, text)
  BY DEF Reads
<1>2. Scan(step, start, text) = g[Len(text)]
  BY Zenon DEF Scan
<1> QED
  BY <1>1, <1>2

(* The packs read and select as the form does.                              *)
LEMMA EnScan == \A step, start, text : En!Scan(step, start, text) = Scan(step, start, text)
BY Zenon DEF En!Scan, Scan
LEMMA HiScan == \A step, start, text : Hi!Scan(step, start, text) = Scan(step, start, text)
BY Zenon DEF Hi!Scan, Scan
LEMMA EnOfKind == \A text, k : En!OfKind(text, k) = OfKind(text, k)
BY Zenon DEF En!OfKind, OfKind, En!FlattenSeq, FlattenSeq

(* A reading of one token more.                                             *)
LEMMA ReadsAppend ==
    ASSUME NEW S, NEW s \in Seq(S), NEW e \in S, NEW step, NEW start, NEW f, Reads(f, step, start, s)
    PROVE  Reads([i \in 0 .. (Len(s) + 1) |-> IF i = Len(s) + 1 THEN step[f[Len(s)]][e] ELSE f[i]],
                 step, start, Append(s, e))
<1> DEFINE n == Len(s)
           w == Append(s, e)
           g == [i \in 0 .. (n + 1) |-> IF i = n + 1 THEN step[f[n]][e] ELSE f[i]]
<1>1. n \in Nat /\ Len(w) = n + 1 /\ w[n + 1] = e /\ \A i \in 1 .. n : w[i] = s[i]
  BY AppendProperties, LenProperties
<1> HIDE DEF w
<1>2. ASSUME NEW i \in 0 .. (n + 1)
      PROVE  g[i] = IF i = 0 THEN start ELSE step[g[i - 1]][w[i]]
  <2>1. CASE i = n + 1
    <3>1. g[i] = step[f[n]][e] /\ g[i - 1] = f[n] /\ w[i] = e /\ i # 0
      BY <1>1, <2>1
    <3> QED
      BY <3>1
  <2>2. CASE i # n + 1
    <3>1. i \in 0 .. n /\ (i # 0 => i - 1 \in 0 .. n /\ i \in 1 .. n)
      BY <1>1, <2>2
    <3>2. f[i] = IF i = 0 THEN start ELSE step[f[i - 1]][s[i]]
      BY <3>1 DEF Reads
    <3> QED
      BY <1>1, <2>2, <3>1, <3>2
  <2> QED
    BY <2>1, <2>2
<1>3. g = [i \in 0 .. Len(w) |-> IF i = 0 THEN start ELSE step[g[i - 1]][w[i]]]
  BY <1>1, <1>2
<1> QED
  BY <1>3 DEF Reads, w

(* Every text can be read.                                                  *)
LEMMA ReadsExist ==
    ASSUME NEW S, NEW s \in Seq(S), NEW step, NEW start
    PROVE  \E f : Reads(f, step, start, s)
<1> DEFINE T == {x \in Seq(S) : \E f : Reads(f, step, start, x)}
<1>1. <<>> \in T
  <2>1. Reads([i \in 0 .. 0 |-> start], step, start, <<>>)
    BY DEF Reads
  <2> QED
    BY <2>1, EmptySeq
<1>2. ASSUME NEW x \in Seq(S), NEW e \in S, x \in T PROVE Append(x, e) \in T
  <2>1. PICK f : Reads(f, step, start, x)
    BY <1>2
  <2>2. \E g : Reads(g, step, start, Append(x, e))
    BY <2>1, ReadsAppend
  <2> QED
    BY <2>2, AppendProperties
<1> HIDE DEF T
<1>3. s \in T
  BY <1>1, <1>2, SeqInduction
<1> QED
  BY <1>3 DEF T

(* In one way only.                                                         *)
LEMMA ReadsAgree ==
    ASSUME NEW n \in Nat, NEW step, NEW start, NEW s, NEW w, NEW f, NEW g,
           Len(s) = n, Len(w) \in Nat, Len(w) >= n, \A i \in 1 .. n : w[i] = s[i],
           Reads(f, step, start, s), Reads(g, step, start, w)
    PROVE  f[n] = g[n]
<1> DEFINE T == {i \in Nat : i <= n => f[i] = g[i]}
<1>1. 0 \in T
  BY DEF Reads
<1>2. ASSUME NEW i \in Nat, i \in T PROVE i + 1 \in T
  <2>1. SUFFICES ASSUME i + 1 <= n PROVE f[i + 1] = g[i + 1]
    OBVIOUS
  <2> DEFINE k == i + 1
  <2>2. k \in 0 .. Len(s) /\ k \in 0 .. Len(w) /\ k # 0 /\ k - 1 = i /\ k \in 1 .. n /\ f[i] = g[i]
    BY <1>2, <2>1
  <2> HIDE DEF k
  <2>3. f[k] = step[f[k - 1]][s[k]] /\ g[k] = step[g[k - 1]][w[k]]
    BY <2>2 DEF Reads
  <2>4. f[k] = g[k]
    BY <2>2, <2>3
  <2> QED
    BY <2>4 DEF k
<1> HIDE DEF T
<1>3. n \in T
  BY <1>1, <1>2, SetInduction
<1> QED
  BY <1>3 DEF T

(* Nothing read leaves the start.                                           *)
LEMMA ScanEmpty == \A step, start : Scan(step, start, <<>>) = start
<1>1. SUFFICES ASSUME NEW step, NEW start PROVE Scan(step, start, <<>>) = start
  OBVIOUS
<1>2. \E f : Reads(f, step, start, <<>>)
  BY EmptySeq, ReadsExist
<1>3. PICK f : Reads(f, step, start, <<>>) /\ Scan(step, start, <<>>) = f[Len(<<>>)]
  BY <1>2, ScanReads
<1> QED
  BY <1>3 DEF Reads

(* A token more is a step more.                                             *)
LEMMA ScanAppend ==
    ASSUME NEW S, NEW s \in Seq(S), NEW e \in S, NEW step, NEW start
    PROVE  Scan(step, start, Append(s, e)) = step[Scan(step, start, s)][e]
<1> DEFINE n == Len(s)
           w == Append(s, e)
           m == n + 1
<1>1. /\ n \in Nat /\ w \in Seq(S) /\ Len(w) = m /\ w[m] = e /\ (\A i \in 1 .. n : w[i] = s[i])
      /\ m \in 0 .. Len(w) /\ m # 0 /\ m - 1 = n /\ Len(w) \in Nat /\ Len(w) >= n
  BY AppendProperties, LenProperties
<1> HIDE DEF n, w, m
<1>2. PICK f : Reads(f, step, start, s) /\ Scan(step, start, s) = f[n]
  <2>1. \E f : Reads(f, step, start, s)
    BY ReadsExist
  <2> QED
    BY <2>1, ScanReads DEF n
<1>3. PICK g : Reads(g, step, start, w) /\ Scan(step, start, w) = g[Len(w)]
  <2>1. \E g : Reads(g, step, start, w)
    BY <1>1, ReadsExist
  <2> QED
    BY <2>1, ScanReads
<1>4. g[m] = step[g[m - 1]][w[m]]
  BY <1>1, <1>3 DEF Reads
<1>5. f[n] = g[n]
  <2>1. Len(s) = n
    BY DEF n
  <2> QED
    BY <1>1, <1>2, <1>3, <2>1, ReadsAgree
<1> QED
  BY <1>1, <1>2, <1>3, <1>4, <1>5 DEF w

(* What every step keeps, the whole reading keeps.                           *)
LEMMA ScanKeeps ==
    ASSUME NEW S, NEW A, NEW s \in Seq(S), NEW step, NEW start \in A,
           \A a \in A, e \in S : step[a][e] \in A
    PROVE  Scan(step, start, s) \in A
<1> DEFINE T == {x \in Seq(S) : Scan(step, start, x) \in A}
<1>1. <<>> \in T
  BY ScanEmpty, EmptySeq
<1>2. ASSUME NEW x \in Seq(S), NEW e \in S, x \in T PROVE Append(x, e) \in T
  <2>1. Scan(step, start, Append(x, e)) = step[Scan(step, start, x)][e]
    BY ScanAppend
  <2>2. Append(x, e) \in Seq(S)
    BY AppendProperties
  <2> QED
    BY <1>2, <2>1, <2>2
<1> HIDE DEF T
<1>3. s \in T
  BY <1>1, <1>2, SeqInduction
<1> QED
  BY <1>3 DEF T

(* A text read after another.                                               *)
LEMMA ScanConcat ==
    ASSUME NEW S, NEW s \in Seq(S), NEW t \in Seq(S), NEW step, NEW start
    PROVE  Scan(step, start, s \o t) = Scan(step, Scan(step, start, s), t)
<1> DEFINE H == {x \in Seq(S) : Scan(step, start, s \o x) = Scan(step, Scan(step, start, s), x)}
<1>1. <<>> \in H
  <2>1. s \o <<>> = s /\ <<>> \in Seq(S)
    BY ConcatEmptySeq
  <2> QED
    BY <2>1, ScanEmpty
<1>2. ASSUME NEW x \in Seq(S), NEW e \in S, x \in H PROVE Append(x, e) \in H
  <2>1. s \o x \in Seq(S) /\ Append(x, e) \in Seq(S) /\ s \o Append(x, e) = Append(s \o x, e)
    BY ConcatProperties, AppendProperties, ConcatAppend
  <2>2. Scan(step, start, Append(s \o x, e)) = step[Scan(step, start, s \o x)][e]
    BY <2>1, ScanAppend
  <2>3. Scan(step, Scan(step, start, s), Append(x, e)) = step[Scan(step, Scan(step, start, s), x)][e]
    BY ScanAppend
  <2> QED
    BY <1>2, <2>1, <2>2, <2>3
<1> HIDE DEF H
<1>3. t \in H
  BY <1>1, <1>2, SeqInduction
<1> QED
  BY <1>3 DEF H

----------------------------------------------------------------------------
(* The words of a number: number_to_words of both packs.                    *)

(* number_to_words: the words of the crores in front of those of the rest.   *)
Crores(crores, x) == IF x >= Crore THEN crores \o <<Word(Crore)>> ELSE <<>>
Body(crores, x, small, hundreds) ==
  Crores(crores, x)
  \o (IF (x % Crore) \div Lakh = 0 THEN <<>> ELSE small[(x % Crore) \div Lakh] \o <<Word(Lakh)>>)
  \o (IF (x % Lakh) \div 1000 = 0 THEN <<>> ELSE small[(x % Lakh) \div 1000] \o <<Word(1000)>>)
  \o hundreds[x % 1000]
Builds(f, small, hundreds) == f = [x \in Nat |-> Body(f[x \div Crore], x, small, hundreds)]
BuildsTo(n, f, small, hundreds) == f = [x \in 0 .. n |-> Body(f[x \div Crore], x, small, hundreds)]

(* The crores of a number are fewer than the number.                        *)
LEMMA CroresShrink == \A x \in Nat : /\ x \div Crore \in Nat /\ x \div Crore <= x
                                     /\ x >= Crore => x \div Crore < x
BY SMT DEF Crore

(* Below a crore there are no words of crores.                              *)
LEMMA BelowCrore ==
    ASSUME NEW x \in Nat, ~(x >= Crore), NEW p, NEW q, NEW small, NEW hundreds
    PROVE  Body(p, x, small, hundreds) = Body(q, x, small, hundreds)
<1>1. Crores(p, x) = Crores(q, x)
  BY DEF Crores
<1> QED
  BY <1>1 DEF Body

(* The words of the numbers up to a bound are defined, at every bound.      *)
LEMMA BuildsToExist ==
    ASSUME NEW n \in Nat, NEW small, NEW hundreds
    PROVE  \E f : BuildsTo(n, f, small, hundreds)
<1> DEFINE T == {k \in Nat : \E f : BuildsTo(k, f, small, hundreds)}
<1>1. 0 \in T
  <2> DEFINE f == [x \in 0 .. 0 |-> Body(<<>>, x, small, hundreds)]
  <2>1. ASSUME NEW x \in 0 .. 0 PROVE f[x] = Body(f[x \div Crore], x, small, hundreds)
    <3>1. x \in Nat /\ ~(x >= Crore)
      BY SMT DEF Crore
    <3>2. f[x] = Body(<<>>, x, small, hundreds)
      OBVIOUS
    <3> HIDE DEF f
    <3> QED
      BY <3>1, <3>2, BelowCrore
  <2>2. BuildsTo(0, f, small, hundreds)
    BY <2>1 DEF BuildsTo
  <2> QED
    BY <2>2
<1>2. ASSUME NEW k \in Nat, k \in T PROVE k + 1 \in T
  <2>1. PICK f : BuildsTo(k, f, small, hundreds)
    BY <1>2
  <2> DEFINE g == [x \in 0 .. (k + 1) |->
                     IF x = k + 1 THEN Body(f[(k + 1) \div Crore], k + 1, small, hundreds) ELSE f[x]]
  <2>2. ASSUME NEW x \in 0 .. (k + 1) PROVE g[x] = Body(g[x \div Crore], x, small, hundreds)
    <3>1. g[x] = Body(f[x \div Crore], x, small, hundreds)
      <4>1. CASE x = k + 1
        BY <4>1
      <4>2. CASE x # k + 1
        <5>1. x \in 0 .. k
          BY <4>2
        <5>2. f[x] = Body(f[x \div Crore], x, small, hundreds)
          BY <2>1, <5>1 DEF BuildsTo
        <5> QED
          BY <4>2, <5>2
      <4> QED
        BY <4>1, <4>2
    <3>2. CASE x >= Crore
      <4> DEFINE c == x \div Crore
      <4>1. c \in 0 .. k
        BY <3>2, CroresShrink
      <4> HIDE DEF c
      <4>2. g[c] = f[c]
        BY <4>1
      <4> HIDE DEF g
      <4> QED
        BY <3>1, <4>2 DEF c
    <3>3. CASE ~(x >= Crore)
      <4> HIDE DEF g
      <4> QED
        BY <3>1, <3>3, BelowCrore
    <3> QED
      BY <3>2, <3>3
  <2>3. BuildsTo(k + 1, g, small, hundreds)
    BY <2>2 DEF BuildsTo
  <2> QED
    BY <2>3
<1> HIDE DEF T
<1>3. n \in T
  BY <1>1, <1>2, SetInduction
<1> QED
  BY <1>3 DEF T

(* Whatever the bound, they are the same.                                   *)
LEMMA BuildsToAgree ==
    ASSUME NEW n \in Nat, NEW m \in Nat, NEW f, NEW g, NEW small, NEW hundreds,
           BuildsTo(n, f, small, hundreds), BuildsTo(m, g, small, hundreds)
    PROVE  \A x \in Nat : x <= n /\ x <= m => f[x] = g[x]
<1> DEFINE T == {k \in Nat : \A x \in 0 .. k : x <= n /\ x <= m => f[x] = g[x]}
<1>1. ASSUME NEW x \in Nat, x <= n, x <= m,
             \A y \in Nat : y < x => f[y] = g[y]
      PROVE  f[x] = g[x]
  <2>1. x \in 0 .. n /\ x \in 0 .. m
    BY <1>1
  <2>2. /\ f[x] = Body(f[x \div Crore], x, small, hundreds)
        /\ g[x] = Body(g[x \div Crore], x, small, hundreds)
    BY <2>1 DEF BuildsTo
  <2>3. CASE x >= Crore
    <3>1. f[x \div Crore] = g[x \div Crore]
      BY <1>1, <2>3, CroresShrink
    <3> QED
      BY <2>2, <3>1
  <2>4. CASE ~(x >= Crore)
    BY <2>2, <2>4, BelowCrore
  <2> QED
    BY <2>3, <2>4
<1>2. 0 \in T
  BY <1>1
<1>3. ASSUME NEW k \in Nat, k \in T PROVE k + 1 \in T
  <2>1. SUFFICES ASSUME NEW x \in 0 .. (k + 1), x <= n, x <= m PROVE f[x] = g[x]
    OBVIOUS
  <2>2. CASE x \in 0 .. k
    BY <1>3, <2>1, <2>2
  <2>3. CASE x = k + 1
    <3>1. \A y \in Nat : y < x => y \in 0 .. k /\ y <= n /\ y <= m
      BY <2>1, <2>3
    <3>2. \A y \in Nat : y < x => f[y] = g[y]
      BY <1>3, <3>1
    <3>3. x \in Nat
      OBVIOUS
    <3> QED
      BY <1>1, <2>1, <3>2, <3>3
  <2> QED
    BY <2>2, <2>3
<1> HIDE DEF T
<1>4. \A k \in Nat : k \in T
  BY <1>2, <1>3, SetInduction
<1>5. \A x \in Nat : x \in 0 .. x
  OBVIOUS
<1> QED
  BY <1>4, <1>5 DEF T

(* So those of all numbers are.                                             *)
LEMMA BuildsExist ==
    ASSUME NEW small, NEW hundreds
    PROVE  \E f : Builds(f, small, hundreds)
<1> DEFINE P(n) == CHOOSE f : BuildsTo(n, f, small, hundreds)
           F == [x \in Nat |-> P(x)[x]]
<1>1. \A n \in Nat : BuildsTo(n, P(n), small, hundreds)
  BY BuildsToExist
<1> HIDE DEF P
<1>2. ASSUME NEW x \in Nat PROVE F[x] = Body(F[x \div Crore], x, small, hundreds)
  <2> DEFINE c == x \div Crore
  <2>1. c \in Nat /\ c <= x /\ c <= c
    BY CroresShrink
  <2>2. BuildsTo(x, P(x), small, hundreds) /\ BuildsTo(c, P(c), small, hundreds)
    BY <1>1, <2>1
  <2>3. P(c)[c] = P(x)[c]
    BY <2>1, <2>2, BuildsToAgree
  <2>4. F[c] = P(c)[c] /\ F[x] = P(x)[x]
    BY <2>1
  <2>5. P(x)[x] = Body(P(x)[c], x, small, hundreds)
    <3>1. x \in 0 .. x
      OBVIOUS
    <3> QED
      BY <2>2, <3>1 DEF BuildsTo
  <2> HIDE DEF F
  <2> QED
    BY <2>3, <2>4, <2>5
<1> HIDE DEF P
<1>3. F = [x \in Nat |-> Body(F[x \div Crore], x, small, hundreds)]
  <2>1. \A x \in Nat : F[x] = Body(F[x \div Crore], x, small, hundreds)
    BY <1>2
  <2>2. F = [x \in Nat |-> F[x]]
    OBVIOUS
  <2> HIDE DEF F
  <2> QED
    BY <2>1, <2>2
<1> QED
  BY <1>3 DEF Builds

(* number_to_words computes them.                                           *)
LEMMA NumberBuilds ==
    ASSUME NEW n, n # 0, NEW small, NEW hundreds
    PROVE  \E f : Builds(f, small, hundreds) /\ IndianNumber(n, small, hundreds) = f[n]
<1> DEFINE Q(f) == f = [x \in Nat |->
        (IF x >= Crore THEN f[x \div Crore] \o <<Word(Crore)>> ELSE <<>>)
        \o (IF (x % Crore) \div Lakh = 0 THEN <<>> ELSE small[(x % Crore) \div Lakh] \o <<Word(Lakh)>>)
        \o (IF (x % Lakh) \div 1000 = 0 THEN <<>> ELSE small[(x % Lakh) \div 1000] \o <<Word(1000)>>)
        \o hundreds[x % 1000]]
           g == CHOOSE f : Q(f)
<1>1. \A f : Q(f) <=> Builds(f, small, hundreds)
  BY Zenon DEF Builds, Body, Crores
<1>2. IndianNumber(n, small, hundreds) = g[n]
  BY Zenon DEF IndianNumber
<1>3. Q(g)
  <2> HIDE DEF Q
  <2>1. \E f : Q(f)
    BY <1>1, BuildsExist
  <2> QED
    BY Zenon, <2>1
<1> QED
  BY <1>1, <1>2, <1>3

(* What tokens are.                                                         *)
LEMMA TokenTypes ==
    /\ \A n \in Nat : Word(n) \in Token /\ Spelled(n) \in Token /\ Digit(n) \in Token
    /\ Words \in Token
    /\ \A t \in Token : t[2] \in Nat /\ t = <<t[1], t[2]>> /\ \A n \in Nat : <<t[1], n>> \in Token
    /\ \A k \in STRING \cup PackKinds \cup Frequencies, n \in Nat : <<k, n>> \in Token
    /\ \A t \in Written : t \in Token
    /\ \A s \in Seq(Written) : s \in Seq(Token)
    /\ \A t \in Token : <<t>> \in Seq(Token)
    /\ <<>> \in Seq(Token)
<1> DEFINE K == STRING \cup PackKinds \cup Frequencies
<1>0. "number" \in K /\ "spelled" \in K /\ "digit" \in K /\ "words" \in K /\ 0 \in Nat
  BY DEF PackKinds
<1>1. \A k \in K, n \in Nat : <<k, n>> \in Token
  BY DEF Token
<1>2. \A n \in Nat : Word(n) \in Token /\ Spelled(n) \in Token /\ Digit(n) \in Token
  BY <1>0, <1>1 DEF Word, Spelled, Digit
<1>3. Words \in Token
  BY <1>0, <1>1 DEF Words
<1>4. \A t \in Token : t[2] \in Nat /\ t = <<t[1], t[2]>> /\ \A n \in Nat : <<t[1], n>> \in Token
  BY DEF Token
<1>5. \A t \in Written : t \in Token
  BY DEF Written
<1>6. \A s \in Seq(Written) : s \in Seq(Token)
  BY <1>5
<1>7. (\A t \in Token : <<t>> \in Seq(Token)) /\ <<>> \in Seq(Token)
  OBVIOUS
<1> QED
  BY <1>1, <1>2, <1>3, <1>4, <1>5, <1>6, <1>7

(* What a number has left below a crore, a lakh and a thousand.             *)
LEMMA Remainders ==
    \A x \in Nat : /\ (x % Crore) \div Lakh \in 0 .. 99
                   /\ (x % Lakh) \div 1000 \in 0 .. 99
                   /\ x % 1000 \in 0 .. 999
BY SMT DEF Crore, Lakh

LEMMA UnitTypes == Word(Crore) \in Token /\ Word(Lakh) \in Token /\ Word(1000) \in Token /\ Word(100) \in Token
<1>1. Crore \in Nat /\ Lakh \in Nat /\ 1000 \in Nat /\ 100 \in Nat
  BY SMT DEF Crore, Lakh
<1>2. \A n \in Nat : Word(n) \in Token
  BY TokenTypes
<1> QED
  BY SMT, <1>1, <1>2

(* The tables of a pack hold texts.                                         *)
Tables(small, hundreds) ==
  /\ \A i \in 0 .. 99 : small[i] \in Seq(Token)
  /\ \A i \in 0 .. 999 : hundreds[i] \in Seq(Token)

(* Then the words of every number are a text.                               *)
LEMMA NumberWordsType ==
    ASSUME NEW small, NEW hundreds, Tables(small, hundreds), NEW f, Builds(f, small, hundreds)
    PROVE  \A x \in Nat : f[x] \in Seq(Token)
<1> DEFINE T == {x \in Nat : f[x] \in Seq(Token)}
<1>1. ASSUME NEW x \in Nat, \A y \in Nat : y < x => f[y] \in Seq(Token) PROVE f[x] \in Seq(Token)
  <2> DEFINE a == Crores(f[x \div Crore], x)
             b == IF (x % Crore) \div Lakh = 0 THEN <<>> ELSE small[(x % Crore) \div Lakh] \o <<Word(Lakh)>>
             c == IF (x % Lakh) \div 1000 = 0 THEN <<>> ELSE small[(x % Lakh) \div 1000] \o <<Word(1000)>>
             d == hundreds[x % 1000]
  <2>1. (x % Crore) \div Lakh \in 0 .. 99 /\ (x % Lakh) \div 1000 \in 0 .. 99 /\ x % 1000 \in 0 .. 999
    BY SMT, Remainders
  <2>2. Crore \in Nat /\ Lakh \in Nat /\ 1000 \in Nat
    BY SMT DEF Crore, Lakh
  <2>3. a \in Seq(Token)
    <3>1. CASE x >= Crore
      <4>1. f[x \div Crore] \in Seq(Token) /\ <<Word(Crore)>> \in Seq(Token)
        BY <1>1, <2>2, <3>1, CroresShrink, TokenTypes
      <4>2. f[x \div Crore] \o <<Word(Crore)>> \in Seq(Token)
        BY <4>1, ConcatProperties
      <4> QED
        BY <3>1, <4>2 DEF Crores
    <3>2. CASE ~(x >= Crore)
      BY <3>2, TokenTypes DEF Crores
    <3> QED
      BY <3>1, <3>2
  <2>4. b \in Seq(Token) /\ c \in Seq(Token)
    <3>1. /\ small[(x % Crore) \div Lakh] \in Seq(Token) /\ small[(x % Lakh) \div 1000] \in Seq(Token)
          /\ <<Word(Lakh)>> \in Seq(Token) /\ <<Word(1000)>> \in Seq(Token)
      <4>1. small[(x % Crore) \div Lakh] \in Seq(Token) /\ small[(x % Lakh) \div 1000] \in Seq(Token)
        <5> DEFINE i == (x % Crore) \div Lakh
                   j == (x % Lakh) \div 1000
        <5>1. i \in 0 .. 99 /\ j \in 0 .. 99
          BY <2>1
        <5> HIDE DEF i, j
        <5>2. small[i] \in Seq(Token) /\ small[j] \in Seq(Token)
          BY Zenon, <5>1 DEF Tables
        <5> QED
          BY <5>2 DEF i, j
      <4>2. Word(Lakh) \in Token /\ Word(1000) \in Token
        BY UnitTypes
      <4> QED
        BY <4>1, <4>2, TokenTypes
    <3>2. /\ small[(x % Crore) \div Lakh] \o <<Word(Lakh)>> \in Seq(Token)
          /\ small[(x % Lakh) \div 1000] \o <<Word(1000)>> \in Seq(Token)
      BY <3>1, ConcatProperties
    <3> QED
      BY <3>2, TokenTypes
  <2>5. d \in Seq(Token)
    <3> DEFINE i == x % 1000
    <3>1. i \in 0 .. 999
      BY <2>1
    <3> HIDE DEF i
    <3>2. hundreds[i] \in Seq(Token)
      BY ZenonT(60), <3>1 DEF Tables
    <3> QED
      BY <3>2 DEF i
  <2>6. x \in Nat /\ f[x] = a \o b \o c \o d
    <3>1. f[x] = Body(f[x \div Crore], x, small, hundreds)
      BY DEF Builds
    <3> HIDE DEF Body
    <3> QED
      BY Zenon, <3>1 DEF Body
  <2> HIDE DEF a, b, c, d
  <2> QED
    BY <2>3, <2>4, <2>5, <2>6, ConcatProperties
<1>2. ASSUME NEW x \in Nat, \A y \in Nat : y < x => y \in T PROVE x \in T
  <2>1. \A y \in Nat : y < x => f[y] \in Seq(Token)
    BY <1>2
  <2> QED
    BY <1>1, <2>1
<1> HIDE DEF T
<1>3. \A x \in Nat : x \in T
  BY <1>2, StrongInduction
<1> QED
  BY <1>3 DEF T

(* A pack builds its numbers with its own tables.                           *)
LEMMA EnSame ==
    /\ \A n : En!Word(n) = Word(n)
    /\ En!Crore = Crore /\ En!Lakh = Lakh
BY DEF En!Word, Word, En!Crore, Crore, En!Lakh, Lakh

LEMMA EnNumberBuilds ==
    ASSUME NEW n, n # 0, NEW small, NEW hundreds
    PROVE  \E f : Builds(f, small, hundreds) /\ En!IndianNumber(n, small, hundreds) = f[n]
<1> DEFINE B(p, x) ==
             (IF x >= En!Crore THEN p \o <<En!Word(En!Crore)>> ELSE <<>>)
             \o (IF (x % En!Crore) \div En!Lakh = 0 THEN <<>> ELSE small[(x % En!Crore) \div En!Lakh] \o <<En!Word(En!Lakh)>>)
             \o (IF (x % En!Lakh) \div 1000 = 0 THEN <<>> ELSE small[(x % En!Lakh) \div 1000] \o <<En!Word(1000)>>)
             \o hundreds[x % 1000]
           Q(f) == f = [x \in Nat |-> B(f[x \div En!Crore], x)]
           g == CHOOSE f : Q(f)
<1>1. En!IndianNumber(n, small, hundreds) = g[n]
  BY Zenon DEF En!IndianNumber
<1>2. \A p, x : B(p, x) = Body(p, x, small, hundreds)
  BY SMT DEF Body, Crores, En!Word, Word, En!Crore, Crore, En!Lakh, Lakh
<1> HIDE DEF B
<1>3. \A f : Q(f) <=> Builds(f, small, hundreds)
  <2>1. \A f : [x \in Nat |-> B(f[x \div En!Crore], x)] = [x \in Nat |-> Body(f[x \div Crore], x, small, hundreds)]
    BY <1>2, EnSame
  <2> QED
    BY <2>1 DEF Builds
<1>4. Q(g)
  <2> HIDE DEF Q
  <2>1. \E f : Q(f)
    BY <1>3, BuildsExist
  <2> QED
    BY Zenon, <2>1
<1> QED
  BY <1>1, <1>3, <1>4

(* So does the other.                                                       *)
LEMMA HiSame ==
    /\ \A n : Hi!Word(n) = Word(n)
    /\ Hi!Crore = Crore /\ Hi!Lakh = Lakh
BY DEF Hi!Word, Word, Hi!Crore, Crore, Hi!Lakh, Lakh

LEMMA HiNumberBuilds ==
    ASSUME NEW n, n # 0, NEW small, NEW hundreds
    PROVE  \E f : Builds(f, small, hundreds) /\ Hi!IndianNumber(n, small, hundreds) = f[n]
<1> DEFINE B(p, x) ==
             (IF x >= Hi!Crore THEN p \o <<Hi!Word(Hi!Crore)>> ELSE <<>>)
             \o (IF (x % Hi!Crore) \div Hi!Lakh = 0 THEN <<>> ELSE small[(x % Hi!Crore) \div Hi!Lakh] \o <<Hi!Word(Hi!Lakh)>>)
             \o (IF (x % Hi!Lakh) \div 1000 = 0 THEN <<>> ELSE small[(x % Hi!Lakh) \div 1000] \o <<Hi!Word(1000)>>)
             \o hundreds[x % 1000]
           Q(f) == f = [x \in Nat |-> B(f[x \div Hi!Crore], x)]
           g == CHOOSE f : Q(f)
<1>1. Hi!IndianNumber(n, small, hundreds) = g[n]
  BY Zenon DEF Hi!IndianNumber
<1>2. \A p, x : B(p, x) = Body(p, x, small, hundreds)
  BY SMT DEF Body, Crores, Hi!Word, Word, Hi!Crore, Crore, Hi!Lakh, Lakh
<1> HIDE DEF B
<1>3. \A f : Q(f) <=> Builds(f, small, hundreds)
  <2>1. \A f : [x \in Nat |-> B(f[x \div Hi!Crore], x)] = [x \in Nat |-> Body(f[x \div Crore], x, small, hundreds)]
    BY <1>2, HiSame
  <2> QED
    BY <2>1 DEF Builds
<1>4. Q(g)
  <2> HIDE DEF Q
  <2>1. \E f : Q(f)
    BY <1>3, BuildsExist
  <2> QED
    BY Zenon, <2>1
<1> QED
  BY <1>1, <1>3, <1>4

----------------------------------------------------------------------------
(* The tokens of some kinds, and the number words as texts.                 *)

(* The tokens of some kinds, one by one.                                    *)
Pick(kinds) == [t \in Token |-> IF t[1] \in kinds THEN <<t>> ELSE <<>>]

LEMMA PickType == \A kinds : Pick(kinds) \in [Token -> Seq(Token)]
<1>1. \A kinds : \A t \in Token : (IF t[1] \in kinds THEN <<t>> ELSE <<>>) \in Seq(Token)
  BY TokenTypes
<1> QED
  BY <1>1 DEF Pick

(* Selecting goes token by token.                                           *)
LEMMA OfKindExpands == \A kinds : \A text \in Seq(Token) : OfKind(text, kinds) = Expand(Pick(kinds), text)
<1>1. SUFFICES ASSUME NEW text \in Seq(Token), NEW kinds PROVE OfKind(text, kinds) = Expand(Pick(kinds), text)
  OBVIOUS
<1>2. \A i \in DOMAIN text : text[i] \in Token
  BY ElementOfSeq, LenProperties
<1>3. [i \in DOMAIN text |-> IF text[i][1] \in kinds THEN <<text[i]>> ELSE <<>>]
      = [i \in DOMAIN text |-> Pick(kinds)[text[i]]]
  BY <1>2 DEF Pick
<1> QED
  BY Zenon, <1>3 DEF OfKind, Expand

LEMMA OfKindEmpty == \A kinds : OfKind(<<>>, kinds) = <<>>
<1>1. <<>> \in Seq(Token)
  OBVIOUS
<1> QED
  BY <1>1, OfKindExpands, ExpandEmpty

LEMMA OfKindType == \A kinds : \A text \in Seq(Token) : OfKind(text, kinds) \in Seq(Token)
BY OfKindExpands, PickType, ExpandType

LEMMA OfKindAppend ==
    ASSUME NEW text \in Seq(Token), NEW t \in Token, NEW kinds
    PROVE  OfKind(Append(text, t), kinds) = IF t[1] \in kinds THEN Append(OfKind(text, kinds), t)
                                            ELSE OfKind(text, kinds)
<1>1. Append(text, t) \in Seq(Token)
  BY AppendProperties
<1>2. OfKind(Append(text, t), kinds) = OfKind(text, kinds) \o Pick(kinds)[t]
  <2> DEFINE g == Pick(kinds)
  <2>1. g \in [Token -> Seq(Token)]
    BY PickType
  <2>2. OfKind(Append(text, t), kinds) = Expand(g, Append(text, t)) /\ OfKind(text, kinds) = Expand(g, text)
    BY <1>1, OfKindExpands
  <2> HIDE DEF g
  <2>3. Expand(g, Append(text, t)) = Expand(g, text) \o g[t]
    BY <2>1, ExpandAppend
  <2> QED
    BY <2>2, <2>3 DEF g
<1>3. OfKind(text, kinds) \in Seq(Token)
  BY OfKindType
<1>4. \A s \in Seq(Token) : s \o <<t>> = Append(s, t) /\ s \o <<>> = s
  BY ConcatEmptySeq
<1>5. Pick(kinds)[t] = IF t[1] \in kinds THEN <<t>> ELSE <<>>
  BY DEF Pick
<1> QED
  BY <1>2, <1>3, <1>4, <1>5

(* int() of the digits of a text (english.py, hindi.py).                    *)
LEMMA AbsIntType == \A text \in Seq(Token) : AbsInt(text) \in Nat
<1>1. SUFFICES ASSUME NEW text \in Seq(Token) PROVE AbsInt(text) \in Nat
  OBVIOUS
<1>2. \A n \in Nat, t \in Token : AppendDigit[n][t] \in Nat
  <2>1. \A n \in Nat, t \in Token : AppendDigit[n][t] = 10 * n + t[2]
    BY DEF AppendDigit
  <2>2. \A t \in Token : t[2] \in Nat
    BY TokenTypes
  <2>3. \A n, m \in Nat : 10 * n + m \in Nat
    OBVIOUS
  <2> QED
    BY <2>1, <2>2, <2>3
<1>3. OfKind(text, {"digit"}) \in Seq(Token)
  BY OfKindType
<1>4. Scan(AppendDigit, 0, OfKind(text, {"digit"})) \in Nat
  BY <1>2, <1>3, ScanKeeps
<1> QED
  BY <1>4 DEF AbsInt

(* The digits of a text are the same number to a pack.                      *)
LEMMA EnReads ==
    \A text : /\ \A kinds : En!OfKind(text, kinds) = OfKind(text, kinds)
              /\ En!AbsInt(text) = AbsInt(text)
              /\ En!Cleaned(text) = Cleaned(text)
<1>1. \A text, kinds : En!OfKind(text, kinds) = OfKind(text, kinds)
  BY Zenon DEF En!OfKind, OfKind, En!FlattenSeq, FlattenSeq
<1>2. \A step, start, text : En!Scan(step, start, text) = Scan(step, start, text)
  BY Zenon DEF En!Scan, Scan
<1>3. En!AppendDigit = AppendDigit
  BY Zenon DEF En!AppendDigit, AppendDigit, En!Token, Token, En!PackKinds, PackKinds, En!Frequencies, Frequencies
<1> QED
  BY Zenon, <1>1, <1>2, <1>3 DEF En!AbsInt, AbsInt, En!Cleaned, Cleaned

(* English number words are a text (english.py).                            *)
LEMMA EnTwoType == \A i \in 0 .. 99 : En!TwoDigits[i] \in Seq(Token)
<1>1. SUFFICES ASSUME NEW i \in 0 .. 99 PROVE En!TwoDigits[i] \in Seq(Token)
  OBVIOUS
<1>2. i \in Nat /\ i - (i % 10) \in Nat /\ i % 10 \in Nat
  BY SMT
<1>3. <<>> \in Seq(Token) /\ \A n \in Nat : <<Word(n)>> \in Seq(Token)
  BY TokenTypes
<1>4. \A n, m \in Nat : <<Word(n)>> \o (IF m = 0 THEN <<>> ELSE <<Word(m)>>) \in Seq(Token)
  <2>1. \A a, b \in Seq(Token) : a \o b \in Seq(Token)
    BY ConcatProperties
  <2> QED
    BY <1>3, <2>1
<1> QED
  BY <1>2, <1>3, <1>4, EnSame DEF En!TwoDigits

LEMMA EnThreeType == \A i \in 0 .. 999 : En!ThreeDigits[i] \in Seq(Token)
<1>1. SUFFICES ASSUME NEW i \in 0 .. 999 PROVE En!ThreeDigits[i] \in Seq(Token)
  OBVIOUS
<1>2. i \div 100 \in Nat /\ i % 100 \in 0 .. 99 /\ (i < 100 => i \in 0 .. 99)
  BY SMT
<1>3. En!TwoDigits[i % 100] \in Seq(Token) /\ (i < 100 => En!TwoDigits[i] \in Seq(Token))
  BY <1>2, EnTwoType
<1>4. /\ <<Word(i \div 100), Word(100)>> \in Seq(Token)
      /\ <<>> \in Seq(Token) /\ \A s, t \in Seq(Token) : s \o t \in Seq(Token)
  <2>1. \A t, u \in Token : <<t, u>> \in Seq(Token) /\ <<>> \in Seq(Token)
    OBVIOUS
  <2>2. Word(i \div 100) \in Token /\ Word(100) \in Token
    BY <1>2, TokenTypes, UnitTypes
  <2> QED
    BY <2>1, <2>2, ConcatProperties
<1>5. <<En!And>> \in Seq(Token)
  <2>1. "and" \in STRING \cup PackKinds \cup Frequencies /\ 0 \in Nat
    BY DEF PackKinds
  <2>2. En!And \in Token
    BY <2>1, TokenTypes DEF En!And
  <2> QED
    BY <2>2, TokenTypes
<1> QED
  BY ZenonT(60), <1>3, <1>4, EnSame, <1>5 DEF En!ThreeDigits

LEMMA EnWordsType == \A n \in Nat : En!NumberToWords(n) \in Seq(Token)
<1>1. SUFFICES ASSUME NEW n \in Nat PROVE En!NumberToWords(n) \in Seq(Token)
  OBVIOUS
<1>2. CASE n = 0
  <2>1. En!NumberToWords(n) = <<Word(0)>>
    BY <1>2, EnSame DEF En!NumberToWords, En!IndianNumber
  <2> QED
    BY <2>1, TokenTypes
<1>3. CASE n # 0
  <2>1. PICK f : Builds(f, En!TwoDigits, En!ThreeDigits) /\ En!NumberToWords(n) = f[n]
    BY <1>3, EnNumberBuilds DEF En!NumberToWords
  <2>2. Tables(En!TwoDigits, En!ThreeDigits)
    BY EnTwoType, EnThreeType DEF Tables
  <2> QED
    BY <2>1, <2>2, NumberWordsType
<1> QED
  BY <1>2, <1>3

LEMMA EnNumbersType == \A text \in Seq(Token) : En!EnsureNumberWords(text) \in Seq(Token)
<1>1. SUFFICES ASSUME NEW text \in Seq(Token) PROVE En!EnsureNumberWords(text) \in Seq(Token)
  OBVIOUS
<1>2. Cleaned(text) \in Seq(Token)
  BY OfKindType DEF Cleaned
<1>3. En!AbsInt(En!Cleaned(text)) \in Nat
  BY <1>2, EnReads, AbsIntType
<1>4. En!NumberToWords(En!AbsInt(En!Cleaned(text))) \in Seq(Token)
  BY <1>3, EnWordsType
<1> QED
  BY <1>4 DEF En!EnsureNumberWords

(* The digits of a text are the same number to the other pack.              *)
LEMMA HiReads ==
    \A text : /\ \A kinds : Hi!OfKind(text, kinds) = OfKind(text, kinds)
              /\ Hi!AbsInt(text) = AbsInt(text)
              /\ Hi!Cleaned(text) = Cleaned(text)
<1>1. \A text, kinds : Hi!OfKind(text, kinds) = OfKind(text, kinds)
  BY Zenon DEF Hi!OfKind, OfKind, Hi!FlattenSeq, FlattenSeq
<1>2. \A step, start, text : Hi!Scan(step, start, text) = Scan(step, start, text)
  BY Zenon DEF Hi!Scan, Scan
<1>3. Hi!AppendDigit = AppendDigit
  BY Zenon DEF Hi!AppendDigit, AppendDigit, Hi!Token, Token, Hi!PackKinds, PackKinds, Hi!Frequencies, Frequencies
<1> QED
  BY Zenon, <1>1, <1>2, <1>3 DEF Hi!AbsInt, AbsInt, Hi!Cleaned, Cleaned

(* Hindi number words are a text (hindi.py).                                *)
LEMMA HiTwoType == \A i \in 0 .. 99 : Hi!TwoDigits[i] \in Seq(Token)
<1>1. SUFFICES ASSUME NEW i \in 0 .. 99 PROVE Hi!TwoDigits[i] \in Seq(Token)
  OBVIOUS
<1>2. i \in Nat /\ i - (i % 10) \in Nat /\ i % 10 \in Nat
  BY SMT
<1>3. <<>> \in Seq(Token) /\ \A n \in Nat : <<Word(n)>> \in Seq(Token)
  BY TokenTypes
<1>4. \A n, m \in Nat : <<Word(n)>> \o (IF m = 0 THEN <<>> ELSE <<Word(m)>>) \in Seq(Token)
  <2>1. \A a, b \in Seq(Token) : a \o b \in Seq(Token)
    BY ConcatProperties
  <2> QED
    BY <1>3, <2>1
<1> QED
  BY <1>2, <1>3, <1>4, HiSame DEF Hi!TwoDigits

LEMMA HiThreeType == \A i \in 0 .. 999 : Hi!ThreeDigits[i] \in Seq(Token)
<1>1. SUFFICES ASSUME NEW i \in 0 .. 999 PROVE Hi!ThreeDigits[i] \in Seq(Token)
  OBVIOUS
<1>2. i \div 100 \in Nat /\ i % 100 \in 0 .. 99 /\ (i < 100 => i \in 0 .. 99)
  BY SMT
<1>3. Hi!TwoDigits[i % 100] \in Seq(Token) /\ (i < 100 => Hi!TwoDigits[i] \in Seq(Token))
  BY <1>2, HiTwoType
<1>4. /\ <<Word(i \div 100), Word(100)>> \in Seq(Token)
      /\ <<>> \in Seq(Token) /\ \A s, t \in Seq(Token) : s \o t \in Seq(Token)
  <2>1. \A t, u \in Token : <<t, u>> \in Seq(Token) /\ <<>> \in Seq(Token)
    OBVIOUS
  <2>2. Word(i \div 100) \in Token /\ Word(100) \in Token
    BY <1>2, TokenTypes, UnitTypes
  <2> QED
    BY <2>1, <2>2, ConcatProperties

<1> QED
  BY ZenonT(60), <1>3, <1>4, HiSame DEF Hi!ThreeDigits

LEMMA HiWordsType == \A n \in Nat : Hi!NumberToWords(n) \in Seq(Token)
<1>1. SUFFICES ASSUME NEW n \in Nat PROVE Hi!NumberToWords(n) \in Seq(Token)
  OBVIOUS
<1>2. CASE n = 0
  <2>1. Hi!NumberToWords(n) = <<Word(0)>>
    BY <1>2, HiSame DEF Hi!NumberToWords, Hi!IndianNumber
  <2> QED
    BY <2>1, TokenTypes
<1>3. CASE n # 0
  <2>1. PICK f : Builds(f, Hi!TwoDigits, Hi!ThreeDigits) /\ Hi!NumberToWords(n) = f[n]
    BY <1>3, HiNumberBuilds DEF Hi!NumberToWords
  <2>2. Tables(Hi!TwoDigits, Hi!ThreeDigits)
    BY HiTwoType, HiThreeType DEF Tables
  <2> QED
    BY <2>1, <2>2, NumberWordsType
<1> QED
  BY <1>2, <1>3

LEMMA HiNumbersType == \A text \in Seq(Token) : Hi!EnsureNumberWords(text) \in Seq(Token)
<1>1. SUFFICES ASSUME NEW text \in Seq(Token) PROVE Hi!EnsureNumberWords(text) \in Seq(Token)
  OBVIOUS
<1>2. Cleaned(text) \in Seq(Token)
  BY OfKindType DEF Cleaned
<1>3. Hi!AbsInt(Hi!Cleaned(text)) \in Nat
  BY <1>2, HiReads, AbsIntType
<1>4. Hi!NumberToWords(Hi!AbsInt(Hi!Cleaned(text))) \in Seq(Token)
  BY <1>3, HiWordsType
<1> QED
  BY <1>4 DEF Hi!EnsureNumberWords

----------------------------------------------------------------------------
(* The forms a request is converted to, and the clauses of its              *)
(* declaration.                                                             *)

(* What a token can be, and what a declaration is made of.                  *)
Vocabulary == STRING \cup PackKinds \cup Frequencies
Clauses == RequestFields \X Seq(Token)

(* The forms in which a request reaches its phrases.                         *)
Forms(req) ==
  {req} \cup {Converted(req, done, how) : done \in SUBSET Tasks(req), how \in [Numbers(req.address) -> Manners]}

(* What the packs need of a form.                                            *)
Form(p) ==
  /\ DOMAIN p = RequestFields
  /\ \A f \in TextFields : p[f] \in Seq(Token)
  /\ p.premium_frequency \in STRING

(* Which field is of which group.                                           *)
LEMMA FieldNames ==
    /\ TextFields \subseteq RequestFields
    /\ \A f \in TextFields : f # "language" /\ f # "gender" /\ f # "premium_frequency"
    /\ NAME_FIELDS \cup {"address"} \subseteq TextFields
    /\ NumberFields \subseteq TextFields /\ DateFields \subseteq TextFields
    /\ NumberFields \cap DateFields = {}
    /\ {"primary_mobile", "alternative_mobile", "email", "address", "customer_name", "company",
        "insured_name", "nominee_name", "plan_name", "policy_term", "sum_insured", "premium_amount",
        "premium_paying_term", "application_date", "dob_life_assured"} \subseteq TextFields
    /\ "premium_frequency" \in RequestFields
    /\ "premium_frequency" \notin NumberFields /\ "premium_frequency" \notin DateFields
    /\ "premium_frequency" \notin NAME_FIELDS \cup {"address"}
    /\ "language" \in RequestFields /\ "language" \notin NAME_FIELDS \cup {"address"}
    /\ \A f \in {"primary_mobile", "alternative_mobile", "email"} : f \notin NAME_FIELDS \cup {"address"}
BY DEF TextFields, RequestFields, NAME_FIELDS, NumberFields, DateFields

(* A conversion gives a text.                                               *)
LEMMA NativeType == \A s \in Seq(Token) : Native(s) \in Seq(Token)
<1>1. SUFFICES ASSUME NEW s \in Seq(Token) PROVE Native(s) \in Seq(Token)
  OBVIOUS
<1>2. DOMAIN s = 1 .. Len(s) /\ Len(s) \in Nat /\ \A i \in 1 .. Len(s) : s[i] \in Token
  BY ElementOfSeq, LenProperties
<1>3. \A t \in Token : (IF t[1] = "digit" THEN t ELSE <<t[1], 1>>) \in Token
  BY TokenTypes
<1>4. \A i \in 1 .. Len(s) : (IF s[i][1] = "digit" THEN s[i] ELSE <<s[i][1], 1>>) \in Token
  BY <1>2, <1>3
<1> QED
  BY <1>2, <1>4 DEF Native, Each

(* A function of every token of a text.                                     *)
Mapped(g, s) == [i \in DOMAIN s |-> g[s[i]]]

(* Each keeps the length of a text.                                          *)
LEMMA MapType ==
    ASSUME NEW S, NEW T, NEW g \in [S -> T], NEW s \in Seq(S)
    PROVE  /\ [i \in DOMAIN s |-> g[s[i]]] \in Seq(T)
           /\ Len([i \in DOMAIN s |-> g[s[i]]]) = Len(s)
<1>1. DOMAIN s = 1 .. Len(s) /\ Len(s) \in Nat /\ \A i \in 1 .. Len(s) : s[i] \in S
  BY ElementOfSeq, LenProperties
<1> QED
  BY <1>1

(* So does the conversion of an address, whatever the model makes of its    *)
(* numbers.                                                                 *)
AddressAcc == [said : Seq(Token), number : Seq(Token)]
NothingRead == [said |-> <<>>, number |-> <<>>]

(* What a number becomes, digit by digit.                                   *)
DigitKinds == {"digit", "native digit", "spelled"}
SayDigit(manner) ==
  [t \in Token |-> IF manner = "digit by digit" THEN Spelled(t[2])
                   ELSE IF manner = "native digits" THEN NativeDigit(t[2]) ELSE t]

LEMMA SayDigitType == \A manner : SayDigit(manner) \in [Token -> Token]
<1>1. SUFFICES ASSUME NEW manner PROVE SayDigit(manner) \in [Token -> Token]
  OBVIOUS
<1>2. "native digit" \in STRING \cup PackKinds \cup Frequencies
  BY DEF PackKinds
<1>3. \A t \in Token : Spelled(t[2]) \in Token /\ NativeDigit(t[2]) \in Token
  BY <1>2, TokenTypes DEF NativeDigit
<1> QED
  BY <1>3 DEF SayDigit

LEMMA SaidByDigits ==
    ASSUME NEW number \in Seq(Token), NEW manner, manner # "words"
    PROVE  SayNumber(number, manner) = Mapped(SayDigit(manner), number)
<1>1. \A i \in DOMAIN number : number[i] \in Token
  BY ElementOfSeq, LenProperties
<1>2. CASE manner = "digit by digit"
  <2>1. SayNumber(number, manner) = Each(number, LAMBDA t : Spelled(t[2]))
    BY <1>2 DEF SayNumber
  <2>2. \A t \in Token : SayDigit(manner)[t] = Spelled(t[2])
    BY <1>2 DEF SayDigit
  <2> QED
    BY <1>1, <2>1, <2>2 DEF Each, Mapped
<1>3. CASE manner = "native digits"
  <2>1. SayNumber(number, manner) = Each(number, LAMBDA t : NativeDigit(t[2]))
    BY <1>3 DEF SayNumber
  <2>2. \A t \in Token : SayDigit(manner)[t] = NativeDigit(t[2])
    BY <1>3 DEF SayDigit
  <2> QED
    BY <1>1, <2>1, <2>2 DEF Each, Mapped
<1>4. CASE manner # "digit by digit" /\ manner # "native digits"
  <2>1. SayNumber(number, manner) = number
    BY <1>4 DEF SayNumber
  <2>2. \A t \in Token : SayDigit(manner)[t] = t
    BY <1>4 DEF SayDigit
  <2>3. number = [i \in DOMAIN number |-> number[i]]
    BY LenProperties
  <2> QED
    BY <1>1, <2>1, <2>2, <2>3 DEF Mapped
<1> QED
  BY <1>2, <1>3, <1>4

(* The number the digits of a text make.                                    *)
Value(number) == Scan(AppendDigit, 0, number)

LEMMA ValueType == \A number \in Seq(Token) : Value(number) \in Nat
<1>1. SUFFICES ASSUME NEW number \in Seq(Token) PROVE Value(number) \in Nat
  OBVIOUS
<1>2. \A n \in Nat, t \in Token : AppendDigit[n][t] \in Nat
  <2>1. \A n \in Nat, t \in Token : AppendDigit[n][t] = 10 * n + t[2]
    BY DEF AppendDigit
  <2>2. \A t \in Token : t[2] \in Nat
    BY TokenTypes
  <2>3. \A n, m \in Nat : 10 * n + m \in Nat
    OBVIOUS
  <2> QED
    BY <2>1, <2>2, <2>3
<1>3. 0 \in Nat
  OBVIOUS
<1> QED
  BY <1>2, <1>3, ScanKeeps DEF Value

LEMMA SayNumberType ==
    ASSUME NEW number \in Seq(Token), NEW manner
    PROVE  SayNumber(number, manner) \in Seq(Token)
<1>1. CASE manner = "words"
  <2>1. SayNumber(number, manner) = <<Word(Value(number))>>
    BY <1>1 DEF SayNumber, Value
  <2>2. Word(Value(number)) \in Token
    BY ValueType, TokenTypes
  <2> QED
    BY <2>1, <2>2, TokenTypes
<1>2. CASE manner # "words"
  BY <1>2, SaidByDigits, SayDigitType, MapType DEF Mapped
<1> QED
  BY <1>1, <1>2

LEMMA WithNumberType == \A acc \in AddressAcc : \A how : WithNumber(acc, how) \in Seq(Token)
<1>1. SUFFICES ASSUME NEW acc \in AddressAcc, NEW how PROVE WithNumber(acc, how) \in Seq(Token)
  OBVIOUS
<1>2. acc.said \in Seq(Token) /\ acc.number \in Seq(Token)
  BY DEF AddressAcc
<1>3. SayNumber(acc.number, how[acc.number]) \in Seq(Token)
  BY <1>2, SayNumberType
<1>4. acc.said \o SayNumber(acc.number, how[acc.number]) \in Seq(Token)
  BY <1>2, <1>3, ConcatProperties
<1> QED
  BY <1>2, <1>4 DEF WithNumber

LEMMA ConvertWordStep ==
    ASSUME NEW how, NEW acc \in AddressAcc, NEW t \in Token
    PROVE  /\ ConvertWord(how)[acc][t] \in AddressAcc
           /\ IsDigit(t) => ConvertWord(how)[acc][t] = [said |-> acc.said, number |-> Append(acc.number, t)]
           /\ ~IsDigit(t) => ConvertWord(how)[acc][t]
                             = [said |-> Append(WithNumber(acc, how), <<t[1], 1>>), number |-> <<>>]
<1>1. /\ acc.said \in Seq(Token) /\ acc.number \in Seq(Token)
      /\ [acc EXCEPT !.number = Append(@, t)] = [said |-> acc.said, number |-> Append(acc.number, t)]
  <2>1. acc \in [said : Seq(Token), number : Seq(Token)]
    BY DEF AddressAcc
  <2>2. \A x : [acc EXCEPT !.number = x] = [said |-> acc.said, number |-> x]
    BY <2>1
  <2> QED
    BY <2>1, <2>2
<1>2. ConvertWord(how)[acc][t] =
        IF IsDigit(t) THEN [acc EXCEPT !.number = Append(@, t)]
        ELSE [said |-> Append(WithNumber(acc, how), <<t[1], 1>>), number |-> <<>>]
  BY DEF ConvertWord, AddressAcc
<1>3. Append(acc.number, t) \in Seq(Token)
  BY <1>1, AppendProperties
<1>4. WithNumber(acc, how) \in Seq(Token) /\ <<t[1], 1>> \in Token /\ <<>> \in Seq(Token)
  BY WithNumberType, TokenTypes
<1>5. Append(WithNumber(acc, how), <<t[1], 1>>) \in Seq(Token)
  BY <1>4, AppendProperties
<1>6. CASE IsDigit(t)
  <2>1. ConvertWord(how)[acc][t] = [said |-> acc.said, number |-> Append(acc.number, t)]
    BY <1>1, <1>2, <1>6
  <2> QED
    BY <1>1, <1>3, <1>6, <2>1 DEF AddressAcc
<1>7. CASE ~IsDigit(t)
  <2>1. ConvertWord(how)[acc][t] = [said |-> Append(WithNumber(acc, how), <<t[1], 1>>), number |-> <<>>]
    BY <1>2, <1>7
  <2> QED
    BY <1>4, <1>5, <1>7, <2>1 DEF AddressAcc
<1> QED
  BY <1>6, <1>7

LEMMA ConvertWordType ==
    ASSUME NEW s \in Seq(Token), NEW how
    PROVE  Scan(ConvertWord(how), NothingRead, s) \in AddressAcc
<1>1. NothingRead \in AddressAcc
  BY TokenTypes DEF NothingRead, AddressAcc
<1>2. \A acc \in AddressAcc, t \in Token : ConvertWord(how)[acc][t] \in AddressAcc
  BY ConvertWordStep
<1> QED
  BY <1>1, <1>2, ScanKeeps

LEMMA NativeAddressType ==
    ASSUME NEW s \in Seq(Token), NEW how
    PROVE  NativeAddress(s, how) \in Seq(Token)
BY ConvertWordType, WithNumberType DEF NativeAddress, NothingRead

(* A request is a form, and so is each of its conversions.                  *)
LEMMA FormOfRequest == ASSUME NEW req \in Requests PROVE Form(req)
<1>1. /\ DOMAIN req = RequestFields /\ req.premium_frequency \in STRING
      /\ \A f \in TextFields : req[f] \in Seq(Written)
  BY RequestsAssumption
<1> QED
  BY <1>1, TokenTypes DEF Form

LEMMA FormOfConverted ==
    ASSUME NEW req, Form(req), NEW done, NEW how
    PROVE  Form(Converted(req, done, how))
<1> DEFINE p == Converted(req, done, how)
<1>1. DOMAIN p = RequestFields
  BY DEF Form, Converted
<1>2. \A f \in RequestFields : p[f] = NativeField(req, f, how) \/ p[f] = req[f]
  BY DEF Form, Converted
<1>3. p["premium_frequency"] = req["premium_frequency"]
  BY FieldNames DEF Form, Converted, Tasks
<1> HIDE DEF p
<1>4. \A f \in TextFields : p[f] \in Seq(Token)
  <2>1. SUFFICES ASSUME NEW f \in TextFields PROVE p[f] \in Seq(Token)
    OBVIOUS
  <2>2. req[f] \in Seq(Token) /\ f \in RequestFields
    BY FieldNames DEF Form
  <2>3. NativeField(req, f, how) \in Seq(Token)
    BY <2>2, NativeType, NativeAddressType DEF NativeField
  <2> QED
    BY <1>2, <2>2, <2>3
<1>5. p.premium_frequency \in STRING
  BY <1>3 DEF Form
<1> QED
  BY <1>1, <1>4, <1>5 DEF Form, p

LEMMA FormsType == ASSUME NEW req \in Requests, NEW p \in Forms(req) PROVE Form(p)
BY FormOfRequest, FormOfConverted DEF Forms

(* The clauses of the declaration.                                           *)
LEMMA FrequencyType == \A raw \in STRING : NormalizeFrequency(raw) \in Vocabulary
<1>1. DOMAIN Synonyms = Frequencies
  BY DEF Synonyms, Frequencies
<1>2. \A raw : (\E key \in DOMAIN Synonyms : raw \in Synonyms[key]) =>
              (CHOOSE key \in DOMAIN Synonyms : raw \in Synonyms[key]) \in DOMAIN Synonyms
  OBVIOUS
<1> QED
  BY <1>1, <1>2 DEF NormalizeFrequency, Vocabulary

LEMMA ClauseType ==
    /\ \A f \in RequestFields, s \in Seq(Token) : <<<<f, s>>>> \in Seq(Clauses) /\ <<f, s>> \in Clauses
    /\ <<>> \in Seq(Clauses)
    /\ \A s, t \in Seq(Clauses) : s \o t \in Seq(Clauses)
<1>1. \A f \in RequestFields, s \in Seq(Token) : <<f, s>> \in Clauses
  BY DEF Clauses
<1>2. \A c \in Clauses : <<c>> \in Seq(Clauses) /\ <<>> \in Seq(Clauses)
  OBVIOUS
<1>3. <<>> \in Seq(Clauses)
  OBVIOUS
<1> QED
  BY <1>1, <1>2, <1>3, ConcatProperties

(* A declaration is a list of clauses, in either language.                  *)
LEMMA DeclarationType ==
    ASSUME NEW p, Form(p), NEW schedule \in Seq(Clauses)
    PROVE  Declaration(p, schedule) \in Seq(Clauses)
<1> DEFINE a == <<<<"application_date", p.application_date>>, <<"company", p.company>>, <<"plan_name", p.plan_name>>,
                  <<"insured_name", p.insured_name>>, <<"dob_life_assured", p.dob_life_assured>>>>
           b == IF p.nominee_name = <<>> THEN <<>> ELSE <<<<"nominee_name", p.nominee_name>>>>
           c == <<<<"policy_term", p.policy_term>>, <<"sum_insured", p.sum_insured>>>>
<1>1. /\ <<"application_date", p.application_date>> \in Clauses /\ <<"company", p.company>> \in Clauses
      /\ <<"plan_name", p.plan_name>> \in Clauses /\ <<"insured_name", p.insured_name>> \in Clauses
      /\ <<"dob_life_assured", p.dob_life_assured>> \in Clauses /\ <<"nominee_name", p.nominee_name>> \in Clauses
      /\ <<"policy_term", p.policy_term>> \in Clauses /\ <<"sum_insured", p.sum_insured>> \in Clauses
  BY FieldNames DEF Form, Clauses
<1>2. \A u, v, w, x, y \in Clauses : /\ <<u, v, w, x, y>> \in Seq(Clauses) /\ <<u, v>> \in Seq(Clauses)
                                     /\ <<u>> \in Seq(Clauses) /\ <<>> \in Seq(Clauses)
  OBVIOUS
<1>3. a \in Seq(Clauses) /\ b \in Seq(Clauses) /\ c \in Seq(Clauses)
  BY <1>1, <1>2
<1>4. Declaration(p, schedule) = a \o b \o c \o schedule
  BY DEF Declaration
<1> HIDE DEF a, b, c
<1> QED
  BY <1>3, <1>4, ClauseType

LEMMA EnScheduleType ==
    ASSUME NEW p, Form(p)
    PROVE  En!PremiumSchedule(p) \in Seq(Clauses)
<1> DEFINE key == NormalizeFrequency(p.premium_frequency)
<1>1. En!NormalizeFrequency(p.premium_frequency) = key
  BY Zenon DEF En!NormalizeFrequency, NormalizeFrequency, En!Synonyms, Synonyms
<1>2. <<<<key, 0>>>> \in Seq(Token)
  <2>1. key \in Vocabulary
    BY FrequencyType DEF Form
  <2> HIDE DEF key
  <2>2. <<key, 0>> \in Token
    BY <2>1, TokenTypes DEF Vocabulary
  <2> QED
    BY <2>2, TokenTypes
<1> HIDE DEF key
<1> DEFINE paid == IF p.premium_amount = <<>> THEN <<>> ELSE <<<<"premium_amount", p.premium_amount>>>>
           pays == <<<<"premium_frequency", <<<<key, 0>>>>>>>>
           none == IF key = "" THEN <<>> ELSE pays
           term == IF p.premium_paying_term = <<>> THEN <<>> ELSE <<<<"premium_paying_term", p.premium_paying_term>>>>
<1>3. /\ paid \in Seq(Clauses) /\ pays \in Seq(Clauses) /\ none \in Seq(Clauses) /\ term \in Seq(Clauses)
  <2>1. /\ p.premium_amount \in Seq(Token) /\ p.premium_paying_term \in Seq(Token)
        /\ "premium_amount" \in RequestFields /\ "premium_paying_term" \in RequestFields
        /\ "premium_frequency" \in RequestFields
    BY FieldNames DEF Form
  <2> QED
    BY <1>2, <2>1, ClauseType
<1>4. En!PremiumSchedule(p) \in {paid \o none, paid \o none \o term}
  BY <1>1 DEF En!PremiumSchedule
<1> HIDE DEF paid, pays, none, term
<1>5. {paid \o none, paid \o none \o term} \subseteq Seq(Clauses)
  BY <1>3, ConcatProperties
<1> QED
  BY <1>4, <1>5

LEMMA EnDeclarationType ==
    ASSUME NEW p, Form(p)
    PROVE  En!BuildDeclaration(p) \in Seq(Clauses)
<1>1. \A schedule : En!Declaration(p, schedule) = Declaration(p, schedule)
  BY Zenon DEF En!Declaration, Declaration
<1> QED
  BY <1>1, EnScheduleType, DeclarationType DEF En!BuildDeclaration

LEMMA HiScheduleType ==
    ASSUME NEW p, Form(p)
    PROVE  Hi!PremiumSchedule(p) \in Seq(Clauses)
<1> DEFINE key == NormalizeFrequency(p.premium_frequency)
<1>1. Hi!NormalizeFrequency(p.premium_frequency) = key
  BY Zenon DEF Hi!NormalizeFrequency, NormalizeFrequency, Hi!Synonyms, Synonyms
<1>2. <<<<key, 0>>>> \in Seq(Token)
  <2>1. key \in Vocabulary
    BY FrequencyType DEF Form
  <2> HIDE DEF key
  <2>2. <<key, 0>> \in Token
    BY <2>1, TokenTypes DEF Vocabulary
  <2> QED
    BY <2>2, TokenTypes
<1> HIDE DEF key
<1> DEFINE paid == IF p.premium_amount = <<>> THEN <<>> ELSE <<<<"premium_amount", p.premium_amount>>>>
           pays == <<<<"premium_frequency", <<<<key, 0>>>>>>>>
           none == IF key = "" THEN <<>> ELSE pays
           term == IF p.premium_paying_term = <<>> THEN <<>> ELSE <<<<"premium_paying_term", p.premium_paying_term>>>>
<1>3. /\ paid \in Seq(Clauses) /\ pays \in Seq(Clauses) /\ none \in Seq(Clauses) /\ term \in Seq(Clauses)
  <2>1. /\ p.premium_amount \in Seq(Token) /\ p.premium_paying_term \in Seq(Token)
        /\ "premium_amount" \in RequestFields /\ "premium_paying_term" \in RequestFields
        /\ "premium_frequency" \in RequestFields
    BY FieldNames DEF Form
  <2> QED
    BY <1>2, <2>1, ClauseType
<1>4. Hi!PremiumSchedule(p) \in {paid, paid \o pays, paid \o term \o pays}
  BY <1>1 DEF Hi!PremiumSchedule
<1> HIDE DEF paid, pays, none, term
<1>5. {paid, paid \o pays, paid \o term \o pays} \subseteq Seq(Clauses)
  BY <1>3, ConcatProperties
<1> QED
  BY <1>4, <1>5

LEMMA HiDeclarationType ==
    ASSUME NEW p, Form(p)
    PROVE  Hi!BuildDeclaration(p) \in Seq(Clauses)
<1>1. \A schedule : Hi!Declaration(p, schedule) = Declaration(p, schedule)
  BY Zenon DEF Hi!Declaration, Declaration
<1> QED
  BY <1>1, HiScheduleType, DeclarationType DEF Hi!BuildDeclaration

----------------------------------------------------------------------------
(* The templates.                                                           *)

(* The templates and what they ask for (phrases of both packs).             *)
Placeholders == {"words", "greeting", "customer_name", "company", "phone", "alt_phone", "email", "address", "declaration"}
TemplateParts == [slow : BOOLEAN, holds : Seq(Placeholders)]
States == DOMAIN Templates

LEMMA TemplatesType == Templates \in [States -> Seq(TemplateParts)] /\ \A x \in Placeholders : Asks(x) \in Seq(TemplateParts)
<1>1. \A h \in Seq(Placeholders) : Plain(h) \in TemplateParts /\ Var(h) \in TemplateParts
  BY DEF Plain, Var, TemplateParts
<1>2. \A x, y, z, w \in Placeholders :
        /\ <<x>> \in Seq(Placeholders) /\ <<x, y, z>> \in Seq(Placeholders) /\ <<x, y, z, w>> \in Seq(Placeholders)
  OBVIOUS
<1>3. \A u, v, w \in TemplateParts : <<u>> \in Seq(TemplateParts) /\ <<u, v, w>> \in Seq(TemplateParts)
  OBVIOUS
<1>4. \A x, y, z, w \in Placeholders :
        /\ Plain(<<x>>) \in TemplateParts /\ Var(<<x>>) \in TemplateParts
        /\ Plain(<<x, y, z>>) \in TemplateParts /\ Plain(<<x, y, z, w>>) \in TemplateParts
  BY <1>1, <1>2
<1>5. \A x, y, z, w \in Placeholders :
        /\ <<Plain(<<x>>)>> \in Seq(TemplateParts)
        /\ <<Plain(<<x, y, z>>)>> \in Seq(TemplateParts) /\ <<Plain(<<x, y, z, w>>)>> \in Seq(TemplateParts)
  BY <1>3, <1>4
<1>6. /\ "words" \in Placeholders /\ "greeting" \in Placeholders /\ "customer_name" \in Placeholders
      /\ "company" \in Placeholders /\ "declaration" \in Placeholders /\ "phone" \in Placeholders
      /\ "alt_phone" \in Placeholders /\ "email" \in Placeholders /\ "address" \in Placeholders
  BY DEF Placeholders
<1>7. ASSUME NEW x \in Placeholders PROVE Asks(x) \in Seq(TemplateParts)
  <2>1. Plain(<<"words">>) \in TemplateParts /\ Var(<<x>>) \in TemplateParts
    BY <1>4, <1>6
  <2> QED
    BY <1>3, <2>1 DEF Asks
<1>8. Fixed \in Seq(TemplateParts)
  BY <1>5, <1>6 DEF Fixed
<1>9. /\ <<Plain(<<"greeting", "words", "customer_name", "words">>)>> \in Seq(TemplateParts)
      /\ <<Plain(<<"customer_name", "words", "company", "words">>)>> \in Seq(TemplateParts)
      /\ <<Plain(<<"declaration">>)>> \in Seq(TemplateParts)
      /\ <<Plain(<<"words", "customer_name", "words">>)>> \in Seq(TemplateParts)
  BY <1>5, <1>6
<1>10. \A state \in States : Templates[state] \in Seq(TemplateParts)
  <2>1. \A x \in {"declaration_intro", "verification_intro", "q_medical", "q_no_merge", "q_own_discretion",
                   "awareness", "failed", "silence_prompt"} : Templates[x] = Fixed
    BY DEF Templates
  <2>2. /\ Templates["q_mobile"] = Asks("phone") /\ Templates["q_alt_mobile"] = Asks("alt_phone")
        /\ Templates["q_email"] = Asks("email") /\ Templates["q_address"] = Asks("address")
    BY DEF Templates
  <2>3. /\ Templates["greeting"] = <<Plain(<<"greeting", "words", "customer_name", "words">>)>>
        /\ Templates["congrats"] = <<Plain(<<"customer_name", "words", "company", "words">>)>>
        /\ Templates["declaration_text"] = <<Plain(<<"declaration">>)>>
        /\ Templates["closing"] = <<Plain(<<"words", "customer_name", "words">>)>>
    BY DEF Templates
  <2>4. States = {"declaration_intro", "verification_intro", "q_medical", "q_no_merge", "q_own_discretion",
                   "awareness", "failed", "silence_prompt"}
                  \cup {"q_mobile", "q_alt_mobile", "q_email", "q_address"}
                  \cup {"greeting", "congrats", "declaration_text", "closing"}
    BY DEF Templates, States
  <2>5. \A x \in {"q_mobile", "q_alt_mobile", "q_email", "q_address"} : Templates[x] \in Seq(TemplateParts)
    BY <1>6, <1>7, <2>2
  <2>6. \A x \in {"greeting", "congrats", "declaration_text", "closing"} : Templates[x] \in Seq(TemplateParts)
    BY <1>9, <2>3
  <2> QED
    BY <1>8, <2>1, <2>4, <2>5, <2>6
<1>11. Templates = [state \in States |-> Templates[state]]
  BY DEF Templates, States
<1> QED
  BY <1>7, <1>10, <1>11

(* Both packs share the templates of all states but one.                    *)
LEMMA PhrasesType ==
    \A lang : /\ DOMAIN Phrases(lang) = States
              /\ \A state \in States : Phrases(lang)[state] \in Seq(TemplateParts)
              /\ \A state \in States : state # "awareness" => Phrases(lang)[state] = Templates[state]
<1>1. En!Phrases = Templates
  BY Zenon DEF En!Phrases, En!Templates, Templates, En!Plain, Plain, En!Var, Var, En!Asks, Asks, En!Fixed, Fixed
<1>2. Hi!Templates = Templates
  BY Zenon DEF Hi!Templates, Templates, Hi!Plain, Plain, Hi!Var, Var, Hi!Asks, Asks, Hi!Fixed, Fixed
<1>3. Hi!Asks("words") = Asks("words")
  BY Zenon DEF Hi!Plain, Plain, Hi!Var, Var, Hi!Asks, Asks
<1>4. Hi!Phrases = [Templates EXCEPT !["awareness"] = Asks("words")]
  BY <1>2, <1>3 DEF Hi!Phrases
<1>5. "words" \in Placeholders
  BY DEF Placeholders
<1>6. /\ Templates \in [States -> Seq(TemplateParts)] /\ Asks("words") \in Seq(TemplateParts)
  BY <1>5, TemplatesType
<1>7. /\ DOMAIN Hi!Phrases = States
      /\ \A state \in States : /\ Hi!Phrases[state] \in Seq(TemplateParts)
                               /\ state # "awareness" => Hi!Phrases[state] = Templates[state]
  BY <1>4, <1>6
<1>8. DOMAIN Templates = States /\ \A state \in States : Templates[state] \in Seq(TemplateParts)
  BY <1>6
<1>9. \A lang : Phrases(lang) = Templates \/ Phrases(lang) = Hi!Phrases
  BY <1>1 DEF Phrases
<1> QED
  BY <1>7, <1>8, <1>9

(* A template whose values are texts resolves to a text.                    *)
LEMMA ResolveType ==
    ASSUME NEW parts \in Seq(TemplateParts), NEW repl, \A x \in Placeholders : repl[x] \in Seq(Token)
    PROVE  Resolve(parts, repl) \in Seq(Parts)
<1> DEFINE g == [x \in Placeholders |-> repl[x]]
<1>1. g \in [Placeholders -> Seq(Token)]
  OBVIOUS
<1>2. ASSUME NEW holds \in Seq(Placeholders)
      PROVE  FlattenSeq([k \in DOMAIN holds |-> repl[holds[k]]]) \in Seq(Token)
  <2>1. \A k \in DOMAIN holds : holds[k] \in Placeholders
    BY ElementOfSeq, LenProperties
  <2>2. [k \in DOMAIN holds |-> repl[holds[k]]] = [k \in DOMAIN holds |-> g[holds[k]]]
    BY <2>1
  <2>3. Expand(g, holds) \in Seq(Token)
    BY <1>1, ExpandType
  <2> HIDE DEF g
  <2> QED
    BY Zenon, <2>2, <2>3 DEF Expand
<1> DEFINE R(part) == [slow |-> part.slow, text |-> FlattenSeq([k \in DOMAIN part.holds |-> repl[part.holds[k]]])]
<1>3. \A part \in TemplateParts : R(part) \in Parts
  <2>1. \A part \in TemplateParts : part.slow \in BOOLEAN /\ part.holds \in Seq(Placeholders)
    BY DEF TemplateParts
  <2>2. \A part \in TemplateParts : FlattenSeq([k \in DOMAIN part.holds |-> repl[part.holds[k]]]) \in Seq(Token)
    BY <1>2, <2>1
  <2> QED
    BY <2>1, <2>2 DEF Parts
<1>4. Resolve(parts, repl) = [i \in DOMAIN parts |-> R(parts[i])]
  BY Zenon DEF Resolve
<1> HIDE DEF R
<1>5. DOMAIN parts = 1 .. Len(parts) /\ Len(parts) \in Nat /\ \A i \in 1 .. Len(parts) : parts[i] \in TemplateParts
  BY ElementOfSeq, LenProperties
<1>6. \A i \in 1 .. Len(parts) : R(parts[i]) \in Parts
  BY <1>3, <1>5
<1> QED
  BY <1>4, <1>5, <1>6

----------------------------------------------------------------------------
(* Dates, spellings and the text of a declaration.                          *)

(* A token of a date as Hindi says it (hindi.py, format_date).              *)
DayWords == [t \in Token |-> CASE t[1] = "year" -> Hi!Year(t[2])
                               [] t[1] \in {"day", "ordinal"} /\ t[2] \in Hi!HI_DAYS -> <<Hi!Word(t[2])>>
                               [] OTHER -> <<t>>]

LEMMA YearType == \A y \in Nat : Hi!Year(y) \in Seq(Token)
<1>1. SUFFICES ASSUME NEW y \in Nat PROVE Hi!Year(y) \in Seq(Token)
  OBVIOUS
<1> DEFINE a == Hi!NumberToWords(y \div 100)
           b == Hi!TwoDigits[y % 100]
<1>2. y \div 100 \in Nat /\ y % 100 \in 0 .. 99
  BY SMT
<1>3. a \in Seq(Token) /\ b \in Seq(Token) /\ Hi!NumberToWords(y) \in Seq(Token) /\ <<Word(100)>> \in Seq(Token)
  BY <1>2, HiWordsType, HiTwoType, UnitTypes, TokenTypes
<1>4. Hi!Year(y) = IF y \in 1000 .. 1999 THEN a \o <<Word(100)>> \o b ELSE Hi!NumberToWords(y)
  BY HiSame DEF Hi!Year
<1> HIDE DEF a, b
<1>5. a \o <<Word(100)>> \o b \in Seq(Token)
  BY <1>3, ConcatProperties
<1> QED
  BY <1>3, <1>4, <1>5

LEMMA DayWordsType == DayWords \in [Token -> Seq(Token)]
<1>1. ASSUME NEW t \in Token
      PROVE  (CASE t[1] = "year" -> Hi!Year(t[2])
                [] t[1] \in {"day", "ordinal"} /\ t[2] \in Hi!HI_DAYS -> <<Hi!Word(t[2])>>
                [] OTHER -> <<t>>) \in Seq(Token)
  <2>1. t[2] \in Nat
    BY TokenTypes
  <2>2. Hi!Year(t[2]) \in Seq(Token) /\ <<Hi!Word(t[2])>> \in Seq(Token) /\ <<t>> \in Seq(Token)
    BY <2>1, YearType, HiSame, TokenTypes
  <2> QED
    BY <2>2
<1> QED
  BY <1>1 DEF DayWords

LEMMA HiDateExpands == \A date \in Seq(Token) : Hi!FormatDate(date) = Expand(DayWords, date)
<1>1. SUFFICES ASSUME NEW date \in Seq(Token) PROVE Hi!FormatDate(date) = Expand(DayWords, date)
  OBVIOUS
<1>2. \A i \in DOMAIN date : date[i] \in Token
  BY ElementOfSeq, LenProperties
<1> DEFINE c == [i \in DOMAIN date |->
                   CASE date[i][1] = "year" -> Hi!Year(date[i][2])
                     [] date[i][1] \in {"day", "ordinal"} /\ date[i][2] \in Hi!HI_DAYS -> <<Hi!Word(date[i][2])>>
                     [] OTHER -> <<date[i]>>]
<1>3. c = [i \in DOMAIN date |-> DayWords[date[i]]]
  BY <1>2 DEF DayWords
<1>4. Hi!FormatDate(date) = Hi!FlattenSeq(c)
  BY Zenon DEF Hi!FormatDate, Hi!Each
<1> HIDE DEF c
<1>5. Hi!FlattenSeq(c) = FlattenSeq(c)
  BY Zenon DEF Hi!FlattenSeq, FlattenSeq
<1> QED
  BY Zenon, <1>3, <1>4, <1>5 DEF Expand

(* What the declaration is built from is a form.                            *)
LEMMA ForDeclarationType ==
    ASSUME NEW lang, NEW p, Form(p)
    PROVE  Form(ForDeclaration(lang, p))
<1> DEFINE q == ForDeclaration(lang, p)
<1>1. DOMAIN q = RequestFields
  BY DEF Form, ForDeclaration
<1>2. q["premium_frequency"] = p["premium_frequency"]
  BY FieldNames DEF Form, ForDeclaration
<1>3. ASSUME NEW f \in TextFields PROVE q[f] \in Seq(Token)
  <2>1. p[f] \in Seq(Token) /\ f \in DOMAIN p
    BY FieldNames DEF Form
  <2>2. q[f] = CASE f \in NumberFields -> EnsureNumberWords(lang, p[f])
                 [] f \in DateFields -> FormatDate(lang, p[f])
                 [] OTHER -> p[f]
    BY <2>1 DEF ForDeclaration
  <2>3. EnsureNumberWords(lang, p[f]) \in Seq(Token)
    BY <2>1, EnNumbersType, HiNumbersType DEF EnsureNumberWords
  <2>4. FormatDate(lang, p[f]) \in Seq(Token)
    <3>1. Hi!FormatDate(p[f]) \in Seq(Token)
      BY <2>1, HiDateExpands, DayWordsType, ExpandType
    <3> QED
      BY <2>1, <3>1 DEF FormatDate, En!FormatDate
  <2> HIDE DEF q
  <2> QED
    BY <2>1, <2>2, <2>3, <2>4
<1> HIDE DEF q
<1>4. q.premium_frequency \in STRING
  BY <1>2 DEF Form
<1> QED
  BY <1>1, <1>3, <1>4 DEF Form, q

(* The clauses of a declaration are clauses and its text is a text.         *)
LEMMA ClausesType ==
    ASSUME NEW lang, NEW p, Form(p)
    PROVE  DeclarationClauses(lang, p) \in Seq(Clauses)
BY ForDeclarationType, EnDeclarationType, HiDeclarationType DEF DeclarationClauses, BuildDeclaration

LEMMA DeclarationTextType == \A clauses \in Seq(Clauses) : DeclarationText(clauses) \in Seq(Token)
<1>1. SUFFICES ASSUME NEW clauses \in Seq(Clauses) PROVE DeclarationText(clauses) \in Seq(Token)
  OBVIOUS
<1> DEFINE v == [i \in DOMAIN clauses |-> clauses[i][2]]
<1>2. DOMAIN clauses = 1 .. Len(clauses) /\ Len(clauses) \in Nat /\ \A i \in 1 .. Len(clauses) : clauses[i] \in Clauses
  BY ElementOfSeq, LenProperties
<1>3. \A c \in Clauses : c[2] \in Seq(Token)
  BY DEF Clauses
<1>4. \A i \in 1 .. Len(clauses) : v[i] \in Seq(Token)
  BY <1>2, <1>3
<1>5. v = [i \in 1 .. Len(clauses) |-> v[i]]
  BY <1>2
<1> HIDE DEF v
<1>6. v \in Seq(Seq(Token))
  BY <1>2, <1>4, <1>5
<1>7. FlattenSeq(v) \in Seq(Token)
  BY <1>6, FlattenType
<1> QED
  BY Zenon, <1>7 DEF DeclarationText, v

(* What a spelling makes of a token (_spell_digits, format_email).          *)
SpelledDigit == [t \in Token |-> IF t[1] = "digit" THEN Spelled(t[2]) ELSE t]
SignName == [t \in Token |-> IF t[1] = "@" THEN <<"at the rate", 0>> ELSE IF t[1] = "." THEN <<"dot", 0>> ELSE t]
SpelledWord == [t \in Token |-> Spelled(t[2])]

(* The three spellings go token by token and give texts.                    *)
LEMMA SpellTypes ==
    /\ SpelledDigit \in [Token -> Token] /\ SignName \in [Token -> Token] /\ SpelledWord \in [Token -> Token]
    /\ \A s \in Seq(Token) :
         /\ SpellDigits(s) = Mapped(SpelledDigit, s) /\ SpellDigits(s) \in Seq(Token)
         /\ SpellEmail(s) = Mapped(SpelledDigit, Mapped(SignName, s)) /\ SpellEmail(s) \in Seq(Token)
         /\ SpellPhone(s) = Mapped(SpelledWord, OfKind(s, {"digit"})) /\ SpellPhone(s) \in Seq(Token)
<1>1. "at the rate" \in STRING \cup PackKinds \cup Frequencies /\ "dot" \in STRING \cup PackKinds \cup Frequencies
  BY DEF PackKinds
<1>2. SpelledDigit \in [Token -> Token] /\ SignName \in [Token -> Token] /\ SpelledWord \in [Token -> Token]
  <2>1. \A t \in Token : t[2] \in Nat /\ Spelled(t[2]) \in Token
    BY TokenTypes
  <2>2. <<"at the rate", 0>> \in Token /\ <<"dot", 0>> \in Token
    BY <1>1, TokenTypes
  <2> QED
    BY <2>1, <2>2 DEF SpelledDigit, SignName, SpelledWord
<1>3. \A g \in [Token -> Token], s \in Seq(Token) : Mapped(g, s) \in Seq(Token)
  BY MapType DEF Mapped
<1>4. ASSUME NEW s \in Seq(Token) PROVE SpellDigits(s) = Mapped(SpelledDigit, s)
  <2>1. \A i \in DOMAIN s : s[i] \in Token
    BY ElementOfSeq, LenProperties
  <2> QED
    BY <2>1 DEF SpellDigits, Each, Mapped, SpelledDigit
<1>5. ASSUME NEW s \in Seq(Token) PROVE SpellEmail(s) = Mapped(SpelledDigit, Mapped(SignName, s))
  <2>1. \A i \in DOMAIN s : s[i] \in Token
    BY ElementOfSeq, LenProperties
  <2>2. Each(s, LAMBDA t : IF t[1] = "@" THEN <<"at the rate", 0>> ELSE IF t[1] = "." THEN <<"dot", 0>> ELSE t)
        = Mapped(SignName, s)
    BY <2>1 DEF Each, Mapped, SignName
  <2>3. Mapped(SignName, s) \in Seq(Token)
    BY <1>2, <1>3
  <2> QED
    BY <1>4, <2>2, <2>3 DEF SpellEmail
<1>6. ASSUME NEW s \in Seq(Token) PROVE SpellPhone(s) = Mapped(SpelledWord, OfKind(s, {"digit"}))
  <2> DEFINE d == OfKind(s, {"digit"})
  <2>1. d \in Seq(Token)
    BY OfKindType
  <2> HIDE DEF d
  <2>2. \A i \in DOMAIN d : d[i] \in Token
    BY <2>1, ElementOfSeq, LenProperties
  <2>3. Each(d, LAMBDA t : Spelled(t[2])) = Mapped(SpelledWord, d)
    BY <2>2 DEF Each, Mapped, SpelledWord
  <2> QED
    BY <2>3 DEF SpellPhone, d
<1>7. ASSUME NEW s \in Seq(Token)
      PROVE  SpellDigits(s) \in Seq(Token) /\ SpellEmail(s) \in Seq(Token) /\ SpellPhone(s) \in Seq(Token)
  BY <1>2, <1>3, <1>4, <1>5, <1>6, OfKindType
<1> QED
  BY <1>2, <1>4, <1>5, <1>6, <1>7

----------------------------------------------------------------------------
(* What an answered start has made.                                         *)

(* The values of the placeholders are texts (name_with_title,               *)
(* build_phrases_for_session).                                              *)
LEMMA NameType == ASSUME NEW lang, NEW p, Form(p) PROVE NameWithTitle(lang, p) \in Seq(Token)
<1> DEFINE K == STRING \cup PackKinds \cup Frequencies
<1>1. "Mister" \in K /\ "Miss" \in K /\ "shriman" \in K /\ "shrimati" \in K
  BY DEF PackKinds
<1>2. \A k \in K : <<<<k, 0>>>> \in Seq(Token)
  BY TokenTypes
<1> HIDE DEF K
<1>3. /\ <<<<"Mister", 0>>>> \in Seq(Token) /\ <<<<"Miss", 0>>>> \in Seq(Token)
      /\ <<<<"shriman", 0>>>> \in Seq(Token) /\ <<<<"shrimati", 0>>>> \in Seq(Token) /\ <<>> \in Seq(Token)
  BY <1>1, <1>2, TokenTypes
<1>4. p.customer_name \in Seq(Token)
  BY FieldNames DEF Form
<1>5. \A title \in Seq(Token) : title \o p.customer_name \in Seq(Token)
  BY <1>4, ConcatProperties
<1>6. En!NameWithTitle(p) \in Seq(Token)
  BY <1>3, <1>5 DEF En!NameWithTitle
<1>7. Hi!NameWithTitle(p) \in Seq(Token)
  BY <1>3, <1>5 DEF Hi!NameWithTitle
<1> QED
  BY <1>6, <1>7 DEF NameWithTitle

LEMMA ReplacementsType ==
    ASSUME NEW lang, NEW req, Form(req), NEW p, Form(p)
    PROVE  \A x \in Placeholders : Replacements(lang, req, p)[x] \in Seq(Token)
<1> DEFINE r == Replacements(lang, req, p)
<1>1. /\ <<Words>> \in Seq(Token) /\ NameWithTitle(lang, p) \in Seq(Token)
      /\ DeclarationText(DeclarationClauses(lang, p)) \in Seq(Token)
  BY TokenTypes, NameType, ClausesType, DeclarationTextType
<1>2. /\ p.company \in Seq(Token) /\ SpellPhone(req.primary_mobile) \in Seq(Token)
      /\ SpellPhone(req.alternative_mobile) \in Seq(Token)
      /\ SpellEmail(p.email) \in Seq(Token) /\ SpellDigits(p.address) \in Seq(Token)
  BY FieldNames, SpellTypes DEF Form
<1>3. /\ r["words"] = <<Words>> /\ r["greeting"] = <<Words>>
      /\ r["customer_name"] = NameWithTitle(lang, p) /\ r["company"] = p.company
      /\ r["phone"] = SpellPhone(req.primary_mobile) /\ r["alt_phone"] = SpellPhone(req.alternative_mobile)
      /\ r["email"] = SpellEmail(p.email) /\ r["address"] = SpellDigits(p.address)
      /\ r["declaration"] = DeclarationText(DeclarationClauses(lang, p))
  BY DEF Replacements
<1> HIDE DEF r
<1>4. \A x \in Placeholders : r[x] \in Seq(Token)
  BY <1>1, <1>2, <1>3 DEF Placeholders
<1> QED
  BY <1>4 DEF r

(* build_phrases_for_session makes one text for each state.                 *)
LEMMA BuiltPhrases ==
    ASSUME NEW lang, NEW req, Form(req), NEW p, Form(p)
    PROVE  /\ DOMAIN BuildPhrases(lang, req, p) = States
           /\ \A state \in States :
                /\ BuildPhrases(lang, req, p)[state] \in Seq(Parts)
                /\ BuildPhrases(lang, req, p)[state] = Resolve(Phrases(lang)[state], Replacements(lang, req, p))
<1> DEFINE repl == Replacements(lang, req, p)
           b == [state \in DOMAIN Phrases(lang) |-> Resolve(Phrases(lang)[state], repl)]
<1>1. BuildPhrases(lang, req, p) = b
  BY DEF BuildPhrases
<1>2. \A x \in Placeholders : repl[x] \in Seq(Token)
  BY ReplacementsType
<1> HIDE DEF repl
<1>3. DOMAIN Phrases(lang) = States
  BY PhrasesType
<1>4. \A state \in States : Resolve(Phrases(lang)[state], repl) \in Seq(Parts)
  BY <1>2, PhrasesType, ResolveType
<1>5. DOMAIN b = States /\ \A state \in States : b[state] \in Seq(Parts) /\ b[state] = Resolve(Phrases(lang)[state], repl)
  BY <1>3, <1>4
<1> QED
  BY <1>1, <1>5 DEF repl

(* What does not raise when it is spelled.                                  *)
Speakable(req, p) ==
  ~Raises(req.primary_mobile) /\ ~Raises(req.alternative_mobile) /\ ~Raises(p.email) /\ ~Raises(p.address)

(* What an answered start has made, and from which form of its request.      *)
MadeFrom(s, p) ==
  /\ Speakable(request[s], p)
  /\ ~NeedsConversion(s) => p = request[s]
  /\ session[s] = NewSession(request[s], BuildPhrases(request[s].language, request[s], p))
  /\ told[s] = DeclarationClauses(request[s].language, p)

(* The invariant: whichever conversions succeeded or failed, an answered    *)
(* start was made from one form of its own request.                         *)
StartInv ==
  /\ request \in [Starts -> Requests]
  /\ DOMAIN pc = Starts /\ DOMAIN session = Starts /\ DOMAIN told = Starts
  /\ \A s \in Starts : pc[s] = "converting" => NeedsConversion(s)
  /\ \A s \in Starts : pc[s] = "answered" => \E p \in Forms(request[s]) : MadeFrom(s, p)

(* Finishing makes it.                                                      *)
LEMMA FinishMakes ==
    ASSUME StartInv, NEW s \in Starts, NEW p \in Forms(request[s]), Finish(s, p), UNCHANGED <<client, request>>,
           ~NeedsConversion(s) => p = request[s]
    PROVE  StartInv'
<1>1. /\ DOMAIN pc' = Starts /\ DOMAIN session' = Starts /\ DOMAIN told' = Starts
      /\ \A t \in Starts \ {s} : pc'[t] = pc[t] /\ session'[t] = session[t] /\ told'[t] = told[t]
      /\ pc'[s] # "converting"
      /\ pc'[s] = "answered" =>
           /\ Speakable(request[s], p)
           /\ session'[s] = NewSession(request[s], BuildPhrases(request[s].language, request[s], p))
           /\ told'[s] = DeclarationClauses(request[s].language, p)
  BY DEF StartInv, Finish, Speakable
<1>2. request' = request /\ client' = client
  OBVIOUS
<1>3. ASSUME NEW t \in Starts, pc'[t] = "answered" PROVE \E q \in Forms(request'[t]) : MadeFrom(t, q)'
  <2>1. CASE t = s
    BY <1>1, <1>2, <1>3, <2>1 DEF MadeFrom, NeedsConversion
  <2>2. CASE t # s
    <3>1. PICK q \in Forms(request[t]) : MadeFrom(t, q)
      BY <1>1, <1>3, <2>2 DEF StartInv
    <3> QED
      BY <1>1, <1>2, <2>2, <3>1 DEF MadeFrom, NeedsConversion
  <2> QED
    BY <2>1, <2>2
<1>4. ASSUME NEW t \in Starts, pc'[t] = "converting" PROVE NeedsConversion(t)'
  <2>1. t # s /\ pc[t] = "converting"
    BY <1>1, <1>4
  <2> QED
    BY <1>2, <2>1 DEF StartInv, NeedsConversion
<1>5. request' \in [Starts -> Requests]
  BY <1>2 DEF StartInv
<1> QED
  BY <1>1, <1>3, <1>4, <1>5 DEF StartInv

(* No start is answered at first, and every step keeps the invariant.       *)
LEMMA StartInvInit == Init => StartInv
BY DEF Init, StartInv

LEMMA StartInvNext == StartInv /\ [Next]_vars => StartInv'
<1> SUFFICES ASSUME StartInv, [Next]_vars PROVE StartInv'
  OBVIOUS
<1>1. ASSUME NEW s \in Starts, Refuse(s) \/ StartConversion(s) PROVE StartInv'
  <2>1. /\ pc' = [pc EXCEPT ![s] = pc'[s]] /\ pc'[s] # "answered"
        /\ pc'[s] = "converting" => NeedsConversion(s)
        /\ UNCHANGED <<client, request, session, told>>
    BY <1>1 DEF Refuse, StartConversion, StartInv
  <2> QED
    BY <2>1 DEF StartInv, MadeFrom, NeedsConversion
<1>2. ASSUME NEW s \in Starts, PassThrough(s) PROVE StartInv'
  <2>1. request[s] \in Forms(request[s])
    BY DEF Forms
  <2> QED
    BY <1>2, <2>1, FinishMakes DEF PassThrough
<1>3. ASSUME NEW s \in Starts, Gathered(s) PROVE StartInv'
  <2>1. PICK done \in SUBSET Tasks(request[s]), how \in [Numbers(request[s].address) -> Manners] :
          Finish(s, Converted(request[s], done, how))
    BY <1>3 DEF Gathered
  <2>2. Converted(request[s], done, how) \in Forms(request[s])
    BY DEF Forms
  <2>3. UNCHANGED <<client, request>> /\ NeedsConversion(s)
    BY <1>3 DEF Gathered, StartInv
  <2> QED
    BY <2>1, <2>2, <2>3, FinishMakes
<1>4. CASE UNCHANGED vars
  BY <1>4 DEF vars, StartInv, MadeFrom, NeedsConversion
<1> QED
  BY <1>1, <1>2, <1>3, <1>4 DEF Next

(* Whichever conversions of a /start succeed or fail, what is answered      *)
(* was made from one form of its own request (sessions.py, start_session;   *)
(* language_processor.py).                                                  *)
THEOREM StartInvariant == Spec => []StartInv
BY StartInvInit, StartInvNext, PTL DEF Spec

(* An answered start has planned texts, so its plans say them.              *)
LEMMA PlanFollows == StartInv => PlanSaysTranscript
<1>1. SUFFICES ASSUME StartInv, NEW s \in Starts, pc[s] = "answered",
                      NEW state \in DOMAIN session[s].phrases
               PROVE  LET plan == BuildTtsPlan(session[s].phrases[state])
                      IN  /\ SaidInPlan(plan) = StripVarMarkup(session[s].phrases[state])
                          /\ \A i \in DOMAIN plan :
                               plan[i].slow => i > 1 /\ i < Len(plan) /\ plan[i - 1] = Silence /\ plan[i + 1] = Silence
  BY DEF PlanSaysTranscript
<1>2. PICK p \in Forms(request[s]) : MadeFrom(s, p)
  BY <1>1 DEF StartInv
<1>3. Form(request[s]) /\ Form(p)
  BY <1>1, FormOfRequest, FormsType DEF StartInv
<1> DEFINE ph == session[s].phrases[state]
<1>4. session[s].phrases = BuildPhrases(request[s].language, request[s], p)
  BY <1>2 DEF MadeFrom, NewSession
<1>5. ph \in Seq(Parts)
  <2> DEFINE b == BuildPhrases(request[s].language, request[s], p)
  <2>1. DOMAIN b = States /\ \A x \in States : b[x] \in Seq(Parts)
    BY <1>3, BuiltPhrases
  <2> HIDE DEF b
  <2>2. session[s].phrases = b
    BY <1>4 DEF b
  <2> QED
    BY <1>1, <2>1, <2>2
<1> HIDE DEF ph
<1>6. SaidInPlan(BuildTtsPlan(ph)) = StripVarMarkup(ph) /\ Paused(BuildTtsPlan(ph))
  BY <1>5, PlanSays, PlanPaused
<1> QED
  BY <1>6 DEF Paused, ph

(* What is spoken of a state is what its transcript says, and no slow       *)
(* value runs into its neighbours, for every request, whichever of its      *)
(* conversions succeed (build_tts_plan, strip_var_markup).                  *)
THEOREM PlanIsTranscript == Spec => []PlanSaysTranscript
BY StartInvariant, PlanFollows, PTL

----------------------------------------------------------------------------
(* The questions: every digit and every word of the customer.               *)

(* The slow words of a question are the value of its placeholder.           *)
LEMMA SlowOfAsks ==
    ASSUME NEW x \in Placeholders, NEW repl, \A y \in Placeholders : repl[y] \in Seq(Token)
    PROVE  LET ph == Resolve(Asks(x), repl)
           IN  FlattenSeq([i \in DOMAIN ph |-> IF ph[i].slow THEN ph[i].text ELSE <<>>]) = repl[x]
<1> DEFINE T(part) == FlattenSeq([k \in DOMAIN part.holds |-> repl[part.holds[k]]])
           R(part) == [slow |-> part.slow, text |-> T(part)]
           a == Asks(x)
           ph == Resolve(a, repl)
           v == [i \in DOMAIN ph |-> IF ph[i].slow THEN ph[i].text ELSE <<>>]
<1>1. T(Var(<<x>>)) = repl[x]
  <2>1. Var(<<x>>).holds = <<x>>
    BY DEF Var
  <2>2. [k \in DOMAIN <<x>> |-> repl[<<x>>[k]]] = <<repl[x]>>
    OBVIOUS
  <2>3. FlattenSeq(<<repl[x]>>) = repl[x]
    BY FlattenOfOne
  <2> QED
    BY Zenon, <2>1, <2>2, <2>3
<1>2. ph = [i \in DOMAIN a |-> R(a[i])]
  BY Zenon DEF Resolve
<1> HIDE DEF T
<1>3. DOMAIN a = 1 .. 3 /\ a[1].slow = FALSE /\ a[2] = Var(<<x>>) /\ a[2].slow = TRUE /\ a[3].slow = FALSE
  BY DEF Asks, Var, Plain
<1> HIDE DEF a, ph
<1>4. /\ DOMAIN ph = 1 .. 3 /\ ph[1].slow = FALSE /\ ph[3].slow = FALSE
      /\ ph[2].slow = TRUE /\ ph[2].text = repl[x]
  BY <1>1, <1>2, <1>3
<1>5. v = <<<<>>, repl[x], <<>>>>
  BY <1>4
<1> HIDE DEF v
<1>6. FlattenSeq(<<<<>>, repl[x], <<>>>>) = repl[x]
  <2> DEFINE r == repl[x]
  <2>1. r \in Seq(Token) /\ <<>> \in Seq(Token)
    BY TokenTypes
  <2> HIDE DEF r
  <2>2. \A s \in Seq(Token) : <<s>> \in Seq(Seq(Token))
    OBVIOUS
  <2>3. <<<<>>>> \in Seq(Seq(Token)) /\ <<<<>>, r>> \in Seq(Seq(Token))
    BY <2>1
  <2>4. <<<<>>, r>> = Append(<<<<>>>>, r) /\ <<<<>>, r, <<>>>> = Append(<<<<>>, r>>, <<>>)
    OBVIOUS
  <2>5. FlattenSeq(Append(<<<<>>>>, r)) = FlattenSeq(<<<<>>>>) \o r
    BY <2>1, <2>3, FlattenAppend
  <2>6. FlattenSeq(Append(<<<<>>, r>>, <<>>)) = FlattenSeq(<<<<>>, r>>) \o <<>>
    BY <2>1, <2>3, FlattenAppend
  <2>7. FlattenSeq(<<<<>>>>) = <<>>
    BY <2>1, FlattenOfOne
  <2>8. <<>> \o r = r /\ r \o <<>> = r
    BY <2>1, ConcatEmptySeq
  <2> QED
    BY <2>4, <2>5, <2>6, <2>7, <2>8 DEF r
<1> QED
  BY <1>5, <1>6 DEF v, ph, a

(* Functions of every token, one token more.                                *)
LEMMA MappedAppend ==
    ASSUME NEW S, NEW T, NEW g \in [S -> T], NEW s \in Seq(S), NEW e \in S
    PROVE  Mapped(g, Append(s, e)) = Append(Mapped(g, s), g[e])
<1>1. /\ Append(s, e) \in Seq(S) /\ Len(s) \in Nat /\ Len(Append(s, e)) = Len(s) + 1
      /\ Append(s, e)[Len(s) + 1] = e /\ \A i \in 1 .. Len(s) : Append(s, e)[i] = s[i]
      /\ DOMAIN s = 1 .. Len(s) /\ DOMAIN Append(s, e) = 1 .. Len(s) + 1
  BY AppendProperties, LenProperties
<1> DEFINE m == Mapped(g, s)
           w == Append(s, e)
           n == Mapped(g, w)
<1>2. m \in Seq(T) /\ Len(m) = Len(s) /\ n \in Seq(T) /\ Len(n) = Len(s) + 1
  BY <1>1, MapType DEF Mapped
<1>3. (\A i \in 1 .. Len(s) : n[i] = m[i]) /\ n[Len(s) + 1] = g[e]
  BY <1>1 DEF Mapped
<1> HIDE DEF m, n, w
<1>4. /\ Append(m, g[e]) \in Seq(T) /\ Len(Append(m, g[e])) = Len(s) + 1
      /\ Append(m, g[e])[Len(s) + 1] = g[e] /\ \A i \in 1 .. Len(s) : Append(m, g[e])[i] = m[i]
  BY <1>2, AppendProperties
<1>5. ASSUME NEW i \in 1 .. Len(n) PROVE n[i] = Append(m, g[e])[i]
  <2>1. i \in 1 .. Len(s) \/ i = Len(s) + 1
    BY <1>1, <1>2
  <2> QED
    BY <1>3, <1>4, <2>1
<1>6. n = Append(m, g[e])
  BY <1>2, <1>4, <1>5, SeqEqual
<1> QED
  BY <1>6 DEF m, n, w

LEMMA MappedEmpty == \A g : Mapped(g, <<>>) = <<>>
BY DEF Mapped

LEMMA SpelledAppend ==
    ASSUME NEW d \in Seq(Token), NEW e \in Token
    PROVE  Mapped(SpelledWord, Append(d, e)) = Append(Mapped(SpelledWord, d), SpelledWord[e])
<1>1. SpelledWord \in [Token -> Token]
  BY SpellTypes
<1> QED
  BY <1>1, MappedAppend

(* The digits of a text are the spelled words of its spelling.               *)
LEMMA DigitsOfMapped ==
    ASSUME NEW S \in SUBSET Token, NEW g \in [Token -> Token],
           \A t \in S : IF t[1] = "digit" THEN g[t] = Spelled(t[2]) ELSE g[t][1] \notin {"spelled", "digit"}
    PROVE  \A s \in Seq(S) : OfKind(Mapped(g, s), {"spelled", "digit"}) = Mapped(SpelledWord, OfKind(s, {"digit"}))
<1> DEFINE D(s) == OfKind(s, {"digit"})
           L(s) == OfKind(Mapped(g, s), {"spelled", "digit"})
           H == {s \in Seq(S) : L(s) = Mapped(SpelledWord, D(s))}
<1>1. <<>> \in H
  BY OfKindEmpty, MappedEmpty, EmptySeq
<1>2. ASSUME NEW s \in Seq(S), NEW e \in S, s \in H PROVE Append(s, e) \in H
  <2>1. s \in Seq(Token) /\ e \in Token /\ g[e] \in Token /\ Append(s, e) \in Seq(S)
    BY AppendProperties
  <2>2. Mapped(g, s) \in Seq(Token) /\ Mapped(g, Append(s, e)) = Append(Mapped(g, s), g[e])
    BY <2>1, MapType, MappedAppend DEF Mapped
  <2>3. D(Append(s, e)) = IF e[1] \in {"digit"} THEN Append(D(s), e) ELSE D(s)
    BY <2>1, OfKindAppend
  <2>4. L(Append(s, e)) = IF g[e][1] \in {"spelled", "digit"} THEN Append(L(s), g[e]) ELSE L(s)
    BY <2>1, <2>2, OfKindAppend
  <2>5. D(s) \in Seq(Token)
    BY <2>1, OfKindType
  <2>6. L(s) = Mapped(SpelledWord, D(s))
    BY <1>2
  <2> HIDE DEF D, L
  <2>7. CASE e[1] = "digit"
    <3>1. g[e] = Spelled(e[2]) /\ g[e][1] = "spelled" /\ SpelledWord[e] = Spelled(e[2])
      BY <2>1, <2>7 DEF Spelled, SpelledWord
    <3>2. L(Append(s, e)) = Append(L(s), g[e]) /\ D(Append(s, e)) = Append(D(s), e)
      BY <2>3, <2>4, <2>7, <3>1
    <3>3. Mapped(SpelledWord, Append(D(s), e)) = Append(Mapped(SpelledWord, D(s)), SpelledWord[e])
      BY <2>1, <2>5, SpelledAppend
    <3> QED
      BY <2>1, <2>6, <3>1, <3>2, <3>3
  <2>8. CASE e[1] # "digit"
    <3>1. L(Append(s, e)) = L(s) /\ D(Append(s, e)) = D(s)
      BY <2>3, <2>4, <2>8
    <3> QED
      BY <2>1, <2>6, <3>1
  <2> QED
    BY <2>7, <2>8
<1> HIDE DEF H
<1>3. \A s \in Seq(S) : s \in H
  BY <1>1, <1>2, SeqInduction
<1> QED
  BY <1>3 DEF H

(* A text of the kinds selected is selected whole.                          *)
LEMMA OfKindAll ==
    ASSUME NEW kinds, NEW S, S = {t \in Token : t[1] \in kinds}
    PROVE  \A s \in Seq(S) : OfKind(s, kinds) = s
<1> DEFINE H == {s \in Seq(S) : OfKind(s, kinds) = s}
<1>1. <<>> \in H
  BY OfKindEmpty, EmptySeq
<1>2. ASSUME NEW s \in Seq(S), NEW e \in S, s \in H PROVE Append(s, e) \in H
  <2>1. s \in Seq(Token) /\ e \in Token /\ e[1] \in kinds /\ Append(s, e) \in Seq(S)
    BY AppendProperties
  <2>2. OfKind(Append(s, e), kinds) = Append(OfKind(s, kinds), e)
    BY <2>1, OfKindAppend
  <2> QED
    BY <1>2, <2>1, <2>2
<1> HIDE DEF H
<1>3. \A s \in Seq(S) : s \in H
  BY <1>1, <1>2, SeqInduction
<1> QED
  BY <1>3 DEF H

(* What SaysDigits asks of a text.                                           *)
LEMMA DigitsSaid ==
    ASSUME NEW written \in Seq(Token), NEW text,
           OfKind(text, {"spelled", "digit"}) = Mapped(SpelledWord, OfKind(written, {"digit"}))
    PROVE  SaysDigits(text, written)
<1> DEFINE d == OfKind(written, {"digit"})
<1>1. d \in Seq(Token)
  BY OfKindType
<1> HIDE DEF d
<1>2. \A i \in DOMAIN d : d[i] \in Token
  BY <1>1, ElementOfSeq, LenProperties
<1>3. Mapped(SpelledWord, d) = [i \in DOMAIN d |-> Spelled(d[i][2])]
  BY <1>2 DEF Mapped, SpelledWord
<1> QED
  BY <1>3 DEF SaysDigits, d

(* A telephone number is said digit by digit (format_phone).                *)
LEMMA PhoneSaid == ASSUME NEW s \in Seq(Token) PROVE SaysDigits(SpellPhone(s), s)
<1> DEFINE d == OfKind(s, {"digit"})
           u == SpellPhone(s)
           S == {t \in Token : t[1] \in {"spelled", "digit"}}
<1>1. d \in Seq(Token) /\ u = Mapped(SpelledWord, d) /\ u \in Seq(Token)
  BY OfKindType, SpellTypes
<1> HIDE DEF d, u
<1>2. SpelledWord \in [Token -> S]
  <2>1. \A t \in Token : Spelled(t[2]) \in Token /\ Spelled(t[2])[1] = "spelled"
    BY TokenTypes DEF Spelled
  <2> QED
    BY <2>1 DEF SpelledWord
<1>3. u \in Seq(S)
  BY <1>1, <1>2, MapType DEF Mapped
<1>4. OfKind(u, {"spelled", "digit"}) = u
  BY <1>3, OfKindAll
<1> QED
  BY <1>1, <1>4, DigitsSaid DEF d, u

(* One function of a word after another is one function.                     *)
LEMMA MappedTwice ==
    ASSUME NEW g \in [Token -> Token], NEW h \in [Token -> Token], NEW s \in Seq(Token)
    PROVE  Mapped(g, Mapped(h, s)) = Mapped([t \in Token |-> g[h[t]]], s)
<1>1. \A i \in DOMAIN s : s[i] \in Token
  BY ElementOfSeq, LenProperties
<1> QED
  BY <1>1 DEF Mapped

(* A form holds no word of a pack.                                          *)
LEMMA WordsWritten ==
    \A t \in Written : t \in Token /\ t[1] # "spelled"
BY DEF Written

(* An address of mail is said word by word, its digits spelled              *)
(* (format_email).                                                          *)
LEMMA EmailSaid ==
    ASSUME NEW s \in Seq(Written)
    PROVE  SaysDigits(SpellEmail(s), s) /\ Len(SpellEmail(s)) = Len(s)
<1> DEFINE g == [t \in Token |-> SpelledDigit[SignName[t]]]
<1>1. s \in Seq(Token)
  BY TokenTypes
<1>2. g \in [Token -> Token] /\ SpellEmail(s) = Mapped(g, s)
  <2>1. SpelledDigit \in [Token -> Token] /\ SignName \in [Token -> Token]
    BY SpellTypes
  <2>2. g \in [Token -> Token]
    BY <2>1
  <2>3. SpellEmail(s) = Mapped(SpelledDigit, Mapped(SignName, s))
    BY <1>1, SpellTypes
  <2>4. Mapped(SpelledDigit, Mapped(SignName, s)) = Mapped(g, s)
    BY <1>1, <2>1, MappedTwice
  <2> QED
    BY <2>2, <2>3, <2>4
<1>3. ASSUME NEW t \in Written
      PROVE  IF t[1] = "digit" THEN g[t] = Spelled(t[2]) ELSE g[t][1] \notin {"spelled", "digit"}
  <2>1. t \in Token /\ t[1] # "spelled" /\ SignName[t] \in Token
    BY WordsWritten, SpellTypes
  <2>2. g[t] = SpelledDigit[SignName[t]]
    BY <2>1
  <2> HIDE DEF g
  <2>3. SignName[t] = IF t[1] = "@" THEN <<"at the rate", 0>> ELSE IF t[1] = "." THEN <<"dot", 0>> ELSE t
    BY <2>1 DEF SignName
  <2>4. SpelledDigit[SignName[t]] = IF SignName[t][1] = "digit" THEN Spelled(SignName[t][2]) ELSE SignName[t]
    BY <2>1 DEF SpelledDigit
  <2>5. <<"at the rate", 0>>[1] = "at the rate" /\ <<"dot", 0>>[1] = "dot"
    OBVIOUS
  <2>6. /\ SignName[t][1] = "digit" <=> t[1] = "digit"
        /\ SignName[t][1] # "spelled"
        /\ t[1] = "digit" => SignName[t] = t
    BY <2>1, <2>3, <2>5
  <2> QED
    BY <2>2, <2>4, <2>6
<1> HIDE DEF g
<1>4. Written \in SUBSET Token
  BY TokenTypes
<1>5. OfKind(Mapped(g, s), {"spelled", "digit"}) = Mapped(SpelledWord, OfKind(s, {"digit"}))
  BY <1>2, <1>3, <1>4, DigitsOfMapped
<1>6. Len(Mapped(g, s)) = Len(s)
  BY <1>1, <1>2, MapType DEF Mapped
<1> QED
  BY <1>1, <1>2, <1>5, <1>6, DigitsSaid

(* An address that nobody converted is said word by word, its digits        *)
(* spelled (_spell_digits).                                                 *)
LEMMA AddressSpelled ==
    ASSUME NEW s \in Seq(Written)
    PROVE  SaysDigits(SpellDigits(s), s)
<1>1. s \in Seq(Token) /\ Written \in SUBSET Token
  BY TokenTypes
<1>2. SpelledDigit \in [Token -> Token] /\ SpellDigits(s) = Mapped(SpelledDigit, s)
  BY <1>1, SpellTypes
<1>3. ASSUME NEW t \in Written
      PROVE  IF t[1] = "digit" THEN SpelledDigit[t] = Spelled(t[2]) ELSE SpelledDigit[t][1] \notin {"spelled", "digit"}
  BY WordsWritten DEF SpelledDigit
<1>4. OfKind(Mapped(SpelledDigit, s), {"spelled", "digit"}) = Mapped(SpelledWord, OfKind(s, {"digit"}))
  BY <1>1, <1>2, <1>3, DigitsOfMapped
<1> QED
  BY <1>1, <1>2, <1>4, DigitsSaid

(* No digit is left in it (_spell_digits).                                  *)
LEMMA NoDigitLeft ==
    ASSUME NEW a \in Seq(Token), ~Raises(a)
    PROVE  Kinds(SpellDigits(a)) \cap {"digit", "native digit"} = {}
<1> DEFINE b == SpellDigits(a)
<1>1. b = Mapped(SpelledDigit, a)
  BY SpellTypes
<1>2. DOMAIN b = DOMAIN a /\ \A i \in DOMAIN a : b[i] = SpelledDigit[a[i]] /\ a[i] \in Token
  BY <1>1, ElementOfSeq, LenProperties DEF Mapped
<1>3. \A i \in DOMAIN a : a[i][1] # "native digit"
  BY DEF Raises, Kinds
<1> HIDE DEF b
<1>4. \A t \in Token : SpelledDigit[t] = IF t[1] = "digit" THEN Spelled(t[2]) ELSE t
  BY DEF SpelledDigit
<1>5. ASSUME NEW i \in DOMAIN b PROVE b[i][1] # "digit" /\ b[i][1] # "native digit"
  <2>1. /\ b[i] = IF a[i][1] = "digit" THEN Spelled(a[i][2]) ELSE a[i]
        /\ a[i][1] # "native digit"
    BY <1>2, <1>3, <1>4
  <2>2. Spelled(a[i][2])[1] = "spelled"
    BY DEF Spelled
  <2> QED
    BY <2>1, <2>2
<1> QED
  BY <1>5 DEF Kinds, b

(* What a listener of an address hears, up to some word of it.              *)
HeardAcc == [told : Seq(Token), number : Nat, open : BOOLEAN]
Silent == [told |-> <<>>, number |-> 0, open |-> FALSE]
HearFrom(acc, text) == Scan(HearAddress, acc, text)
AtPlace(acc) == acc.number = 0 /\ acc.open = FALSE
HearPlace(acc, kind) ==
  [told |-> acc.told \o (IF acc.open THEN <<Word(acc.number)>> ELSE <<>>) \o <<<<kind, 0>>>>,
   number |-> 0, open |-> FALSE]

LEMMA HearAddressStep ==
    ASSUME NEW acc \in HeardAcc, NEW t \in Token
    PROVE  /\ HearAddress[acc][t] \in HeardAcc
           /\ t[1] \in DigitKinds =>
                HearAddress[acc][t] = [told |-> acc.told, number |-> 10 * acc.number + t[2], open |-> TRUE]
           /\ t[1] = "number" =>
                HearAddress[acc][t] = [told |-> acc.told, number |-> acc.number + t[2], open |-> TRUE]
           /\ t[1] \notin DigitKinds \cup {"number"} => HearAddress[acc][t] = HearPlace(acc, t[1])
<1> DEFINE a == [told |-> acc.told, number |-> 10 * acc.number + t[2], open |-> TRUE]
           b == [told |-> acc.told, number |-> acc.number + t[2], open |-> TRUE]
<1>1. HearAddress[acc][t] =
        IF t[1] \in DigitKinds THEN a ELSE IF t[1] = "number" THEN b ELSE HearPlace(acc, t[1])
  BY DEF HearAddress, HeardAcc, HearPlace, DigitKinds
<1>2. acc.told \in Seq(Token) /\ acc.number \in Nat /\ t[2] \in Nat
  BY TokenTypes DEF HeardAcc
<1>3. 10 * acc.number + t[2] \in Nat /\ acc.number + t[2] \in Nat
  BY <1>2
<1>4. a \in HeardAcc /\ b \in HeardAcc
  BY <1>2, <1>3 DEF HeardAcc
<1>5. HearPlace(acc, t[1]) \in HeardAcc
  <2>1. <<t[1], 0>> \in Token /\ Word(acc.number) \in Token
    BY <1>2, TokenTypes
  <2>2. /\ <<<<t[1], 0>>>> \in Seq(Token)
        /\ (IF acc.open THEN <<Word(acc.number)>> ELSE <<>>) \in Seq(Token)
    BY <2>1, TokenTypes
  <2>3. acc.told \o (IF acc.open THEN <<Word(acc.number)>> ELSE <<>>) \o <<<<t[1], 0>>>> \in Seq(Token)
    BY <1>2, <2>2, ConcatProperties
  <2> QED
    BY <2>3 DEF HearPlace, HeardAcc
<1>6. "number" \notin DigitKinds
  BY DEF DigitKinds
<1> QED
  BY <1>1, <1>4, <1>5, <1>6

LEMMA HearFromType == \A acc \in HeardAcc, s \in Seq(Token) : HearFrom(acc, s) \in HeardAcc
BY HearAddressStep, ScanKeeps DEF HearFrom

LEMMA HearFromAppend ==
    \A acc \in HeardAcc, s \in Seq(Token), t \in Token : HearFrom(acc, Append(s, t)) = HearAddress[HearFrom(acc, s)][t]
BY ScanAppend DEF HearFrom

LEMMA HearFromConcat ==
    \A acc \in HeardAcc, s \in Seq(Token), u \in Seq(Token) : HearFrom(acc, s \o u) = HearFrom(HearFrom(acc, s), u)
BY ScanConcat DEF HearFrom

LEMMA HearFromNothing == \A acc : HearFrom(acc, <<>>) = acc
BY ScanEmpty DEF HearFrom

(* Spelling the digits of an address changes nothing of what is heard.      *)
LEMMA SpelledIsHeard == \A s \in Seq(Token) : HearFrom(Silent, SpellDigits(s)) = HearFrom(Silent, s)
<1> DEFINE T == {s \in Seq(Token) : HearFrom(Silent, Mapped(SpelledDigit, s)) = HearFrom(Silent, s)}
<1>0. Silent \in HeardAcc /\ SpelledDigit \in [Token -> Token]
  BY TokenTypes, SpellTypes DEF Silent, HeardAcc
<1>1. <<>> \in T
  BY MappedEmpty, EmptySeq
<1>2. ASSUME NEW s \in Seq(Token), NEW e \in Token, s \in T PROVE Append(s, e) \in T
  <2>1. /\ Append(s, e) \in Seq(Token) /\ Mapped(SpelledDigit, s) \in Seq(Token) /\ SpelledDigit[e] \in Token
        /\ Mapped(SpelledDigit, Append(s, e)) = Append(Mapped(SpelledDigit, s), SpelledDigit[e])
    BY <1>0, AppendProperties, MapType, MappedAppend DEF Mapped
  <2> DEFINE h == HearFrom(Silent, s)
  <2>2. HearFrom(Silent, Append(Mapped(SpelledDigit, s), SpelledDigit[e])) = HearAddress[h][SpelledDigit[e]]
    BY <1>0, <1>2, <2>1, HearFromAppend
  <2>3. HearFrom(Silent, Append(s, e)) = HearAddress[h][e] /\ h \in HeardAcc
    BY <1>0, HearFromAppend, HearFromType
  <2> HIDE DEF h
  <2>4. HearAddress[h][SpelledDigit[e]] = HearAddress[h][e]
    <3>1. SpelledDigit[e] = IF e[1] = "digit" THEN Spelled(e[2]) ELSE e
      BY DEF SpelledDigit
    <3>2. CASE e[1] = "digit"
      <4>1. SpelledDigit[e] = Spelled(e[2]) /\ Spelled(e[2])[1] = "spelled" /\ Spelled(e[2])[2] = e[2]
        BY <3>1, <3>2 DEF Spelled
      <4>2. "digit" \in DigitKinds /\ "spelled" \in DigitKinds
        BY DEF DigitKinds
      <4>3. HearAddress[h][e] = [told |-> h.told, number |-> 10 * h.number + e[2], open |-> TRUE]
        BY <2>3, <3>2, <4>2, HearAddressStep
      <4>4. HearAddress[h][SpelledDigit[e]] = [told |-> h.told, number |-> 10 * h.number + e[2], open |-> TRUE]
        <5> DEFINE w == SpelledDigit[e]
        <5>1. w \in Token /\ w[1] \in DigitKinds /\ w[2] = e[2]
          BY <2>1, <4>1, <4>2
        <5> HIDE DEF w
        <5>2. HearAddress[h][w] = [told |-> h.told, number |-> 10 * h.number + w[2], open |-> TRUE]
          BY <2>3, <5>1, HearAddressStep
        <5> QED
          BY <5>1, <5>2 DEF w
      <4> QED
        BY <4>3, <4>4
    <3>3. CASE e[1] # "digit"
      BY <3>1, <3>3
    <3> QED
      BY <3>2, <3>3
  <2> QED
    BY <2>1, <2>2, <2>3, <2>4
<1> HIDE DEF T
<1>3. \A s \in Seq(Token) : s \in T
  BY <1>1, <1>2, SeqInduction
<1> QED
  BY <1>3, SpellTypes DEF T

(* A number is heard as the number its digits make, whichever kind of       *)
(* digits they become.                                                      *)
DigitTokens == {t \in Token : t[1] \in {"digit", "native digit"}}

LEMMA DigitsAreTokens == (\A t \in DigitTokens : t \in Token) /\ \A s \in Seq(DigitTokens) : s \in Seq(Token)
<1>1. \A t \in DigitTokens : t \in Token
  BY DEF DigitTokens
<1>2. \A s \in Seq(DigitTokens) : s \in Seq(Token)
  BY <1>1
<1> QED
  BY <1>1, <1>2

HeardNumber(acc, number) ==
  IF number = <<>> THEN acc ELSE [told |-> acc.told, number |-> Value(number), open |-> TRUE]

LEMMA ValueAppend ==
    ASSUME NEW number \in Seq(Token), NEW t \in Token
    PROVE  Value(Append(number, t)) = 10 * Value(number) + t[2]
<1>1. Value(Append(number, t)) = AppendDigit[Value(number)][t]
  BY ScanAppend DEF Value
<1>2. Value(number) \in Nat
  BY ValueType
<1> QED
  BY <1>1, <1>2 DEF AppendDigit

LEMMA DigitsHeard ==
    ASSUME NEW acc \in HeardAcc, AtPlace(acc), NEW manner
    PROVE  \A number \in Seq(DigitTokens) :
             HearFrom(acc, Mapped(SayDigit(manner), number)) = HeardNumber(acc, number)
<1> DEFINE g == SayDigit(manner)
           T == {number \in Seq(DigitTokens) : HearFrom(acc, Mapped(g, number)) = HeardNumber(acc, number)}
<1>1. <<>> \in T
  BY MappedEmpty, EmptySeq, HearFromNothing DEF HeardNumber
<1>2. ASSUME NEW s \in Seq(DigitTokens), NEW e \in DigitTokens, s \in T PROVE Append(s, e) \in T
  <2>1. s \in Seq(Token) /\ e \in Token /\ g \in [Token -> Token] /\ g[e] \in Token
    BY SayDigitType, DigitsAreTokens
  <2>2. /\ Append(s, e) \in Seq(DigitTokens) /\ Append(s, e) # <<>>
        /\ Mapped(g, s) \in Seq(Token) /\ Mapped(g, Append(s, e)) = Append(Mapped(g, s), g[e])
    BY <2>1, AppendItems, MapType, MappedAppend DEF Mapped
  <2>3. g[e][1] \in DigitKinds /\ g[e][2] = e[2]
    <3>1. g[e] = IF manner = "digit by digit" THEN Spelled(e[2])
                 ELSE IF manner = "native digits" THEN NativeDigit(e[2]) ELSE e
      BY <2>1 DEF SayDigit
    <3>2. e[1] \in DigitKinds
      BY DEF DigitTokens, DigitKinds
    <3>3. /\ Spelled(e[2])[1] = "spelled" /\ Spelled(e[2])[2] = e[2]
          /\ NativeDigit(e[2])[1] = "native digit" /\ NativeDigit(e[2])[2] = e[2]
      BY DEF Spelled, NativeDigit
    <3>4. "spelled" \in DigitKinds /\ "native digit" \in DigitKinds
      BY DEF DigitKinds
    <3> HIDE DEF g
    <3>5. CASE manner = "digit by digit"
      BY <3>1, <3>3, <3>4, <3>5
    <3>6. CASE manner = "native digits"
      BY <3>1, <3>3, <3>4, <3>6
    <3>7. CASE manner # "digit by digit" /\ manner # "native digits"
      BY <3>1, <3>2, <3>7
    <3> QED
      BY <3>5, <3>6, <3>7
  <2> HIDE DEF g
  <2> DEFINE h == HeardNumber(acc, s)
  <2>4. HearFrom(acc, Mapped(g, Append(s, e))) = HearAddress[h][g[e]]
    BY <1>2, <2>1, <2>2, HearFromAppend
  <2>5. Value(s) \in Nat /\ Value(Append(s, e)) = 10 * Value(s) + e[2] /\ e[2] \in Nat
    BY <2>1, ValueType, ValueAppend, TokenTypes
  <2>6. h \in HeardAcc /\ h.told = acc.told /\ h.number = Value(s)
    <3>1. CASE s = <<>>
      <4>1. Value(s) = 0 /\ h = acc
        BY <3>1, ScanEmpty DEF Value, HeardNumber
      <4> QED
        BY <4>1 DEF AtPlace
    <3>2. CASE s # <<>>
      <4>1. h = [told |-> acc.told, number |-> Value(s), open |-> TRUE]
        BY <3>2 DEF HeardNumber
      <4> QED
        BY <2>5, <4>1 DEF HeardAcc
    <3> QED
      BY <3>1, <3>2
  <2> HIDE DEF h
  <2>7. HearAddress[h][g[e]] = [told |-> acc.told, number |-> 10 * Value(s) + e[2], open |-> TRUE]
    BY ZenonT(60), <2>1, <2>3, <2>6, HearAddressStep
  <2>8. HeardNumber(acc, Append(s, e)) = [told |-> acc.told, number |-> 10 * Value(s) + e[2], open |-> TRUE]
    BY <2>2, <2>5 DEF HeardNumber
  <2> QED
    BY <2>2, <2>4, <2>7, <2>8
<1> HIDE DEF T
<1>3. \A number \in Seq(DigitTokens) : number \in T
  BY <1>1, <1>2, SeqInduction
<1> QED
  BY <1>3 DEF T

(* So it is when it is said in words.                                       *)
LEMMA NumberHeard ==
    ASSUME NEW acc \in HeardAcc, AtPlace(acc), NEW number \in Seq(DigitTokens), number # <<>>, NEW manner
    PROVE  HearFrom(acc, SayNumber(number, manner)) = HeardNumber(acc, number)
<1>1. number \in Seq(Token)
  BY DigitsAreTokens
<1>2. CASE manner = "words"
  <2> DEFINE w == Word(Value(number))
  <2>1. SayNumber(number, manner) = <<w>>
    BY <1>2 DEF SayNumber, Value
  <2>2. Value(number) \in Nat /\ w \in Token /\ w[1] = "number" /\ w[2] = Value(number)
    BY <1>1, ValueType, TokenTypes DEF Word
  <2> HIDE DEF w
  <2>3. HearFrom(acc, <<w>>) = HearAddress[acc][w]
    <3>1. <<w>> = Append(<<>>, w) /\ <<>> \in Seq(Token)
      OBVIOUS
    <3>2. HearFrom(acc, Append(<<>>, w)) = HearAddress[HearFrom(acc, <<>>)][w]
      BY <2>2, <3>1, HearFromAppend
    <3> QED
      BY <3>1, <3>2, HearFromNothing
  <2>4. HearAddress[acc][w] = [told |-> acc.told, number |-> acc.number + Value(number), open |-> TRUE]
    BY <2>2, HearAddressStep
  <2>5. acc.number + Value(number) = Value(number)
    BY <2>2 DEF AtPlace
  <2> QED
    BY <2>1, <2>3, <2>4, <2>5 DEF HeardNumber
<1>3. CASE manner # "words"
  BY <1>1, <1>3, SaidByDigits, DigitsHeard
<1> QED
  BY <1>2, <1>3

LEMMA WrittenNumberHeard ==
    ASSUME NEW acc \in HeardAcc, AtPlace(acc), NEW number \in Seq(DigitTokens)
    PROVE  HearFrom(acc, number) = HeardNumber(acc, number)
<1>1. CASE number = <<>>
  BY <1>1, HearFromNothing DEF HeardNumber
<1>2. CASE number # <<>>
  <2>1. SayNumber(number, "as written") = number
    BY DEF SayNumber
  <2> QED
    BY <1>2, <2>1, NumberHeard
<1> QED
  BY <1>1, <1>2

(* Read as far as some word, the conversion and the writing are heard       *)
(* alike, the number under way as it is written.                            *)
HeardAlike(how, s) ==
  LET acc == Scan(ConvertWord(how), NothingRead, s)
  IN  /\ acc.said \in Seq(Token) /\ acc.number \in Seq(DigitTokens)
      /\ AtPlace(HearFrom(Silent, acc.said))
      /\ HearFrom(Silent, s) = HearFrom(HearFrom(Silent, acc.said), acc.number)

(* With its number told, the conversion is heard as it was written.         *)
LEMMA WithNumberHeard ==
    ASSUME NEW how, NEW s \in Seq(Token), HeardAlike(how, s)
    PROVE  HearFrom(Silent, WithNumber(Scan(ConvertWord(how), NothingRead, s), how)) = HearFrom(Silent, s)
<1> DEFINE acc == Scan(ConvertWord(how), NothingRead, s)
           h == HearFrom(Silent, acc.said)
<1>1. /\ acc.said \in Seq(Token) /\ acc.number \in Seq(DigitTokens)
      /\ AtPlace(h) /\ HearFrom(Silent, s) = HearFrom(h, acc.number)
  BY DEF HeardAlike
<1>2. Silent \in HeardAcc
  BY TokenTypes DEF Silent, HeardAcc
<1>3. h \in HeardAcc
  BY <1>1, <1>2, HearFromType
<1>4. acc.number \in Seq(Token)
  BY <1>1, DigitsAreTokens
<1> HIDE DEF acc
<1>5. CASE acc.number = <<>>
  <2>1. WithNumber(acc, how) = acc.said
    BY <1>5 DEF WithNumber
  <2> QED
    BY <1>1, <1>5, <2>1, HearFromNothing DEF acc
<1>6. CASE acc.number # <<>>
  <2> DEFINE m == how[acc.number]
  <2>1. WithNumber(acc, how) = acc.said \o SayNumber(acc.number, m) /\ SayNumber(acc.number, m) \in Seq(Token)
    BY <1>4, <1>6, SayNumberType DEF WithNumber
  <2> HIDE DEF m
  <2>2. HearFrom(Silent, WithNumber(acc, how)) = HearFrom(h, SayNumber(acc.number, m))
    BY <1>1, <1>2, <2>1, HearFromConcat
  <2> HIDE DEF h
  <2>3. HearFrom(h, SayNumber(acc.number, m)) = HeardNumber(h, acc.number)
    BY <1>1, <1>3, <1>6, NumberHeard
  <2>4. HearFrom(h, acc.number) = HeardNumber(h, acc.number)
    BY <1>1, <1>3, WrittenNumberHeard
  <2> QED
    BY <1>1, <2>2, <2>3, <2>4 DEF acc
<1> QED
  BY <1>5, <1>6

LEMMA HeardAlikeNext ==
    ASSUME NEW how, NEW s \in Seq(Written), NEW t \in Written, HeardAlike(how, s)
    PROVE  HeardAlike(how, Append(s, t))
<1> DEFINE acc == Scan(ConvertWord(how), NothingRead, s)
           next == Scan(ConvertWord(how), NothingRead, Append(s, t))
           h == HearFrom(Silent, acc.said)
<1>1. /\ acc.said \in Seq(Token) /\ acc.number \in Seq(DigitTokens)
      /\ AtPlace(h) /\ HearFrom(Silent, s) = HearFrom(h, acc.number)
  BY DEF HeardAlike
<1>2. /\ s \in Seq(Token) /\ t \in Token /\ Silent \in HeardAcc
      /\ t[1] # "number" /\ t[1] # "spelled"
  BY TokenTypes DEF Silent, HeardAcc, Written
<1>3. acc \in AddressAcc /\ next = ConvertWord(how)[acc][t]
  BY <1>2, ConvertWordType, ScanAppend
<1>4. h \in HeardAcc /\ HearFrom(Silent, s) \in HeardAcc /\ acc.number \in Seq(Token)
  BY <1>1, <1>2, HearFromType, DigitsAreTokens
<1>5. HearFrom(Silent, Append(s, t)) = HearAddress[HearFrom(Silent, s)][t]
  BY <1>2, HearFromAppend
<1>6. HearFrom(Silent, WithNumber(acc, how)) = HearFrom(Silent, s)
  BY <1>2, WithNumberHeard
<1> HIDE DEF acc, next, h
<1>7. CASE IsDigit(t)
  <2>1. next = [said |-> acc.said, number |-> Append(acc.number, t)]
    BY <1>2, <1>3, <1>7, ConvertWordStep
  <2>2. t \in DigitTokens /\ Append(acc.number, t) \in Seq(DigitTokens)
    BY <1>1, <1>2, <1>7, AppendProperties DEF DigitTokens, IsDigit
  <2>3. HearFrom(h, Append(acc.number, t)) = HearAddress[HearFrom(h, acc.number)][t]
    BY <1>2, <1>4, HearFromAppend
  <2>4. /\ next.said = acc.said /\ next.number = Append(acc.number, t)
    BY <2>1
  <2> QED
    BY <1>1, <1>5, <2>2, <2>3, <2>4 DEF HeardAlike, next, h
<1>8. CASE ~IsDigit(t)
  <2> DEFINE said == WithNumber(acc, how)
             u == <<t[1], 1>>
             w == HearFrom(Silent, s)
  <2>1. next = [said |-> Append(said, u), number |-> <<>>]
    BY <1>2, <1>3, <1>8, ConvertWordStep
  <2>2. said \in Seq(Token) /\ u \in Token /\ u[1] = t[1]
    BY <1>2, <1>3, WithNumberType, TokenTypes
  <2> HIDE DEF said, u
  <2>3. HearFrom(Silent, Append(said, u)) = HearAddress[w][u]
    BY <1>2, <1>6, <2>2, HearFromAppend DEF said
  <2>4. t[1] \notin DigitKinds \cup {"number"}
    BY <1>2, <1>8 DEF IsDigit, DigitKinds
  <2>5. w \in HeardAcc
    BY <1>4
  <2> HIDE DEF w
  <2>6. HearAddress[w][u] = HearPlace(w, t[1]) /\ HearAddress[w][t] = HearPlace(w, t[1])
    BY <1>2, <2>2, <2>4, <2>5, HearAddressStep
  <2>7. AtPlace(HearPlace(w, t[1]))
    BY DEF AtPlace, HearPlace
  <2>8. next.said = Append(said, u) /\ next.number = <<>> /\ Append(said, u) \in Seq(Token)
    BY <2>1, <2>2, AppendProperties
  <2>9. HearFrom(Silent, Append(s, t)) = HearPlace(w, t[1])
    BY <1>5, <2>6 DEF w
  <2>10. HearFrom(Silent, next.said) = HearPlace(w, t[1])
    BY <2>3, <2>6, <2>8
  <2>11. HearFrom(HearPlace(w, t[1]), next.number) = HearPlace(w, t[1]) /\ next.number \in Seq(DigitTokens)
    BY <2>8, HearFromNothing
  <2>12. next.said \in Seq(Token)
    BY <2>8
  <2> QED
    BY <2>7, <2>9, <2>10, <2>11, <2>12 DEF HeardAlike, next
<1> QED
  BY <1>7, <1>8

(* A converted address is heard as it was written (_convert_address).       *)
LEMMA ConvertedHeard ==
    ASSUME NEW s \in Seq(Written), NEW how
    PROVE  HearFrom(Silent, NativeAddress(s, how)) = HearFrom(Silent, s)
<1> DEFINE T == {x \in Seq(Written) : HeardAlike(how, x)}
<1>1. <<>> \in T
  <2>1. Scan(ConvertWord(how), NothingRead, <<>>) = NothingRead
    BY ScanEmpty
  <2>2. NothingRead.said = <<>> /\ NothingRead.number = <<>>
    BY DEF NothingRead
  <2>3. HearFrom(Silent, <<>>) = Silent
    BY HearFromNothing
  <2>4. AtPlace(Silent)
    BY DEF AtPlace, Silent
  <2>5. <<>> \in Seq(Token) /\ <<>> \in Seq(DigitTokens) /\ <<>> \in Seq(Written)
    OBVIOUS
  <2> QED
    BY <2>1, <2>2, <2>3, <2>4, <2>5 DEF HeardAlike
<1>2. ASSUME NEW x \in Seq(Written), NEW e \in Written, x \in T PROVE Append(x, e) \in T
  BY <1>2, HeardAlikeNext, AppendProperties
<1> HIDE DEF T
<1>3. s \in T
  BY <1>1, <1>2, SeqInduction
<1>4. s \in Seq(Token)
  BY TokenTypes
<1> QED
  BY <1>3, <1>4, WithNumberHeard DEF T, NativeAddress, NothingRead

(* Two texts heard alike mean the same.                                     *)
LEMMA MeaningHeard ==
    ASSUME NEW s \in Seq(Token), NEW u \in Seq(Token), HearFrom(Silent, s) = HearFrom(Silent, u)
    PROVE  AddressMeaning(s) = AddressMeaning(u)
<1>1. "," \in STRING \cup PackKinds \cup Frequencies /\ Silent \in HeardAcc
  BY TokenTypes DEF PackKinds, Silent, HeardAcc
<1>2. <<",", 0>> \in Token
  BY <1>1, TokenTypes
<1>3. HearFrom(Silent, Append(s, <<",", 0>>)) = HearFrom(Silent, Append(u, <<",", 0>>))
  <2> DEFINE c == <<",", 0>>
  <2>1. c \in Token
    BY <1>2
  <2> HIDE DEF c
  <2>2. /\ HearFrom(Silent, Append(s, c)) = HearAddress[HearFrom(Silent, s)][c]
        /\ HearFrom(Silent, Append(u, c)) = HearAddress[HearFrom(Silent, u)][c]
    BY <1>1, <2>1, HearFromAppend
  <2> QED
    BY <2>2 DEF c
<1> QED
  BY <1>3 DEF AddressMeaning, HearFrom, Silent

(* The address of a form is a text, heard as the one written.               *)
LEMMA FormAddress ==
    ASSUME NEW req \in Requests, NEW p \in Forms(req)
    PROVE  /\ req.address \in Seq(Written) /\ p.address \in Seq(Token)
           /\ AddressMeaning(SpellDigits(p.address)) = AddressMeaning(req.address)
<1>1. "address" \in DOMAIN req /\ req.address \in Seq(Written) /\ req.address \in Seq(Token)
  BY FieldNames, RequestsAssumption, TokenTypes
<1>2. p.address \in Seq(Token)
  BY FormsType, FieldNames DEF Form
<1>3. HearFrom(Silent, p.address) = HearFrom(Silent, req.address)
  <2>1. ASSUME NEW done, NEW how, p = Converted(req, done, how)
        PROVE  HearFrom(Silent, p.address) = HearFrom(Silent, req.address)
    <3>1. p.address = NativeAddress(req.address, how) \/ p.address = req.address
      BY <1>1, <2>1 DEF Converted, NativeField
    <3> QED
      BY <1>1, <3>1, ConvertedHeard
  <2> QED
    BY <2>1 DEF Forms
<1>4. SpellDigits(p.address) \in Seq(Token) /\ HearFrom(Silent, SpellDigits(p.address)) = HearFrom(Silent, req.address)
  BY <1>2, <1>3, SpellTypes, SpelledIsHeard
<1> QED
  BY <1>1, <1>2, <1>4, MeaningHeard

(* The address of mail is never converted.                                  *)
LEMMA FormEmail ==
    ASSUME NEW req \in Requests, NEW p \in Forms(req)
    PROVE  p.email = req.email
<1>1. DOMAIN req = RequestFields /\ "email" \in RequestFields /\ "email" \notin NAME_FIELDS \cup {"address"}
  BY FieldNames, RequestsAssumption DEF TextFields
<1>2. ASSUME NEW done, NEW how PROVE Converted(req, done, how).email = req.email
  BY <1>1 DEF Converted, Tasks
<1> QED
  BY <1>2 DEF Forms

(* A question asks for the value of its placeholder.                        *)
LEMMA QuestionSays ==
    ASSUME StartInv, NEW s \in Starts, NEW p \in Forms(request[s]), MadeFrom(s, p),
           NEW state \in {"q_mobile", "q_alt_mobile", "q_email", "q_address"},
           NEW x \in Placeholders, Templates[state] = Asks(x)
    PROVE  SlowText(s, state) = Replacements(request[s].language, request[s], p)[x]
<1> DEFINE lang == request[s].language
           repl == Replacements(lang, request[s], p)
           b == BuildPhrases(lang, request[s], p)
<1>1. Form(request[s]) /\ Form(p)
  BY FormOfRequest, FormsType DEF StartInv
<1>2. \A y \in Placeholders : repl[y] \in Seq(Token)
  BY <1>1, ReplacementsType
<1>3. state \in States /\ state # "awareness"
  BY DEF States, Templates
<1>4. b[state] = Resolve(Phrases(lang)[state], repl)
  BY <1>1, <1>3, BuiltPhrases
<1>5. Phrases(lang)[state] = Asks(x)
  BY <1>3, PhrasesType
<1>6. session[s].phrases = b
  BY DEF MadeFrom, NewSession
<1> HIDE DEF lang, repl, b
<1>7. session[s].phrases[state] = Resolve(Asks(x), repl)
  BY <1>4, <1>5, <1>6
<1> DEFINE ph == Resolve(Asks(x), repl)
<1>8. SlowText(s, state) = FlattenSeq([i \in DOMAIN ph |-> IF ph[i].slow THEN ph[i].text ELSE <<>>])
  BY Zenon, <1>7 DEF SlowText
<1>9. FlattenSeq([i \in DOMAIN ph |-> IF ph[i].slow THEN ph[i].text ELSE <<>>]) = repl[x]
  BY <1>2, SlowOfAsks
<1> QED
  BY <1>8, <1>9 DEF lang, repl

(* The questions of an answered start tell the data of its own request.     *)
LEMMA QuestionsFollow == StartInv => QuestionsAskOwnData
<1>1. SUFFICES ASSUME StartInv, NEW s \in Starts, pc[s] = "answered"
               PROVE  /\ SaysDigits(SlowText(s, "q_mobile"), request[s].primary_mobile)
                      /\ session[s].hasAlt => SaysDigits(SlowText(s, "q_alt_mobile"), request[s].alternative_mobile)
                      /\ SaysDigits(SlowText(s, "q_email"), request[s].email)
                      /\ Len(SlowText(s, "q_email")) = Len(request[s].email)
                      /\ AddressMeaning(SlowText(s, "q_address")) = AddressMeaning(request[s].address)
                      /\ Kinds(SlowText(s, "q_address")) \cap {"digit", "native digit"} = {}
                      /\ ~NeedsConversion(s) => SaysDigits(SlowText(s, "q_address"), request[s].address)
  BY DEF QuestionsAskOwnData
<1>2. PICK p \in Forms(request[s]) : MadeFrom(s, p)
  BY <1>1 DEF StartInv
<1> DEFINE req == request[s]
<1>3. /\ req \in Requests
      /\ req.primary_mobile \in Seq(Token) /\ req.alternative_mobile \in Seq(Token)
      /\ req.email \in Seq(Written) /\ req.address \in Seq(Written)
  <2>1. req \in Requests
    BY <1>1 DEF StartInv
  <2>2. /\ req.primary_mobile \in Seq(Written) /\ req.alternative_mobile \in Seq(Written)
        /\ req.email \in Seq(Written) /\ req.address \in Seq(Written)
    BY <2>1, FieldNames, RequestsAssumption
  <2> QED
    BY <2>1, <2>2, TokenTypes
<1>4. /\ p.email = req.email /\ p.address \in Seq(Token) /\ ~Raises(p.address)
      /\ AddressMeaning(SpellDigits(p.address)) = AddressMeaning(req.address)
      /\ ~NeedsConversion(s) => p = req
  BY <1>2, <1>3, FormEmail, FormAddress DEF MadeFrom, Speakable
<1>5. /\ Templates["q_mobile"] = Asks("phone") /\ Templates["q_alt_mobile"] = Asks("alt_phone")
      /\ Templates["q_email"] = Asks("email") /\ Templates["q_address"] = Asks("address")
      /\ {"phone", "alt_phone", "email", "address"} \subseteq Placeholders
  BY DEF Templates, Placeholders
<1>6. /\ SlowText(s, "q_mobile") = SpellPhone(req.primary_mobile)
      /\ SlowText(s, "q_alt_mobile") = SpellPhone(req.alternative_mobile)
      /\ SlowText(s, "q_email") = SpellEmail(p.email)
      /\ SlowText(s, "q_address") = SpellDigits(p.address)
  <2> DEFINE r == Replacements(req.language, req, p)
  <2>1. /\ SlowText(s, "q_mobile") = r["phone"] /\ SlowText(s, "q_alt_mobile") = r["alt_phone"]
        /\ SlowText(s, "q_email") = r["email"] /\ SlowText(s, "q_address") = r["address"]
    BY <1>1, <1>2, <1>5, QuestionSays
  <2>2. /\ r["phone"] = SpellPhone(req.primary_mobile) /\ r["alt_phone"] = SpellPhone(req.alternative_mobile)
        /\ r["email"] = SpellEmail(p.email) /\ r["address"] = SpellDigits(p.address)
    BY DEF Replacements
  <2> QED
    BY <2>1, <2>2
<1> QED
  BY <1>3, <1>4, <1>6, PhoneSaid, EmailSaid, AddressSpelled, NoDigitLeft

(* The four questions tell the telephone numbers, the mail and the          *)
(* address of the customer whose call it is, for every request and          *)
(* whatever the conversion of the address makes of its numbers: numbers     *)
(* and mail digit by digit, the address with its places and numbers as      *)
(* written and no digit left in it (format_phone, format_email,             *)
(* _spell_digits, _convert_address).                                        *)
THEOREM QuestionsOfCustomer == Spec => []QuestionsAskOwnData
BY StartInvariant, QuestionsFollow, PTL

----------------------------------------------------------------------------
(* Numbers heard: a listener adds up the words of a number.                 *)

(* The tokens of some kinds of a text after another.                        *)
LEMMA OfKindConcat ==
    ASSUME NEW s \in Seq(Token), NEW t \in Seq(Token), NEW kinds
    PROVE  OfKind(s \o t, kinds) = OfKind(s, kinds) \o OfKind(t, kinds)
<1> DEFINE g == Pick(kinds)
<1>1. g \in [Token -> Seq(Token)] /\ s \o t \in Seq(Token)
  BY PickType, ConcatProperties
<1>2. /\ OfKind(s \o t, kinds) = Expand(g, s \o t)
      /\ OfKind(s, kinds) = Expand(g, s) /\ OfKind(t, kinds) = Expand(g, t)
  BY <1>1, OfKindExpands
<1> HIDE DEF g
<1>3. Expand(g, s \o t) = Expand(g, s) \o Expand(g, t)
  BY SMTT(30), ZenonT(60), <1>1, ExpandConcat
<1> QED
  BY <1>2, <1>3

(* Number words read by the listener after a total and a part.               *)
Acc(total, part) == [total |-> total, part |-> part]
Hear(acc, s) == Scan(HearWord, acc, OfKind(s, {"number"}))

(* Number words heard after others.                                         *)
LEMMA HearConcat ==
    ASSUME NEW acc, NEW s \in Seq(Token), NEW t \in Seq(Token)
    PROVE  Hear(acc, s \o t) = Hear(Hear(acc, s), t)
<1> DEFINE a == OfKind(s, {"number"})
           b == OfKind(t, {"number"})
<1>1. a \in Seq(Token) /\ b \in Seq(Token) /\ OfKind(s \o t, {"number"}) = a \o b
  BY OfKindType, OfKindConcat
<1> HIDE DEF a, b
<1>2. Scan(HearWord, acc, a \o b) = Scan(HearWord, Scan(HearWord, acc, a), b)
  BY <1>1, ScanConcat
<1> QED
  BY <1>1, <1>2 DEF Hear, a, b

LEMMA HearNothing == \A acc : Hear(acc, <<>>) = acc
BY OfKindEmpty, ScanEmpty DEF Hear

LEMMA HearOne ==
    ASSUME NEW acc, NEW t \in Token
    PROVE  Hear(acc, <<t>>) = IF t[1] = "number" THEN HearWord[acc][t] ELSE acc
<1>1. <<t>> = Append(<<>>, t) /\ <<>> \in Seq(Token)
  OBVIOUS
<1>2. OfKind(<<t>>, {"number"}) = IF t[1] = "number" THEN Append(<<>>, t) ELSE <<>>
  <2>1. OfKind(Append(<<>>, t), {"number"}) = IF t[1] \in {"number"} THEN Append(OfKind(<<>>, {"number"}), t)
                                              ELSE OfKind(<<>>, {"number"})
    BY <1>1, OfKindAppend
  <2> QED
    BY <1>1, <2>1, OfKindEmpty
<1>3. Scan(HearWord, acc, Append(<<>>, t)) = HearWord[Scan(HearWord, acc, <<>>)][t]
  BY <1>1, ScanAppend
<1> QED
  BY <1>2, <1>3, ScanEmpty DEF Hear

(* The number, by name.                                                     *)
Thousand == 1000

(* What the listener makes of a number word.                                *)
LEMMA HearAny ==
    ASSUME NEW a \in Nat, NEW b \in Nat, NEW n \in Nat
    PROVE  Hear(Acc(a, b), <<Word(n)>>) =
             CASE n = Crore -> Acc((a + b) * Crore, 0)
               [] n \in {Lakh, Thousand} -> Acc(a + b * n, 0)
               [] n = 100 -> Acc(a, b * 100)
               [] OTHER -> Acc(a, b + n)
<1> DEFINE c == Acc(a, b)
<1>1. c \in [total : Nat, part : Nat] /\ c.total = a /\ c.part = b
  BY DEF Acc
<1> HIDE DEF c
<1>2. Word(n) \in Token /\ Word(n)[1] = "number" /\ Word(n)[2] = n
  BY TokenTypes DEF Word
<1>3. Hear(c, <<Word(n)>>) = HearWord[c][Word(n)]
  BY <1>2, HearOne
<1>4. HearWord[c][Word(n)] =
             CASE n = Crore -> [total |-> (a + b) * Crore, part |-> 0]
               [] n \in {Lakh, Thousand} -> [total |-> a + b * n, part |-> 0]
               [] n = 100 -> [c EXCEPT !.part = b * 100]
               [] OTHER -> [c EXCEPT !.part = b + n]
  BY <1>1, <1>2 DEF HearWord, Thousand
<1>5. \A x : [c EXCEPT !.part = x] = Acc(a, x)
  BY <1>1 DEF Acc, c
<1>6. Hear(c, <<Word(n)>>) =
             CASE n = Crore -> Acc((a + b) * Crore, 0)
               [] n \in {Lakh, Thousand} -> Acc(a + b * n, 0)
               [] n = 100 -> Acc(a, b * 100)
               [] OTHER -> Acc(a, b + n)
  BY <1>3, <1>4, <1>5 DEF Acc
<1> QED
  BY Zenon, <1>6 DEF c

(* The units are numbers, different ones, and no small number is one.       *)
LEMMA Units ==
    /\ Crore \in Nat /\ Lakh \in Nat /\ Thousand \in Nat /\ 100 \in Nat
    /\ Crore \notin {Lakh, Thousand, 100} /\ Lakh \notin {Thousand, 100} /\ 100 # Thousand
    /\ \A n \in 0 .. 99 : n \in Nat /\ n \notin {Crore, Lakh, Thousand, 100}
BY SMT DEF Crore, Lakh, Thousand

(* A text that takes the listener from one state to another.                 *)
Tells(s, x, y) == s \in Seq(Token) /\ Hear(x, s) = y

(* Texts that tell go one after the other.                                  *)
LEMMA TellsStep ==
    \A s, t, x, y, z : Tells(s, x, y) /\ Tells(t, y, z) => Tells(s \o t, x, z)
<1>1. SUFFICES ASSUME NEW s \in Seq(Token), NEW t \in Seq(Token), NEW x, NEW y, NEW z,
                      Hear(x, s) = y, Hear(y, t) = z
               PROVE  s \o t \in Seq(Token) /\ Hear(x, s \o t) = z
  BY DEF Tells
<1>2. s \o t \in Seq(Token)
  BY ConcatProperties
<1>3. Hear(x, s \o t) = Hear(Hear(x, s), t)
  BY HearConcat
<1> QED
  BY <1>1, <1>2, <1>3

(* No word, or a word that is no number, tells nothing.                     *)
LEMMA TellsNothing == \A x : Tells(<<>>, x, x)
<1>1. <<>> \in Seq(Token)
  OBVIOUS
<1> QED
  BY Zenon, <1>1, HearNothing DEF Tells

LEMMA TellsOther == \A x : \A t \in Token : t[1] # "number" => Tells(<<t>>, x, x)
<1>1. SUFFICES ASSUME NEW t \in Token, NEW x, t[1] # "number" PROVE Tells(<<t>>, x, x)
  OBVIOUS
<1>2. <<t>> \in Seq(Token)
  OBVIOUS
<1>3. Hear(x, <<t>>) = x
  BY <1>1, HearOne
<1> QED
  BY Zenon, <1>2, <1>3 DEF Tells

LEMMA OneWord == \A n \in Nat : <<Word(n)>> \in Seq(Token)
<1>1. SUFFICES ASSUME NEW n \in Nat PROVE <<Word(n)>> \in Seq(Token)
  OBVIOUS
<1>2. Word(n) \in Token
  BY TokenTypes
<1> QED
  BY <1>2

(* A crore closes what was heard, a lakh and a thousand the part, a         *)
(* hundred and a small number change it.                                    *)
LEMMA TellsCrore ==
    \A a \in Nat, b \in Nat : Tells(<<Word(Crore)>>, Acc(a, b), Acc((a + b) * Crore, 0))
<1>1. SUFFICES ASSUME NEW a \in Nat, NEW b \in Nat
               PROVE  Tells(<<Word(Crore)>>, Acc(a, b), Acc((a + b) * Crore, 0))
  OBVIOUS
<1>2. Crore \in Nat /\ Crore \notin {Lakh, Thousand} /\ Crore # 100
  BY Units
<1>3. Hear(Acc(a, b), <<Word(Crore)>>) = Acc((a + b) * Crore, 0)
  BY <1>2, HearAny
<1>4. <<Word(Crore)>> \in Seq(Token)
  BY <1>2, OneWord
<1> QED
  BY <1>3, <1>4 DEF Tells

LEMMA TellsUnit ==
    \A u \in {Lakh, Thousand}, a \in Nat, b \in Nat : Tells(<<Word(u)>>, Acc(a, b), Acc(a + b * u, 0))
<1>1. SUFFICES ASSUME NEW u \in {Lakh, Thousand}, NEW a \in Nat, NEW b \in Nat
               PROVE  Tells(<<Word(u)>>, Acc(a, b), Acc(a + b * u, 0))
  OBVIOUS
<1>2. u \in Nat /\ u # Crore /\ u # 100
  BY Units
<1>3. Hear(Acc(a, b), <<Word(u)>>) = Acc(a + b * u, 0)
  BY <1>2, HearAny
<1>4. <<Word(u)>> \in Seq(Token)
  BY <1>2, OneWord
<1> QED
  BY <1>3, <1>4 DEF Tells

LEMMA TellsHundred ==
    \A a \in Nat, b \in Nat : Tells(<<Word(100)>>, Acc(a, b), Acc(a, b * 100))
<1>1. SUFFICES ASSUME NEW a \in Nat, NEW b \in Nat
               PROVE  Tells(<<Word(100)>>, Acc(a, b), Acc(a, b * 100))
  OBVIOUS
<1>2. 100 \in Nat /\ 100 \notin {Crore, Lakh, Thousand}
  BY Units
<1>3. Hear(Acc(a, b), <<Word(100)>>) = Acc(a, b * 100)
  BY <1>2, HearAny
<1>4. <<Word(100)>> \in Seq(Token)
  BY <1>2, OneWord
<1> QED
  BY <1>3, <1>4 DEF Tells

LEMMA TellsSmall ==
    \A n \in 0 .. 99, a \in Nat, b \in Nat : Tells(<<Word(n)>>, Acc(a, b), Acc(a, b + n))
<1>1. SUFFICES ASSUME NEW n \in 0 .. 99, NEW a \in Nat, NEW b \in Nat
               PROVE  Tells(<<Word(n)>>, Acc(a, b), Acc(a, b + n))
  OBVIOUS
<1>2. n \in Nat /\ n \notin {Crore, Lakh, Thousand, 100}
  BY Units
<1>3. Hear(Acc(a, b), <<Word(n)>>) = Acc(a, b + n)
  BY <1>2, HearAny
<1>4. <<Word(n)>> \in Seq(Token)
  BY <1>2, OneWord
<1> QED
  BY <1>3, <1>4 DEF Tells

(* The tables of a pack tell their numbers.                                 *)
HeardTables(small, hundreds) ==
  /\ \A i \in 0 .. 99, a \in Nat : Tells(small[i], Acc(a, 0), Acc(a, i))
  /\ \A i \in 0 .. 999, a \in Nat : Tells(hundreds[i], Acc(a, 0), Acc(a, i))

(* The words of a group: how many of which unit.                            *)
Group(small, i, u) == IF i = 0 THEN <<>> ELSE small[i] \o <<Word(u)>>

(* They tell that many units.                                               *)
LEMMA GroupHeard ==
    ASSUME NEW small, NEW hundreds, HeardTables(small, hundreds),
           NEW i \in 0 .. 99, NEW a \in Nat, NEW u \in {Lakh, Thousand}
    PROVE  Tells(Group(small, i, u), Acc(a, 0), Acc(a + i * u, 0))
<1>1. Tells(small[i], Acc(a, 0), Acc(a, i))
  BY Zenon DEF HeardTables
<1>2. i \in Nat /\ u \in Nat
  BY Units
<1>3. Tells(<<Word(u)>>, Acc(a, i), Acc(a + i * u, 0))
  <2> HIDE <1>1
  <2> QED
    BY <1>2, TellsUnit
<1>4. CASE i = 0
  <2>1. a + i * u = a
    BY <1>2, <1>4
  <2>2. Group(small, i, u) = <<>>
    BY Zenon, <1>4 DEF Group
  <2> QED
    BY Zenon, <2>1, <2>2, TellsNothing
<1>5. CASE i # 0
  <2>1. Group(small, i, u) = small[i] \o <<Word(u)>>
    BY Zenon, <1>5 DEF Group
  <2> QED
    BY Zenon, <1>1, <1>3, <2>1, TellsStep
<1> QED
  BY Zenon, <1>4, <1>5

(* A number is the sum of its groups.                                       *)
LEMMA Decomposed ==
    \A x \in Nat :
      /\ (x \div Crore) * Crore + ((x % Crore) \div Lakh) * Lakh + ((x % Lakh) \div Thousand) * Thousand = x - (x % Thousand)
      /\ ~(x >= Crore) => (x \div Crore) * Crore = 0
      /\ (x \div Crore) - ((x \div Crore) % Thousand) \in Nat /\ (x \div Crore) % Thousand \in Nat
      /\ ((x \div Crore) - ((x \div Crore) % Thousand)) + ((x \div Crore) % Thousand) = x \div Crore
      /\ (x \div Crore) * Crore \in Nat
      /\ (x \div Crore) * Crore + ((x % Crore) \div Lakh) * Lakh \in Nat
      /\ x - (x % Thousand) \in Nat
BY SMT DEF Crore, Lakh, Thousand

(* The words of the crores tell them, if those of the smaller number do.    *)
LEMMA CroresHeard ==
    ASSUME NEW x \in Nat, NEW s,
           x >= Crore => Tells(s, Acc(0, 0), Acc((x \div Crore) - ((x \div Crore) % Thousand), (x \div Crore) % Thousand))
    PROVE  Tells(Crores(s, x), Acc(0, 0), Acc((x \div Crore) * Crore, 0))
<1> DEFINE c == x \div Crore
<1>1. c - (c % Thousand) \in Nat /\ c % Thousand \in Nat /\ (c - (c % Thousand)) + (c % Thousand) = c
  BY Zenon, Decomposed
<1>2. CASE x >= Crore
  <2> DEFINE p == c - (c % Thousand)
             r == c % Thousand
  <2>1. Tells(s, Acc(0, 0), Acc(p, r))
    BY <1>2
  <2>2. p \in Nat /\ r \in Nat /\ p + r = c
    BY <1>1
  <2> HIDE DEF p, r, c
  <2>3. Tells(<<Word(Crore)>>, Acc(p, r), Acc(c * Crore, 0))
    BY Zenon, <2>2, TellsCrore
  <2>4. Crores(s, x) = s \o <<Word(Crore)>>
    BY Zenon, <1>2 DEF Crores
  <2>5. Tells(Crores(s, x), Acc(0, 0), Acc(c * Crore, 0))
    BY Zenon, <2>1, <2>3, <2>4, TellsStep
  <2> QED
    BY Zenon, <2>5 DEF c
<1>3. CASE ~(x >= Crore)
  <2>1. Crores(s, x) = <<>>
    BY Zenon, <1>3 DEF Crores
  <2>2. (x \div Crore) * Crore = 0
    BY Zenon, <1>3, Decomposed
  <2> QED
    BY Zenon, <2>1, <2>2, TellsNothing
<1> QED
  BY Zenon, <1>2, <1>3

(* So the words of a number tell it if those of its crores do.              *)
LEMMA BodyHeard ==
    ASSUME NEW small, NEW hundreds, HeardTables(small, hundreds), NEW x \in Nat, NEW s,
           x >= Crore => Tells(s, Acc(0, 0), Acc((x \div Crore) - ((x \div Crore) % Thousand), (x \div Crore) % Thousand))
    PROVE  Tells(Body(s, x, small, hundreds), Acc(0, 0), Acc(x - (x % Thousand), x % Thousand))
<1> DEFINE i == (x % Crore) \div Lakh
           j == (x % Lakh) \div Thousand
           k == x % Thousand
           m == (x \div Crore) * Crore
           n == m + i * Lakh
           p == n + j * Thousand
           w == Crores(s, x)
           l == Group(small, i, Lakh)
           t == Group(small, j, Thousand)
           h == hundreds[k]
<1>1. i \in 0 .. 99 /\ j \in 0 .. 99 /\ k \in 0 .. 999
  BY Remainders DEF Thousand
<1>2. m \in Nat /\ n \in Nat /\ p = x - k /\ p \in Nat
  <2>1. m \in Nat /\ n \in Nat
    BY Decomposed
  <2>2. p = x - k /\ x - k \in Nat
    BY Decomposed
  <2> QED
    BY <2>1, <2>2
<1>3. Body(s, x, small, hundreds) = w \o l \o t \o h
  BY DEF Body, Group, Thousand
<1>4. Tells(w, Acc(0, 0), Acc(m, 0))
  BY CroresHeard
<1> HIDE DEF m, i, j, k, w
<1>5. Tells(l, Acc(m, 0), Acc(n, 0))
  BY <1>1, <1>2, GroupHeard
<1> HIDE DEF n, l
<1>6. Tells(t, Acc(n, 0), Acc(p, 0))
  BY <1>1, <1>2, GroupHeard
<1> HIDE DEF p, t
<1>7. Tells(h, Acc(p, 0), Acc(p, k))
  BY ZenonT(60), <1>1, <1>2 DEF HeardTables
<1> HIDE DEF h
<1>8. Tells(w \o l \o t \o h, Acc(0, 0), Acc(p, k))
  BY Zenon, <1>4, <1>5, <1>6, <1>7, TellsStep
<1> QED
  BY Zenon, <1>2, <1>3, <1>8 DEF k

(* The words of every number tell it, whatever the tables of the pack       *)
(* that tell theirs.                                                        *)
LEMMA NumberWordsHeard ==
    ASSUME NEW small, NEW hundreds, HeardTables(small, hundreds), NEW f, Builds(f, small, hundreds)
    PROVE  \A x \in Nat : Tells(f[x], Acc(0, 0), Acc(x - (x % Thousand), x % Thousand))
<1> DEFINE T == {x \in Nat : Tells(f[x], Acc(0, 0), Acc(x - (x % Thousand), x % Thousand))}
<1>1. ASSUME NEW x \in Nat, \A y \in Nat : y < x => y \in T PROVE x \in T
  <2> DEFINE c == x \div Crore
  <2>1. c \in Nat /\ (x >= Crore => c < x)
    BY CroresShrink
  <2>2. x >= Crore => c \in T
    BY Zenon, <1>1, <2>1
  <2> HIDE DEF c
  <2>3. x >= Crore => Tells(f[c], Acc(0, 0), Acc(c - (c % Thousand), c % Thousand))
    BY <2>2
  <2>4. f[x] = Body(f[c], x, small, hundreds)
    BY DEF Builds, c
  <2>5. Tells(Body(f[c], x, small, hundreds), Acc(0, 0), Acc(x - (x % Thousand), x % Thousand))
    BY <2>3, BodyHeard DEF c
  <2> QED
    BY <2>4, <2>5
<1> HIDE DEF T
<1>2. \A x \in Nat : x \in T
  BY <1>1, StrongInduction
<1> QED
  BY <1>2 DEF T

(* A text without tokens of some kinds has none to select.                  *)
LEMMA OfKindNone ==
    ASSUME NEW kinds
    PROVE  \A s \in Seq(Token) : Kinds(s) \cap kinds = {} => OfKind(s, kinds) = <<>>
<1> DEFINE H == {s \in Seq(Token) : (\A i \in 1 .. Len(s) : s[i][1] \notin kinds) => OfKind(s, kinds) = <<>>}
<1>1. <<>> \in H
  BY OfKindEmpty, TokenTypes
<1>2. ASSUME NEW s \in Seq(Token), NEW e \in Token, s \in H PROVE Append(s, e) \in H
  <2>1. SUFFICES ASSUME \A i \in 1 .. Len(Append(s, e)) : Append(s, e)[i][1] \notin kinds
                 PROVE  OfKind(Append(s, e), kinds) = <<>>
    BY AppendProperties
  <2>2. /\ Len(s) \in Nat /\ Len(Append(s, e)) = Len(s) + 1 /\ Append(s, e)[Len(s) + 1] = e
        /\ \A i \in 1 .. Len(s) : Append(s, e)[i] = s[i]
    BY AppendProperties, LenProperties
  <2>3. e[1] \notin kinds /\ \A i \in 1 .. Len(s) : s[i][1] \notin kinds
    <3>1. Len(s) + 1 \in 1 .. Len(Append(s, e)) /\ \A i \in 1 .. Len(s) : i \in 1 .. Len(Append(s, e))
      BY <2>2
    <3> QED
      BY <2>1, <2>2, <3>1
  <2>4. OfKind(Append(s, e), kinds) = OfKind(s, kinds)
    BY <2>3, OfKindAppend
  <2> QED
    BY <1>2, <2>3, <2>4
<1> HIDE DEF H
<1>3. \A s \in Seq(Token) : s \in H
  BY <1>1, <1>2, SeqInduction
<1>4. \A s \in Seq(Token) : Kinds(s) \cap kinds = {} => \A i \in 1 .. Len(s) : s[i][1] \notin kinds
  BY LenProperties DEF Kinds
<1> QED
  BY <1>3, <1>4 DEF H

LEMMA ZeroNat == 0 \in Nat
OBVIOUS

(* The English tables tell their numbers (two_digits, three_digits).        *)
LEMMA EnTwoHeard ==
    \A i \in 0 .. 99, a \in Nat, b \in Nat : Tells(En!TwoDigits[i], Acc(a, b), Acc(a, b + i))
<1>1. SUFFICES ASSUME NEW i \in 0 .. 99, NEW a \in Nat, NEW b \in Nat
               PROVE  Tells(En!TwoDigits[i], Acc(a, b), Acc(a, b + i))
  OBVIOUS
<1>2. CASE i = 0
  <2>1. En!TwoDigits[i] = <<>>
    BY <1>2 DEF En!TwoDigits
  <2>2. b + i = b
    BY <1>2
  <2> QED
    BY Zenon, <2>1, <2>2, TellsNothing
<1>3. CASE i # 0 /\ i < 20
  <2>1. En!TwoDigits[i] = <<Word(i)>>
    BY <1>3, EnSame DEF En!TwoDigits
  <2> QED
    BY Zenon, <2>1, TellsSmall
<1>4. CASE ~(i < 20)
  <2> DEFINE q == i - (i % 10)
             r == i % 10
  <2>1. q \in 0 .. 99 /\ r \in 0 .. 99 /\ q + r = i /\ b + q \in Nat /\ (b + q) + r = b + i
    BY SMT
  <2>2. En!TwoDigits[i] = IF i = 0 THEN <<>> ELSE IF i < 20 THEN <<En!Word(i)>>
        ELSE <<En!Word(i - (i % 10))>> \o (IF i % 10 = 0 THEN <<>> ELSE <<En!Word(i % 10)>>)
    BY Zenon DEF En!TwoDigits
  <2>3. En!TwoDigits[i] = <<Word(q)>> \o (IF r = 0 THEN <<>> ELSE <<Word(r)>>)
    <3>1. ~(i = 0)
      BY <1>4
    <3> QED
      BY Zenon, <1>4, <2>2, <3>1, EnSame
  <2> HIDE DEF q, r
  <2>4. Tells(<<Word(q)>>, Acc(a, b), Acc(a, b + q))
    BY Zenon, <2>1, TellsSmall
  <2>5. CASE r = 0
    <3>1. (b + q) = b + i
      BY <2>1, <2>5
    <3>2. En!TwoDigits[i] = <<Word(q)>> \o <<>>
      BY Zenon, <2>3, <2>5
    <3> QED
      BY Zenon, <2>4, <3>1, <3>2, TellsNothing, TellsStep
  <2>6. CASE r # 0
    <3>1. En!TwoDigits[i] = <<Word(q)>> \o <<Word(r)>>
      BY Zenon, <2>3, <2>6
    <3>2. Tells(<<Word(r)>>, Acc(a, b + q), Acc(a, b + i))
      <4>1. Tells(<<Word(r)>>, Acc(a, b + q), Acc(a, (b + q) + r))
        BY Zenon, <2>1, TellsSmall
      <4> QED
        BY Zenon, <2>1, <4>1
    <3> QED
      BY Zenon, <2>4, <3>1, <3>2, TellsStep
  <2> QED
    BY Zenon, <2>5, <2>6
<1> QED
  BY Zenon, <1>2, <1>3, <1>4

LEMMA EnThreeHeard ==
    \A i \in 0 .. 999, a \in Nat : Tells(En!ThreeDigits[i], Acc(a, 0), Acc(a, i))
<1>1. SUFFICES ASSUME NEW i \in 0 .. 999, NEW a \in Nat
               PROVE  Tells(En!ThreeDigits[i], Acc(a, 0), Acc(a, i))
  OBVIOUS
<1> DEFINE q == i \div 100
           r == i % 100
<1>2. q \in 0 .. 99 /\ r \in 0 .. 99 /\ q * 100 + r = i /\ q * 100 \in Nat /\ (i < 100 => i \in 0 .. 99)
  BY SMT
<1>3. CASE i < 100
  <2>1. En!ThreeDigits[i] = En!TwoDigits[i]
    BY ZenonT(60), <1>3 DEF En!ThreeDigits
  <2>2. 0 + i = i
    OBVIOUS
  <2> QED
    BY Zenon, <1>2, <1>3, <2>1, <2>2, EnTwoHeard, ZeroNat
<1>4. CASE ~(i < 100)
  <2> HIDE DEF q, r
  <2> DEFINE hw == <<Word(q), Word(100)>>
             v == En!TwoDigits[r]
  <2>1. Tells(<<Word(q)>>, Acc(a, 0), Acc(a, q))
    <3>1. 0 + q = q
      BY <1>2
    <3> QED
      BY Zenon, <1>2, <3>1, TellsSmall, ZeroNat
  <2>2. Tells(<<Word(100)>>, Acc(a, q), Acc(a, q * 100))
    <3>1. q \in Nat
      BY <1>2
    <3> QED
      BY Zenon, <3>1, TellsHundred
  <2>3. hw = <<Word(q)>> \o <<Word(100)>>
    <3>1. Word(q) \in Token /\ Word(100) \in Token
      BY ZenonT(60), <1>2, TokenTypes, Units
    <3> QED
      BY <3>1
  <2>4. Tells(hw, Acc(a, 0), Acc(a, q * 100))
    BY ZenonT(60), <2>1, <2>2, <2>3, TellsStep
  <2>5. Tells(v, Acc(a, q * 100), Acc(a, i))
    BY Zenon, <1>2, EnTwoHeard
  <2>6. Tells(<<En!And>>, Acc(a, q * 100), Acc(a, q * 100))
    <3>1. "and" \in STRING \cup PackKinds \cup Frequencies /\ 0 \in Nat
      BY DEF PackKinds
    <3>2. En!And \in Token /\ En!And[1] # "number"
      BY <3>1, TokenTypes DEF En!And
    <3> QED
      BY Zenon, <3>2, TellsOther
  <2>7. En!ThreeDigits[i] = hw \o (IF r = 0 THEN <<>> ELSE <<En!And>> \o v)
    BY <1>4, EnSame DEF En!ThreeDigits, q, r
  <2> HIDE DEF hw, v
  <2>8. CASE r = 0
    <3>1. q * 100 = i
      BY <1>2, <2>8
    <3>2. En!ThreeDigits[i] = hw \o <<>>
      BY Zenon, <2>7, <2>8
    <3> QED
      BY Zenon, <2>4, <3>1, <3>2, TellsNothing, TellsStep
  <2>9. CASE r # 0
    <3>1. En!ThreeDigits[i] = hw \o (<<En!And>> \o v)
      BY Zenon, <2>7, <2>9
    <3> QED
      BY Zenon, <2>4, <2>5, <2>6, <3>1, TellsStep
  <2> QED
    BY Zenon, <2>8, <2>9
<1> QED
  BY Zenon, <1>3, <1>4

(* What number_to_words returns in English tells its number.                *)
LEMMA EnWordsHeard ==
    \A n \in Nat : Tells(En!NumberToWords(n), Acc(0, 0), Acc(n - (n % Thousand), n % Thousand))
<1>1. SUFFICES ASSUME NEW n \in Nat
               PROVE  Tells(En!NumberToWords(n), Acc(0, 0), Acc(n - (n % Thousand), n % Thousand))
  OBVIOUS
<1>2. CASE n = 0
  <2>1. En!NumberToWords(n) = <<Word(0)>>
    BY <1>2, EnSame DEF En!NumberToWords, En!IndianNumber
  <2>2. 0 \in 0 .. 99 /\ 0 + 0 = 0 /\ 0 \in Nat
    OBVIOUS
  <2>3. Tells(<<Word(0)>>, Acc(0, 0), Acc(0, 0 + 0))
    BY Zenon, <2>2, TellsSmall
  <2>4. n - (n % Thousand) = 0 /\ n % Thousand = 0
    BY <1>2, SMT DEF Thousand
  <2> QED
    BY Zenon, <2>1, <2>2, <2>3, <2>4
<1>3. CASE n # 0
  <2>1. PICK f : Builds(f, En!TwoDigits, En!ThreeDigits) /\ En!NumberToWords(n) = f[n]
    BY <1>3, EnNumberBuilds DEF En!NumberToWords
  <2>2. HeardTables(En!TwoDigits, En!ThreeDigits)
    <3>1. ASSUME NEW i \in 0 .. 99, NEW a \in Nat PROVE Tells(En!TwoDigits[i], Acc(a, 0), Acc(a, i))
      <4>1. 0 + i = i
        OBVIOUS
      <4> QED
        BY Zenon, <4>1, EnTwoHeard, ZeroNat
    <3> QED
      BY Zenon, <3>1, EnThreeHeard DEF HeardTables
  <2>3. Tells(En!NumberToWords(n), Acc(0, 0), Acc(n - (n % Thousand), n % Thousand))
    BY Zenon, <2>1, <2>2, NumberWordsHeard
  <2> QED
    BY <2>3
<1> QED
  BY Zenon, <1>2, <1>3

(* number_to_words in English says every number so that it is heard as      *)
(* that number (english.py).                                                *)
THEOREM EnNumberHeard ==
    \A n \in Nat : /\ Heard(OfKind(En!NumberToWords(n), {"number"})) = n
                   /\ "number" \in Kinds(En!NumberToWords(n))
<1>1. SUFFICES ASSUME NEW n \in Nat
               PROVE  /\ Heard(OfKind(En!NumberToWords(n), {"number"})) = n
                      /\ "number" \in Kinds(En!NumberToWords(n))
  OBVIOUS
<1> DEFINE w == En!NumberToWords(n)
<1> DEFINE p == n - (n % Thousand)
           r == n % Thousand
<1>2. p \in Nat /\ r \in Nat /\ p + r = n /\ Tells(w, Acc(0, 0), Acc(p, r))
  <2>1. p \in Nat /\ r \in Nat /\ p + r = n
    BY SMT DEF Thousand
  <2> QED
    BY Zenon, <2>1, EnWordsHeard
<1> HIDE DEF p, r
<1>3. w \in Seq(Token) /\ Hear(Acc(0, 0), w) = Acc(p, r)
  BY Zenon, <1>2 DEF Tells
<1>4. Heard(OfKind(w, {"number"})) = n
  BY <1>2, <1>3 DEF Heard, Hear, Acc
<1>5. "number" \in Kinds(w)
  <2>1. CASE n = 0
    <3>1. w = <<Word(0)>>
      BY <2>1, EnSame DEF En!NumberToWords, En!IndianNumber
    <3> HIDE DEF w
    <3> QED
      BY <3>1 DEF Kinds, Word
  <2>2. CASE n # 0
    <3>1. SUFFICES ASSUME "number" \notin Kinds(w) PROVE FALSE
      OBVIOUS
    <3> HIDE DEF w
    <3>2. Kinds(w) \cap {"number"} = {}
      BY <3>1
    <3>3. OfKind(w, {"number"}) = <<>>
      BY Zenon, <1>3, <3>2, OfKindNone
    <3>4. Scan(HearWord, Acc(0, 0), <<>>) = Acc(0, 0)
      BY ScanEmpty
    <3>5. Acc(p, r) = Acc(0, 0)
      BY Zenon, <1>3, <3>3, <3>4 DEF Hear
    <3> QED
      BY <1>2, <2>2, <3>5 DEF Acc
  <2> QED
    BY <2>1, <2>2
<1> QED
  BY <1>4, <1>5

(* The Hindi tables tell their numbers.                                     *)
LEMMA HiTwoHeard ==
    \A i \in 0 .. 99, a \in Nat, b \in Nat : Tells(Hi!TwoDigits[i], Acc(a, b), Acc(a, b + i))
<1>1. SUFFICES ASSUME NEW i \in 0 .. 99, NEW a \in Nat, NEW b \in Nat
               PROVE  Tells(Hi!TwoDigits[i], Acc(a, b), Acc(a, b + i))
  OBVIOUS
<1>2. CASE i = 0
  <2>1. Hi!TwoDigits[i] = <<>>
    BY <1>2 DEF Hi!TwoDigits
  <2>2. b + i = b
    BY <1>2
  <2> QED
    BY Zenon, <2>1, <2>2, TellsNothing
<1>3. CASE i # 0
  <2>1. Hi!TwoDigits[i] = <<Word(i)>>
    BY <1>3, HiSame DEF Hi!TwoDigits
  <2> QED
    BY Zenon, <2>1, TellsSmall
<1> QED
  BY Zenon, <1>2, <1>3

LEMMA HiThreeHeard ==
    \A i \in 0 .. 999, a \in Nat : Tells(Hi!ThreeDigits[i], Acc(a, 0), Acc(a, i))
<1>1. SUFFICES ASSUME NEW i \in 0 .. 999, NEW a \in Nat
               PROVE  Tells(Hi!ThreeDigits[i], Acc(a, 0), Acc(a, i))
  OBVIOUS
<1> DEFINE q == i \div 100
           r == i % 100
<1>2. q \in 0 .. 99 /\ r \in 0 .. 99 /\ q * 100 + r = i /\ q * 100 \in Nat /\ (i < 100 => i \in 0 .. 99)
  BY SMT
<1>3. CASE i < 100
  <2>1. Hi!ThreeDigits[i] = Hi!TwoDigits[i]
    BY <1>3 DEF Hi!ThreeDigits
  <2>2. 0 + i = i
    OBVIOUS
  <2> QED
    BY Zenon, <1>2, <1>3, <2>1, <2>2, HiTwoHeard, ZeroNat
<1>4. CASE ~(i < 100)
  <2> HIDE DEF q, r
  <2> DEFINE hw == <<Word(q), Word(100)>>
             v == Hi!TwoDigits[r]
  <2>1. Tells(<<Word(q)>>, Acc(a, 0), Acc(a, q))
    <3>1. 0 + q = q
      BY <1>2
    <3> QED
      BY Zenon, <1>2, <3>1, TellsSmall, ZeroNat
  <2>2. Tells(<<Word(100)>>, Acc(a, q), Acc(a, q * 100))
    <3>1. q \in Nat
      BY <1>2
    <3> QED
      BY Zenon, <3>1, TellsHundred
  <2>3. hw = <<Word(q)>> \o <<Word(100)>>
    <3>1. Word(q) \in Token /\ Word(100) \in Token
      BY ZenonT(60), <1>2, TokenTypes, Units
    <3> QED
      BY <3>1
  <2>4. Tells(hw, Acc(a, 0), Acc(a, q * 100))
    BY ZenonT(60), <2>1, <2>2, <2>3, TellsStep
  <2>5. Tells(v, Acc(a, q * 100), Acc(a, i))
    BY Zenon, <1>2, HiTwoHeard
  <2>6. Hi!ThreeDigits[i] = hw \o v
    BY <1>4, HiSame DEF Hi!ThreeDigits, q, r
  <2> HIDE DEF hw, v
  <2> QED
    BY Zenon, <2>4, <2>5, <2>6, TellsStep
<1> QED
  BY Zenon, <1>3, <1>4

(* What number_to_words returns in Hindi tells its number.                  *)
LEMMA HiWordsHeard ==
    \A n \in Nat : Tells(Hi!NumberToWords(n), Acc(0, 0), Acc(n - (n % Thousand), n % Thousand))
<1>1. SUFFICES ASSUME NEW n \in Nat
               PROVE  Tells(Hi!NumberToWords(n), Acc(0, 0), Acc(n - (n % Thousand), n % Thousand))
  OBVIOUS
<1>2. CASE n = 0
  <2>1. Hi!NumberToWords(n) = <<Word(0)>>
    BY <1>2, HiSame DEF Hi!NumberToWords, Hi!IndianNumber
  <2>2. 0 \in 0 .. 99 /\ 0 + 0 = 0 /\ 0 \in Nat
    OBVIOUS
  <2>3. Tells(<<Word(0)>>, Acc(0, 0), Acc(0, 0 + 0))
    BY Zenon, <2>2, TellsSmall
  <2>4. n - (n % Thousand) = 0 /\ n % Thousand = 0
    BY <1>2, SMT DEF Thousand
  <2> QED
    BY Zenon, <2>1, <2>2, <2>3, <2>4
<1>3. CASE n # 0
  <2>1. PICK f : Builds(f, Hi!TwoDigits, Hi!ThreeDigits) /\ Hi!NumberToWords(n) = f[n]
    BY <1>3, HiNumberBuilds DEF Hi!NumberToWords
  <2>2. HeardTables(Hi!TwoDigits, Hi!ThreeDigits)
    <3>1. ASSUME NEW i \in 0 .. 99, NEW a \in Nat PROVE Tells(Hi!TwoDigits[i], Acc(a, 0), Acc(a, i))
      <4>1. 0 + i = i
        OBVIOUS
      <4> QED
        BY Zenon, <4>1, HiTwoHeard, ZeroNat
    <3> QED
      BY Zenon, <3>1, HiThreeHeard DEF HeardTables
  <2>3. Tells(Hi!NumberToWords(n), Acc(0, 0), Acc(n - (n % Thousand), n % Thousand))
    BY Zenon, <2>1, <2>2, NumberWordsHeard
  <2> QED
    BY <2>3
<1> QED
  BY Zenon, <1>2, <1>3

(* number_to_words in Hindi says every number so that it is heard as that   *)
(* number (hindi.py).                                                       *)
THEOREM HiNumberHeard ==
    \A n \in Nat : /\ Heard(OfKind(Hi!NumberToWords(n), {"number"})) = n
                   /\ "number" \in Kinds(Hi!NumberToWords(n))
<1>1. SUFFICES ASSUME NEW n \in Nat
               PROVE  /\ Heard(OfKind(Hi!NumberToWords(n), {"number"})) = n
                      /\ "number" \in Kinds(Hi!NumberToWords(n))
  OBVIOUS
<1> DEFINE w == Hi!NumberToWords(n)
<1> DEFINE p == n - (n % Thousand)
           r == n % Thousand
<1>2. p \in Nat /\ r \in Nat /\ p + r = n /\ Tells(w, Acc(0, 0), Acc(p, r))
  <2>1. p \in Nat /\ r \in Nat /\ p + r = n
    BY SMT DEF Thousand
  <2> QED
    BY Zenon, <2>1, HiWordsHeard
<1> HIDE DEF p, r
<1>3. w \in Seq(Token) /\ Hear(Acc(0, 0), w) = Acc(p, r)
  BY Zenon, <1>2 DEF Tells
<1>4. Heard(OfKind(w, {"number"})) = n
  BY <1>2, <1>3 DEF Heard, Hear, Acc
<1>5. "number" \in Kinds(w)
  <2>1. CASE n = 0
    <3>1. w = <<Word(0)>>
      BY <2>1, HiSame DEF Hi!NumberToWords, Hi!IndianNumber
    <3> HIDE DEF w
    <3> QED
      BY <3>1 DEF Kinds, Word
  <2>2. CASE n # 0
    <3>1. SUFFICES ASSUME "number" \notin Kinds(w) PROVE FALSE
      OBVIOUS
    <3> HIDE DEF w
    <3>2. Kinds(w) \cap {"number"} = {}
      BY <3>1
    <3>3. OfKind(w, {"number"}) = <<>>
      BY Zenon, <1>3, <3>2, OfKindNone
    <3>4. Scan(HearWord, Acc(0, 0), <<>>) = Acc(0, 0)
      BY ScanEmpty
    <3>5. Acc(p, r) = Acc(0, 0)
      BY Zenon, <1>3, <3>3, <3>4 DEF Hear
    <3> QED
      BY <1>2, <2>2, <3>5 DEF Acc
  <2> QED
    BY <2>1, <2>2
<1> QED
  BY <1>4, <1>5

----------------------------------------------------------------------------
(* Amounts heard.                                                           *)

(* Selecting fewer kinds after more.                                        *)
LEMMA OfKindTwice ==
    ASSUME NEW kinds, NEW fewer, \A k \in fewer : k \in kinds
    PROVE  \A s \in Seq(Token) : OfKind(OfKind(s, kinds), fewer) = OfKind(s, fewer)
<1> DEFINE H == {s \in Seq(Token) : OfKind(OfKind(s, kinds), fewer) = OfKind(s, fewer)}
<1>1. <<>> \in H
  BY OfKindEmpty, TokenTypes
<1>2. ASSUME NEW s \in Seq(Token), NEW e \in Token, s \in H PROVE Append(s, e) \in H
  <2>1. OfKind(s, kinds) \in Seq(Token) /\ Append(s, e) \in Seq(Token)
    BY OfKindType, AppendProperties
  <2>2. OfKind(Append(s, e), kinds) = IF e[1] \in kinds THEN Append(OfKind(s, kinds), e) ELSE OfKind(s, kinds)
    BY OfKindAppend
  <2>3. OfKind(Append(s, e), fewer) = IF e[1] \in fewer THEN Append(OfKind(s, fewer), e) ELSE OfKind(s, fewer)
    BY OfKindAppend
  <2>4. OfKind(Append(OfKind(s, kinds), e), fewer)
        = IF e[1] \in fewer THEN Append(OfKind(OfKind(s, kinds), fewer), e) ELSE OfKind(OfKind(s, kinds), fewer)
    BY <2>1, OfKindAppend
  <2> QED
    BY <1>2, <2>1, <2>2, <2>3, <2>4
<1> HIDE DEF H
<1>3. \A s \in Seq(Token) : s \in H
  BY <1>1, <1>2, SeqInduction
<1> QED
  BY <1>3 DEF H

(* Dropping all but the digits and the point keeps the number               *)
(* (ensure_number_words).                                                   *)
LEMMA AbsIntCleaned == \A s \in Seq(Token) : AbsInt(Cleaned(s)) = AbsInt(s)
<1>1. \A s \in Seq(Token) : OfKind(OfKind(s, {"digit", "-"}), {"digit"}) = OfKind(s, {"digit"})
  BY OfKindTwice
<1> QED
  BY Zenon, <1>1 DEF AbsInt, Cleaned

LEMMA CleanedType == \A s \in Seq(Token) : Cleaned(s) \in Seq(Token)
BY OfKindType DEF Cleaned

(* What an amount in words and one in digits are heard as.                  *)
LEMMA AmountWords ==
    \A v : "number" \in Kinds(v) =>
      Amount(v) = [rupees |-> Heard(OfKind(v, {"number"})), paise |-> 0, words |-> <<>>]
BY Zenon DEF Amount

LEMMA AmountPlain ==
    ASSUME NEW v \in Seq(Token), "." \notin Kinds(v), "number" \notin Kinds(v)
    PROVE  Amount(v) = [rupees |-> AbsInt(v), paise |-> 0, words |-> OfKind(v, {"latin", "native"})]
<1>1. {i \in DOMAIN v : v[i][1] = "."} = {}
  BY DEF Kinds
<1>2. SubSeq(v, Len(v) + 1, Len(v)) = <<>> /\ SubSeq(v, 1, (Len(v) + 1) - 1) = v
  BY LenProperties
<1>3. OfKind(SubSeq(v, Len(v) + 1, Len(v)), {"digit"}) = <<>>
  BY <1>2, OfKindEmpty
<1> QED
  BY Zenon, <1>1, <1>2, <1>3 DEF Amount

(* An amount said in words is heard as the amount that was written.          *)
LEMMA AmountSaid ==
    ASSUME NEW v \in Seq(Written), "." \notin Kinds(v), NEW lang,
           lang = "hindi" \/ "native" \notin Kinds(v)
    PROVE  Amount(EnsureNumberWords(lang, v)) = Amount(v)
<1>1. v \in Seq(Token) /\ "number" \notin Kinds(v)
  <2>1. \A i \in DOMAIN v : v[i] \in Written
    BY ElementOfSeq, LenProperties
  <2> QED
    BY <2>1, TokenTypes DEF Kinds, Written
<1>2. Amount(v) = [rupees |-> AbsInt(v), paise |-> 0, words |-> OfKind(v, {"latin", "native"})]
  BY <1>1, AmountPlain
<1>3. AbsInt(Cleaned(v)) = AbsInt(v) /\ AbsInt(v) \in Nat
  BY <1>1, AbsIntCleaned, AbsIntType
<1>4. "latin" \notin Kinds(v) /\ "native" \notin Kinds(v) => OfKind(v, {"latin", "native"}) = <<>>
  <2>1. "latin" \notin Kinds(v) /\ "native" \notin Kinds(v) => Kinds(v) \cap {"latin", "native"} = {}
    OBVIOUS
  <2> QED
    BY <1>1, <2>1, OfKindNone
<1>5. ASSUME NEW w, Heard(OfKind(w, {"number"})) = AbsInt(v), "number" \in Kinds(w),
             "latin" \notin Kinds(v), "native" \notin Kinds(v)
      PROVE  Amount(w) = Amount(v)
  BY Zenon, <1>2, <1>4, <1>5, AmountWords
<1>6. CASE lang = "hindi"
  <2>1. EnsureNumberWords(lang, v) = Hi!EnsureNumberWords(v)
    BY <1>6 DEF EnsureNumberWords
  <2>2. CASE {"latin", "native"} \cap Kinds(v) = {} /\ Hi!IsInt(Cleaned(v))
    <3>1. Hi!EnsureNumberWords(v) = Hi!NumberToWords(AbsInt(v))
      BY Zenon, <1>3, <2>2, HiReads DEF Hi!EnsureNumberWords, Hi!Kinds, Kinds
    <3>2. "latin" \notin Kinds(v) /\ "native" \notin Kinds(v)
      BY <2>2
    <3> QED
      BY Zenon, <1>3, <1>5, <2>1, <3>1, <3>2, HiNumberHeard
  <2>3. CASE ~({"latin", "native"} \cap Kinds(v) = {} /\ Hi!IsInt(Cleaned(v)))
    <3>1. Hi!EnsureNumberWords(v) = v
      BY Zenon, <2>3, HiReads DEF Hi!EnsureNumberWords, Hi!Kinds, Kinds
    <3> QED
      BY Zenon, <2>1, <3>1
  <2> QED
    BY Zenon, <2>2, <2>3
<1>7. CASE lang # "hindi"
  <2>1. EnsureNumberWords(lang, v) = En!EnsureNumberWords(v)
    BY <1>7 DEF EnsureNumberWords
  <2>2. CASE "latin" \notin Kinds(v) /\ En!IsInt(Cleaned(v))
    <3>1. En!EnsureNumberWords(v) = En!NumberToWords(AbsInt(v))
      BY Zenon, <1>3, <2>2, EnReads DEF En!EnsureNumberWords, En!Kinds, Kinds
    <3> QED
      BY Zenon, <1>3, <1>5, <1>7, <2>1, <2>2, <3>1, EnNumberHeard
  <2>3. CASE ~("latin" \notin Kinds(v) /\ En!IsInt(Cleaned(v)))
    <3>1. En!EnsureNumberWords(v) = v
      BY Zenon, <2>3, EnReads DEF En!EnsureNumberWords, En!Kinds, Kinds
    <3> QED
      BY Zenon, <2>1, <3>1
  <2> QED
    BY Zenon, <2>2, <2>3
<1> QED
  BY Zenon, <1>6, <1>7

----------------------------------------------------------------------------
(* Dates heard.                                                             *)

(* The number words.                                                        *)
NumberTokens == {t \in Token : t[1] = "number"}

(* Texts of number words alone.                                             *)
LEMMA NumeralTypes ==
    /\ \A s \in Seq(NumberTokens) : s \in Seq(Token)
    /\ \A s, t \in Seq(NumberTokens) : s \o t \in Seq(NumberTokens)
    /\ <<>> \in Seq(NumberTokens)
    /\ \A n \in Nat : <<Word(n)>> \in Seq(NumberTokens)
<1>1. \A t \in NumberTokens : t \in Token
  BY DEF NumberTokens
<1>2. \A s \in Seq(NumberTokens) : s \in Seq(Token)
  BY <1>1
<1>3. \A n \in Nat : Word(n) \in NumberTokens
  BY TokenTypes DEF NumberTokens, Word
<1>4. \A n \in Nat : <<Word(n)>> \in Seq(NumberTokens)
  BY <1>3
<1>5. \A s, t \in Seq(NumberTokens) : s \o t \in Seq(NumberTokens)
  BY ConcatProperties
<1>6. <<>> \in Seq(NumberTokens)
  OBVIOUS
<1> QED
  BY <1>2, <1>4, <1>5, <1>6

LEMMA NumeralReads == \A s \in Seq(NumberTokens) : OfKind(s, {"number"}) = s
<1> DEFINE H == {s \in Seq(NumberTokens) : OfKind(s, {"number"}) = s}
<1>1. <<>> \in H
  BY OfKindEmpty, NumeralTypes
<1>2. ASSUME NEW s \in Seq(NumberTokens), NEW e \in NumberTokens, s \in H PROVE Append(s, e) \in H
  <2>1. s \in Seq(Token) /\ e \in Token /\ e[1] = "number" /\ Append(s, e) \in Seq(NumberTokens)
    BY NumeralTypes, AppendProperties DEF NumberTokens
  <2>2. OfKind(Append(s, e), {"number"}) = IF e[1] \in {"number"} THEN Append(OfKind(s, {"number"}), e)
                                           ELSE OfKind(s, {"number"})
    BY <2>1, OfKindAppend
  <2> QED
    BY <1>2, <2>1, <2>2
<1> HIDE DEF H
<1>3. \A s \in Seq(NumberTokens) : s \in H
  BY <1>1, <1>2, SeqInduction
<1> QED
  BY <1>3 DEF H

(* They are heard as the number they tell.                                  *)
LEMMA NumeralHeard ==
    ASSUME NEW s \in Seq(NumberTokens), NEW p \in Nat, NEW r \in Nat, Tells(s, Acc(0, 0), Acc(p, r))
    PROVE  Heard(s) = p + r
<1>1. Scan(HearWord, Acc(0, 0), s) = Acc(p, r)
  BY Zenon, NumeralReads DEF Tells, Hear
<1> QED
  BY <1>1 DEF Heard, Acc

(* The tables of Hindi hold number words alone.                             *)
NumeralTables(small, hundreds) ==
  /\ \A i \in 0 .. 99 : small[i] \in Seq(NumberTokens)
  /\ \A i \in 0 .. 999 : hundreds[i] \in Seq(NumberTokens)

LEMMA GroupNumeral ==
    ASSUME NEW small, NEW m, small[m] \in Seq(NumberTokens), NEW u \in Nat
    PROVE  Group(small, m, u) \in Seq(NumberTokens)
<1>1. <<Word(u)>> \in Seq(NumberTokens) /\ <<>> \in Seq(NumberTokens)
  BY NumeralTypes
<1>2. small[m] \o <<Word(u)>> \in Seq(NumberTokens)
  BY <1>1, NumeralTypes
<1> QED
  BY Zenon, <1>1, <1>2 DEF Group

LEMMA BodyNumeral ==
    ASSUME NEW small, NEW hundreds, NumeralTables(small, hundreds), NEW x \in Nat, NEW s,
           x >= Crore => s \in Seq(NumberTokens)
    PROVE  Body(s, x, small, hundreds) \in Seq(NumberTokens)
<1> DEFINE i == (x % Crore) \div Lakh
           j == (x % Lakh) \div 1000
           k == x % 1000
           w == Crores(s, x)
           l == Group(small, i, Lakh)
           t == Group(small, j, Thousand)
           h == hundreds[k]
<1>1. i \in 0 .. 99 /\ j \in 0 .. 99 /\ k \in 0 .. 999
  BY Remainders
<1>2. Body(s, x, small, hundreds) = w \o l \o t \o h
  BY DEF Body, Group, Thousand
<1>3. /\ <<Word(Crore)>> \in Seq(NumberTokens) /\ <<Word(Lakh)>> \in Seq(NumberTokens)
  BY Units, NumeralTypes
<1>4. w \in Seq(NumberTokens)
  BY <1>3, NumeralTypes DEF Crores
<1> HIDE DEF i, j, k, w
<1>5. small[i] \in Seq(NumberTokens) /\ small[j] \in Seq(NumberTokens)
  BY ZenonT(60), <1>1 DEF NumeralTables
<1>6. l \in Seq(NumberTokens) /\ t \in Seq(NumberTokens)
  <2>1. Lakh \in Nat /\ Thousand \in Nat
    BY Units
  <2>2. l \in Seq(NumberTokens)
    BY Zenon, <1>5, <2>1, GroupNumeral
  <2>3. t \in Seq(NumberTokens)
    BY Zenon, <1>5, <2>1, GroupNumeral
  <2> QED
    BY <2>2, <2>3
<1>7. h \in Seq(NumberTokens)
  BY ZenonT(60), <1>1 DEF NumeralTables
<1> HIDE DEF l, t, h
<1> QED
  BY <1>2, <1>4, <1>6, <1>7, NumeralTypes

(* So a number in Hindi is number words alone.                              *)
LEMMA HiNumeral == \A n \in Nat : Hi!NumberToWords(n) \in Seq(NumberTokens)
<1>1. \A i \in 0 .. 99 : Hi!TwoDigits[i] \in Seq(NumberTokens)
  <2>1. SUFFICES ASSUME NEW i \in 0 .. 99 PROVE Hi!TwoDigits[i] \in Seq(NumberTokens)
    OBVIOUS
  <2>2. Hi!TwoDigits[i] = IF i = 0 THEN <<>> ELSE <<Word(i)>>
    BY HiSame DEF Hi!TwoDigits
  <2> QED
    BY <2>2, NumeralTypes
<1>2. \A i \in 0 .. 999 : Hi!ThreeDigits[i] \in Seq(NumberTokens)
  <2>1. SUFFICES ASSUME NEW i \in 0 .. 999 PROVE Hi!ThreeDigits[i] \in Seq(NumberTokens)
    OBVIOUS
  <2> DEFINE q == i \div 100
             r == i % 100
  <2>2. q \in Nat /\ r \in 0 .. 99 /\ (i < 100 => i \in 0 .. 99) /\ 100 \in Nat
    BY SMT
  <2>3. Hi!ThreeDigits[i] = IF i < 100 THEN Hi!TwoDigits[i] ELSE <<Word(q), Word(100)>> \o Hi!TwoDigits[r]
    BY HiSame DEF Hi!ThreeDigits
  <2> HIDE DEF q, r
  <2>4. <<Word(q), Word(100)>> = <<Word(q)>> \o <<Word(100)>>
    <3>1. Word(q) \in Token /\ Word(100) \in Token
      BY <2>2, TokenTypes
    <3> QED
      BY <3>1
  <2>5. <<Word(q)>> \in Seq(NumberTokens) /\ <<Word(100)>> \in Seq(NumberTokens) /\ Hi!TwoDigits[r] \in Seq(NumberTokens)
    BY <1>1, <2>2, NumeralTypes
  <2>6. <<Word(q), Word(100)>> \o Hi!TwoDigits[r] \in Seq(NumberTokens)
    <3> DEFINE a == <<Word(q)>>
               b == <<Word(100)>>
               c == Hi!TwoDigits[r]
    <3>1. a \in Seq(NumberTokens) /\ b \in Seq(NumberTokens) /\ c \in Seq(NumberTokens)
      BY <2>5
    <3> HIDE DEF a, b, c
    <3>2. a \o b \o c \in Seq(NumberTokens)
      BY <3>1, NumeralTypes
    <3> QED
      BY <2>4, <3>2 DEF a, b, c
  <2>7. CASE i < 100
    <3>1. Hi!ThreeDigits[i] = Hi!TwoDigits[i]
      BY <2>3, <2>7
    <3> QED
      BY <1>1, <2>2, <2>7, <3>1
  <2>8. CASE ~(i < 100)
    <3>1. Hi!ThreeDigits[i] = <<Word(q), Word(100)>> \o Hi!TwoDigits[r]
      BY <2>3, <2>8
    <3> QED
      BY <2>6, <3>1
  <2> QED
    BY <2>7, <2>8
<1>3. NumeralTables(Hi!TwoDigits, Hi!ThreeDigits)
  BY Zenon, <1>1, <1>2 DEF NumeralTables
<1>4. ASSUME NEW n \in Nat, n # 0 PROVE Hi!NumberToWords(n) \in Seq(NumberTokens)
  <2>1. PICK f : Builds(f, Hi!TwoDigits, Hi!ThreeDigits) /\ Hi!NumberToWords(n) = f[n]
    BY <1>4, HiNumberBuilds DEF Hi!NumberToWords
  <2> DEFINE T == {x \in Nat : f[x] \in Seq(NumberTokens)}
  <2>2. ASSUME NEW x \in Nat, \A y \in Nat : y < x => y \in T PROVE x \in T
    <3> DEFINE c == x \div Crore
    <3>1. c \in Nat /\ (x >= Crore => c < x)
      BY CroresShrink
    <3>2. x >= Crore => c \in T
      BY Zenon, <2>2, <3>1
    <3> HIDE DEF c
    <3>3. x >= Crore => f[c] \in Seq(NumberTokens)
      BY <3>2
    <3>4. f[x] = Body(f[c], x, Hi!TwoDigits, Hi!ThreeDigits)
      BY <2>1 DEF Builds, c
    <3>5. Body(f[c], x, Hi!TwoDigits, Hi!ThreeDigits) \in Seq(NumberTokens)
      BY <1>3, <3>3, BodyNumeral
    <3> QED
      BY <3>4, <3>5
  <2> HIDE DEF T
  <2>3. \A x \in Nat : x \in T
    BY <2>2, StrongInduction
  <2> QED
    BY <2>1, <2>3 DEF T
<1>5. ASSUME NEW n \in Nat, n = 0 PROVE Hi!NumberToWords(n) \in Seq(NumberTokens)
  <2>1. Hi!NumberToWords(n) = <<Word(0)>>
    BY <1>5, HiSame DEF Hi!NumberToWords, Hi!IndianNumber
  <2> QED
    BY <2>1, NumeralTypes
<1> QED
  BY <1>4, <1>5

(* What is heard is a number.                                               *)
LEMMA HeardType == \A s \in Seq(Token) : Heard(s) \in Nat
<1>1. SUFFICES ASSUME NEW s \in Seq(Token) PROVE Heard(s) \in Nat
  OBVIOUS
<1> DEFINE A == [total : Nat, part : Nat]
<1>2. \A a \in A, e \in Token : HearWord[a][e] \in A
  <2>1. SUFFICES ASSUME NEW a \in A, NEW e \in Token PROVE HearWord[a][e] \in A
    OBVIOUS
  <2>2. e[2] \in Nat /\ a.total \in Nat /\ a.part \in Nat /\ Crore \in Nat
    BY TokenTypes, Units
  <2>3. \A m, n \in Nat : m * n \in Nat /\ m + n \in Nat
    OBVIOUS
  <2>4. /\ (a.total + a.part) * Crore \in Nat /\ a.total + a.part * e[2] \in Nat
        /\ a.part * 100 \in Nat /\ a.part + e[2] \in Nat
    <3>1. 100 \in Nat
      OBVIOUS
    <3> QED
      BY Zenon, <2>2, <2>3, <3>1
  <2>5. \A n \in Nat : [a EXCEPT !.part = n] \in A
    OBVIOUS
  <2>6. CASE e[2] = Crore
    <3>1. e[2] \notin {Lakh, Thousand} /\ e[2] # 100
      BY <2>6, Units
    <3>2. HearWord[a][e] = [total |-> (a.total + a.part) * Crore, part |-> 0]
      BY <2>6, <3>1 DEF HearWord, Thousand
    <3> QED
      BY <2>4, <3>2
  <2>7. CASE e[2] # Crore /\ e[2] \in {Lakh, Thousand}
    <3>1. e[2] # 100
      BY <2>7, Units
    <3>2. HearWord[a][e] = [total |-> a.total + a.part * e[2], part |-> 0]
      BY <2>7, <3>1 DEF HearWord, Thousand
    <3> QED
      BY <2>4, <3>2
  <2>8. CASE e[2] # Crore /\ e[2] \notin {Lakh, Thousand} /\ e[2] = 100
    <3>1. HearWord[a][e] = [a EXCEPT !.part = a.part * 100]
      BY <2>8 DEF HearWord, Thousand
    <3> QED
      BY <2>4, <2>5, <3>1
  <2>9. CASE e[2] # Crore /\ e[2] \notin {Lakh, Thousand} /\ e[2] # 100
    <3>1. HearWord[a][e] = [a EXCEPT !.part = a.part + e[2]]
      BY <2>9 DEF HearWord, Thousand
    <3> QED
      BY <2>4, <2>5, <3>1
  <2> QED
    BY <2>6, <2>7, <2>8, <2>9
<1>3. [total |-> 0, part |-> 0] \in A
  OBVIOUS
<1> HIDE DEF A
<1>4. Scan(HearWord, [total |-> 0, part |-> 0], s) \in A
  BY <1>2, <1>3, ScanKeeps
<1> QED
  BY <1>4 DEF Heard, A

(* A year in Hindi, in hundreds or in thousands, is heard as the year       *)
(* (hindi.py, _convert_year).                                               *)
LEMMA YearSaid ==
    \A y \in Nat : Hi!Year(y) \in Seq(NumberTokens) /\ Heard(Hi!Year(y)) = y
<1>1. SUFFICES ASSUME NEW y \in Nat PROVE Hi!Year(y) \in Seq(NumberTokens) /\ Heard(Hi!Year(y)) = y
  OBVIOUS
<1> DEFINE q == y \div 100
           r == y % 100
           a == Hi!NumberToWords(q)
           b == Hi!TwoDigits[r]
           c == <<Word(100)>>
           old == Thousand .. 1999
<1>2. q \in Nat /\ r \in 0 .. 99
  BY SMT
<1>3. Hi!Year(y) = IF y \in old THEN a \o c \o b ELSE Hi!NumberToWords(y)
  BY HiSame DEF Hi!Year, Thousand
<1> HIDE DEF old
<1>4. CASE y \in old
  <2>1. q - (q % Thousand) = 0 /\ q % Thousand = q /\ q * 100 \in Nat /\ q * 100 + r = y /\ 0 \in Nat
    BY <1>4, SMT DEF Thousand, old
  <2>2. Hi!Year(y) = a \o c \o b
    BY Zenon, <1>3, <1>4
  <2>3. Tells(a, Acc(0, 0), Acc(0, q)) /\ a \in Seq(NumberTokens)
    <3> HIDE <1>4
    <3> HIDE DEF q, r
    <3>1. Tells(a, Acc(0, 0), Acc(q - (q % Thousand), q % Thousand))
      BY <1>2, HiWordsHeard
    <3> QED
      BY <1>2, <2>1, <3>1, HiNumeral
  <2>4. c \in Seq(NumberTokens)
    BY Units, NumeralTypes
  <2>5. b \in Seq(NumberTokens)
    <3> HIDE <1>4
    <3> HIDE DEF q, r
    <3>1. Hi!TwoDigits[r] = IF r = 0 THEN <<>> ELSE <<Word(r)>>
      BY <1>2, HiSame DEF Hi!TwoDigits
    <3>2. r \in Nat
      BY <1>2
    <3> QED
      BY Zenon, <3>1, <3>2, NumeralTypes
  <2>6. Tells(c, Acc(0, q), Acc(0, q * 100))
    BY <1>2, <2>1, TellsHundred
  <2>7. Tells(b, Acc(0, q * 100), Acc(0, y))
    <3> HIDE DEF q, r
    <3>1. Tells(b, Acc(0, q * 100), Acc(0, q * 100 + r))
      BY <1>2, <2>1, HiTwoHeard
    <3> QED
      BY <2>1, <3>1
  <2> HIDE DEF a, b, c, q, r
  <2>8. Tells(a \o c \o b, Acc(0, 0), Acc(0, y))
    BY <2>3, <2>6, <2>7, TellsStep
  <2>9. a \o c \o b \in Seq(NumberTokens)
    BY <2>3, <2>4, <2>5, NumeralTypes
  <2>10. Heard(a \o c \o b) = 0 + y
    BY ZenonT(60), <2>1, <2>8, <2>9, NumeralHeard
  <2> QED
    BY <2>2, <2>9, <2>10
<1>5. CASE ~(y \in old)
  <2> DEFINE w == Hi!NumberToWords(y)
             p == y - (y % Thousand)
             t == y % Thousand
  <2>1. Hi!Year(y) = w
    BY <1>3, <1>5
  <2>2. p \in Nat /\ t \in Nat /\ p + t = y
    BY SMT DEF Thousand
  <2>3. Tells(w, Acc(0, 0), Acc(p, t)) /\ w \in Seq(NumberTokens)
    BY HiWordsHeard, HiNumeral
  <2> HIDE DEF w, p, t
  <2>4. Heard(w) = p + t
    BY <2>2, <2>3, NumeralHeard
  <2> QED
    BY <2>1, <2>2, <2>3, <2>4
<1> QED
  BY <1>4, <1>5

LEMMA YearNotEmpty == \A y \in Nat : Hi!Year(y) # <<>>
<1>1. SUFFICES ASSUME NEW y \in Nat, Hi!Year(y) = <<>> PROVE FALSE
  OBVIOUS
<1>2. Heard(<<>>) = 0
  BY ScanEmpty DEF Heard
<1>3. y = 0
  BY <1>1, <1>2, YearSaid
<1>4. Hi!Year(y) = Hi!NumberToWords(y)
  BY <1>3 DEF Hi!Year
<1>5. Hi!NumberToWords(y) = <<Word(0)>>
  BY <1>3, HiSame DEF Hi!NumberToWords, Hi!IndianNumber
<1> QED
  BY <1>1, <1>4, <1>5

(* What a listener of a date has noted and what is not yet closed.          *)
DateAcc == [told : SUBSET Int, run : Seq(Token)]
Noted(heard, run) == [told |-> heard, run |-> run]
Pending(run) == IF run = <<>> THEN {} ELSE {Heard(run)}
Notes(t) == IF t[1] = "," THEN {} ELSE IF t[1] = "month" THEN {-t[2]} ELSE {t[2]}

(* What is noted are numbers.                                               *)
LEMMA PendingType == \A run \in Seq(Token) : Pending(run) \in SUBSET Int
BY HeardType DEF Pending

(* A number word is kept back, any other word closes the number and is      *)
(* noted.                                                                   *)
LEMMA HearDateStep ==
    ASSUME NEW heard \in SUBSET Int, NEW run \in Seq(Token), NEW t \in Token
    PROVE  /\ t[1] = "number" => HearDate[Noted(heard, run)][t] = Noted(heard, Append(run, t))
           /\ t[1] # "number" => HearDate[Noted(heard, run)][t] = Noted((heard \cup Pending(run)) \cup Notes(t), <<>>)
<1> DEFINE c == Noted(heard, run)
<1>1. c \in DateAcc /\ c.told = heard /\ c.run = run
  BY DEF Noted, DateAcc
<1>2. [c EXCEPT !.run = Append(run, t)] = Noted(heard, Append(run, t))
  BY DEF Noted
<1> HIDE DEF c
<1>3. CASE t[1] = "number"
  <2>1. HearDate[c][t] = [c EXCEPT !.run = Append(run, t)]
    BY <1>1, <1>3 DEF HearDate, DateAcc
  <2> QED
    BY <1>2, <1>3, <2>1 DEF c
<1>4. CASE t[1] # "number"
  <2>1. HearDate[c][t] = Noted((heard \cup Pending(run)) \cup Notes(t), <<>>)
    BY <1>1, <1>4 DEF HearDate, DateAcc, Noted, Pending, Notes
  <2> QED
    BY <1>4, <2>1 DEF c
<1> QED
  BY <1>3, <1>4

LEMMA NotesType == \A t \in Token : Notes(t) \in SUBSET Int
<1>1. SUFFICES ASSUME NEW t \in Token PROVE Notes(t) \in SUBSET Int
  OBVIOUS
<1>2. t[2] \in Nat
  BY TokenTypes
<1>3. t[2] \in Int /\ -t[2] \in Int
  BY <1>2
<1>4. {} \in SUBSET Int /\ {t[2]} \in SUBSET Int /\ {-t[2]} \in SUBSET Int
  BY <1>3
<1> QED
  BY Zenon, <1>4 DEF Notes

(* Number words alone are kept back.                                        *)
LEMMA NumeralNoted ==
    ASSUME NEW heard \in SUBSET Int
    PROVE  \A w \in Seq(NumberTokens) : Scan(HearDate, Noted(heard, <<>>), w) = Noted(heard, w)
<1> DEFINE H == {w \in Seq(NumberTokens) : Scan(HearDate, Noted(heard, <<>>), w) = Noted(heard, w)}
<1>1. <<>> \in H
  BY ScanEmpty, NumeralTypes
<1>2. ASSUME NEW w \in Seq(NumberTokens), NEW e \in NumberTokens, w \in H PROVE Append(w, e) \in H
  <2>1. w \in Seq(Token) /\ e \in Token /\ e[1] = "number" /\ Append(w, e) \in Seq(NumberTokens)
    BY NumeralTypes, AppendProperties DEF NumberTokens
  <2>2. Scan(HearDate, Noted(heard, <<>>), Append(w, e)) = HearDate[Scan(HearDate, Noted(heard, <<>>), w)][e]
    BY ScanAppend
  <2>3. HearDate[Noted(heard, w)][e] = Noted(heard, Append(w, e))
    BY <2>1, HearDateStep
  <2> QED
    BY <1>2, <2>1, <2>2, <2>3
<1> HIDE DEF H
<1>3. \A w \in Seq(NumberTokens) : w \in H
  BY <1>1, <1>2, SeqInduction
<1> QED
  BY <1>3 DEF H

(* A token of a date is said as it is or as the number words of its         *)
(* number.                                                                  *)
LEMMA DayWordsSaid ==
    \A t \in Token : t[1] # "number" =>
      \/ DayWords[t] = <<t>>
      \/ Counts(t) /\ DayWords[t] \in Seq(NumberTokens) /\ DayWords[t] # <<>> /\ Heard(DayWords[t]) = t[2]
<1>1. SUFFICES ASSUME NEW t \in Token, t[1] # "number", DayWords[t] # <<t>>
               PROVE  Counts(t) /\ DayWords[t] \in Seq(NumberTokens) /\ DayWords[t] # <<>> /\ Heard(DayWords[t]) = t[2]
  OBVIOUS
<1>2. t[2] \in Nat
  BY TokenTypes
<1>3. CASE t[1] = "year"
  <2>1. DayWords[t] = Hi!Year(t[2])
    BY <1>3 DEF DayWords
  <2>2. Hi!Year(t[2]) \in Seq(NumberTokens) /\ Hi!Year(t[2]) # <<>> /\ Heard(Hi!Year(t[2])) = t[2]
    BY <1>2, YearSaid, YearNotEmpty
  <2>3. Counts(t)
    BY <1>3 DEF Counts
  <2> QED
    BY Zenon, <2>1, <2>2, <2>3
<1>4. CASE t[1] \in {"day", "ordinal"} /\ t[2] \in Hi!HI_DAYS
  <2> DEFINE n == t[2]
             w == <<Word(n)>>
  <2>1. DayWords[t] = w
    BY <1>4, HiSame DEF DayWords
  <2>2. Counts(t)
    BY <1>4 DEF Counts
  <2>3. n \in 0 .. 99 /\ 0 + n = n /\ n \in Nat /\ 0 \in Nat
    BY <1>4 DEF Hi!HI_DAYS
  <2> HIDE DEF n
  <2>4. Tells(w, Acc(0, 0), Acc(0, n))
    <3>1. Tells(w, Acc(0, 0), Acc(0, 0 + n))
      BY <2>3, TellsSmall
    <3> QED
      BY <2>3, <3>1
  <2>5. w \in Seq(NumberTokens) /\ w # <<>>
    <3>1. w \in Seq(NumberTokens)
      BY <2>3, NumeralTypes
    <3> QED
      BY <3>1
  <2>6. Heard(w) = n
    <3> HIDE DEF w
    <3> QED
      BY <2>3, <2>4, <2>5, NumeralHeard
  <2> QED
    BY <2>1, <2>2, <2>5, <2>6 DEF n
<1>5. CASE t[1] # "year" /\ ~(t[1] \in {"day", "ordinal"} /\ t[2] \in Hi!HI_DAYS)
  BY <1>1, <1>5 DEF DayWords
<1> QED
  BY <1>3, <1>4, <1>5

(* A date read to its end, and when it and its words tell the same.         *)
Read(date) == Scan(HearDate, Noted({}, <<>>), date)
Agree(date) ==
  LET said == Expand(DayWords, date)
  IN  \E heard \in SUBSET Int, run \in Seq(Token) :
        /\ Read(said) = Noted(heard, run)
        /\ Read(date) = Noted(heard \cup Pending(run), <<>>)
        /\ date = <<>> \/ ~Counts(date[Len(date)]) => run = <<>>

(* One token more that does not touch a number tells the same.              *)
LEMMA AgreeNext ==
    ASSUME NEW s \in Seq(Token), NEW e \in Token, e[1] # "number", Agree(s),
           s # <<>> => ~(Counts(s[Len(s)]) /\ Counts(e))
    PROVE  Agree(Append(s, e))
<1> DEFINE said == Expand(DayWords, s)
           w == DayWords[e]
<1>1. PICK heard \in SUBSET Int, run \in Seq(Token) :
        /\ Read(said) = Noted(heard, run)
        /\ Read(s) = Noted(heard \cup Pending(run), <<>>)
        /\ s = <<>> \/ ~Counts(s[Len(s)]) => run = <<>>
  BY DEF Agree
<1>2. said \in Seq(Token) /\ w \in Seq(Token)
  BY DayWordsType, ExpandType
<1>3. Expand(DayWords, Append(s, e)) = said \o w
  BY DayWordsType, ExpandAppend
<1>4. Append(s, e) # <<>> /\ Append(s, e)[Len(Append(s, e))] = e
  BY AppendProperties, LenProperties
<1>5. /\ Pending(run) \in SUBSET Int /\ Notes(e) \in SUBSET Int
      /\ heard \cup Pending(run) \in SUBSET Int
      /\ <<>> \in Seq(Token) /\ Pending(<<>>) = {}
  <2>1. Pending(run) \in SUBSET Int /\ Notes(e) \in SUBSET Int
    BY PendingType, NotesType
  <2>2. Pending(<<>>) = {}
    BY Zenon DEF Pending
  <2>3. <<>> \in Seq(Token)
    OBVIOUS
  <2>4. heard \cup Pending(run) \in SUBSET Int
    BY Zenon, <2>1
  <2> QED
    BY Zenon, <2>1, <2>2, <2>3, <2>4
<1> HIDE DEF w, said
<1>6. Read(Append(s, e)) = Noted((heard \cup Pending(run)) \cup Notes(e), <<>>)
  <2>1. Read(Append(s, e)) = HearDate[Read(s)][e]
    BY ScanAppend DEF Read
  <2>2. HearDate[Noted(heard \cup Pending(run), <<>>)][e] = Noted(((heard \cup Pending(run)) \cup Pending(<<>>)) \cup Notes(e), <<>>)
    BY <1>5, HearDateStep
  <2>3. ((heard \cup Pending(run)) \cup Pending(<<>>)) \cup Notes(e) = (heard \cup Pending(run)) \cup Notes(e)
    BY <1>5
  <2> QED
    BY Zenon, <1>1, <2>1, <2>2, <2>3
<1>7. Read(said \o w) = Scan(HearDate, Noted(heard, run), w)
  BY <1>1, <1>2, ScanConcat DEF Read
<1>8. CASE w = <<e>>
  <2> DEFINE t == (heard \cup Pending(run)) \cup Notes(e)
  <2>1. Read(said \o w) = Noted(t, <<>>)
    <3>1. <<e>> = Append(<<>>, e)
      OBVIOUS
    <3>2. Scan(HearDate, Noted(heard, run), Append(<<>>, e)) = HearDate[Scan(HearDate, Noted(heard, run), <<>>)][e]
      BY <1>5, ScanAppend
    <3>3. Scan(HearDate, Noted(heard, run), <<>>) = Noted(heard, run)
      BY ScanEmpty
    <3>4. HearDate[Noted(heard, run)][e] = Noted(t, <<>>)
      BY HearDateStep
    <3> QED
      BY Zenon, <1>7, <1>8, <3>1, <3>2, <3>3, <3>4
  <2>2. t \in SUBSET Int /\ t \cup Pending(<<>>) = t
    BY <1>5
  <2>3. Read(Append(s, e)) = Noted(t \cup Pending(<<>>), <<>>)
    BY <1>6, <2>2
  <2> HIDE DEF t
  <2> QED
    BY Zenon, <1>3, <1>5, <2>1, <2>2, <2>3 DEF Agree
<1>9. CASE Counts(e) /\ w \in Seq(NumberTokens) /\ w # <<>> /\ Heard(w) = e[2]
  <2>1. run = <<>>
    BY <1>1, <1>9
  <2>2. Read(said \o w) = Noted(heard, w)
    BY <1>7, <1>9, <2>1, NumeralNoted
  <2>3. Notes(e) = Pending(w)
    BY <1>9 DEF Notes, Pending, Counts
  <2>4. (heard \cup Pending(run)) \cup Notes(e) = heard \cup Pending(w)
    BY <1>5, <2>1, <2>3
  <2>5. Read(Append(s, e)) = Noted(heard \cup Pending(w), <<>>)
    BY Zenon, <1>6, <2>4
  <2> QED
    BY Zenon, <1>2, <1>3, <1>4, <1>9, <2>2, <2>5 DEF Agree
<1> QED
  BY <1>8, <1>9, DayWordsSaid DEF w

(* So a whole date whose numbers do not touch does.                         *)
LEMMA DatesAgree ==
    ASSUME NEW s \in Seq(Token), "number" \notin Kinds(s), Spaced(s)
    PROVE  Agree(s)
<1> DEFINE H == {x \in Seq(Token) : (\A i \in 1 .. Len(x) : x[i][1] # "number") /\ Spaced(x) => Agree(x)}
<1>1. <<>> \in H
  <2>1. <<>> \in Seq(Token) /\ {} \in SUBSET Int /\ {} \cup Pending(<<>>) = {}
    BY DEF Pending
  <2>2. Expand(DayWords, <<>>) = <<>> /\ Read(<<>>) = Noted({}, <<>>)
    BY ExpandEmpty, ScanEmpty DEF Read
  <2>3. Agree(<<>>)
    BY Zenon, <2>1, <2>2 DEF Agree
  <2> QED
    BY <2>1, <2>3
<1>2. ASSUME NEW x \in Seq(Token), NEW e \in Token, x \in H PROVE Append(x, e) \in H
  <2> DEFINE w == Append(x, e)
  <2>1. /\ w \in Seq(Token) /\ Len(x) \in Nat /\ Len(w) = Len(x) + 1 /\ w[Len(x) + 1] = e
        /\ \A i \in 1 .. Len(x) : w[i] = x[i]
    BY AppendProperties, LenProperties
  <2> HIDE DEF w
  <2>2. ASSUME \A i \in 1 .. Len(w) : w[i][1] # "number", Spaced(w) PROVE Agree(w)
    <3>1. /\ e[1] # "number" /\ \A i \in 1 .. Len(x) : x[i][1] # "number"
      <4>1. Len(x) + 1 \in 1 .. Len(w) /\ \A i \in 1 .. Len(x) : i \in 1 .. Len(w)
        BY <2>1
      <4> QED
        BY <2>1, <2>2, <4>1
    <3>2. Spaced(x)
      <4>1. \A i \in 1 .. (Len(x) - 1) : i \in 1 .. (Len(w) - 1) /\ i \in 1 .. Len(x) /\ i + 1 \in 1 .. Len(x)
        BY <2>1
      <4> QED
        BY Zenon, <2>1, <2>2, <4>1 DEF Spaced
    <3>3. x # <<>> => ~(Counts(x[Len(x)]) /\ Counts(e))
      <4>1. SUFFICES ASSUME x # <<>> PROVE ~(Counts(x[Len(x)]) /\ Counts(e))
        OBVIOUS
      <4>2. Len(x) # 0
        BY <4>1, EmptySeq
      <4>3. Len(x) \in 1 .. (Len(w) - 1) /\ Len(x) \in 1 .. Len(x)
        BY <2>1, <4>2
      <4> QED
        BY Zenon, <2>1, <2>2, <4>3 DEF Spaced
    <3>4. Agree(x)
      BY <1>2, <3>1, <3>2
    <3> QED
      BY <3>1, <3>3, <3>4, AgreeNext DEF w
  <2> QED
    BY <2>1, <2>2 DEF w
<1> HIDE DEF H
<1>3. s \in H
  BY <1>1, <1>2, SeqInduction
<1>4. \A i \in 1 .. Len(s) : s[i][1] # "number"
  BY LenProperties DEF Kinds
<1> QED
  BY <1>3, <1>4 DEF H

(* The end of a date closes its last number.                                *)
LEMMA DateEnds == \A s \in Seq(Token) : DateMeaning(s) = HearDate[Read(s)][<<",", 0>>].told
<1>1. SUFFICES ASSUME NEW s \in Seq(Token) PROVE DateMeaning(s) = HearDate[Read(s)][<<",", 0>>].told
  OBVIOUS
<1>2. <<",", 0>> \in Token
  <2>1. "," \in STRING \cup PackKinds \cup Frequencies /\ 0 \in Nat
    BY DEF PackKinds
  <2> QED
    BY <2>1, TokenTypes
<1>3. Scan(HearDate, Noted({}, <<>>), Append(s, <<",", 0>>)) = HearDate[Scan(HearDate, Noted({}, <<>>), s)][<<",", 0>>]
  BY <1>2, ScanAppend
<1> QED
  BY <1>3 DEF DateMeaning, Read, Noted

(* A date said in words is heard as the day, month and year that were        *)
(* written.                                                                  *)
LEMMA DateSaid ==
    ASSUME NEW s \in Seq(Written), Spaced(s), NEW lang
    PROVE  DateMeaning(FormatDate(lang, s)) = DateMeaning(s)
<1>1. s \in Seq(Token) /\ "number" \notin Kinds(s)
  <2>1. \A i \in DOMAIN s : s[i] \in Written
    BY ElementOfSeq, LenProperties
  <2> QED
    BY <2>1, TokenTypes DEF Kinds, Written
<1> DEFINE w == Expand(DayWords, s)
           t == <<",", 0>>
<1>2. w \in Seq(Token)
  BY <1>1, DayWordsType, ExpandType
<1>3. PICK heard \in SUBSET Int, run \in Seq(Token) :
        Read(w) = Noted(heard, run) /\ Read(s) = Noted(heard \cup Pending(run), <<>>)
  BY <1>1, DatesAgree DEF Agree
<1>4. t \in Token /\ t[1] # "number" /\ Notes(t) = {}
  <2>1. "," \in STRING \cup PackKinds \cup Frequencies /\ 0 \in Nat
    BY DEF PackKinds
  <2> QED
    BY <2>1, TokenTypes DEF Notes
<1>5. Pending(run) \in SUBSET Int /\ Pending(<<>>) = {} /\ <<>> \in Seq(Token)
  BY PendingType DEF Pending
<1> HIDE DEF w, t
<1>6. HearDate[Noted(heard, run)][t] = Noted((heard \cup Pending(run)) \cup Notes(t), <<>>)
  BY <1>4, HearDateStep
<1>7. HearDate[Noted(heard \cup Pending(run), <<>>)][t] = Noted(((heard \cup Pending(run)) \cup Pending(<<>>)) \cup Notes(t), <<>>)
  <2>1. heard \cup Pending(run) \in SUBSET Int
    BY <1>5
  <2> QED
    BY <1>4, <1>5, <2>1, HearDateStep
<1>8. ((heard \cup Pending(run)) \cup Pending(<<>>)) \cup Notes(t) = (heard \cup Pending(run)) \cup Notes(t)
  BY <1>5
<1>9. DateMeaning(w) = DateMeaning(s)
  BY Zenon, <1>1, <1>2, <1>3, <1>6, <1>7, <1>8, DateEnds DEF t
<1>10. FormatDate(lang, s) = IF lang = "hindi" THEN w ELSE s
  BY <1>1, HiDateExpands DEF FormatDate, En!FormatDate, w
<1> QED
  BY <1>9, <1>10

----------------------------------------------------------------------------
(* The declaration: what its clauses tell of each field.                    *)

(* What a list of clauses tells of a field.                                  *)
Lookup(c, field) ==
  LET at == {i \in DOMAIN c : c[i][1] = field}
  IN  IF at = {} THEN <<>> ELSE c[CHOOSE i \in at : \A j \in at : i <= j][2]

(* A field that has no clause, its first clause, and the fields of two      *)
(* lists.                                                                   *)
LEMMA LookupNone == \A c, f : f \notin Kinds(c) => Lookup(c, f) = <<>>
<1>1. SUFFICES ASSUME NEW c, NEW f, f \notin Kinds(c) PROVE Lookup(c, f) = <<>>
  OBVIOUS
<1>2. {i \in DOMAIN c : c[i][1] = f} = {}
  BY <1>1 DEF Kinds
<1> QED
  BY Zenon, <1>2 DEF Lookup

LEMMA LookupAt ==
    ASSUME NEW c \in Seq(Clauses), NEW k \in 1 .. Len(c), NEW f, c[k][1] = f,
           \A j \in 1 .. Len(c) : c[j][1] = f => k <= j
    PROVE  Lookup(c, f) = c[k][2]
<1> DEFINE at == {i \in DOMAIN c : c[i][1] = f}
           m == CHOOSE i \in at : \A j \in at : i <= j
<1>1. DOMAIN c = 1 .. Len(c) /\ Len(c) \in Nat
  BY LenProperties
<1>2. k \in at /\ \A j \in at : k <= j
  BY <1>1
<1>3. m \in at /\ \A j \in at : m <= j
  BY Zenon, <1>2
<1>4. m = k
  <2>1. at \subseteq Nat
    BY <1>1
  <2> HIDE DEF at, m
  <2> QED
    BY <1>2, <1>3, <2>1
<1>5. Lookup(c, f) = IF at = {} THEN <<>> ELSE c[m][2]
  BY Zenon DEF Lookup
<1>6. at # {}
  BY <1>2
<1> HIDE DEF at, m
<1> QED
  BY <1>4, <1>5, <1>6

LEMMA FirstAt ==
    ASSUME NEW c \in Seq(Clauses), NEW f, f \in Kinds(c)
    PROVE  \E k \in 1 .. Len(c) : c[k][1] = f /\ \A j \in 1 .. Len(c) : c[j][1] = f => k <= j
<1> DEFINE at == {i \in 1 .. Len(c) : c[i][1] = f}
<1>1. Len(c) \in Nat /\ DOMAIN c = 1 .. Len(c)
  BY LenProperties
<1>2. PICK i \in at : TRUE
  BY <1>1 DEF Kinds
<1>3. \E k \in at : \A j \in at : k <= j
  <2> DEFINE T == {n \in Nat : n \in at => \E k \in at : \A j \in at : k <= j}
  <2>1. ASSUME NEW n \in Nat, \A m \in Nat : m < n => m \in T PROVE n \in T
    <3>1. CASE \E m \in at : m < n
      <4>1. PICK m \in at : m < n
        BY <3>1
      <4>2. m \in Nat
        BY <1>1
      <4> QED
        BY <2>1, <4>1, <4>2
    <3>2. CASE ~\E m \in at : m < n
      <4>1. \A m \in at : m \in Nat /\ n <= m
        BY <1>1, <3>2
      <4> QED
        BY <4>1
    <3> QED
      BY <3>1, <3>2
  <2>2. i \in Nat
    BY <1>1
  <2> HIDE DEF T
  <2>3. \A n \in Nat : n \in T
    BY <2>1, StrongInduction
  <2>4. i \in T
    BY <2>2, <2>3
  <2> QED
    BY <1>2, <2>4 DEF T
<1> QED
  BY <1>3

LEMMA KindsConcat ==
    ASSUME NEW c \in Seq(Clauses), NEW d \in Seq(Clauses)
    PROVE  c \o d \in Seq(Clauses) /\ Kinds(c \o d) = Kinds(c) \cup Kinds(d)
<1>1. /\ c \o d \in Seq(Clauses) /\ Len(c) \in Nat /\ Len(d) \in Nat /\ Len(c \o d) = Len(c) + Len(d)
      /\ DOMAIN c = 1 .. Len(c) /\ DOMAIN d = 1 .. Len(d) /\ DOMAIN (c \o d) = 1 .. (Len(c) + Len(d))
      /\ \A i \in 1 .. Len(c) : (c \o d)[i] = c[i]
      /\ \A i \in 1 .. Len(d) : (c \o d)[Len(c) + i] = d[i]
  BY ConcatProperties, LenProperties
<1> DEFINE e == c \o d
<1> HIDE DEF e
<1>2. ASSUME NEW i \in 1 .. (Len(c) + Len(d)) PROVE e[i][1] \in Kinds(c) \cup Kinds(d)
  <2>1. CASE i <= Len(c)
    BY <1>1, <2>1 DEF e, Kinds
  <2>2. CASE ~(i <= Len(c))
    <3>1. i - Len(c) \in 1 .. Len(d) /\ Len(c) + (i - Len(c)) = i
      BY <1>1, <2>2
    <3>2. e[i] = d[i - Len(c)]
      BY <1>1, <3>1 DEF e
    <3> QED
      BY <1>1, <3>1, <3>2 DEF Kinds
  <2> QED
    BY <2>1, <2>2
<1>3. ASSUME NEW i \in 1 .. Len(c) PROVE c[i][1] \in Kinds(e)
  BY <1>1 DEF Kinds, e
<1>4. ASSUME NEW i \in 1 .. Len(d) PROVE d[i][1] \in Kinds(e)
  <2>1. Len(c) + i \in DOMAIN e /\ e[Len(c) + i] = d[i]
    BY <1>1 DEF e
  <2> QED
    BY <2>1 DEF Kinds
<1>5. Kinds(e) \subseteq Kinds(c) \cup Kinds(d)
  BY <1>1, <1>2 DEF Kinds, e
<1>6. Kinds(c) \subseteq Kinds(e) /\ Kinds(d) \subseteq Kinds(e)
  BY <1>1, <1>3, <1>4 DEF Kinds
<1> QED
  BY <1>1, <1>5, <1>6 DEF e

(* A field is looked up in the list that has it.                            *)
LEMMA LookupLeft ==
    ASSUME NEW c \in Seq(Clauses), NEW d \in Seq(Clauses), NEW f, f \notin Kinds(d)
    PROVE  Lookup(c \o d, f) = Lookup(c, f)
<1>0. c \o d \in Seq(Clauses) /\ Kinds(c \o d) = Kinds(c) \cup Kinds(d)
  BY KindsConcat
<1>1. CASE f \notin Kinds(c)
  <2>1. f \notin Kinds(c \o d)
    BY <1>0, <1>1
  <2> QED
    BY <1>1, <2>1, LookupNone
<1>2. CASE f \in Kinds(c)
  <2>1. PICK k \in 1 .. Len(c) : c[k][1] = f /\ \A j \in 1 .. Len(c) : c[j][1] = f => k <= j
    BY <1>2, FirstAt
  <2>2. Lookup(c, f) = c[k][2]
    BY <2>1, LookupAt
  <2>3. /\ Len(c) \in Nat /\ Len(d) \in Nat /\ Len(c \o d) = Len(c) + Len(d)
        /\ \A i \in 1 .. Len(c) : (c \o d)[i] = c[i]
    BY ConcatProperties, LenProperties
  <2> DEFINE e == c \o d
  <2> HIDE DEF e
  <2>4. k \in 1 .. Len(e) /\ e[k] = c[k]
    BY <2>3 DEF e
  <2>5. ASSUME NEW j \in 1 .. Len(e), e[j][1] = f PROVE k <= j
    <3>1. CASE j <= Len(c)
      BY <2>1, <2>3, <2>5, <3>1 DEF e
    <3>2. CASE ~(j <= Len(c))
      BY <2>3, <3>2 DEF e
    <3> QED
      BY <3>1, <3>2
  <2>6. Lookup(e, f) = e[k][2]
    BY <1>0, <2>1, <2>4, <2>5, LookupAt DEF e
  <2> QED
    BY <2>2, <2>4, <2>6 DEF e
<1> QED
  BY <1>1, <1>2

LEMMA LookupRight ==
    ASSUME NEW c \in Seq(Clauses), NEW d \in Seq(Clauses), NEW f, f \notin Kinds(c)
    PROVE  Lookup(c \o d, f) = Lookup(d, f)
<1>0. c \o d \in Seq(Clauses) /\ Kinds(c \o d) = Kinds(c) \cup Kinds(d)
  BY KindsConcat
<1>1. CASE f \notin Kinds(d)
  <2>1. f \notin Kinds(c \o d)
    BY <1>0, <1>1
  <2> QED
    BY <1>1, <2>1, LookupNone
<1>2. CASE f \in Kinds(d)
  <2>1. PICK k \in 1 .. Len(d) : d[k][1] = f /\ \A j \in 1 .. Len(d) : d[j][1] = f => k <= j
    BY <1>2, FirstAt
  <2>2. Lookup(d, f) = d[k][2]
    BY <2>1, LookupAt
  <2>3. /\ Len(c) \in Nat /\ Len(d) \in Nat /\ Len(c \o d) = Len(c) + Len(d)
        /\ DOMAIN c = 1 .. Len(c)
        /\ \A i \in 1 .. Len(c) : (c \o d)[i] = c[i]
        /\ \A i \in 1 .. Len(d) : (c \o d)[Len(c) + i] = d[i]
    BY ConcatProperties, LenProperties
  <2> DEFINE e == c \o d
             m == Len(c) + k
  <2> HIDE DEF e
  <2>4. m \in 1 .. Len(e) /\ e[m] = d[k]
    BY <2>3 DEF e
  <2>5. ASSUME NEW j \in 1 .. Len(e), e[j][1] = f PROVE m <= j
    <3>1. CASE j <= Len(c)
      <4>1. e[j] = c[j] /\ j \in DOMAIN c
        BY <2>3, <3>1 DEF e
      <4> QED
        BY <1>2, <2>5, <4>1 DEF Kinds
    <3>2. CASE ~(j <= Len(c))
      <4>1. j - Len(c) \in 1 .. Len(d) /\ Len(c) + (j - Len(c)) = j
        BY <2>3, <3>2 DEF e
      <4>2. e[j] = d[j - Len(c)]
        BY <2>3, <4>1 DEF e
      <4>3. k <= j - Len(c)
        BY <2>1, <2>5, <4>1, <4>2
      <4> QED
        BY <2>3, <4>3
    <3> QED
      BY <3>1, <3>2
  <2> HIDE DEF m
  <2>6. Lookup(e, f) = e[m][2]
    BY <1>0, <2>1, <2>4, <2>5, LookupAt DEF e
  <2> QED
    BY <2>2, <2>4, <2>6 DEF e
<1> QED
  BY <1>1, <1>2

(* The clause of a field, and the clause of a field that may be empty.      *)
Clause(f, s) == <<<<f, s>>>>
Optional(f, s) == IF s = <<>> THEN <<>> ELSE Clause(f, s)
(* A list of clauses of one field.                                          *)
Named(c, f) == c \in Seq(Clauses) /\ Kinds(c) \subseteq {f}

LEMMA ClauseNamed ==
    ASSUME NEW f \in RequestFields, NEW s \in Seq(Token)
    PROVE  /\ Named(Clause(f, s), f) /\ Lookup(Clause(f, s), f) = s
           /\ Named(Optional(f, s), f) /\ Lookup(Optional(f, s), f) = s
<1> DEFINE c == Clause(f, s)
<1>1. c \in Seq(Clauses) /\ Len(c) = 1 /\ DOMAIN c = {1} /\ c[1][1] = f /\ c[1][2] = s
  BY ClauseType DEF Clause
<1> HIDE DEF c
<1>2. Kinds(c) = {f}
  BY <1>1 DEF Kinds
<1>3. Lookup(c, f) = s
  <2>1. Lookup(c, f) = c[1][2]
    BY <1>1, LookupAt
  <2> QED
    BY <1>1, <2>1
<1>4. <<>> \in Seq(Clauses) /\ Kinds(<<>>) = {} /\ Lookup(<<>>, f) = <<>>
  <2>1. Kinds(<<>>) = {}
    BY DEF Kinds
  <2> QED
    BY <2>1, LookupNone
<1> QED
  BY <1>1, <1>2, <1>3, <1>4 DEF Named, Optional, c

(* A list made of two or three tells of each what it told.                  *)
Tell2(x, c, d, f, g) ==
  /\ x \in Seq(Clauses) /\ Kinds(x) \subseteq {f, g}
  /\ Lookup(x, f) = Lookup(c, f) /\ Lookup(x, g) = Lookup(d, g)
Tell3(x, c, d, e, f, g, h) ==
  /\ x \in Seq(Clauses) /\ Kinds(x) \subseteq {f, g, h}
  /\ Lookup(x, f) = Lookup(c, f) /\ Lookup(x, g) = Lookup(d, g) /\ Lookup(x, h) = Lookup(e, h)

(* It does when the fields are different.                                   *)
LEMMA TwoClauses ==
    \A c, d, f, g : Named(c, f) /\ Named(d, g) /\ f # g => Tell2(c \o d, c, d, f, g)
<1>0. SUFFICES ASSUME NEW c, NEW d, NEW f, NEW g, Named(c, f), Named(d, g), f # g
               PROVE  Tell2(c \o d, c, d, f, g)
  BY Zenon
<1>1. /\ c \in Seq(Clauses) /\ d \in Seq(Clauses) /\ Kinds(c) \subseteq {f} /\ Kinds(d) \subseteq {g}
      /\ f # g
  BY <1>0 DEF Named
<1>2. c \o d \in Seq(Clauses) /\ Kinds(c \o d) = Kinds(c) \cup Kinds(d)
  BY <1>1, KindsConcat
<1>3. Lookup(c \o d, f) = Lookup(c, f)
  BY <1>1, LookupLeft
<1>4. Lookup(c \o d, g) = Lookup(d, g)
  BY <1>1, LookupRight
<1> QED
  BY <1>1, <1>2, <1>3, <1>4 DEF Tell2

LEMMA ThreeClauses ==
    \A c, d, e, f, g, h :
      Named(c, f) /\ Named(d, g) /\ Named(e, h) /\ f # g /\ g # h /\ f # h =>
        Tell3(c \o d \o e, c, d, e, f, g, h)
<1>0. SUFFICES ASSUME NEW c, NEW d, NEW e, NEW f, NEW g, NEW h,
                      Named(c, f), Named(d, g), Named(e, h), f # g, g # h, f # h
               PROVE  Tell3(c \o d \o e, c, d, e, f, g, h)
  BY ZenonT(60)
<1> DEFINE x == c \o d
<1>1. /\ x \in Seq(Clauses) /\ Kinds(x) \subseteq {f, g}
      /\ Lookup(x, f) = Lookup(c, f) /\ Lookup(x, g) = Lookup(d, g)
  <2>1. Tell2(c \o d, c, d, f, g)
    BY Zenon, <1>0, TwoClauses
  <2> QED
    BY Zenon, <2>1 DEF Tell2
<1>2. e \in Seq(Clauses) /\ Kinds(e) \subseteq {h} /\ f # h /\ g # h
  BY <1>0 DEF Named
<1> HIDE DEF x
<1>3. x \o e \in Seq(Clauses) /\ Kinds(x \o e) = Kinds(x) \cup Kinds(e)
  BY <1>1, <1>2, KindsConcat
<1>4. Lookup(x \o e, f) = Lookup(x, f) /\ Lookup(x \o e, g) = Lookup(x, g)
  <2>1. f \notin Kinds(e) /\ g \notin Kinds(e)
    BY <1>2
  <2> QED
    BY <1>1, <1>2, <2>1, LookupLeft
<1>5. Lookup(x \o e, h) = Lookup(e, h)
  <2>1. h \notin Kinds(x)
    BY <1>1, <1>2
  <2> QED
    BY <1>1, <1>2, <2>1, LookupRight
<1> QED
  BY <1>1, <1>2, <1>3, <1>4, <1>5 DEF x, Tell3

(* What the clauses of the premium tell (build_declaration).                *)
PremiumFields == {"premium_amount", "premium_frequency", "premium_paying_term"}
Schedules(c, p, key) ==
  /\ c \in Seq(Clauses) /\ Kinds(c) \subseteq PremiumFields
  /\ Lookup(c, "premium_amount") = p.premium_amount
  /\ Lookup(c, "premium_frequency") = <<<<key, 0>>>>
  /\ key # "single" => Lookup(c, "premium_paying_term") = p.premium_paying_term

(* English tells the amount, the schedule and the years of paying, the      *)
(* years only where there is more than one payment.                         *)
LEMMA EnSchedules ==
    ASSUME NEW p, Form(p), NormalizeFrequency(p.premium_frequency) \in Frequencies
    PROVE  Schedules(En!PremiumSchedule(p), p, NormalizeFrequency(p.premium_frequency))
<1> DEFINE key == NormalizeFrequency(p.premium_frequency)
<1>1. En!NormalizeFrequency(p.premium_frequency) = key
  BY Zenon DEF En!NormalizeFrequency, NormalizeFrequency, En!Synonyms, Synonyms
<1>2. <<<<key, 0>>>> \in Seq(Token) /\ <<<<key, 0>>>> # <<>>
  <2>1. <<key, 0>> \in Token
    BY TokenTypes
  <2> QED
    BY <2>1, TokenTypes
<1>3. key \in {"monthly", "quarterly", "half_yearly", "yearly", "single"}
  BY DEF Frequencies
<1> HIDE DEF key
<1> DEFINE paid == Optional("premium_amount", p.premium_amount)
           pays == Clause("premium_frequency", <<<<key, 0>>>>)
           term == Optional("premium_paying_term", p.premium_paying_term)
<1>4. /\ Named(paid, "premium_amount") /\ Lookup(paid, "premium_amount") = p.premium_amount
      /\ Named(pays, "premium_frequency") /\ Lookup(pays, "premium_frequency") = <<<<key, 0>>>>
      /\ Named(term, "premium_paying_term") /\ Lookup(term, "premium_paying_term") = p.premium_paying_term
  <2>1. /\ p.premium_amount \in Seq(Token) /\ p.premium_paying_term \in Seq(Token)
        /\ "premium_amount" \in RequestFields /\ "premium_paying_term" \in RequestFields
        /\ "premium_frequency" \in RequestFields
    BY FieldNames DEF Form
  <2> QED
    BY <1>2, <2>1, ClauseNamed
<1>5. En!PremiumSchedule(p) = IF key = "single" THEN paid \o pays ELSE paid \o pays \o term
  BY <1>1, <1>3 DEF En!PremiumSchedule, Optional, Clause
<1> HIDE DEF paid, pays, term
<1>6. "premium_amount" # "premium_frequency" /\ "premium_frequency" # "premium_paying_term"
      /\ "premium_amount" # "premium_paying_term"
  OBVIOUS
<1>7. CASE key = "single"
  <2>1. /\ paid \o pays \in Seq(Clauses) /\ Kinds(paid \o pays) \subseteq PremiumFields
        /\ Lookup(paid \o pays, "premium_amount") = p.premium_amount
        /\ Lookup(paid \o pays, "premium_frequency") = <<<<key, 0>>>>
    <3>1. /\ paid \o pays \in Seq(Clauses) /\ Kinds(paid \o pays) \subseteq {"premium_amount", "premium_frequency"}
          /\ Lookup(paid \o pays, "premium_amount") = Lookup(paid, "premium_amount")
          /\ Lookup(paid \o pays, "premium_frequency") = Lookup(pays, "premium_frequency")
      <4>1. Tell2(paid \o pays, paid, pays, "premium_amount", "premium_frequency")
        BY Zenon, <1>4, <1>6, TwoClauses
      <4> QED
        BY Zenon, <4>1 DEF Tell2
    <3> QED
      BY <1>4, <3>1 DEF PremiumFields
  <2> QED
    BY <1>5, <1>7, <2>1 DEF Schedules, key
<1>8. CASE key # "single"
  <2> DEFINE c == paid \o pays \o term
  <2>1. /\ c \in Seq(Clauses) /\ Kinds(c) \subseteq PremiumFields
        /\ Lookup(c, "premium_amount") = p.premium_amount
        /\ Lookup(c, "premium_frequency") = <<<<key, 0>>>>
        /\ Lookup(c, "premium_paying_term") = p.premium_paying_term
    <3>1. /\ c \in Seq(Clauses) /\ Kinds(c) \subseteq {"premium_amount", "premium_frequency", "premium_paying_term"}
          /\ Lookup(c, "premium_amount") = Lookup(paid, "premium_amount")
          /\ Lookup(c, "premium_frequency") = Lookup(pays, "premium_frequency")
          /\ Lookup(c, "premium_paying_term") = Lookup(term, "premium_paying_term")
      <4>1. Tell3(c, paid, pays, term, "premium_amount", "premium_frequency", "premium_paying_term")
        BY Zenon, <1>4, <1>6, ThreeClauses
      <4> QED
        BY Zenon, <4>1 DEF Tell3
    <3> HIDE DEF c
    <3> QED
      BY <1>4, <3>1 DEF PremiumFields
  <2>2. En!PremiumSchedule(p) = c
    BY <1>5, <1>8
  <2> HIDE DEF c
  <2> QED
    BY <2>1, <2>2 DEF Schedules, key
<1> QED
  BY <1>7, <1>8

(* Hindi tells the same.                                                    *)
LEMMA HiSchedules ==
    ASSUME NEW p, Form(p), NormalizeFrequency(p.premium_frequency) \in Frequencies
    PROVE  Schedules(Hi!PremiumSchedule(p), p, NormalizeFrequency(p.premium_frequency))
<1> DEFINE key == NormalizeFrequency(p.premium_frequency)
<1>1. Hi!NormalizeFrequency(p.premium_frequency) = key
  BY Zenon DEF Hi!NormalizeFrequency, NormalizeFrequency, Hi!Synonyms, Synonyms
<1>2. <<<<key, 0>>>> \in Seq(Token) /\ <<<<key, 0>>>> # <<>>
  <2>1. <<key, 0>> \in Token
    BY TokenTypes
  <2> QED
    BY <2>1, TokenTypes
<1>3. key \in {"monthly", "quarterly", "half_yearly", "yearly", "single"}
  BY DEF Frequencies
<1> HIDE DEF key
<1> DEFINE paid == Optional("premium_amount", p.premium_amount)
           pays == Clause("premium_frequency", <<<<key, 0>>>>)
           term == Optional("premium_paying_term", p.premium_paying_term)
<1>4. /\ Named(paid, "premium_amount") /\ Lookup(paid, "premium_amount") = p.premium_amount
      /\ Named(pays, "premium_frequency") /\ Lookup(pays, "premium_frequency") = <<<<key, 0>>>>
      /\ Named(term, "premium_paying_term") /\ Lookup(term, "premium_paying_term") = p.premium_paying_term
  <2>1. /\ p.premium_amount \in Seq(Token) /\ p.premium_paying_term \in Seq(Token)
        /\ "premium_amount" \in RequestFields /\ "premium_paying_term" \in RequestFields
        /\ "premium_frequency" \in RequestFields
    BY FieldNames DEF Form
  <2> QED
    BY <1>2, <2>1, ClauseNamed
<1>5. Hi!PremiumSchedule(p) = IF key = "single" THEN paid \o pays ELSE paid \o term \o pays
  BY <1>1, <1>3 DEF Hi!PremiumSchedule, Optional, Clause, Hi!FrequencyPhrases
<1> HIDE DEF paid, pays, term
<1>6. "premium_amount" # "premium_frequency" /\ "premium_frequency" # "premium_paying_term"
      /\ "premium_amount" # "premium_paying_term"
  OBVIOUS
<1>7. CASE key = "single"
  <2>1. /\ paid \o pays \in Seq(Clauses) /\ Kinds(paid \o pays) \subseteq PremiumFields
        /\ Lookup(paid \o pays, "premium_amount") = p.premium_amount
        /\ Lookup(paid \o pays, "premium_frequency") = <<<<key, 0>>>>
    <3>1. /\ paid \o pays \in Seq(Clauses) /\ Kinds(paid \o pays) \subseteq {"premium_amount", "premium_frequency"}
          /\ Lookup(paid \o pays, "premium_amount") = Lookup(paid, "premium_amount")
          /\ Lookup(paid \o pays, "premium_frequency") = Lookup(pays, "premium_frequency")
      <4>1. Tell2(paid \o pays, paid, pays, "premium_amount", "premium_frequency")
        BY Zenon, <1>4, <1>6, TwoClauses
      <4> QED
        BY Zenon, <4>1 DEF Tell2
    <3> QED
      BY <1>4, <3>1 DEF PremiumFields
  <2> QED
    BY <1>5, <1>7, <2>1 DEF Schedules, key
<1>8. CASE key # "single"
  <2> DEFINE c == paid \o term \o pays
  <2>1. /\ c \in Seq(Clauses) /\ Kinds(c) \subseteq PremiumFields
        /\ Lookup(c, "premium_amount") = p.premium_amount
        /\ Lookup(c, "premium_frequency") = <<<<key, 0>>>>
        /\ Lookup(c, "premium_paying_term") = p.premium_paying_term
    <3>1. /\ c \in Seq(Clauses) /\ Kinds(c) \subseteq {"premium_amount", "premium_paying_term", "premium_frequency"}
          /\ Lookup(c, "premium_amount") = Lookup(paid, "premium_amount")
          /\ Lookup(c, "premium_frequency") = Lookup(pays, "premium_frequency")
          /\ Lookup(c, "premium_paying_term") = Lookup(term, "premium_paying_term")
      <4>1. Tell3(c, paid, term, pays, "premium_amount", "premium_paying_term", "premium_frequency")
        BY Zenon, <1>4, <1>6, ThreeClauses
      <4> QED
        BY Zenon, <4>1 DEF Tell3
    <3> HIDE DEF c
    <3> QED
      BY <1>4, <3>1 DEF PremiumFields
  <2>2. Hi!PremiumSchedule(p) = c
    BY <1>5, <1>8
  <2> HIDE DEF c
  <2> QED
    BY <2>1, <2>2 DEF Schedules, key
<1> QED
  BY <1>7, <1>8

(* The fields the declaration names in every case, and those it names if    *)
(* they are given.                                                          *)
FixedFields == {"application_date", "company", "plan_name", "insured_name", "dob_life_assured"}
DeclaredFields == FixedFields \cup {"nominee_name", "policy_term", "sum_insured"}

(* The declaration tells of each field what the form has.                   *)
LEMMA DeclarationTells ==
    ASSUME NEW p, Form(p), NEW c, NEW key, Schedules(c, p, key)
    PROVE  /\ \A f \in DeclaredFields : Lookup(Declaration(p, c), f) = p[f]
           /\ \A f \in PremiumFields : Lookup(Declaration(p, c), f) = Lookup(c, f)
<1> DEFINE a == <<<<"application_date", p.application_date>>, <<"company", p.company>>, <<"plan_name", p.plan_name>>,
                  <<"insured_name", p.insured_name>>, <<"dob_life_assured", p.dob_life_assured>>>>
           b == Optional("nominee_name", p.nominee_name)
           d1 == Clause("policy_term", p.policy_term)
           d2 == Clause("sum_insured", p.sum_insured)
           d == <<<<"policy_term", p.policy_term>>, <<"sum_insured", p.sum_insured>>>>
<1>1. /\ <<"application_date", p.application_date>> \in Clauses /\ <<"company", p.company>> \in Clauses
      /\ <<"plan_name", p.plan_name>> \in Clauses /\ <<"insured_name", p.insured_name>> \in Clauses
      /\ <<"dob_life_assured", p.dob_life_assured>> \in Clauses
      /\ <<"policy_term", p.policy_term>> \in Clauses /\ <<"sum_insured", p.sum_insured>> \in Clauses
  BY FieldNames DEF Form, Clauses
<1>2. /\ a \in Seq(Clauses) /\ Len(a) = 5
      /\ a[1][1] = "application_date" /\ a[1][2] = p.application_date
      /\ a[2][1] = "company" /\ a[2][2] = p.company
      /\ a[3][1] = "plan_name" /\ a[3][2] = p.plan_name
      /\ a[4][1] = "insured_name" /\ a[4][2] = p.insured_name
      /\ a[5][1] = "dob_life_assured" /\ a[5][2] = p.dob_life_assured
  <2>1. \A u, v, w, x, y \in Clauses : <<u, v, w, x, y>> \in Seq(Clauses)
    OBVIOUS
  <2> QED
    BY <1>1, <2>1
<1>3. d = d1 \o d2
  BY <1>1 DEF Clause
<1>4. Declaration(p, c) = a \o b \o d \o c
  BY DEF Declaration, Optional, Clause
<1>5. /\ Named(b, "nominee_name") /\ Lookup(b, "nominee_name") = p.nominee_name
      /\ Named(d1, "policy_term") /\ Lookup(d1, "policy_term") = p.policy_term
      /\ Named(d2, "sum_insured") /\ Lookup(d2, "sum_insured") = p.sum_insured
  <2>1. /\ p.nominee_name \in Seq(Token) /\ p.policy_term \in Seq(Token) /\ p.sum_insured \in Seq(Token)
        /\ "nominee_name" \in RequestFields /\ "policy_term" \in RequestFields /\ "sum_insured" \in RequestFields
    BY FieldNames DEF Form
  <2> QED
    BY <2>1, ClauseNamed
<1> HIDE DEF a, b, d, d1, d2
<1>6. Kinds(a) = FixedFields
  <2>1. DOMAIN a = 1 .. 5
    BY <1>2, LenProperties
  <2>2. DOMAIN a = {1, 2, 3, 4, 5}
    BY <2>1
  <2> QED
    BY <1>2, <2>2 DEF Kinds, FixedFields
<1>7. \A f \in FixedFields : Lookup(a, f) = p[f]
  <2>1. \A k \in 1 .. 5 : \A j \in 1 .. 5 : a[j][1] = a[k][1] => k <= j
    <3>1. \A j \in 1 .. 5 : j \in {1, 2, 3, 4, 5}
      OBVIOUS
    <3> QED
      BY <1>2, <3>1
  <2>2. \A k \in 1 .. 5 : Lookup(a, a[k][1]) = a[k][2]
    <3>1. SUFFICES ASSUME NEW k \in 1 .. 5 PROVE Lookup(a, a[k][1]) = a[k][2]
      OBVIOUS
    <3> QED
      BY SMTT(30), ZenonT(60), <1>2, <2>1, LookupAt
  <2> QED
    BY <1>2, <2>2 DEF FixedFields
<1>8. /\ d \in Seq(Clauses) /\ Kinds(d) \subseteq {"policy_term", "sum_insured"}
      /\ Lookup(d, "policy_term") = p.policy_term /\ Lookup(d, "sum_insured") = p.sum_insured
  BY <1>3, <1>5, TwoClauses DEF Tell2
<1>9. b \in Seq(Clauses) /\ Kinds(b) \subseteq {"nominee_name"}
  BY <1>5 DEF Named
<1>10. c \in Seq(Clauses) /\ Kinds(c) \subseteq PremiumFields
  BY DEF Schedules
<1> DEFINE x == a \o b
           y == x \o d
<1>11. x \in Seq(Clauses) /\ Kinds(x) = Kinds(a) \cup Kinds(b)
  BY <1>2, <1>9, KindsConcat
<1>12. /\ \A f \in FixedFields : Lookup(x, f) = p[f]
       /\ Lookup(x, "nominee_name") = p.nominee_name
  <2>1. \A f \in FixedFields : f \notin Kinds(b)
    BY <1>9 DEF FixedFields
  <2>2. "nominee_name" \notin Kinds(a)
    BY <1>6 DEF FixedFields
  <2>3. \A f \in FixedFields : Lookup(x, f) = Lookup(a, f)
    BY <1>2, <1>9, <2>1, LookupLeft
  <2>4. Lookup(x, "nominee_name") = Lookup(b, "nominee_name")
    BY <1>2, <1>9, <2>2, LookupRight
  <2> QED
    BY <1>5, <1>7, <2>3, <2>4
<1> HIDE DEF x
<1>13. y \in Seq(Clauses) /\ Kinds(y) = Kinds(x) \cup Kinds(d)
  BY <1>8, <1>11, KindsConcat
<1>14. \A f \in DeclaredFields : Lookup(y, f) = p[f]
  <2>1. \A f \in FixedFields \cup {"nominee_name"} : f \notin Kinds(d)
    BY <1>8 DEF FixedFields
  <2>2. \A f \in {"policy_term", "sum_insured"} : f \notin Kinds(x)
    BY <1>6, <1>9, <1>11 DEF FixedFields
  <2>3. \A f \in FixedFields \cup {"nominee_name"} : Lookup(y, f) = Lookup(x, f)
    BY <1>8, <1>11, <2>1, LookupLeft
  <2>4. \A f \in {"policy_term", "sum_insured"} : Lookup(y, f) = Lookup(d, f)
    BY <1>8, <1>11, <2>2, LookupRight
  <2> HIDE DEF y
  <2>5. Lookup(y, "nominee_name") = p["nominee_name"] /\ Lookup(y, "policy_term") = p["policy_term"]
        /\ Lookup(y, "sum_insured") = p["sum_insured"]
    BY <1>8, <1>12, <2>3, <2>4
  <2>6. \A f \in FixedFields : Lookup(y, f) = p[f]
    BY <1>12, <2>3
  <2> QED
    BY <2>5, <2>6 DEF DeclaredFields
<1>15. Kinds(y) \subseteq DeclaredFields
  BY <1>6, <1>8, <1>9, <1>11, <1>13 DEF DeclaredFields
<1> HIDE DEF y
<1>16. \A f \in DeclaredFields : f \notin Kinds(c)
  BY <1>10 DEF DeclaredFields, FixedFields, PremiumFields
<1>17. \A f \in PremiumFields : f \notin Kinds(y)
  BY <1>15 DEF DeclaredFields, FixedFields, PremiumFields
<1>18. \A f \in DeclaredFields : Lookup(y \o c, f) = Lookup(y, f)
  BY <1>10, <1>13, <1>16, LookupLeft
<1>19. \A f \in PremiumFields : Lookup(y \o c, f) = Lookup(c, f)
  BY <1>10, <1>13, <1>17, LookupRight
<1>20. Declaration(p, c) = y \o c
  BY <1>4 DEF x, y
<1> QED
  BY <1>14, <1>18, <1>19, <1>20

(* A conversion keeps the words of a text.                                  *)
LEMMA NativeSameWords == \A s \in Seq(Token) : SameWords(Native(s), s) /\ SameWords(s, s)
<1>1. SUFFICES ASSUME NEW s \in Seq(Token) PROVE SameWords(Native(s), s) /\ SameWords(s, s)
  OBVIOUS
<1> DEFINE n == [i \in DOMAIN s |-> IF s[i][1] = "digit" THEN s[i] ELSE <<s[i][1], 1>>]
<1>2. Native(s) = n
  BY DEF Native, Each
<1>3. DOMAIN s = 1 .. Len(s) /\ Len(s) \in Nat /\ s \in Seq(Token)
  BY LenProperties
<1>4. n \in Seq(Token)
  BY <1>2, NativeType
<1>5. DOMAIN n = DOMAIN s /\ \A i \in DOMAIN s : n[i][1] = s[i][1]
  OBVIOUS
<1> HIDE DEF n
<1>6. Len(n) = Len(s)
  <2>1. DOMAIN n = 1 .. Len(n) /\ Len(n) \in Nat
    BY <1>4, LenProperties
  <2> QED
    BY <1>3, <1>5, <2>1
<1> QED
  BY <1>2, <1>5, <1>6 DEF SameWords

(* The names that are converted.                                            *)
SpokenNames == {"insured_name", "nominee_name", "company", "plan_name"}

(* A form has the numbers, dates and schedule of its request, and the       *)
(* words of its names.                                                      *)
LEMMA FormKeeps ==
    ASSUME NEW req \in Requests, NEW p \in Forms(req)
    PROVE  /\ \A f \in NumberFields \cup DateFields : p[f] = req[f]
           /\ \A f \in SpokenNames : SameWords(p[f], req[f])
           /\ p.premium_frequency = req.premium_frequency
<1>1. Form(req)
  BY FormOfRequest
<1>2. \A f \in SpokenNames : req[f] \in Seq(Token)
  <2>1. SpokenNames \subseteq TextFields
    BY FieldNames DEF SpokenNames, TextFields, RequestFields
  <2> QED
    BY <1>1, <2>1 DEF Form
<1>3. /\ \A f \in NumberFields \cup DateFields : f \in RequestFields /\ f \notin NAME_FIELDS /\ f # "address"
      /\ "premium_frequency" \in RequestFields \ {"address"} /\ "premium_frequency" \notin NAME_FIELDS
      /\ \A f \in SpokenNames : f \in RequestFields /\ f # "address"
  BY DEF NumberFields, DateFields, RequestFields, NAME_FIELDS, SpokenNames
<1>4. ASSUME NEW done, NEW how
      PROVE  LET c == Converted(req, done, how)
             IN  /\ DOMAIN c = RequestFields
                 /\ \A f \in NumberFields \cup DateFields : c[f] = req[f]
                 /\ \A f \in SpokenNames : SameWords(c[f], req[f])
                 /\ c["premium_frequency"] = req["premium_frequency"]
  <2> DEFINE c == Converted(req, done, how)
  <2>1. DOMAIN c = RequestFields
    BY <1>1 DEF Converted, Form
  <2>2. \A f \in RequestFields \ {"address"} :
          c[f] = req[f] \/ (f \in NAME_FIELDS /\ c[f] = Native(req[f]))
    BY <1>1 DEF Converted, NativeField, Form, Tasks
  <2> HIDE DEF c
  <2>3. \A f \in SpokenNames : SameWords(c[f], req[f])
    <3>1. \A f \in SpokenNames : SameWords(Native(req[f]), req[f]) /\ SameWords(req[f], req[f])
      BY <1>2, NativeSameWords
    <3> QED
      BY Zenon, <1>3, <2>2, <3>1
  <2>4. \A f \in NumberFields \cup DateFields : c[f] = req[f]
    BY Zenon, <1>3, <2>2
  <2>5. c["premium_frequency"] = req["premium_frequency"]
    BY Zenon, <1>3, <2>2
  <2> QED
    BY <2>1, <2>3, <2>4, <2>5 DEF c
<1>5. CASE p = req
  <2>1. \A f \in SpokenNames : SameWords(req[f], req[f])
    BY <1>2, NativeSameWords
  <2> QED
    BY <1>5, <2>1
<1>6. ASSUME NEW done, NEW how, p = Converted(req, done, how) PROVE
           /\ \A f \in NumberFields \cup DateFields : p[f] = req[f]
           /\ \A f \in SpokenNames : SameWords(p[f], req[f])
           /\ p.premium_frequency = req.premium_frequency
  BY <1>4, <1>6
<1> QED
  BY <1>5, <1>6 DEF Forms

(* What the declaration of a form tells of each field.                      *)
LEMMA ClausesTell ==
    ASSUME NEW lang, NEW p, Form(p), NormalizeFrequency(p.premium_frequency) \in Frequencies
    PROVE  LET c == DeclarationClauses(lang, p)
               key == NormalizeFrequency(p.premium_frequency)
           IN  /\ \A f \in {"policy_term", "sum_insured", "premium_amount"} :
                    Lookup(c, f) = EnsureNumberWords(lang, p[f])
               /\ key # "single" =>
                    Lookup(c, "premium_paying_term") = EnsureNumberWords(lang, p["premium_paying_term"])
               /\ \A f \in DateFields : Lookup(c, f) = FormatDate(lang, p[f])
               /\ \A f \in SpokenNames : Lookup(c, f) = p[f]
               /\ Lookup(c, "premium_frequency") = <<<<key, 0>>>>
<1> DEFINE q == ForDeclaration(lang, p)
           c == DeclarationClauses(lang, p)
           key == NormalizeFrequency(p.premium_frequency)
           sched == IF lang = "hindi" THEN Hi!PremiumSchedule(q) ELSE En!PremiumSchedule(q)
<1>1. /\ \A f \in NumberFields : q[f] = EnsureNumberWords(lang, p[f])
      /\ \A f \in DateFields : q[f] = FormatDate(lang, p[f])
      /\ \A f \in SpokenNames : q[f] = p[f]
      /\ q["premium_frequency"] = p["premium_frequency"]
  <2>1. /\ \A f \in NumberFields : f \in DOMAIN p /\ f \notin DateFields
        /\ \A f \in DateFields : f \in DOMAIN p /\ f \notin NumberFields
        /\ \A f \in SpokenNames : f \in DOMAIN p /\ f \notin NumberFields /\ f \notin DateFields
        /\ "premium_frequency" \in DOMAIN p /\ "premium_frequency" \notin NumberFields /\ "premium_frequency" \notin DateFields
    BY DEF Form, RequestFields, NumberFields, DateFields, SpokenNames
  <2>2. \A f \in DOMAIN p : q[f] = CASE f \in NumberFields -> EnsureNumberWords(lang, p[f])
                                     [] f \in DateFields -> FormatDate(lang, p[f])
                                     [] OTHER -> p[f]
    BY DEF ForDeclaration
  <2> HIDE DEF q
  <2> QED
    BY <2>1, <2>2
<1>2. Form(q)
  BY ForDeclarationType
<1> HIDE DEF q
<1>3. NormalizeFrequency(q.premium_frequency) = key
  BY <1>1
<1>4. Schedules(sched, q, key)
  <2>1. NormalizeFrequency(q.premium_frequency) \in Frequencies
    BY <1>3
  <2>2. Schedules(Hi!PremiumSchedule(q), q, key) /\ Schedules(En!PremiumSchedule(q), q, key)
    BY <1>2, <1>3, <2>1, EnSchedules, HiSchedules
  <2> HIDE DEF key
  <2> QED
    BY Zenon, <2>2
<1>5. c = Declaration(q, sched)
  <2>1. \A s : En!Declaration(q, s) = Declaration(q, s) /\ Hi!Declaration(q, s) = Declaration(q, s)
    BY Zenon DEF En!Declaration, Hi!Declaration, Declaration
  <2> QED
    BY Zenon, <2>1 DEF DeclarationClauses, BuildDeclaration, En!BuildDeclaration, Hi!BuildDeclaration, q
<1> HIDE DEF c, sched, key
<1>6. /\ \A f \in DeclaredFields : Lookup(c, f) = q[f]
      /\ \A f \in PremiumFields : Lookup(c, f) = Lookup(sched, f)
  BY Zenon, <1>2, <1>4, <1>5, DeclarationTells
<1>7. /\ Lookup(c, "premium_amount") = q["premium_amount"]
      /\ Lookup(c, "premium_frequency") = <<<<key, 0>>>>
      /\ key # "single" => Lookup(c, "premium_paying_term") = q["premium_paying_term"]
  BY <1>4, <1>6 DEF Schedules, PremiumFields
<1>8. /\ "policy_term" \in DeclaredFields /\ "sum_insured" \in DeclaredFields
      /\ \A f \in DateFields : f \in DeclaredFields
      /\ \A f \in SpokenNames : f \in DeclaredFields
      /\ {"policy_term", "sum_insured", "premium_amount", "premium_paying_term"} \subseteq NumberFields
  BY DEF DeclaredFields, FixedFields, DateFields, SpokenNames, NumberFields
<1>9. \A f \in {"policy_term", "sum_insured", "premium_amount"} : Lookup(c, f) = EnsureNumberWords(lang, p[f])
  BY <1>1, <1>6, <1>7, <1>8
<1>10. key # "single" => Lookup(c, "premium_paying_term") = EnsureNumberWords(lang, p["premium_paying_term"])
  BY <1>1, <1>7, <1>8
<1>11. \A f \in DateFields : Lookup(c, f) = FormatDate(lang, p[f])
  BY <1>1, <1>6, <1>8
<1>12. \A f \in SpokenNames : Lookup(c, f) = p[f]
  BY <1>1, <1>6, <1>8
<1> QED
  BY <1>7, <1>9, <1>10, <1>11, <1>12 DEF c, key

LEMMA ToldIsLookup == \A s, f : Told(s, f) = Lookup(told[s], f)
BY Zenon DEF Told, Lookup

(* The declaration of an answered start tells the policy of its own         *)
(* request.                                                                 *)
LEMMA PolicyFollows ==
    ASSUME \A r \in Requests : Tellable(r)
    PROVE  StartInv => DeclarationTellsPolicy
<1>1. SUFFICES ASSUME StartInv, NEW s \in Starts, pc[s] = "answered"
      PROVE  LET req == request[s]
                 frequency == NormalizeFrequency(req.premium_frequency)
             IN  /\ \A f \in {"policy_term", "sum_insured", "premium_amount"} : Amount(Told(s, f)) = Amount(req[f])
                 /\ frequency # "single" =>
                      Amount(Told(s, "premium_paying_term")) = Amount(req.premium_paying_term)
                 /\ \A f \in DateFields : DateMeaning(Told(s, f)) = DateMeaning(req[f])
                 /\ \A f \in {"insured_name", "nominee_name", "company", "plan_name"} : SameWords(Told(s, f), req[f])
                 /\ Told(s, "premium_frequency") = <<<<frequency, 0>>>>
  BY DEF DeclarationTellsPolicy
<1> DEFINE req == request[s]
           lang == req.language
           c == told[s]
           key == NormalizeFrequency(req.premium_frequency)
<1>2. PICK p \in Forms(req) : MadeFrom(s, p)
  BY <1>1 DEF StartInv
<1>3. req \in Requests /\ Tellable(req)
  BY <1>1 DEF StartInv
<1>4. c = DeclarationClauses(lang, p)
  BY <1>2 DEF MadeFrom
<1>5. \A f : Told(s, f) = Lookup(c, f)
  BY Zenon, ToldIsLookup
<1> HIDE DEF req, c
<1>6. Form(p)
  BY <1>3, FormsType
<1>7. /\ \A f \in NumberFields \cup DateFields : p[f] = req[f]
      /\ \A f \in SpokenNames : SameWords(p[f], req[f])
      /\ p.premium_frequency = req.premium_frequency
  BY <1>3, FormKeeps
<1>8. key \in Frequencies /\ NormalizeFrequency(p.premium_frequency) = key
  BY <1>3, <1>7 DEF Tellable
<1>9. /\ \A f \in {"policy_term", "sum_insured", "premium_amount"} : Lookup(c, f) = EnsureNumberWords(lang, p[f])
      /\ key # "single" => Lookup(c, "premium_paying_term") = EnsureNumberWords(lang, p["premium_paying_term"])
      /\ \A f \in DateFields : Lookup(c, f) = FormatDate(lang, p[f])
      /\ \A f \in SpokenNames : Lookup(c, f) = p[f]
      /\ Lookup(c, "premium_frequency") = <<<<key, 0>>>>
  <2> HIDE DEF key, lang
  <2> QED
    BY <1>4, <1>6, <1>8, ClausesTell
<1>10. /\ \A f \in NumberFields \cup DateFields : f \in TextFields
       /\ {"policy_term", "sum_insured", "premium_amount", "premium_paying_term"} \subseteq NumberFields
  BY DEF NumberFields, DateFields, TextFields, RequestFields
<1>11. \A f \in NumberFields : Amount(EnsureNumberWords(lang, p[f])) = Amount(req[f])
  <2>1. SUFFICES ASSUME NEW f \in NumberFields PROVE Amount(EnsureNumberWords(lang, p[f])) = Amount(req[f])
    OBVIOUS
  <2>2. req[f] \in Seq(Written)
    BY <1>3, <1>10, RequestsAssumption
  <2>3. "." \notin Kinds(req[f]) /\ (lang = "hindi" \/ "native" \notin Kinds(req[f]))
    BY <1>3 DEF Tellable
  <2>4. p[f] = req[f]
    BY <1>7
  <2> QED
    BY <2>2, <2>3, <2>4, AmountSaid
<1>12. \A f \in DateFields : DateMeaning(FormatDate(lang, p[f])) = DateMeaning(req[f])
  <2>1. SUFFICES ASSUME NEW f \in DateFields PROVE DateMeaning(FormatDate(lang, p[f])) = DateMeaning(req[f])
    OBVIOUS
  <2>2. req[f] \in Seq(Written) /\ Spaced(req[f])
    BY <1>3, <1>10, RequestsAssumption DEF Tellable
  <2>3. p[f] = req[f]
    BY <1>7
  <2> QED
    BY <2>2, <2>3, DateSaid
<1>13. \A f \in {"policy_term", "sum_insured", "premium_amount"} : Amount(Told(s, f)) = Amount(req[f])
  BY Zenon, <1>5, <1>9, <1>10, <1>11
<1>14. key # "single" => Amount(Told(s, "premium_paying_term")) = Amount(req["premium_paying_term"])
  BY Zenon, <1>5, <1>9, <1>10, <1>11
<1>15. \A f \in DateFields : DateMeaning(Told(s, f)) = DateMeaning(req[f])
  BY Zenon, <1>5, <1>9, <1>12
<1>16. \A f \in {"insured_name", "nominee_name", "company", "plan_name"} : SameWords(Told(s, f), req[f])
  BY Zenon, <1>5, <1>7, <1>9 DEF SpokenNames
<1>17. Told(s, "premium_frequency") = <<<<key, 0>>>>
  BY Zenon, <1>5, <1>9
<1> HIDE DEF key
<1> QED
  BY <1>13, <1>14, <1>15, <1>16, <1>17 DEF req, key

(* The declaration tells the policy that was written: amounts, terms,       *)
(* dates, names and schedule (build_declaration, ensure_number_words,       *)
(* format_date), for every request that has a schedule of the table,        *)
(* dates whose numbers do not touch, and amounts in whole rupees.           *)
THEOREM PolicyIsTold ==
    ASSUME \A r \in Requests : Tellable(r)
    PROVE  Spec => []DeclarationTellsPolicy
BY StartInvariant, PolicyFollows, PTL
=============================================================================
