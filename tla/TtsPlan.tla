------------------------------ MODULE TtsPlan ------------------------------
(* The speech plan of an agent text: the text split at its <var> spans into  *)
(* plain and slow parts, each part [slow, text].  Speed and voice are left   *)
(* out.                                                                      *)
EXTENDS Sequences, SequencesExt

Silence == [kind |-> "silence", text |-> <<>>, slow |-> FALSE]
Speech(part) == [kind |-> "speech", text |-> part.text, slow |-> part.slow]

(* strip_var_markup: what the transcript keeps of a text.                    *)
StripVarMarkup(parts) == FlattenSeq([i \in DOMAIN parts |-> parts[i].text])

(* Faulty variant: the words of a slow part are lost between its silences.   *)
SegmentsPaused(part) ==
  IF part.slow THEN <<Silence, Silence>> ELSE <<Speech(part)>>

(* An empty part says nothing and brings no silences.                        *)
Segments(part) ==
  IF part.text = <<>> THEN <<>>
  ELSE IF part.slow THEN <<Silence, Speech(part), Silence>>
  ELSE <<Speech(part)>>

BuildTtsPlan(parts) == FlattenSeq([i \in DOMAIN parts |-> Segments(parts[i])])
=============================================================================
