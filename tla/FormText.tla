------------------------------ MODULE FormText ------------------------------
(***************************************************************************)
(* The text conventions of the forms (adapter/feishu/pendingforms): a text *)
(* is a sequence of symbols, a symbol a word or a punctuation mark, and    *)
(* surrounding blanks are left out.  Texts are compared without case,      *)
(* several answers travel in one text, separated by commas and escaped,    *)
(* and the marks of a multiple choice travel in the buttons of its card.   *)
(***************************************************************************)
LOCAL INSTANCE Naturals
LOCAL INSTANCE Sequences
LOCAL INSTANCE SequencesExt

Empty == <<>>
Fold(text) == [i \in DOMAIN text |-> IF text[i] = "A" THEN "a" ELSE text[i]]
Same(a, b) == Fold(a) = Fold(b)

\* UniqueToolUserInputParts: without the empty parts and the repeated ones
Unique(parts) ==
  LET Add(out, part) ==
        IF part = Empty \/ \E i \in DOMAIN out : Same(out[i], part)
        THEN out ELSE Append(out, part)
  IN  FoldLeft(Add, <<>>, parts)

\* ToggleToolUserInputMultiDraft: the marks of a question after a press
Toggle(marks, option) ==
  IF \E i \in DOMAIN marks : Same(marks[i], option)
  THEN SelectSeq(marks, LAMBDA m : ~Same(m, option))
  ELSE Append(marks, option)

\* Mutant of EscapeAnswerParts: the commas inside a part are left alone.
JoinAnswerParts(parts) ==
  FoldLeft(LAMBDA text, part : IF text = Empty THEN part
                               ELSE text \o <<",">> \o part, Empty, parts)

EscapeAnswerParts(parts) ==
  LET Mark(s) == IF s \in {",", "\\"} THEN <<"\\", s>> ELSE <<s>>
      Escape(part) == FoldLeft(LAMBDA text, s : text \o Mark(s), Empty, part)
      Join(text, part) ==
        IF text = Empty THEN Escape(part) ELSE text \o <<",">> \o Escape(part)
  IN  FoldLeft(Join, Empty, parts)

SplitAnswerParts(text) ==
  LET Escaped(i) == /\ text[i] = "\\" /\ i < Len(text)
                    /\ text[i + 1] \in {",", "\\"}
      Read(s, i) ==
        IF s.skip THEN [s EXCEPT !.skip = FALSE]
        ELSE IF Escaped(i)
        THEN [s EXCEPT !.part = Append(@, text[i + 1]), !.skip = TRUE]
        ELSE IF text[i] = ","
        THEN [s EXCEPT !.parts = Append(@, s.part), !.part = Empty]
        ELSE [s EXCEPT !.part = Append(@, text[i])]
      end == FoldLeftDomain(Read, [parts |-> <<>>, part |-> Empty, skip |-> FALSE], text)
  IN  SelectSeq(Append(end.parts, end.part), LAMBDA part : part # Empty)
=============================================================================
