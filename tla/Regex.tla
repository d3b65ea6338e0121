------------------------------- MODULE Regex -------------------------------
(***************************************************************************)
(* dpi/uvm_regex.cc: scopes are globs or, between slashes, regular         *)
(* expressions; a glob becomes an anchored regular expression.  Texts are  *)
(* sequences of characters.  regcomp and regexec are the C library's:      *)
(* here characters, '.', escapes, the repetitions * + ?, the anchors and   *)
(* '|'; groups and bracket expressions are left out.                       *)
(***************************************************************************)
EXTENDS Naturals, Sequences, SequencesExt

UVM_REGEX_MAX_LENGTH == 2048
GLOB_MAX_LENGTH == 2040

bracket == "/"
Bracketed(t) == Len(t) > 1 /\ t[1] = bracket /\ t[Len(t)] = bracket
Inside(t) == SubSeq(t, 2, Len(t) - 1)

-----------------------------------------------------------------------------
\* What the loop over the characters of a glob writes for each.
translation(char) ==
  CASE char = "*" -> <<".", "*">>
    [] char = "+" -> <<".", "+">>
    [] char = "?" -> <<".">>
    [] char \in {".", "[", "]", "(", ")"} -> <<"\\", char>>
    [] OTHER -> <<char>>

\* A glob that is too long is reported and returned as it is.
uvm_glob_to_re(glob) ==
  IF Len(glob) > GLOB_MAX_LENGTH \/ Bracketed(glob) THEN glob
  ELSE IF glob \in {<<>>, <<bracket>>} THEN <<>>
  ELSE LET begin == IF glob[1] = "^" THEN <<>> ELSE <<"^">>
           text  == FlattenSeq([i \in DOMAIN glob |-> translation(glob[i])])
           end   == IF Last(text) = "$" THEN <<>> ELSE <<"$">>
       IN <<bracket>> \o begin \o text \o end \o <<bracket>>

-----------------------------------------------------------------------------
\* A compiled expression is a sequence of parts, each with its repetition.
Repetitions == {"*", "+", "?"}
Part(what, char) == [what |-> what, char |-> char, times |-> "once"]

compile_char(done, char) ==
  IF done.escaped
  THEN [done EXCEPT !.escaped = FALSE, !.parts = Append(@, Part("char", char))]
  ELSE IF char = "\\" THEN [done EXCEPT !.escaped = TRUE]
  ELSE IF char \in Repetitions
  THEN IF done.parts = <<>> \/ Last(done.parts).what \in {"|", "^"}
       THEN [done EXCEPT !.bad = TRUE]
       ELSE [done EXCEPT !.parts[Len(done.parts)].times = char]
  ELSE [done EXCEPT !.parts =
          Append(@, Part(IF char \in {".", "^", "$", "|"} THEN char ELSE "char", char))]

\* "bad" and "escaped" at the end are the errors of regcomp.
regcomp(re) ==
  FoldLeft(compile_char, [parts |-> <<>>, escaped |-> FALSE, bad |-> FALSE], re)

Fits(part, char) == part.what = "." \/ (part.what = "char" /\ part.char = char)

\* Where a match can be after a part, given where it can be before it.
regexec_part(str, from, part) ==
  LET spans(least, most) ==
        {q \in 0 .. Len(str) : \E p \in from :
           /\ q - p \in least .. most
           /\ \A i \in p + 1 .. q : Fits(part, str[i])}
  IN CASE part.what = "^" -> from \cap {0}
       [] part.what = "$" -> from \cap {Len(str)}
       [] OTHER -> CASE part.times = "once" -> spans(1, 1)
                     [] part.times = "?" -> spans(0, 1)
                     [] part.times = "*" -> spans(0, Len(str))
                     [] part.times = "+" -> spans(1, Len(str))

\* A match may begin anywhere, of any of the alternatives.
regexec(parts, str) ==
  LET Bars == {0, Len(parts) + 1} \cup {i \in DOMAIN parts : parts[i].what = "|"}
  IN \E a, b \in Bars :
       /\ a < b /\ \A c \in Bars : c \notin a + 1 .. b - 1
       /\ FoldLeft(LAMBDA from, part : regexec_part(str, from, part),
                   0 .. Len(str), SubSeq(parts, a + 1, b - 1)) # {}

\* 0 is a match; anything else is none.
uvm_re_match(re, str) ==
  IF Len(re) > UVM_REGEX_MAX_LENGTH THEN 1
  ELSE LET rexp == regcomp(IF Bracketed(re) THEN Inside(re) ELSE re)
       IN IF ~rexp.bad /\ ~rexp.escaped /\ regexec(rexp.parts, str) THEN 0 ELSE 1
=============================================================================
