-------------------------------- MODULE Lexer --------------------------------
(***************************************************************************)
(* The lexer (src/src/lexer.rs): lines of text become tokens, and the      *)
(* width of a line's indentation becomes Indent and Dedent tokens.         *)
(*                                                                         *)
(* A source is a sequence of lines.  A line has its indentation, w columns *)
(* (a tab counts 4) of style s ("", "spaces", "tabs" or "mixed"), and its  *)
(* words.  A word is what one arm of the lexer's match scans: c is the     *)
(* arm, n its text, i its number, x the fragments of a template; a word    *)
(* that cannot be scanned has the defect in n.                             *)
(***************************************************************************)
EXTENDS Syntax

Line(w, s, ws) == [w |-> w, s |-> s, ws |-> ws]
Word(c, n, i, x) == [c |-> c, n |-> n, i |-> i, x |-> x]
Token(k, n, i, x) == [k |-> k, n |-> n, i |-> i, x |-> x]
Layout(k) == Token(k, "", 0, <<>>)

Keywords == {"type", "store", "persist", "actor", "match", "fn", "and", "or", "true", "false", "is",
             "isnt", "extern", "unsafe", "asm", "ptr", "enum", "err", "return", "trait", "with", "none",
             "if", "elif", "else", "while", "for", "in", "break", "continue", "to", "step", "unless",
             "until", "loop", "when", "extend", "do", "end", "const"}

(* Operators and brackets; a lone = or == is refused with a hint.          *)
Symbols == {"(", ")", "[", "]", ",", ":", ".", "...", "+", "-", "*", "/", "%", "+=", "-=", "*=", "/=",
            ">", ">=", ">>", "<", "<=", "<<", "&", "|", "^", "~", "?", "!", "!!", "@"}

(* i is 1 in a name that begins with a capital letter.                     *)
ScanName(w) == IF w.n \in Keywords THEN Token(w.n, w.n, 0, <<>>) ELSE Token("Identifier", w.n, w.i, <<>>)

(* The largest i64: a literal above it, or one without digits, is refused. *)
(* 7 stands for 2^63 - 1.                                                  *)
MaxInt == 7
ScanNumber(w) ==
    IF w.n = "no digits" \/ w.i > MaxInt THEN Token("Error", "number", 0, <<>>)
    ELSE Token("Integer", "", w.i, <<>>)

(* A string or a bytes literal: unterminated, or with an unknown escape.   *)
ScanText(w) ==
    IF w.n \in {"unterminated", "bad escape"} THEN Token("Error", w.n, 0, <<>>)
    ELSE Token(IF w.c = "bytes" THEN "Bytes" ELSE "String", w.n, 0, <<>>)

(* A template: fragments [n, ws], ws the words of an interpolation (<<>>   *)
(* for a literal fragment).  Without an interpolation it is a String; an   *)
(* interpolation of nothing is refused, and so is one with more than       *)
(* MaxNesting braces open, in the source 64.                               *)
MaxNesting == 2
ScanTemplate(w) ==
    LET bad == \E f \in Elems(w.x) : f.hole /\ (f.ws = <<>> \/ f.depth > MaxNesting)
    IN  CASE bad \/ w.n = "unterminated" -> Token("Error", "template", 0, <<>>)
          [] ~ bad /\ w.n # "unterminated" /\ (\E f \in Elems(w.x) : f.hole) -> Token("Template", "", 0, w.x)
          [] OTHER -> Token("String", IF w.x = <<>> THEN "" ELSE w.x[1].n, 0, <<>>)

(* A placeholder: i is the number written after the $, -1 when there is    *)
(* none.                                                                   *)
ScanHole(w) ==
    IF w.i = 0 THEN Token("Error", "$0", 0, <<>>) ELSE Token("Placeholder", "", IF w.i = -1 THEN 0 ELSE w.i, <<>>)

Scan(w) ==
    CASE w.c = "name" -> ScanName(w)
      [] w.c = "number" -> ScanNumber(w)
      [] w.c \in {"string", "bytes"} -> ScanText(w)
      [] w.c = "template" -> ScanTemplate(w)
      [] w.c = "hole" -> ScanHole(w)
      [] w.c = "symbol" -> IF w.n \in Symbols THEN Token(w.n, w.n, 0, <<>>) ELSE Token("Error", w.n, 0, <<>>)

-----------------------------------------------------------------------------
(* lex: tokens so far, the indentation stack with the style of each level, *)
(* and the first error.                                                    *)
LexState == [ts |-> <<>>, stack |-> <<[w |-> 0, s |-> ""]>>, err |-> ""]
LexFail(st, why) == [st EXCEPT !.err = why]
Top(st) == Last1(st.stack)

(* Dedents down to a level that is no deeper than w.                       *)
RECURSIVE Pop(_, _)
Pop(st, w) ==
    IF w >= Top(st).w THEN st
    ELSE Pop([st EXCEPT !.stack = Front1(@), !.ts = Append(@, Layout("Dedent"))], w)

(* The start of a line.  A blank line changes nothing; a line that holds   *)
(* only a comment is not blank.                                            *)
StartLine(st, l) ==
    LET popped == Pop(st, l.w)
    IN  CASE l.s = "mixed" -> LexFail(st, "mixed indentation")
          [] l.s # "mixed" /\ l.ws = <<>> -> st
          [] l.s # "mixed" /\ l.ws # <<>> /\ l.w > Top(st).w ->
               [st EXCEPT !.stack = Append(@, [w |-> l.w, s |-> l.s]), !.ts = Append(@, Layout("Indent"))]
          [] OTHER ->
               IF l.w # Top(popped).w THEN LexFail(popped, "unaligned")
               ELSE IF "" \notin {l.s, Top(popped).s} /\ l.s # Top(popped).s
               THEN LexFail(popped, "mixed indentation") ELSE popped

(* The words of a line up to a comment, and its Newline.                   *)
LexLine(st, l) ==
    LET begun == StartLine(st, l)
        toks == Each(Scan, SelectSeq(l.ws, LAMBDA w : w.c # "comment"))
        bad == {j \in DOMAIN toks : toks[j].k = "Error"}
    IN  IF begun.err # "" THEN begun
        ELSE IF bad # {} THEN LexFail(begun, toks[CHOOSE j \in bad : \A k \in bad : j <= k].n)
        ELSE [begun EXCEPT !.ts = @ \o toks \o <<Layout("Newline")>>]

(* The last line may lack its newline (closed is FALSE); the levels still  *)
(* open are closed before the end.                                         *)
Finish(st, closed) ==
    LET cut == IF closed \/ st.ts = <<>> THEN st.ts ELSE Front1(st.ts)
        nl == IF cut # <<>> /\ Last1(cut).k = "Newline" THEN cut ELSE Append(cut, Layout("Newline"))
        down == [j \in 1 .. Len(st.stack) - 1 |-> Layout("Dedent")]
    IN  [ts |-> nl \o down \o <<Layout("Eof")>>, err |-> st.err]
Lex(lines, closed) ==
    LET F[j \in 0 .. Len(lines)] ==
            IF j = 0 THEN LexState ELSE IF F[j - 1].err # "" THEN F[j - 1] ELSE LexLine(F[j - 1], lines[j])
    IN  Finish(F[Len(lines)], closed)
=============================================================================
