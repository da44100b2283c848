------------------------------- MODULE Tokenizer -------------------------------
(***************************************************************************)
(* The tokenizer: from characters to tokens, and the tokens written out      *)
(* again.  A behaviour writes a source text character by character.          *)
(*                                                                          *)
(* A character is a word of one letter, or "space", "nl", "quote", "back" for a    *)
(* newline, a double quote and a backslash; each class of characters the    *)
(* code tells apart has a few.  A token keeps its text, a number its base   *)
(* too.  An error leaves no tokens.                                         *)
(***************************************************************************)
EXTENDS Integers, Sequences, SequencesExt

CONSTANT Alphabets   (* sets of characters to write a text of, with its length   *)

VARIABLES
  alphabet,          (* the characters of this text                              *)
  source             (* src_                                                     *)

sourceVars == <<alphabet, source>>

(* What peekChar returns after the end is no character.                        *)
ASSUME AlphabetsAssumption ==
  \A a \in Alphabets : a.size \in Nat /\ "end" \notin a.characters

KInit == alphabet \in Alphabets /\ source = <<>>
WriteCharacter(c) ==
  /\ Len(source) < alphabet.size
  /\ source' = Append(source, c)
  /\ UNCHANGED alphabet
KNext == \E c \in alphabet.characters : WriteCharacter(c)
KSpec == KInit /\ [][KNext]_sourceVars

------------------------------------------------------------------------------
Blanks    == {"space", "nl"}
Digit     == {"0", "1"}
HexDigit  == Digit \cup {"a", "e"}
Letter    == {"a", "e", "n", "x", "_"}
InWord    == Letter \cup Digit
Signs     == {"+", "-"}
Single    == [dot |-> ".", colon |-> ":", lparen |-> "(", rparen |-> ")"]

(* peekChar, with nothing after the end.                                      *)
CharAt(cs, i) == IF i <= Len(cs) THEN cs[i] ELSE "end"

(* The characters from i on that are in S end before this position.           *)
After(cs, i, S) ==
  CHOOSE j \in i .. Len(cs) + 1 :
    CharAt(cs, j) \notin S /\ \A k \in i .. j - 1 : cs[k] \in S

(* How many more of the first n characters are in S than in T.                *)
Balance(cs, S, T) ==
  LET more[n \in 0 .. Len(cs)] ==
        IF n = 0 THEN 0
        ELSE more[n - 1] + (IF cs[n] \in S THEN 1 ELSE IF cs[n] \in T THEN -1 ELSE 0)
  IN more
Lines(cs)  == Balance(cs, {"nl"}, {})
Depths(cs) == Balance(cs, {"("}, {")"})
Newlines(cs, i, j) == Lines(cs)[j - 1] - Lines(cs)[i - 1]
LineAfter(cs) == 1 + Lines(cs)[Len(cs)]

Token(kind, value, line) == [kind |-> kind, text |-> value, line |-> line]

(* Mutant: a comment does not leave the boundary it stands at.                *)
BoundaryOnce(toks) == toks = <<>> \/ toks[Len(toks)].kind \in {"dot", "colon"}

(* atStatementBoundary.                                                       *)
Boundary(toks) == toks = <<>> \/ toks[Len(toks)].kind \in {"dot", "colon", "comment"}

(* A comment ends where its parentheses balance; blanks around it go.         *)
CommentEnds(cs, i) ==
  LET depth == Depths(cs) IN
  {j \in i + 1 .. Len(cs) : depth[j] = depth[i - 1] /\ \A k \in i .. j - 1 : depth[k] > depth[i - 1]}
Trimmed(cs) ==
  LET solid == {k \in DOMAIN cs : cs[k] \notin Blanks} IN
  IF solid = {} THEN <<>>
  ELSE LET from == CHOOSE k \in solid : \A j \in solid : k <= j
           to   == CHOOSE k \in solid : \A j \in solid : k >= j
       IN SubSeq(cs, from, to)

(* A string from i on ends at a quote no backslash stands before.  After a     *)
(* backslash an n is a newline, any other character is itself.                 *)
Unescaped(c) == IF c = "n" THEN "nl" ELSE c
ReadOn(cs, r) ==
  IF CharAt(cs, r.at) \in {"quote", "end"} THEN r
  ELSE IF cs[r.at] = "back" /\ r.at < Len(cs)
  THEN [at |-> r.at + 2, text |-> Append(r.text, Unescaped(cs[r.at + 1]))]
  ELSE [at |-> r.at + 1, text |-> Append(r.text, cs[r.at])]
ReadQuoted(cs, i) ==
  LET after[n \in 0 .. Len(cs)] ==
        IF n = 0 THEN [at |-> i, text |-> <<>>] ELSE ReadOn(cs, after[n - 1])
  IN after[Len(cs)]

(* A number: hexadecimal, or digits with a fraction and an exponent.          *)
Hexadecimal(cs, i) ==
  cs[i] = "0" /\ CharAt(cs, i + 1) = "x" /\ CharAt(cs, i + 2) \in HexDigit
FractionEnd(cs, i) ==
  IF CharAt(cs, i) = "." /\ CharAt(cs, i + 1) \in Digit THEN After(cs, i + 1, Digit) ELSE i
ExponentEnd(cs, i) ==
  LET signed == CharAt(cs, i + 1) \in Signs /\ CharAt(cs, i + 2) \in Digit IN
  IF CharAt(cs, i) # "e" THEN i
  ELSE IF signed THEN After(cs, i + 2, Digit)
  ELSE IF CharAt(cs, i + 1) \in Digit THEN After(cs, i + 1, Digit)
  ELSE i

------------------------------------------------------------------------------
(* The tokenizer at a character: what was read, and whether tokenize has      *)
(* returned or thrown.                                                        *)
Fresh == [at |-> 1, line |-> 1, toks |-> <<>>, over |-> FALSE]

(* Mutant: the newlines of a token are not counted.                            *)
TakeOneLine(cs, s, j, kind, value) ==
  [at |-> j, line |-> s.line, toks |-> Append(s.toks, Token(kind, value, s.line)), over |-> FALSE]

(* The characters up to before j are a token.                                  *)
Take(cs, s, j, kind, value) ==
  [at |-> j, line |-> s.line + Newlines(cs, s.at, j),
   toks |-> Append(s.toks, Token(kind, value, s.line)), over |-> FALSE]

SkipBlank(cs, s) ==
  [at |-> s.at + 1, line |-> s.line + Newlines(cs, s.at, s.at + 1), toks |-> s.toks, over |-> FALSE]
Throw(s)  == [at |-> s.at, line |-> s.line, toks |-> <<>>, over |-> TRUE]
Finish(s) ==
  [at |-> s.at, line |-> s.line, toks |-> Append(s.toks, Token("eof", <<>>, s.line)), over |-> TRUE]

TakeComment(cs, s) ==
  LET ends == CommentEnds(cs, s.at)
      j    == CHOOSE k \in ends : TRUE
  IN IF ends = {} THEN Throw(s)
     ELSE Take(cs, s, j + 1, "comment", Trimmed(SubSeq(cs, s.at + 1, j - 1)))

TakeSingle(cs, s) ==
  Take(cs, s, s.at + 1, CHOOSE kind \in DOMAIN Single : Single[kind] = cs[s.at], <<cs[s.at]>>)

TakeString(cs, s) ==
  LET q == ReadQuoted(cs, s.at + 1) IN
  IF q.at > Len(cs) THEN Throw(s) ELSE Take(cs, s, q.at + 1, "string", q.text)

TakeNumber(cs, s) ==
  LET whole == After(cs, s.at, Digit)
      j     == ExponentEnd(cs, FractionEnd(cs, whole))
      h     == After(cs, s.at + 2, HexDigit)
  IN IF Hexadecimal(cs, s.at) THEN Take(cs, s, h, "hex", SubSeq(cs, s.at + 2, h - 1))
     ELSE Take(cs, s, j, IF j > whole THEN "float" ELSE "number", SubSeq(cs, s.at, j - 1))

TakeWord(cs, s) ==
  LET j == After(cs, s.at, InWord) IN Take(cs, s, j, "ident", SubSeq(cs, s.at, j - 1))

Scan(cs, s) ==
  LET c == CharAt(cs, s.at) IN
  CASE s.over                        -> s
    [] ~ s.over /\ c = "end"         -> Finish(s)
    [] ~ s.over /\ c \in Blanks \cup {","} -> SkipBlank(cs, s)
    [] ~ s.over /\ c = "(" /\ Boundary(s.toks) -> TakeComment(cs, s)
    [] ~ s.over /\ (c \in {".", ")", ":"} \/ (c = "(" /\ ~ Boundary(s.toks))) -> TakeSingle(cs, s)
    [] ~ s.over /\ c = "quote"       -> TakeString(cs, s)
    [] ~ s.over /\ c \in Digit       -> TakeNumber(cs, s)
    [] ~ s.over /\ c \in Letter      -> TakeWord(cs, s)
    [] OTHER                         -> Throw(s)

(* Every turn of the loop but the last leaves characters behind.                *)
Tokenize(cs) ==
  LET after[n \in 0 .. Len(cs) + 1] == IF n = 0 THEN Fresh ELSE Scan(cs, after[n - 1])
  IN after[Len(cs) + 1].toks

------------------------------------------------------------------------------
(* Tokens written out again, each on its own line and apart from the next.     *)

Escaped(c) ==
  CASE c = "nl" -> <<"back", "n">>
    [] c \in {"quote", "back"} -> <<"back", c>>
    [] OTHER -> <<c>>
SpelledOut(tok) ==
  CASE tok.kind = "string"  ->
         <<"quote">> \o FlattenSeq([k \in DOMAIN tok.text |-> Escaped(tok.text[k])]) \o <<"quote">>
    [] tok.kind = "comment" -> <<"(">> \o tok.text \o <<")">>
    [] tok.kind = "hex"     -> <<"0", "x">> \o tok.text
    [] OTHER                -> tok.text
LineBefore(toks, k) ==
  IF k = 1 THEN 1 ELSE toks[k - 1].line + LineAfter(SpelledOut(toks[k - 1])) - 1
Gap(toks, k) ==
  LET lines == toks[k].line - LineBefore(toks, k) IN
  IF lines <= 0 THEN <<"space">> ELSE [n \in 1 .. lines |-> "nl"]
Respelled(toks) == FlattenSeq([k \in DOMAIN toks |-> Gap(toks, k) \o SpelledOut(toks[k])])

Uncommented(toks) ==
  FlattenSeq([k \in DOMAIN toks |-> IF toks[k].kind = "comment" THEN <<>> ELSE <<toks[k]>>])

(* Tokens do not depend on how they are laid out: written out one by one, on   *)
(* the lines they carry, they are read as the same tokens on the same lines,   *)
(* and the last line is counted however the newlines before it are written     *)
(* (tokenizer.cpp: where a number, a word, a string and a comment end, what    *)
(* an escape stands for, and the newlines inside strings and comments).        *)
LayoutFree ==
  LET toks == Tokenize(source) IN
  toks # <<>> =>
    /\ Tokenize(Respelled(toks)) = toks
    /\ toks[Len(toks)].line = LineAfter(source)

(* Without its comments a text has the same other tokens: a comment leaves     *)
(* what stands after it where it was, at the start of a sentence               *)
(* (atStatementBoundary of tokenizer.cpp).                                     *)
CommentsDropped ==
  LET plain == Uncommented(Tokenize(source)) IN
  plain # <<>> => Tokenize(Respelled(plain)) = plain
==============================================================================
