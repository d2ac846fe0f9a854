------------------------------- MODULE Parser -------------------------------
(***************************************************************************)
(* parse of note-2.js (src/CS-61A/src/notes/note-2.js): an s-expression    *)
(* string becomes an AST by the top-level tests isVariable and             *)
(* isSelfEvaluating of lesson 5 or, for anything else, by four regex       *)
(* rewrites followed by JS eval of the text they produce.                  *)
(*                                                                         *)
(* A string is a sequence of glyphs: a glyph is one character, or a run of *)
(* letters written as one glyph ("define").  Every regex of parse treats   *)
(* a character by its class only (white space, parenthesis, digit, other) *)
(* and matches maximal runs of a class, so a run of letters behaves as one *)
(* glyph of that class.  A digit is a glyph of its own.  The quote glyph   *)
(* "'" is a glyph of its own, since JS eval reads it as a string quote.   *)
(* eval is modelled for the JavaScript its input can be: array literals   *)
(* with elisions, string and decimal literals, identifiers, property      *)
(* access and the comma operator.                                          *)
(***************************************************************************)
EXTENDS JSValues
LOCAL INSTANCE SequencesExt
LOCAL INSTANCE JSNumbers

CONSTANTS
  IdentifierGlyphs, \* glyphs that are JS identifier names, none a JS global
  VariableGlyphs    \* glyphs whose characters all match [a-zA-Z0-9_$+*/\-]

Space == " "

(* The first n glyphs of t dropped; the length of the longest prefix of t *)
(* made of glyphs of S, and of glyphs not in S.                           *)
After(t, n)    == SubSeq(t, n + 1, Len(t))
RunIn(t, S)    == LET i == SelectInSeq(t, LAMBDA g : g \notin S) IN IF i = 0 THEN Len(t) ELSE i - 1
RunNotIn(t, S) == LET i == SelectInSeq(t, LAMBDA g : g \in S) IN IF i = 0 THEN Len(t) ELSE i - 1

(* The string a sequence of glyphs spells.                                *)
Join(gs) == IF gs = <<>> THEN "" ELSE FlattenSeq(gs)

DecimalValue(ds) == FoldLeft(LAMBDA acc, d : 10 * acc + DigitValue[d], 0, ds)

RECURSIVE TrimLeft(_)
TrimLeft(s) == IF s # <<>> /\ Head(s) = Space THEN TrimLeft(Tail(s)) ELSE s

(* String.prototype.trim.                                                 *)
trim(s) == Reverse(TrimLeft(Reverse(TrimLeft(s))))

(* Number(s) of a string: white space around a decimal literal with an    *)
(* optional sign; the empty string is 0.  Inputs hold no glyph of the     *)
(* other numeric literals (".", "e", "x" after "0", Infinity).            *)
NumberOf(s) ==
  LET t == trim(s)
      Unsigned(ds) == ds # <<>> /\ \A i \in DOMAIN ds : ds[i] \in Digits
  IN CASE t = <<>>                                 -> Num(0)
       [] Unsigned(t)                              -> Num(DecimalValue(t))
       [] Head(t) = "+" /\ Unsigned(Tail(t))       -> Num(DecimalValue(Tail(t)))
       [] Head(t) = "-" /\ Unsigned(Tail(t))       -> Num(-DecimalValue(Tail(t)))
       [] OTHER                                    -> NaN

(* isSelfEvaluating and isVariable of lesson 5 on a string.               *)
isSelfEvaluating(exp) == NumberOf(exp) # NaN \/ (exp # <<>> /\ exp[1] = "'")
(* Mutant: the regex without its anchors ^ and $.                          *)
isVariableUnanchored(exp) == \E i \in DOMAIN exp : exp[i] \in VariableGlyphs \cup Digits
isVariable(exp) == exp # <<>> /\ \A i \in DOMAIN exp : exp[i] \in VariableGlyphs \cup Digits

(* Mutant: the closing parenthesis left as it is.                         *)
BracketsOpenOnly(s) == ReplaceAll(s, "(", "[")

(* .replace(/\(/g, "[").replace(/\)/g, "]")                                 *)
Brackets(s) == ReplaceAll(ReplaceAll(s, "(", "["), ")", "]")

(* .replace(/\s+/g, ","): every run of white space becomes one comma.      *)
Commas(s) ==
  LET kept == SelectSeq([i \in 1..Len(s) |-> i],
                        LAMBDA i : ~(s[i] = Space /\ i > 1 /\ s[i - 1] = Space))
  IN [j \in 1..Len(kept) |-> IF s[kept[j]] = Space THEN "," ELSE s[kept[j]]]

(* Each maximal run of glyphs not in Excluded is put in quotes when a     *)
(* glyph of Follow comes right after it.                                   *)
QuoteRunsBefore(s, Excluded, Follow) ==
  LET Unquotable(g)  == g \in Excluded
      Quotable(g)    == ~Unquotable(g)
      RunStart(i) == Quotable(s[i]) /\ (i = 1 \/ Unquotable(s[i - 1]))
      RunEnd(i)   == Quotable(s[i]) /\ (i = Len(s) \/ Unquotable(s[i + 1]))
      End(i)      == CHOOSE e \in i..Len(s) : RunEnd(e) /\ \A j \in i..e : Quotable(s[j])
      Quoted(e)   == e < Len(s) /\ s[e + 1] \in Follow
  IN FlattenSeq([i \in 1..Len(s) |->
       (IF RunStart(i) /\ Quoted(End(i)) THEN <<"\"">> ELSE <<>>) \o <<s[i]>>
       \o (IF RunEnd(i) /\ Quoted(i) THEN <<"\"">> ELSE <<>>)])

(* Mutant: the lookahead (?=(,|\])) without its "]".                       *)
QuoteCommaOnly(s) == QuoteRunsBefore(s, {",", "[", "]"} \cup Digits, {","})

(* Mutant: the class [^,\[\]] without the digits.                          *)
QuoteDigitsToo(s) == QuoteRunsBefore(s, {",", "[", "]"}, {",", "]"})

(* .replace(/([^,\[\]0-9]+?(?=(,|\])))/g, '"$1"'): the lazy match from a   *)
(* position succeeds only at the end of the run of the class it starts in, *)
(* so a maximal run is put in quotes when a "," or "]" follows it, and     *)
(* left as it is when a digit, a "[" or the end of the text follows it.    *)
Quote(s) == QuoteRunsBefore(s, {",", "[", "]"} \cup Digits, {",", "]"})

-----------------------------------------------------------------------------
(* eval: the lexical grammar.  A token is [punct], [lit] (a string or a   *)
(* number), [id], or [error] (the SyntaxError that ends scanning, or a    *)
(* character of JS the model does not cover).                              *)
RECURSIVE Lex(_)
Lex(t) ==
  IF t = <<>> THEN <<>>
  ELSE LET g == Head(t) IN
    CASE g \in {"[", "]", ","} -> <<[punct |-> g]>> \o Lex(Tail(t))
      [] g \in {"\"", "'"} ->
           LET close == SelectInSeq(Tail(t), LAMBDA h : h = g)
           IN IF close = 0 THEN <<[error |-> "SyntaxError"]>>
              ELSE <<[lit |-> Str(Join(SubSeq(Tail(t), 1, close - 1)))]>> \o Lex(After(t, close + 1))
      [] g \in Digits ->
           LET n == RunIn(t, Digits)
           IN IF n < Len(t) /\ t[n + 1] \in IdentifierGlyphs THEN <<[error |-> "SyntaxError"]>>
              ELSE <<[lit |-> Num(DecimalValue(SubSeq(t, 1, n)))]>> \o Lex(After(t, n))
      [] g \in IdentifierGlyphs ->
           LET n == RunIn(t, IdentifierGlyphs \cup Digits)
           IN <<[id |-> Join(SubSeq(t, 1, n))]>> \o Lex(After(t, n))
      [] OTHER -> <<[error |-> "Unmodelled"]>>

(* The syntactic grammar, by recursive descent:                           *)
(*   Expression ::= Element ("," Element)*       (the comma operator)      *)
(*   Element    ::= (literal | identifier | Array) ("[" Expression "]")*   *)
(*   Array      ::= "[" (Element | ",")* "]"     (a "," with no element    *)
(*                                                before it is a hole)     *)
Fail == [ok |-> FALSE]
Ok(tree, rest) == [ok |-> TRUE, tree |-> tree, rest |-> rest]
Is(ts, p) == ts # <<>> /\ Head(ts) = [punct |-> p]
Hole == [hole |-> TRUE]

RECURSIVE Expression(_), Element(_), Accessors(_, _), ArrayRest(_, _, _)
Element(ts) ==
  CASE ts = <<>>                                     -> Fail
    [] "lit" \in DOMAIN Head(ts) \/ "id" \in DOMAIN Head(ts) -> Accessors(Head(ts), Tail(ts))
    [] Is(ts, "[") -> LET a == ArrayRest(Tail(ts), <<>>, TRUE)
                      IN IF a.ok THEN Accessors(a.tree, a.rest) ELSE Fail
    [] OTHER                                         -> Fail
Accessors(obj, ts) ==
  IF Is(ts, "[")
  THEN LET e == Expression(Tail(ts))
       IN IF e.ok /\ Is(e.rest, "]") THEN Accessors([obj |-> obj, key |-> e.tree], Tail(e.rest))
          ELSE Fail
  ELSE Ok(obj, ts)
ArrayRest(ts, elems, expecting) ==
  CASE Is(ts, "]") -> Ok([elems |-> elems], Tail(ts))
    [] Is(ts, ",") -> ArrayRest(Tail(ts), IF expecting THEN Append(elems, Hole) ELSE elems, TRUE)
    [] expecting   -> LET e == Element(ts)
                      IN IF e.ok THEN ArrayRest(e.rest, Append(elems, e.tree), FALSE) ELSE Fail
    [] OTHER       -> Fail
Expression(ts) ==
  LET e == Element(ts) IN
  IF e.ok /\ Is(e.rest, ",")
  THEN LET r == Expression(Tail(e.rest))
       IN IF r.ok THEN Ok([comma |-> <<e.tree, r.tree>>], r.rest) ELSE Fail
  ELSE e

(* obj[key]: a TypeError on undefined; an array index or length of an     *)
(* array; undefined for any other key and on a number.                    *)
GetProperty(o, k) ==
  LET key == JSToString(k) IN
  CASE IsNullish(o)                                          -> Throw("TypeError")
    [] IsArr(o) /\ \E i \in DOMAIN o.arr : ToString(i - 1) = key
         -> o.arr[CHOOSE i \in DOMAIN o.arr : ToString(i - 1) = key]
    [] IsArr(o) /\ key = "length"                            -> Num(Len(o.arr))
    [] IsArr(o) \/ IsNum(o)                                  -> JSUndefined
    [] OTHER                                                 -> Throw("Unmodelled")

(* Evaluation, left to right; an identifier is a ReferenceError.  A hole  *)
(* is read as undefined.                                                   *)
RECURSIVE Evaluate(_), EvaluateAll(_)
Evaluate(e) ==
  CASE "lit" \in DOMAIN e   -> e.lit
    [] "id" \in DOMAIN e    -> Throw("ReferenceError")
    [] "elems" \in DOMAIN e -> LET vs == EvaluateAll(e.elems) IN IF IsThrow(vs) THEN vs ELSE Arr(vs.vals)
    [] "comma" \in DOMAIN e -> LET l == Evaluate(e.comma[1]) IN IF IsThrow(l) THEN l ELSE Evaluate(e.comma[2])
    [] "obj" \in DOMAIN e   -> LET o == Evaluate(e.obj)
                                   k == Evaluate(e.key)
                               IN CASE IsThrow(o) -> o [] IsThrow(k) -> k [] OTHER -> GetProperty(o, k)
EvaluateAll(es) ==
  IF es = <<>> THEN [vals |-> <<>>]
  ELSE LET h == IF Head(es) = Hole THEN JSUndefined ELSE Evaluate(Head(es))
           r == EvaluateAll(Tail(es))
       IN CASE IsThrow(h) -> h [] IsThrow(r) -> r [] OTHER -> [vals |-> <<h>> \o r.vals]

(* eval(text): a SyntaxError before anything runs, else the value of the  *)
(* program; the empty program is undefined.                               *)
eval(text) ==
  LET ts == Lex(text) IN
  CASE ts = <<>>                   -> JSUndefined
    [] "error" \in DOMAIN Last(ts) -> Throw(Last(ts).error)
    [] OTHER -> LET e == Expression(ts)
                IN IF e.ok /\ e.rest = <<>> THEN Evaluate(e.tree) ELSE Throw("SyntaxError")

(* parse(exp).                                                             *)
parse(exp) ==
  IF isVariable(exp) \/ isSelfEvaluating(exp)
  THEN IF \E i \in DOMAIN exp : exp[i] \in Digits THEN NumberOf(exp) ELSE Str(Join(exp))
  ELSE eval(Quote(Commas(Brackets(trim(exp)))))

=============================================================================
