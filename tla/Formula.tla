------------------------------ MODULE Formula ------------------------------
(***************************************************************************)
(* The texts of formulas, internal/rules/expr.go: the lexer and the        *)
(* recursive-descent parser, which makes a tree (Trees.tla) of a text, and *)
(* the splicing of a bound value into a template, which is done on the     *)
(* text (compile.go).                                                      *)
(*                                                                         *)
(* A text is a sequence of units: a digit, a mark, a space, or a letter.   *)
(* A word that no property takes apart is one letter.                      *)
(***************************************************************************)
EXTENDS Trees

CONSTANT MaxExprDepth  \* maxExprDepth

ASSUME FormulaAssumption == MaxExprDepth \in Nat

-----------------------------------------------------------------------------
(* The lexer.                                                              *)

DigitsInOrder == <<"0", "1", "2", "3", "4", "5", "6", "7", "8", "9">>
IsDigit(c) == c \in ToSet(DigitsInOrder)
Marks == {"(", ")", ",", "+", "-", "*", "/", "@", "#", "."}
Foreign == {"{", "}"}   \* units that begin no token
IsIdentStart(c) == ~IsDigit(c) /\ c \notin Marks \cup Foreign \cup {" "}
IsIdentCont(c) == IsIdentStart(c) \/ IsDigit(c)

\* How many units at the head of s are of a class: a maximal munch.
RunLength(s, Is(_)) ==
  CHOOSE n \in 0 .. Len(s) : (\A i \in 1 .. n : Is(s[i])) /\ (n < Len(s) => ~Is(s[n + 1]))

Beyond(s, n) == SubSeq(s, n + 1, Len(s))
Run(s, Is(_)) == SubSeq(s, 1, RunLength(s, Is))

\* strconv.Atoi.
NumberOf(s) ==
  FoldLeft(LAMBDA n, c : 10 * n + (CHOOSE k \in 1 .. 10 : DigitsInOrder[k] = c) - 1, 0, s)

\* A d and a digit right behind a number make one token of the whole dice.
Fused(s) == Len(s) > 1 /\ s[1] = "d" /\ IsDigit(s[2])

DiceToken(n, m, len) ==
  IF n <= MaxGoInt /\ m <= MaxGoInt /\ FitsCount(n) /\ FitsSides(m)
  THEN [is |-> "dice", count |-> n, sides |-> m, len |-> len]
  ELSE Refused

IntToken(n, len) == IF n <= MaxGoInt THEN [is |-> "int", n |-> n, len |-> len] ELSE Refused

LexNumber(s, digits) ==
  LET rest == Beyond(s, Len(digits)) IN
  IF Fused(rest)
  THEN LET sides == Run(Tail(rest), IsDigit)
       IN  DiceToken(NumberOf(digits), NumberOf(sides), Len(digits) + 1 + Len(sides))
  ELSE IntToken(NumberOf(digits), Len(digits))

\* The token at the head of s, and how many units it takes.
NextToken(s) ==
  CASE IsDigit(Head(s)) -> LexNumber(s, Run(s, IsDigit))
    [] IsIdentStart(Head(s)) ->
         [is |-> "name", name |-> Run(s, IsIdentCont), len |-> RunLength(s, IsIdentCont)]
    [] Head(s) \in Marks -> [is |-> Head(s), len |-> 1]
    [] OTHER -> Refused

RECURSIVE Lex(_, _)
LexedOn(s, t, before) == IF t = Refused THEN Refused ELSE Lex(Beyond(s, t.len), Append(before, t))
Lex(s, before) ==
  CASE s = <<>> -> before
    [] s # <<>> /\ Head(s) = " " -> Lex(Tail(s), before)
    [] OTHER -> LexedOn(s, NextToken(s), before)

-----------------------------------------------------------------------------
(* The parser: ts is the tokens, i the next of them, d how deep it is.     *)
(* What was parsed is a tree, where the next token is, and whether it came *)
(* in parentheses of its own.                                              *)

Kind(ts, i) == IF i > Len(ts) THEN "end" ELSE ts[i].is

Parsed(tree, next) == [tree |-> tree, next |-> next, paren |-> FALSE]

\* "d" alone, whose sides are a primary, or "d6", which holds them.
IsDiceOp(ts, i) ==
  Kind(ts, i) = "name" /\ Head(ts[i].name) = "d" /\ \A c \in ToSet(Tail(ts[i].name)) : IsDigit(c)

RECURSIVE Expr(_, _, _), Chain(_, _, _, _), Factor(_, _, _), Primary(_, _, _), Args(_, _, _)

Sums == {"+", "-"}
Products == {"*", "/"}

Operand(ts, i, d, ops) ==
  IF ops = Sums THEN Chain(ts, Factor(ts, i, d), d, Products) ELSE Factor(ts, i, d)

Joined(op, l, r) ==
  IF r = Refused THEN Refused ELSE Parsed(Node(op, <<l.tree, r.tree>>), r.next)

\* The loops of parseExpr and parseTerm: operators of one level, from the left.
Chain(ts, l, d, ops) ==
  IF l # Refused /\ Kind(ts, l.next) \in ops
  THEN Chain(ts, Joined(Kind(ts, l.next), l, Operand(ts, l.next + 1, d, ops)), d, ops)
  ELSE l

Expr(ts, i, d) ==
  IF d >= MaxExprDepth THEN Refused ELSE Chain(ts, Operand(ts, i, d + 1, Sums), d + 1, Sums)

\* A dice that is not in parentheses is no operand of another.
BareDice(p) == Root(p.tree).op = "dice" /\ ~p.paren

\* A literal is held to its bounds at once; what is not known yet, when it is.
LiteralFits(p, Fits(_)) == IsLit(p.tree) => Fits(NumberIn(p.tree))

CountOf(p) == IF BareDice(p) \/ ~LiteralFits(p, FitsCount) THEN Refused ELSE p

Operated(p) == IF p = Refused \/ BareDice(p) \/ ~LiteralFits(p, FitsSides) THEN Refused ELSE p

Sides(ts, i, d) ==
  IF ts[i].name = <<"d">> THEN Operated(Primary(ts, i + 1, d))
  ELSE LET n == NumberOf(Tail(ts[i].name))
       IN  IF n <= MaxGoInt THEN Operated(Parsed(Lit(n), i + 1)) ELSE Refused

\* Two dice in a row are refused, however they are spaced.
Unchained(ts, p) == IF p = Refused \/ IsDiceOp(ts, p.next) THEN Refused ELSE p

Thrown(ts, count, d) ==
  IF count = Refused THEN Refused
  ELSE Unchained(ts, Joined("dice", count, Sides(ts, count.next, d)))

AfterPrimary(ts, l, d) ==
  IF l = Refused \/ ~IsDiceOp(ts, l.next) THEN l ELSE Thrown(ts, CountOf(l), d)

Factor(ts, i, d) ==
  IF d >= MaxExprDepth THEN Refused ELSE AfterPrimary(ts, Primary(ts, i, d + 1), d + 1)

ParsedRef(ts, i) ==
  CASE Kind(ts, i + 1) # "name" -> Refused
    [] Kind(ts, i + 1) = "name" /\ Kind(ts, i + 2) # "." ->
         Parsed(Ref(ts[i].is, "none", ts[i + 1].name), i + 2)
    [] Kind(ts, i + 1) = "name" /\ Kind(ts, i + 2) = "." ->
         IF ts[i + 1].name \in {<<"caster">>, <<"target">>} /\ Kind(ts, i + 3) = "name"
         THEN Parsed(Ref(ts[i].is, ts[i + 1].name[1], ts[i + 3].name), i + 4)
         ELSE Refused

\* The arguments of a call, the first of which is parsed.
ArgsWith(ts, before, e, d) ==
  CASE e = Refused -> Refused
    [] e # Refused /\ Kind(ts, e.next) = "," -> Args(ts, [before EXCEPT !.args = Append(@, e.tree),
                                                                        !.next = e.next + 1], d)
    [] e # Refused /\ Kind(ts, e.next) = ")" ->
         [args |-> Append(before.args, e.tree), next |-> e.next + 1]
    [] OTHER -> Refused
Args(ts, before, d) == ArgsWith(ts, before, Expr(ts, before.next, d), d)

HasArity(f, n) ==
  \/ f \in {<<"floor">>, <<"half">>} /\ n = 1
  \/ f \in {<<"max">>, <<"min">>} /\ n >= 2

Called(f, p) ==
  IF p = Refused \/ ~HasArity(f, Len(p.args)) THEN Refused ELSE Parsed(Node(f[1], p.args), p.next)

Enclosed(ts, e) ==
  IF e = Refused \/ Kind(ts, e.next) # ")" THEN Refused
  ELSE [tree |-> e.tree, next |-> e.next + 1, paren |-> TRUE]

Primary(ts, i, d) ==
  CASE Kind(ts, i) = "int" -> Parsed(Lit(ts[i].n), i + 1)
    [] Kind(ts, i) = "dice" ->
         Parsed(Node("dice", <<Lit(ts[i].count), Lit(ts[i].sides)>>), i + 1)
    [] Kind(ts, i) \in {"@", "#"} -> ParsedRef(ts, i)
    [] Kind(ts, i) = "name" /\ Kind(ts, i + 1) = "(" ->
         Called(ts[i].name, Args(ts, [args |-> <<>>, next |-> i + 2], d))
    [] Kind(ts, i) = "(" -> Enclosed(ts, Expr(ts, i + 1, d))
    [] OTHER -> Refused

\* A formula is all of its text.
Whole(ts, e) == IF e = Refused \/ Kind(ts, e.next) # "end" THEN Refused ELSE e.tree
ParsedWhole(ts) == IF ts = Refused THEN Refused ELSE Whole(ts, Expr(ts, 1, 0))
Parse(s) == ParsedWhole(Lex(s, <<>>))

-----------------------------------------------------------------------------
(* A parameter of a template is bound by splicing text (bindAtom,          *)
(* substTemplate): what is bound has to parse alone, and goes in           *)
(* parentheses.                                                            *)

\* Mutation: a bound text goes in as it is.
SplicedBare(text, bound) ==
  FoldLeft(LAMBDA s, c : IF c = Hole THEN s \o bound ELSE Append(s, c), <<>>, text)

Spliced(text, bound) ==
  FoldLeft(LAMBDA s, c : IF c = Hole THEN s \o <<"(">> \o bound \o <<")">> ELSE Append(s, c),
           <<>>, text)

VARIABLE source   \* a template, and what is bound in it

\* What stands for the hole: an expression like no other.
Marker == <<"@", "x">>

\* t with each leaf that is there replaced.
Instead(t, leaf, by) ==
  FlattenSeq([i \in DOMAIN t |-> IF <<t[i]>> = leaf THEN by ELSE <<t[i]>>])

\* A binding means what it means alone, whatever template it is spliced into: the
\* tree of the whole text is the template's with the binding's in the hole, so no
\* operator around it takes it apart.  Only a literal beyond the bounds of a dice
\* it becomes an operand of makes a good template and a good binding a bad formula.
SplicedAsWritten ==
  Parse(source.bound) # Refused =>
    LET whole == Parse(Spliced(source.text, source.bound))
        shape == Parse(Spliced(source.text, Marker))
        bound == Parse(source.bound)
    IN  /\ whole # Refused =>
             shape # Refused /\ whole = Instead(shape, Parse(Marker), bound)
        /\ whole = Refused => shape = Refused \/ IsLit(bound)

=============================================================================
