------------------------------- MODULE Trees -------------------------------
(***************************************************************************)
(* What a formula is once it is parsed, and what it comes to: the trees of *)
(* internal/rules/expr.go and their evaluation.                            *)
(*                                                                         *)
(* A tree is the sequence of its nodes, each behind the trees of its       *)
(* operands, which is the order evalTree comes to them in; of is how many  *)
(* operands a node takes.  An error is Refused, whatever it says.          *)
(***************************************************************************)
EXTENDS Integers, Sequences, SequencesExt

CONSTANTS MaxGoInt,      \* the largest int of the build
          MaxDiceCount,  \* maxDiceCount
          MaxDiceSides,  \* maxDiceSides
          Refused        \* an error

ASSUME TreesAssumption ==
  MaxGoInt \in Nat /\ MaxDiceCount \in Nat \ {0} /\ MaxDiceSides \in Nat \ {0}

\* What an int holds of n: Go's arithmetic wraps.
Wrapped(n) == ((n + MaxGoInt + 1) % (2 * (MaxGoInt + 1))) - (MaxGoInt + 1)

FitsCount(n) == n \in 1 .. MaxDiceCount
FitsSides(n) == n \in 1 .. MaxDiceSides

-----------------------------------------------------------------------------
(* Trees.                                                                  *)

Lit(n) == <<[op |-> "int", n |-> n]>>
Ref(sigil, scope, name) == <<[op |-> "ref", ref |-> <<sigil, scope, name>>]>>
Node(op, args) == Append(FlattenSeq(args), [op |-> op, of |-> Len(args)])

Words == Seq(STRING)
Nodes == [op : {"int"}, n : Int]
           \cup [op : {"ref"}, ref : STRING \X STRING \X Words]
           \cup [op : {"+", "-", "*", "/", "dice"}, of : {2}]
           \cup [op : {"floor", "half"}, of : {1}]
           \cup [op : {"max", "min"}, of : Nat \ {0, 1}]
Exprs == Seq(Nodes) \ {<<>>}

Root(t) == t[Len(t)]
IsLit(t) == Root(t).op = "int"
NumberIn(t) == Root(t).n

\* What a parameter of a template is to be bound in.
Hole == "{}"

\* ScopedRefs: a dice's count and sides included.
RefsOf(t) == {x.ref : x \in {y \in ToSet(t) : y.op = "ref"}}
ScopesOf(t) == {r[2] : r \in RefsOf(t)}

HasDice(t) == \E x \in ToSet(t) : x.op = "dice"

-----------------------------------------------------------------------------
(* What a tree comes to.                                                   *)

\* Rounded down, whatever the signs; Go's own division truncates.
FloorDiv(a, b) == IF b > 0 THEN a \div b ELSE (-a) \div (-b)

Largest(ns) == CHOOSE n \in ToSet(ns) : \A m \in ToSet(ns) : n >= m
Smallest(ns) == CHOOSE n \in ToSet(ns) : \A m \in ToSet(ns) : n <= m

\* A value, and how many dice were rolled for it.  The roller's total is any from
\* count ones up; luck says how much of the rest the dice show, none or all.
Value(n, dice) == [n |-> n, dice |-> dice]

Rolled(count, sides, luck) ==
  IF FitsCount(count) /\ FitsSides(sides)
  THEN Value(count + luck * count * (sides - 1), count) ELSE Refused

Applied(op, ns, luck) ==
  CASE op = "+" -> Value(Wrapped(ns[1] + ns[2]), 0)
    [] op = "-" -> Value(Wrapped(ns[1] - ns[2]), 0)
    [] op = "*" -> Value(Wrapped(ns[1] * ns[2]), 0)
    [] op = "/" -> IF ns[2] = 0 THEN Refused ELSE Value(Wrapped(FloorDiv(ns[1], ns[2])), 0)
    [] op = "dice" -> Rolled(ns[1], ns[2], luck)
    [] op = "floor" -> Value(ns[1], 0)
    [] op = "half" -> Value(FloorDiv(ns[1], 2), 0)
    [] op = "max" -> Value(Largest(ns), 0)
    [] op = "min" -> Value(Smallest(ns), 0)
    [] OTHER -> Refused

DiceOf(vs) == FoldLeft(LAMBDA n, v : n + v.dice, 0, vs)
WithDice(v, dice) == IF v = Refused THEN Refused ELSE [v EXCEPT !.dice = @ + dice]

Combined(op, vs, luck) ==
  WithDice(Applied(op, [i \in DOMAIN vs |-> vs[i].n], luck), DiceOf(vs))

\* The values the nodes so far came to, with those of x's operands replaced by x's.
\* ctx gives a value to each ref that resolves.
Evaluated(values, x, ctx, luck) ==
  LET under == Len(values) - (IF x.op \in {"int", "ref"} THEN 0 ELSE x.of)
      v == CASE x.op = "int" -> Value(x.n, 0)
             [] x.op = "ref" -> IF x.ref \in DOMAIN ctx THEN Value(ctx[x.ref], 0) ELSE Refused
             [] OTHER -> Combined(x.op, SubSeq(values, under + 1, Len(values)), luck)
  IN  IF under < 0 \/ v = Refused THEN Refused ELSE Append(SubSeq(values, 1, under), v)

EvaluatedAll(t, ctx, luck) ==
  FoldLeft(LAMBDA values, x : IF values = Refused THEN Refused ELSE Evaluated(values, x, ctx, luck),
           <<>>, t)

ValueIn(values) == IF values = Refused THEN Refused ELSE values[1]
Eval(t, ctx, luck) == ValueIn(EvaluatedAll(t, ctx, luck))
=============================================================================
