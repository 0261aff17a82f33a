----------------------------- MODULE TraceFilter -----------------------------
(***************************************************************************)
(* The filter of the register traces                                       *)
(* (crates/litesvm/src/register_tracing_filter.rs): a parser built from    *)
(* combinators and the evaluation of what it parses.  A filter is a        *)
(* sequence of tokens; a condition `field op value` is one token, and text *)
(* that is none of the others is a token that no parser accepts.           *)
(***************************************************************************)
EXTENDS Integers, Sequences, FiniteSets

Symbol(s) == [is |-> s]

Condition(field, op, value) ==
    [is |-> "cond", field |-> field, op |-> op, value |-> value]

-----------------------------------------------------------------------------
(* The parser.  A result is an expression and the tokens that are left.    *)

Fail == [ok |-> FALSE]

Ok(ast, rest) == [ok |-> TRUE, ast |-> ast, rest |-> rest]

StartsWith(ts, s) == ts # <<>> /\ Head(ts).is = s

\* A plausible slip: `||` binds tighter than `&&`.
Separator_Swapped(level) == IF level = "or" THEN "&&" ELSE "||"

\* Conjunctions are the parts of disjunctions.
Separator(level) == IF level = "or" THEN "||" ELSE "&&"

RECURSIVE Factor(_), Items(_, _), Chain(_, _)

\* A group in parentheses or a condition.  The empty filter is no group.
Factor(ts) ==
    IF StartsWith(ts, "(")
    THEN LET e == Chain("or", Tail(ts))
         IN  IF e.ok /\ StartsWith(e.rest, ")") THEN Ok(e.ast, Tail(e.rest)) ELSE Fail
    ELSE IF StartsWith(ts, "cond") THEN Ok(Head(ts), Tail(ts)) ELSE Fail

\* separated_list1: a separator that no item follows is left unread.
Items(level, ts) ==
    LET first == IF level = "or" THEN Chain("and", ts) ELSE Factor(ts)
        more  == Items(level, Tail(first.rest))
    IN  IF ~first.ok THEN Fail
        ELSE IF StartsWith(first.rest, Separator(level)) /\ more.ok
             THEN Ok(<<first.ast>> \o more.ast, more.rest)
             ELSE Ok(<<first.ast>>, first.rest)

\* or_expr and and_expr: a list of one is its only item.
Chain(level, ts) ==
    LET list == Items(level, ts)
    IN  IF ~list.ok THEN Fail
        ELSE IF Len(list.ast) = 1 THEN Ok(list.ast[1], list.rest)
        ELSE Ok([is |-> level, args |-> list.ast], list.rest)

\* expr: nothing may be left; the empty filter matches everything.
Expr(ts) ==
    LET e == Chain("or", ts)
    IN  IF ts = <<>> THEN Ok([is |-> "true"], <<>>)
        ELSE IF e.ok /\ e.rest = <<>> THEN e ELSE Fail

-----------------------------------------------------------------------------
(* The evaluation against a row: a set of values for each field.           *)

Values(row, field) == IF field \in DOMAIN row THEN row[field] ELSE {}

Contradict(x, y) ==
    /\ x.is = "cond" /\ y.is = "cond" /\ x.op = "==" /\ y.op = "=="
    /\ x.field = y.field /\ x.value # y.value

RECURSIVE Eval(_, _)

\* Two direct conditions of a conjunction that ask one field for two values
\* exclude each other, whatever the row holds.
Eval(e, row) ==
    CASE e.is = "true" -> TRUE
      [] e.is = "cond" -> (e.value \in Values(row, e.field)) <=> (e.op = "==")
      [] e.is = "and"  -> /\ \A i, j \in DOMAIN e.args : ~Contradict(e.args[i], e.args[j])
                          /\ \A i \in DOMAIN e.args : Eval(e.args[i], row)
      [] e.is = "or"   -> \E i \in DOMAIN e.args : Eval(e.args[i], row)

-----------------------------------------------------------------------------
(* The reference: a filter is cut at its outermost operators.              *)

Count(ts, n, s) == Cardinality({i \in 1..n : ts[i].is = s})

Outermost(ts, s) ==
    {i \in DOMAIN ts : ts[i].is = s /\ Count(ts, i, "(") = Count(ts, i, ")")}

Parts(ts, s) ==
    LET cuts == {0, Len(ts) + 1} \cup Outermost(ts, s)
    IN  {SubSeq(ts, c[1] + 1, c[2] - 1) :
            c \in {c \in cuts \X cuts : /\ c[1] < c[2]
                                        /\ ~\E b \in cuts : c[1] < b /\ b < c[2]}}

InParentheses(ts) ==
    /\ Len(ts) > 2 /\ ts[1].is = "(" /\ ts[Len(ts)].is = ")"
    /\ \A s \in {"&&", "||"} : Outermost(ts, s) = {}

Inside(ts) == SubSeq(ts, 2, Len(ts) - 1)

RECURSIVE WellFormed(_), Core(_), Means(_, _)

WellFormed(ts) ==
    IF Outermost(ts, "||") # {} THEN \A p \in Parts(ts, "||") : WellFormed(p)
    ELSE IF Outermost(ts, "&&") # {} THEN \A p \in Parts(ts, "&&") : WellFormed(p)
    ELSE IF InParentheses(ts) THEN WellFormed(Inside(ts))
    ELSE Len(ts) = 1 /\ ts[1].is = "cond"

\* A part without the parentheses around it.
Core(ts) == IF InParentheses(ts) THEN Core(Inside(ts)) ELSE ts

Means(ts, row) ==
    IF Outermost(ts, "||") # {} THEN \E p \in Parts(ts, "||") : Means(p, row)
    ELSE IF Outermost(ts, "&&") # {}
    THEN /\ \A p \in Parts(ts, "&&") : Means(p, row)
         /\ \A p, q \in Parts(ts, "&&") :
               Len(Core(p)) = 1 /\ Len(Core(q)) = 1
                   => ~Contradict(Core(p)[1], Core(q)[1])
    ELSE IF InParentheses(ts) THEN Means(Inside(ts), row)
    ELSE IF ts[1].op = "==" THEN ts[1].value \in Values(row, ts[1].field)
    ELSE ts[1].value \notin Values(row, ts[1].field)

=============================================================================
