------------------------------- MODULE FastExp -------------------------------
(* Fast_exp (fastexp.hpp): an expression is read from left to right into     *)
(* reverse polish order (_stack_rpn), which is then run on an array of       *)
(* values (resolve).                                                         *)
(*                                                                           *)
(* A token stands for what the code scans at once: "x" for a number or a     *)
(* name, "f" for a word that "(" follows, "-" for the signs, "*" and "^" for *)
(* the other operators.  A value is the term it was computed by, so that two *)
(* values are equal only if they come from the same computation.             *)
EXTENDS SequencesExt, Integers

CONSTANT MaxTokens  \* bound on the length of an expression

ASSUME FastExpAssumption == MaxTokens \in Nat \ {0}

VARIABLES exp,      \* what has been read of exp
          holding,  \* operators and "(" that wait, the last one first
          _rpn,
          par,
          prevTyp,  \* prev_typ
          parsed,   \* "reading", or what parse has returned
          result    \* of resolve: a term, Fails, Outside, or Nothing yet

evars == <<exp, holding, _rpn, par, prevTyp, parsed, result>>

Sym(val, prio, argc) == [val |-> val, prio |-> prio, argc |-> argc]
Nothing == <<>>
Fails   == <<"fails">>
Outside == <<"outside">>

EInit == /\ exp = <<>> /\ holding = <<>> /\ _rpn = <<>> /\ par = 0
         /\ prevTyp = "unknown" /\ parsed = "reading" /\ result = Nothing

-----------------------------------------------------------------------------
(* parse *)

AfterWord == IF exp = <<>> THEN FALSE ELSE Last(exp) = "f"

Scans(tok) == /\ parsed = "reading"
              /\ Len(exp) < MaxTokens
              /\ AfterWord => tok = "("
              /\ exp' = Append(exp, tok)
              /\ UNCHANGED <<parsed, result>>

\* Mutant: operators of the same priority wait for each other.
DrainedAbove(pr) ==
  LET stops == {i \in DOMAIN holding :
                  holding[i].val = "(" \/ holding[i].prio <= pr}
  IN IF stops = {} THEN Len(holding) ELSE Min(stops) - 1

\* How many of the waiting operators go before one of priority pr.
Drained(pr) ==
  LET stops == {i \in DOMAIN holding :
                  holding[i].val = "(" \/ holding[i].prio < pr}
  IN IF stops = {} THEN Len(holding) ELSE Min(stops) - 1

Pushes(sym) ==
  LET n == Drained(sym.prio)
  IN /\ _rpn' = _rpn \o SubSeq(holding, 1, n)
     /\ holding' = <<sym>> \o SubSeq(holding, n + 1, Len(holding))
     /\ prevTyp' = "op"
     /\ UNCHANGED par

Operand == /\ Scans("x")
           /\ _rpn' = Append(_rpn, Sym("x", 0, 0))
           /\ prevTyp' = "value"
           /\ UNCHANGED <<holding, par>>

Function == Scans("f") /\ Pushes(Sym("f", 254, 1))

Priority == [c \in {"^", "*", "-"} |->
               CASE c = "^" -> 12 [] c = "*" -> 11 [] c = "-" -> 10]

IsUnary(c) == c = "-" /\ prevTyp \notin {"value", "parc"}

Operator(c) == /\ Scans(c)
               /\ Pushes(IF IsUnary(c) THEN Sym(c, 255, 1)
                                       ELSE Sym(c, Priority[c], 2))

ParOpen == /\ Scans("(")
           /\ holding' = <<Sym("(", 0, 0)>> \o holding
           /\ par' = par + 1
           /\ prevTyp' = "paro"
           /\ UNCHANGED _rpn

ParClose ==
  /\ par > 0
  /\ Scans(")")
  /\ LET n == Min({i \in DOMAIN holding : holding[i].val = "("})
     IN /\ _rpn' = _rpn \o SubSeq(holding, 1, n - 1)
        /\ holding' = SubSeq(holding, n + 1, Len(holding))
  /\ par' = par - 1
  /\ prevTyp' = "parc"

\* A character of no token, a malformed number, or a ")" too many.  What was
\* put into _rpn stays there.
Reject == /\ parsed = "reading"
          /\ parsed' = "badarg"
          /\ UNCHANGED <<exp, holding, _rpn, par, prevTyp, result>>

Finish ==
  /\ parsed = "reading"
  /\ ~AfterWord
  /\ IF par = 0 THEN parsed' = "ok" /\ _rpn' = _rpn \o holding
                ELSE parsed' = "badarg" /\ UNCHANGED _rpn
  /\ UNCHANGED <<exp, holding, par, prevTyp, result>>

\* A later parse on the same object begins with an empty _rpn.
ParseAgain == /\ parsed # "reading"
              /\ exp' = <<>> /\ holding' = <<>> /\ _rpn' = <<>> /\ par' = 0
              /\ prevTyp' = "unknown" /\ parsed' = "reading"
              /\ result' = Nothing

-----------------------------------------------------------------------------
(* resolve *)

\* One symbol on the array of values; Outside for good once it is read or
\* written below its first element.
Collapse(values, sym) ==
  IF values = <<Outside>> \/ Len(values) < sym.argc THEN <<Outside>>
  ELSE LET n == Len(values) - sym.argc
       IN Append(SubSeq(values, 1, n),
                 <<sym.val>> \o SubSeq(values, n + 1, Len(values)))

Resolved == LET values == FoldLeft(Collapse, <<>>, _rpn)
            IN IF values = <<>> THEN Outside ELSE Last(values)

\* Nothing in the code keeps resolve from a parse that failed.  It fails if
\* the callback does not know a name.
Resolve == /\ parsed # "reading"
           /\ result = Nothing
           /\ \/ result' = Resolved
              \/ result' = Fails /\ \E i \in DOMAIN _rpn : _rpn[i].val = "x"
           /\ UNCHANGED <<exp, holding, _rpn, par, prevTyp, parsed>>

ENext == \/ Operand \/ Function \/ ParOpen \/ ParClose
         \/ \E c \in DOMAIN Priority : Operator(c)
         \/ Reject \/ Finish \/ ParseAgain \/ Resolve

-----------------------------------------------------------------------------
(* What an expression means: operators of one priority from the left, a sign *)
(* before all of them.                                                       *)

Count(s, i, tok) == Cardinality({j \in 1..i : s[j] = tok})
Depth(s, i) == Count(s, i, "(") - Count(s, i, ")")

Enclosed(s) == /\ Len(s) > 1 /\ s[1] = "(" /\ Depth(s, Len(s)) = 0
               /\ \A i \in 1..Len(s) - 1 : Depth(s, i) > 0

Splits(s) == {i \in 2..Len(s) : /\ s[i] \in DOMAIN Priority
                                /\ s[i - 1] \in {"x", ")"}
                                /\ Depth(s, i) = 0}

Term(op, args) == IF Nothing \in ToSet(args) THEN Nothing ELSE <<op>> \o args

RECURSIVE Meaning(_)
Meaning(s) ==
  IF s = <<"x">> THEN s
  ELSE IF Splits(s) # {} THEN
    LET i == Max({j \in Splits(s) :
                    \A k \in Splits(s) : Priority[s[j]] <= Priority[s[k]]})
    IN Term(s[i], <<Meaning(SubSeq(s, 1, i - 1)),
                    Meaning(SubSeq(s, i + 1, Len(s)))>>)
  ELSE IF Enclosed(s) THEN Meaning(SubSeq(s, 2, Len(s) - 1))
  ELSE IF \/ Len(s) > 1 /\ s[1] = "-"
          \/ Len(s) > 1 /\ s[1] = "f" /\ Enclosed(Tail(s))
       THEN Term(s[1], <<Meaning(Tail(s))>>)
  ELSE Nothing

\* A unary sign that another sign or a function follows: the code drains the
\* first before it has an operand.
SignOnSign(s) ==
  \E i \in 1..Len(s) - 1 : /\ s[i] = "-" /\ s[i + 1] \in {"-", "f"}
                           /\ i = 1 \/ s[i - 1] \notin {"x", ")"}

\* An expression that means something is accepted and computed as it says, by
\* priority and from the left, with each parenthesis, sign and function where
\* it stands, and never outside the array; all but those in which a unary sign
\* stands before a sign or a function (fastexp.hpp:106-242, :258-306).
ComputedAsWritten ==
  (Meaning(exp) # Nothing /\ ~SignOnSign(exp)) =>
     /\ parsed = "ok" => result \in {Nothing, Fails, Meaning(exp)}
     /\ parsed = "reading" => par = 0
=============================================================================
