-------------------------- MODULE ExpressionProps --------------------------
(* What the author of a parameter's expression may rely on.                *)
EXTENDS Expression

(* Of tokens t: the parentheses open after the first i of them.            *)
Depth(t, i) == Cardinality({j \in 1..i : t[j] = "("}) - Cardinality({j \in 1..i : t[j] = ")"})

Complete ==
  /\ ~OperandNext /\ Depth(text, Len(text)) = 0
  /\ \A i \in 1..Len(text) : Depth(text, i) >= 0

(* What is applied to two values, unless one of them failed already.       *)
Computes(op, left, right) ==
  IF left = Failed \/ right = Failed \/ (op = "/" /\ right = Zero) THEN Failed
  ELSE <<op, left, right>>

(* The operators among the tokens from..to that are in no parentheses, and *)
(* the one that is applied last: the rightmost of the weakest.             *)
Outside(t, from, to) ==
  {i \in from..to : t[i] \in Operators /\ Depth(t, i) = Depth(t, from - 1)}

AppliedLast(t, from, to) ==
  LET outside == Outside(t, from, to)
  IN  Max({i \in outside : \A j \in outside : precedence(t[i]) <= precedence(t[j])})

(* The value of the tokens from..to, read as a grammar.                    *)
Meaning(t) ==
  LET M[w \in (1..Len(t) + 1) \X (0..Len(t))] ==
        LET from == w[1]  to == w[2]  i == AppliedLast(t, from, to)
        IN  IF from > to THEN Failed
            ELSE IF Outside(t, from, to) # {}
                 THEN Computes(t[i], M[<<from, i - 1>>], M[<<i + 1, to>>])
                 ELSE IF t[from] = "(" THEN M[<<from + 1, to - 1>>]
                      ELSE IF t[from] = "0" THEN Zero ELSE <<"x", from>>
  IN  M

(* A complete expression evaluates as its grammar says, operators of one   *)
(* precedence from the left and parentheses first, or fails if it divides  *)
(* by 0 (expression_parser.c:244, 195, 287): the two stacks never mix up   *)
(* whose operands are whose.                                               *)
EvaluatesAsRead ==
  result # <<>> /\ Complete => result = Meaning(text)[<<1, Len(text)>>]

ExpressionSpec == ExpressionInit /\ [][ExpressionNext]_expressionVars
=============================================================================
