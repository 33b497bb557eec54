---------------------------- MODULE Expression -----------------------------
(* evaluate_expression (expression_parser.c): what turns an answer of the  *)
(* car into the value of a parameter.  One pass over the text with a stack *)
(* of operands and a stack of operators.                                   *)
(*                                                                         *)
(* A number, V, B or S with an index, a bit of one, or a range of bytes is *)
(* the token "x", and its value <<"x", where it stands>>; the number 0 is  *)
(* "0".  A value computed from others is the tree <<operator, left,        *)
(* right>>: what is kept is what is computed from what.  << and >> are one *)
(* character here as on the code's stack.                                  *)
EXTENDS Integers, Sequences, SequencesExt, FiniteSetsExt

CONSTANTS
  Operators,  (* those used in expressions                                 *)
  MaxTokens   (* bound: the longest expression                             *)

ASSUME ExpressionAssumption ==
  Operators \subseteq {"|", "^", "&", "<", ">", "+", "-", "*", "/"} /\ MaxTokens \in Nat

VARIABLES
  text,       (* the tokens read so far                                    *)
  operands,   (* operandStack                                              *)
  operators,  (* operatorStack                                             *)
  result      (* <<>> until the evaluation returns                         *)

expressionVars == <<text, operands, operators, result>>

Zero   == <<"0">>
Failed == <<"failed">>

ExpressionInit == text = <<>> /\ operands = <<>> /\ operators = <<>> /\ result = <<>>

precedence(op) == CASE op \in {"|", "^"} -> 1
                    [] op = "&"          -> 2
                    [] op \in {"<", ">"} -> 3
                    [] op \in {"+", "-"} -> 4
                    [] op \in {"*", "/"} -> 5
                    [] op = "("          -> 0

---------------------------------------------------------------------------

(* A parenthesis that was never closed is popped as an operator, and its   *)
(* result stays 0.                                                         *)
Combined(op, left, right) ==
  CASE op = "("                   -> Zero
    [] op = "/" /\ right = Zero   -> Failed
    [] OTHER                      -> <<op, left, right>>

(* The operand on the top of the stack; an empty one gives 0.              *)
Top(stack) == IF stack = <<>> THEN Zero ELSE Last(stack)
Pop(stack) == IF stack = <<>> THEN stack ELSE Front(stack)

(* One operator applied to the two operands on the top.                    *)
Apply(stack, op) ==
  LET value == Combined(op, Top(Pop(stack)), Top(stack))
  IN  IF stack = <<>> \/ stack = <<Failed>> \/ value = Failed THEN <<Failed>>
      ELSE Append(Pop(Pop(stack)), value)

(* The operators above the first n, applied from the top down.             *)
Reduced(n) == FoldLeft(Apply, operands, Reverse(SubSeq(operators, n + 1, Len(operators))))

Return(value) ==
  result' = value /\ UNCHANGED <<text, operands, operators>>

(* Every error returns at once.                                            *)
Continue(stack, ops) ==
  IF stack = <<Failed>> THEN result' = Failed /\ UNCHANGED <<operands, operators>>
  ELSE operands' = stack /\ operators' = ops /\ UNCHANGED result

---------------------------------------------------------------------------
(* The tokens come in the order of an expression, except that it may end   *)
(* anywhere and close a parenthesis it never opened.                       *)

OperandNext == text # <<>> => Last(text) \in Operators \cup {"("}

Read(token) == result = <<>> /\ Len(text) < MaxTokens /\ text' = Append(text, token)

ReadOperand ==
  /\ OperandNext
  /\ \/ Read("x") /\ Continue(Append(operands, <<"x", Len(text) + 1>>), operators)
     \/ Read("0") /\ Continue(Append(operands, Zero), operators)

OpenParenthesis ==
  /\ OperandNext /\ Read("(")
  /\ Continue(operands, Append(operators, "("))

CloseParenthesis ==
  /\ ~OperandNext /\ Read(")")
  /\ LET open == Max({0} \cup {n \in 1..Len(operators) : operators[n] = "("})
     IN  IF open = 0 THEN Continue(<<Failed>>, operators)
         ELSE Continue(Reduced(open), SubSeq(operators, 1, open - 1))

(* Mutant: what binds as strongly waits.                                   *)
Weaker_RightFirst(op) ==
  Max({0} \cup {n \in 1..Len(operators) : precedence(operators[n]) <= precedence(op)})

(* The operators that stay on the stack when op comes: up to the last that *)
(* binds less strongly.                                                    *)
Weaker(op) ==
  Max({0} \cup {n \in 1..Len(operators) : precedence(operators[n]) < precedence(op)})

ReadOperator ==
  \E op \in Operators :
    /\ ~OperandNext /\ Read(op)
    /\ Continue(Reduced(Weaker(op)), Append(SubSeq(operators, 1, Weaker(op)), op))

(* The end of the text: one operand must be left.                          *)
EndOfText ==
  /\ result = <<>>
  /\ LET stack == Reduced(0) IN Return(IF Len(stack) = 1 THEN stack[1] ELSE Failed)

(* The next expression.                                                    *)
NextText ==
  /\ result # <<>>
  /\ text' = <<>> /\ operands' = <<>> /\ operators' = <<>> /\ result' = <<>>

ExpressionNext ==
  \/ ReadOperand \/ OpenParenthesis \/ CloseParenthesis \/ ReadOperator
  \/ EndOfText \/ NextText
=============================================================================
