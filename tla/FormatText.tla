----------------------------- MODULE FormatText -------------------------------
(***************************************************************************)
(* A format string as TemplateLanguage.c and BitsOfData.c read it, and the *)
(* comparison operators in it: utils/OperatorUtils.h, and the same         *)
(* functions in TxtUtils.h and MathUtils.h.                                *)
(***************************************************************************)
EXTENDS Integers, Sequences, SequencesExt

VARIABLE format         \* a sequence of characters

End   == "end"          \* the character behind the last one
At(i) == IF i < Len(format) THEN format[i + 1] ELSE End

DigitChars    == <<"0", "1", "2", "3", "4", "5", "6", "7", "8", "9">>
IsNumber(chr) == chr \in ToSet(DigitChars)

(* updateNumber(), before it is cut to eight bits.                         *)
MoreDigits(number, chr) ==
  number * 10 + (CHOOSE d \in 0..9 : DigitChars[d + 1] = chr)

OperatorStart == {"=", "!", ">", "<"}
NoOperator    == <<>>

(* ou_getOperator(), tu_getOperator(); the length of an operator is Len.   *)
OperatorAt(i) ==
  IF At(i) \in OperatorStart /\ At(i + 1) = "=" THEN <<At(i), "=">>
  ELSE IF At(i) \in {">", "<"} THEN <<At(i)>>
  ELSE NoOperator

(* mu_evalCondition()                                                      *)
EvalCondition(value, operator, target) ==
  \/ operator = <<"=", "=">> /\ value = target
  \/ operator = <<"!", "=">> /\ value # target
  \/ operator = <<">">>      /\ value > target
  \/ operator = <<">", "=">> /\ value >= target
  \/ operator = <<"<">>      /\ value < target
  \/ operator = <<"<", "=">> /\ value <= target
=============================================================================
