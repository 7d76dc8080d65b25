-------------------------------- MODULE Sums --------------------------------
(* Python's lists, and sum(): the numbers of a list added up from its first *)
(* on.                                                                      *)
EXTENDS Integers, Sequences

IsList(list) == list \in Seq({list[i] : i \in DOMAIN list})

RunningSum(numbers, n) ==
  LET sum[i \in 0 .. n] == IF i = 0 THEN 0 ELSE sum[i - 1] + numbers[i]
  IN  sum[n]

(* A list comprehension with a condition: of the first n of a list, those   *)
(* whose place is in S.                                                     *)
Only(list, S, n) ==
  LET only[i \in 0 .. n] ==
        IF i = 0 THEN << >>
        ELSE IF i \in S THEN Append(only[i - 1], list[i]) ELSE only[i - 1]
  IN  only[n]
=============================================================================
