-------------------------------- MODULE Lists --------------------------------
(***************************************************************************)
(* What a loop along a list gives, by recursion on how far it has come: the *)
(* elements it keeps, and the sum of numbers.  They are SelectSeq and a     *)
(* fold; what is kept is given by a set, not by a test, so that lemmas can  *)
(* be stated for every one.                                                *)
(***************************************************************************)
EXTENDS Integers, Sequences

\* The elements of s that are in V, in their order.
Among(s, V) ==
    LET kept[i \in 0..Len(s)] ==
          IF i = 0 THEN <<>>
          ELSE IF s[i] \in V THEN Append(kept[i - 1], s[i]) ELSE kept[i - 1]
    IN  kept[Len(s)]

\* The elements of s that are the first with their key.
Firsts(s, key) ==
    LET kept[i \in 0..Len(s)] ==
          IF i = 0 THEN <<>>
          ELSE IF \E j \in 1..(i - 1) : key[s[j]] = key[s[i]] THEN kept[i - 1] ELSE Append(kept[i - 1], s[i])
    IN  kept[Len(s)]

\* The sum of a sequence of numbers.
Total(ns) ==
    LET sum[i \in 0..Len(ns)] == IF i = 0 THEN 0 ELSE sum[i - 1] + ns[i]
    IN  sum[Len(ns)]
=============================================================================
