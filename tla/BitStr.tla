------------------------------- MODULE BitStr -------------------------------
(***************************************************************************)
(* The bit strings of treepoch.c on machine words (getbit, setbit,         *)
(* diffbitstr).  The constant 1 that the code shifts is an int, the word   *)
(* an unsigned long: a shift count is taken modulo the width of an int (as *)
(* the shift instructions of i386 and x86_64 do) and a result with the     *)
(* sign bit set is extended to the width of the word.                      *)
(*                                                                         *)
(* MAXDEPTH is the number of bits of one word, so that DEPTH_WORDS is 1    *)
(* and a string is one word.  Two strings are driven as treepoch.c drives  *)
(* the strings of its nodes: a bit is set at the end and the length grows  *)
(* by one (de_update_substr), or the node moves up and the string gets     *)
(* shorter while the bits above its length stay as they are.  ref is what  *)
(* a string was meant to be.                                               *)
(***************************************************************************)
EXTENDS Integers, Sequences

CONSTANTS
    WORDSIZE,  \* bits of an unsigned long (64 on x86_64, 32 on i386)
    INTSIZE,   \* bits of an int (32)
    MaxLen     \* bound: length of the strings, at most WORDSIZE

VARIABLES v, len, ref    \* word, length and meaning of the strings "a" and "b"

vars == <<v, len, ref>>

Str == {"a", "b"}
Bit == {0, 1}
Pos == 0 .. WORDSIZE - 1
Zero == [i \in Pos |-> 0]

(* (unsigned long)(1 << k), k an int                                       *)
One(k) == LET j == k % INTSIZE
          IN  [i \in Pos |-> IF i = j \/ (j = INTSIZE - 1 /\ i > j) THEN 1 ELSE 0]

(* (unsigned long)((1 << k) - 1)                                           *)
Mask(k) == [i \in Pos |-> IF i < k % INTSIZE THEN 1 ELSE 0]

And(x, y) == [i \in Pos |-> x[i] * y[i]]
Or(x, y) == [i \in Pos |-> IF x[i] = 1 \/ y[i] = 1 THEN 1 ELSE 0]
Not(x) == [i \in Pos |-> 1 - x[i]]

getbit(x, b) == IF And(x, One(b % WORDSIZE)) # Zero THEN 1 ELSE 0

setbit_slip(x, b, val) == IF val = 1 THEN Or(x, One(b % WORDSIZE)) ELSE x
setbit(x, b, val) == IF val = 1 THEN Or(x, One(b % WORDSIZE))
                     ELSE And(x, Not(One(b % WORDSIZE)))

diffbitstr_slip(x, y, n) == x # y
(* the loop over the whole words stops before its first iteration, because *)
(* rv is still 0: only the word at index 0 is ever compared                *)
diffbitstr(x, y, n) ==
    LET mask == Mask(n % WORDSIZE)
    IN  mask # Zero /\ And(x, mask) # And(y, mask)

-----------------------------------------------------------------------------
Init == /\ v = [s \in Str |-> Zero]
        /\ len = [s \in Str |-> 0]
        /\ ref = [s \in Str |-> <<>>]

(* de_update_substr(node, v01)                                             *)
Append01(s, v01) ==
    /\ len[s] < MaxLen
    /\ v' = [v EXCEPT ![s] = setbit(@, len[s], v01)]
    /\ len' = [len EXCEPT ![s] = @ + 1]
    /\ ref' = [ref EXCEPT ![s] = Append(@, v01)]

(* node->len=node->parent->len of a node that moves up                     *)
Shorten(s) ==
    /\ len[s] > 0
    /\ len' = [len EXCEPT ![s] = @ - 1]
    /\ ref' = [ref EXCEPT ![s] = SubSeq(@, 1, len[s] - 1)]
    /\ v' = v

Next == \E s \in Str : Shorten(s) \/ \E b \in Bit : Append01(s, b)

Spec == Init /\ [][Next]_vars
-----------------------------------------------------------------------------
TypeOK == /\ v \in [Str -> [Pos -> Bit]]
          /\ len \in [Str -> 0 .. MaxLen]
          /\ \A s \in Str : Len(ref[s]) = len[s]

(* After any sequence of setbit calls getbit reads back, at every position *)
(* of the string, the bit written there last: writing one bit leaves the   *)
(* others of the word alone.                                               *)
GetReadsBack == \A s \in Str : \A i \in 1 .. len[s] : getbit(v[s], i - 1) = ref[s][i]

(* treepoch.c:111 "TRUE if two strings differs up to the "len"th element", *)
(* whatever older bits lie above the length of the strings.                *)
DiffUpToLen ==
    \A n \in 0 .. MaxLen : n <= len["a"] /\ n <= len["b"] =>
        (diffbitstr(v["a"], v["b"], n)
           <=> SubSeq(ref["a"], 1, n) # SubSeq(ref["b"], 1, n))
=============================================================================
