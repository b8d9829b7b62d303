-------------------------------- MODULE Vstr --------------------------------
(***************************************************************************)
(* vstr_t (User/types/vo.c), the growing byte string everything is built    *)
(* in.  An operator per function: it returns the string the function        *)
(* leaves, with ok FALSE once an assertion has failed.  data is the block   *)
(* on the heap, <<>> for NULL.                                              *)
(***************************************************************************)
EXTENDS Integers, Sequences

CONSTANTS
    STRMAX,    \* VO_STRMAX
    Junk       \* what malloc leaves in memory

ASSUME VstrAssumption == STRMAX \in Nat \ {0}

(* vstr_init(s, 0), vstr_clear                                              *)
EmptyStr == [len |-> 0, reserved |-> 0, data |-> <<>>, ok |-> TRUE]

Content(s) == SubSeq(s.data, 1, s.len)

Failed(s) == [s EXCEPT !.ok = FALSE]

(* A copy into the block, which would write past its end as well as not.    *)
Size(s, at, b) == IF at + Len(b) > Len(s.data) THEN at + Len(b) ELSE Len(s.data)
Written(s, at, b) ==
    [s EXCEPT !.data = [k \in 1..Size(s, at, b) |->
        IF k > at /\ k <= at + Len(b) THEN b[k - at]
        ELSE IF k <= Len(s.data) THEN s.data[k] ELSE Junk]]

Grow(r) == (r * 3) \div 2

(* vstr_reserve, where the block is too small: a new one of half as much    *)
(* again.                                                                   *)
Reserve(s, r) ==
    IF ~s.ok \/ r <= s.reserved THEN s
    ELSE IF Grow(r) >= STRMAX THEN Failed(s)
    ELSE LET block == [k \in 1..Grow(r) |-> IF k <= s.len THEN s.data[k] ELSE Junk]
         IN  [s EXCEPT !.reserved = Grow(r), !.data = block]

(* vbuff_iadd; vbuff_iaddc is the case of one byte.                         *)
RoomForBefore(s, b) == s.len                             \* mutant
RoomFor(s, b) == s.len + Len(b)
Add(s, b) ==
    IF ~s.ok \/ s.len + Len(b) >= STRMAX THEN Failed(s)
    ELSE IF s.len + Len(b) = 0 THEN s
    ELSE LET r == Reserve(s, RoomFor(s, b))
         IN  IF r.ok THEN [Written(r, s.len, b) EXCEPT !.len = s.len + Len(b)] ELSE r

(* vstr_iaddpc: a zero follows the string and is not counted.               *)
AddCstr(s, b) ==
    IF ~s.ok \/ s.len + Len(b) + 1 >= STRMAX THEN Failed(s)
    ELSE LET r == Reserve(s, s.len + Len(b) + 1)
         IN  IF r.ok THEN [Written(r, s.len, Append(b, 0)) EXCEPT !.len = s.len + Len(b)] ELSE r

-----------------------------------------------------------------------------
(* The notes at vo.c:18-29: the length is within the block, the block as    *)
(* large as it says, and there is none exactly when it says zero.           *)
Sound(s) ==
    /\ s.len \in 0..s.reserved /\ Len(s.data) = s.reserved
    /\ s.reserved < STRMAX
=============================================================================
