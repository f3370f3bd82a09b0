--------------------------- MODULE BoundedCopyProofs ---------------------------
(***************************************************************************)
(* Which texts the copies of the wrapper take, for every size.             *)
(***************************************************************************)
EXTENDS BoundedCopy, TLAPS

\* DBA_STRCPY takes a text only if, with its NUL, it leaves a byte of the
\* destination unused and is no longer than RSIZE_MAX_STR: a text that just fits
\* is refused, as is one between RSIZE_MAX_STR and PUBLISH_DATA_SIZE.
THEOREM StrcpyFits ==
  ASSUME NEW destSize \in Nat, destSize > 0, NEW length \in Nat
  PROVE  DbaStrcpy(destSize, length) = Copied <=>
            length + 1 < destSize /\ length + 1 < PublishDataSize /\ length + 1 <= RsizeMax
<1> USE BoundedCopyAssumption DEF DbaStrcpy, StrcpyS, BoundFor, Copied, Emptied, Untouched
<1>1. CASE length + 1 >= PublishDataSize
  BY <1>1
<1>2. CASE length + 1 < PublishDataSize /\ length + 1 >= destSize
  BY <1>2
<1>3. CASE length + 1 < PublishDataSize /\ length + 1 < destSize
  BY <1>3
<1> QED BY <1>1, <1>2, <1>3

\* DBA_STRNCPY never asks for more than fits with a NUL, so what it refuses is
\* an empty text, or a bound above RSIZE_MAX_STR.
THEOREM StrncpyFits ==
  ASSUME NEW destSize \in Nat, destSize > 1, destSize <= PublishDataSize,
         NEW count \in Nat
  PROVE  /\ DbaStrncpyCount(destSize, count) \in 0..count
         /\ count < destSize => DbaStrncpyCount(destSize, count) = count
         /\ DbaStrncpyCount(destSize, count) < PublishDataSize
         /\ DbaStrncpy(destSize, count) = Emptied =>
               count = 0 /\ DbaStrncpyCount(destSize, count) = 0
<1> USE BoundedCopyAssumption DEF DbaStrncpy, DbaStrncpyCount, StrncpyS, BoundFor, Copied, Emptied, Untouched
<1>1. CASE count >= PublishDataSize
  BY <1>1
<1>2. CASE count < PublishDataSize /\ count >= destSize
  BY <1>2
<1>3. CASE count < PublishDataSize /\ count < destSize
  BY <1>3
<1> QED BY <1>1, <1>2, <1>3

==============================================================================
