------------------------------ MODULE BoundedCopy ------------------------------
(***************************************************************************)
(* The copies of the wrapper: DBA_STRCPY and DBA_STRNCPY over strcpy_s and *)
(* strncpy_s of the safe string library, which is not under src/ and       *)
(* refuses a bound it is given rather than a text.  Only lengths matter    *)
(* here, without the terminating NUL.  A refusal is not looked at by any   *)
(* caller, so what counts is what the destination holds afterwards.        *)
(***************************************************************************)
EXTENDS Integers

CONSTANTS PublishDataSize,  \* PUBLISH_DATA_SIZE
          RsizeMax          \* RSIZE_MAX_STR, which the build of the library sets

ASSUME BoundedCopyAssumption ==
    /\ PublishDataSize \in Nat /\ PublishDataSize > 1
    /\ RsizeMax \in Nat

\* What becomes of the destination.
Untouched == "untouched"
Emptied   == "emptied"
Copied    == "copied"

\* strcpy_s(dest, dmax, src)
StrcpyS(dmax, length) ==
    IF dmax \notin 1..RsizeMax THEN Untouched
    ELSE IF length >= dmax THEN Emptied
    ELSE Copied

\* strncpy_s(dest, dmax, src, count), for a count that the text has
StrncpyS(dmax, count) ==
    IF dmax \notin 1..RsizeMax THEN Untouched
    ELSE IF count = 0 \/ count >= dmax THEN Emptied
    ELSE Copied

\* sizeof(dest), or PUBLISH_DATA_SIZE when the text is that long
BoundFor(destSize, length) == IF length >= PublishDataSize THEN PublishDataSize ELSE destSize

\* Mutant: the whole destination is the bound.
StrcpyWholeBound(destSize, length) == StrcpyS(BoundFor(destSize, length + 1), length)

\* DBA_STRCPY(dest, src), where srcLength counts the NUL
DbaStrcpy(destSize, length) ==
    LET bound == BoundFor(destSize, length + 1)
    IN  StrcpyS(IF length + 1 >= bound THEN bound - 1 ELSE length + 1, length)

\* DBA_STRNCPY(dest, src, count), where the count is cut to what fits
DbaStrncpyCount(destSize, count) ==
    LET bound == BoundFor(destSize, count)
    IN  IF count >= bound THEN bound - 1 ELSE count

DbaStrncpy(destSize, count) ==
    LET kept == DbaStrncpyCount(destSize, count)
    IN  StrncpyS(IF count >= BoundFor(destSize, count)
                 THEN BoundFor(destSize, count) ELSE count + 1, kept)

==============================================================================
