------------------------------ MODULE PayloadPath ------------------------------
(***************************************************************************)
(* What becomes of the text of a payload: the bounded copy of              *)
(* serverPublish, the OPC UA string, subscriptionCallback in the client,   *)
(* and cb_func of the Python binding.  A text is a sequence of characters. *)
(*                                                                         *)
(* The client's string has a length and no NUL, and subscriptionCallback   *)
(* measures it with strlen: what lies behind it in memory, up to the next  *)
(* NUL, is read as part of it.  The copy of serverPublish goes byte after  *)
(* byte and without the lock: a value that is sampled meanwhile is a       *)
(* splice of two texts, and is told apart here from one that is whole.     *)
(* When values are sampled and notified is in PublishSubscribe; here what  *)
(* dataToPublish reads as at any moment may be notified.                   *)
(***************************************************************************)
EXTENDS BoundedCopy, SequencesExt

CONSTANTS Characters,    \* of texts and of memory
          Bracket,       \* ']'
          BraceOpen,     \* '{'
          BraceClose,    \* '}'
          Undecodable,   \* a byte that is no UTF-8
          TopicName,     \* the text of the topic subscribed to
          Texts,         \* the texts that are published
          Beyond,        \* what may lie behind a string in memory, up to a NUL
          NoText         \* no text is being copied, no message was put in the queue

ASSUME PayloadAssumption ==
    /\ {Bracket, BraceOpen, BraceClose, Undecodable} \subseteq Characters
    /\ TopicName \in Seq(Characters) /\ TopicName # <<>>
    /\ Texts \subseteq Seq(Characters)
    /\ Beyond \subseteq Seq(Characters)
    /\ NoText \notin Seq(Characters)

VARIABLES published,       \* the texts serverPublish was called with
          source,          \* the text serverPublish is copying
          copied,          \* how many of its characters are copied
          dataToPublish,   \* gClientContext.dataToPublish, read up to its first NUL
          subscribedData,  \* the static buffer of subscriptionCallback
          bufferTorn,      \* what it holds was sampled in the middle of a copy
          message,         \* data of the last message put in G_QUEUE
          messageTorn,     \* and that was
          clean            \* nothing that ends a text was ever read behind a string

copy     == <<source, copied, dataToPublish>>
received == <<subscribedData, bufferTorn, message, messageTorn, clean>>
payloadVars == <<published, copy, received>>

PayloadInit ==
    /\ published = {}
    /\ source = NoText /\ copied = 0 /\ dataToPublish = <<>>
    /\ subscribedData = <<>> /\ bufferTorn = FALSE
    /\ message = NoText /\ messageTorn = FALSE
    /\ clean = TRUE

LastIndexOf(text, c) == SelectLastInSeq(text, LAMBDA d : d = c)

\* strstr(text, part) # NULL
Occurs(part, text) == \E i \in 0 .. Len(text) - Len(part) :
                          SubSeq(text, i + 1, i + Len(part)) = part

------------------------------------------------------------------------------

\* What a bounded copy leaves in its destination.
After(result, dest, text) == CASE result = Copied    -> text
                               [] result = Emptied   -> <<>>
                               [] result = Untouched -> dest

\* serverPublish, down to DBA_STRCPY(dataToPublish, data), refused or begun
Publish(text) ==
    /\ source = NoText
    /\ published' = published \cup {text}
    /\ source' = IF DbaStrcpy(PublishDataSize, Len(text)) = Untouched THEN NoText ELSE text
    /\ UNCHANGED <<copied, dataToPublish, received>>

\* A character takes the place of one of the old text or, at its end, of its
\* NUL: what was left in the buffer behind that is read from then on.
CopyCharacter ==
    /\ source # NoText
    /\ copied < Len(source) /\ copied < PublishDataSize - 1
    /\ copied' = copied + 1
    /\ \E rest \in IF copied < Len(dataToPublish)
                  THEN {SubSeq(dataToPublish, copied + 2, Len(dataToPublish))} ELSE Beyond :
          dataToPublish' = SubSeq(source, 1, copied') \o rest
    /\ UNCHANGED <<published, source, received>>

\* The NUL is copied or, for want of room for it, the whole is emptied.
EndCopy ==
    /\ source # NoText
    /\ copied = Len(source) \/ copied = PublishDataSize - 1
    /\ dataToPublish' = After(DbaStrcpy(PublishDataSize, Len(source)), dataToPublish, source)
    /\ source' = NoText /\ copied' = 0
    /\ UNCHANGED <<published, received>>

\* Mutant: the search for the bracket goes forward.
UpToFirstBracket(str) ==
    LET first == SelectInSeq(str, LAMBDA c : c = Bracket)
    IN  IF first = 0 THEN Len(str) ELSE first

\* The characters up to the last ']', or all of them without one.
UpToBracket(str) ==
    LET last == LastIndexOf(str, Bracket)
    IN  IF last = 0 THEN Len(str) ELSE last

\* DBA_STRNCPY(subscribedData, str.data, destLen + 1)
Trimmed(str) ==
    After(DbaStrncpy(PublishDataSize, UpToBracket(str)), subscribedData,
          SubSeq(str, 1, DbaStrncpyCount(PublishDataSize, UpToBracket(str))))

\* Mutant: msg[:last_brace_index], without the + 1.
WithoutExtraBrace(msg) ==
    IF msg[1] = BraceOpen /\ Last(msg) # BraceClose
    THEN SubSeq(msg, 1, LastIndexOf(msg, BraceClose) - 1)
    ELSE msg

\* cb_func: a text that starts as JSON ends with its last brace.
WithoutExtra(msg) ==
    IF msg[1] = BraceOpen /\ Last(msg) # BraceClose
    THEN SubSeq(msg, 1, LastIndexOf(msg, BraceClose))
    ELSE msg

\* subscriptionCallback, the user callback and in it cb_func.  A text that does
\* not name the topic goes no further, nor does one that cannot be decoded: the
\* exception ends in pyxCallback.  The empty string is in PublishSubscribe.
SubscriptionCallback(beyond) ==
    LET str == dataToPublish \o beyond
        accepted == /\ Occurs(TopicName, subscribedData')
                    /\ ~Contains(WithoutExtra(subscribedData'), Undecodable)
    IN  /\ dataToPublish # <<>>
        /\ subscribedData' = Trimmed(str)
        /\ bufferTorn' = IF DbaStrncpy(PublishDataSize, UpToBracket(str)) = Untouched
                         THEN bufferTorn ELSE copied > 0
        /\ message' = IF accepted THEN WithoutExtra(subscribedData') ELSE message
        /\ messageTorn' = IF accepted THEN bufferTorn' ELSE messageTorn
        /\ clean' = (clean /\ ~Contains(beyond, Bracket) /\ ~Contains(beyond, BraceClose))
        /\ UNCHANGED <<published, copy>>

PayloadNext ==
    \/ \E text \in Texts : Publish(text)
    \/ CopyCharacter \/ EndCopy
    \/ \E beyond \in Beyond : SubscriptionCallback(beyond)

PayloadSpec == PayloadInit /\ [][PayloadNext]_payloadVars

------------------------------------------------------------------------------
(* Properties *)

\* What OpcuaExport publishes, "<topic> map[...]", and JSON without a list.
Export(text) == text # <<>> /\ text[1] # BraceOpen /\ Last(text) = Bracket
Json(text) == /\ text # <<>> /\ text[1] = BraceOpen /\ Last(text) = BraceClose
              /\ ~Contains(text, Bracket)

\* A message that was not sampled in the middle of a copy.
Whole == message # NoText /\ ~messageTorn

\* No such text is cut short on its way, or spliced with another unless it is
\* sampled in the middle of the copy, whatever lies behind it in memory, and
\* although a text that is too long leaves the one before it in dataToPublish or
\* in the static buffer (lines 446 and 530).
MessageWhole == Whole => \E text \in published : IsPrefix(text, message)

\* The two trims, to the last ']' in C and to the last '}' in Python, take away
\* exactly what was read behind the string, unless that has a ']' or '}' too.
MessageExact == clean /\ Whole => message \in published

\* "Values Published and received are not equal" is an error
\* (py/test/unittest/unittest_dba.py, line 165), also of a value that is whole.
ReceivedIsPublished == Whole => message \in published

==============================================================================
