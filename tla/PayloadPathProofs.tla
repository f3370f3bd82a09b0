--------------------------- MODULE PayloadPathProofs ---------------------------
(***************************************************************************)
(* Payloads arrive whole, unless they are sampled in the middle of the     *)
(* copy, for every buffer, limit, text and memory, and to the last         *)
(* character as long as memory holds nothing that ends a text.             *)
(***************************************************************************)
EXTENDS PayloadPath, BoundedCopyProofs, SequenceTheorems, WellFoundedInduction, TLAPS

LEMMA LeastElement ==
  ASSUME NEW D, D \subseteq Nat, D # {}
  PROVE  \E n \in D : \A m \in D : n <= m
<1> DEFINE R == {ss \in Nat \X Nat : ss[1] < ss[2]}
<1>1. IsWellFoundedOn(R, Nat)
  BY NatLessThanWellFounded DEF OpToRel
<1>2. PICK n \in D : \A m \in D : <<m, n>> \notin R
  <2> HIDE DEF R
  <2> QED BY <1>1, WFMin
<1>3. \A m \in D : ~(m < n)
  BY <1>2
<1> QED BY <1>3

LEMMA LastIndex ==
  ASSUME NEW S, NEW text \in Seq(S), NEW c
  PROVE  /\ LastIndexOf(text, c) \in 0 .. Len(text)
         /\ LastIndexOf(text, c) # 0 => text[LastIndexOf(text, c)] = c
         /\ \A i \in 1 .. Len(text) : text[i] = c => i <= LastIndexOf(text, c)
<1> DEFINE I == {i \in 1 .. Len(text) : text[i] = c}
<1>0. LastIndexOf(text, c) = IF I # {} THEN Max(I) ELSE 0
  BY DEF LastIndexOf, SelectLastInSeq
<1>1. CASE I = {}
  BY <1>0, <1>1
<1>2. CASE I # {}
  <2> DEFINE D == {n \in Nat : Len(text) - n \in I}
  <2>1. D # {}
    <3>1. PICK i \in I : TRUE  BY <1>2
    <3>2. Len(text) - i \in D  BY <3>1
    <3> QED BY <3>2
  <2>2. PICK n \in D : \A m \in D : n <= m
    <3> HIDE DEF D
    <3>1. D \subseteq Nat BY DEF D
    <3> QED BY <2>1, <3>1, LeastElement
  <2>3. \A i \in I : i <= Len(text) - n
    <3> TAKE i \in I
    <3>1. Len(text) - i \in D  OBVIOUS
    <3>2. n \in Nat /\ n <= Len(text) - i  BY <2>2, <3>1
    <3> QED BY <3>2
  <2>4. Max(I) \in I /\ \A i \in I : i <= Max(I)
    BY <2>3 DEF Max
  <2> QED BY <1>0, <1>2, <2>4
<1> QED BY <1>1, <1>2

------------------------------------------------------------------------------
(* Prefixes *)

LEMMA PrefixOfCut ==
  ASSUME NEW text \in Seq(Characters), NEW str \in Seq(Characters), IsPrefix(text, str),
         NEW k \in Len(text) .. Len(str)
  PROVE  IsPrefix(text, SubSeq(str, 1, k)) /\ SubSeq(str, 1, k) \in Seq(Characters)
<1>1. SubSeq(str, 1, k) \in Seq(Characters) /\ Len(SubSeq(str, 1, k)) = k
  OBVIOUS
<1>2. SubSeq(SubSeq(str, 1, k), 1, Len(text)) = SubSeq(str, 1, Len(text))
  BY <1>1
<1> QED BY <1>1, <1>2 DEF IsPrefix

LEMMA PrefixOfConcat ==
  ASSUME NEW text \in Seq(Characters), NEW beyond \in Seq(Characters)
  PROVE  /\ text \o beyond \in Seq(Characters)
         /\ IsPrefix(text, text \o beyond)
<1>1. SubSeq(text \o beyond, 1, Len(text)) = SubSeq(text, 1, Len(text))
  OBVIOUS
<1> QED BY <1>1 DEF IsPrefix

LEMMA PrefixElement ==
  ASSUME NEW text \in Seq(Characters), NEW str \in Seq(Characters), IsPrefix(text, str),
         NEW i \in 1 .. Len(text)
  PROVE  str[i] = text[i] /\ i \in 1 .. Len(str)
<1>1. Len(text) <= Len(str)  BY DEF IsPrefix
<1>2. SubSeq(text, 1, Len(text))[i] = text[i]  OBVIOUS
<1>3. SubSeq(str, 1, Len(text))[i] = str[i]  BY <1>1
<1> QED BY <1>1, <1>2, <1>3 DEF IsPrefix

------------------------------------------------------------------------------
(* The two trims *)

WholeText(text) == Export(text) \/ Json(text)

LEMMA BracketKeepsText ==
  ASSUME NEW text \in Seq(Characters), WholeText(text),
         NEW str \in Seq(Characters), IsPrefix(text, str)
  PROVE  UpToBracket(str) \in Len(text) .. Len(str)
<1>0. Len(text) <= Len(str) /\ Len(text) \in 1 .. Len(text)
  <2>1. Len(text) # 0  BY DEF WholeText, Export, Json
  <2> QED BY <2>1 DEF IsPrefix
<1> DEFINE last == LastIndexOf(str, Bracket)
<1>1. last \in 0 .. Len(str) /\ \A i \in 1 .. Len(str) : str[i] = Bracket => i <= last
  BY LastIndex
<1>2. UpToBracket(str) = IF last = 0 THEN Len(str) ELSE last
  BY DEF UpToBracket
<1>3. CASE Export(text)
  <2>1. text[Len(text)] = Bracket  BY <1>3 DEF Export, Last
  <2>2. str[Len(text)] = Bracket /\ Len(text) \in 1 .. Len(str)
    BY <1>0, <2>1, PrefixElement
  <2>3. Len(text) <= last  BY <1>1, <2>2
  <2> HIDE DEF last
  <2> QED BY <1>0, <1>1, <1>2, <2>3
<1>4. CASE Json(text)
  <2>1. \A i \in 1 .. Len(text) : text[i] # Bracket
    BY <1>4 DEF Json, Contains
  <2>2. last # 0 => str[last] = Bracket
    BY LastIndex
  <2>3. last # 0 => last > Len(text)
    <3> SUFFICES ASSUME last \in 1 .. Len(text) PROVE FALSE  BY <1>1
    <3>1. str[last] = text[last]  BY PrefixElement
    <3> HIDE DEF last
    <3> QED BY <2>1, <2>2, <3>1
  <2> HIDE DEF last
  <2> QED BY <1>0, <1>1, <1>2, <2>3
<1> QED BY <1>3, <1>4 DEF WholeText

LEMMA BraceKeepsText ==
  ASSUME NEW text \in Seq(Characters), WholeText(text),
         NEW msg \in Seq(Characters), IsPrefix(text, msg)
  PROVE  IsPrefix(text, WithoutExtra(msg))
<1>1. 1 \in 1 .. Len(text) /\ Len(text) \in 1 .. Len(text) /\ Len(text) <= Len(msg)
  <2>1. Len(text) # 0  BY DEF WholeText, Export, Json
  <2> QED BY <2>1 DEF IsPrefix
<1>2. msg[1] = text[1] /\ msg[Len(text)] = text[Len(text)]
  BY <1>1, PrefixElement
<1>3. CASE WithoutExtra(msg) = msg
  BY <1>3
<1>4. CASE WithoutExtra(msg) # msg
  <2> DEFINE last == LastIndexOf(msg, BraceClose)
  <2>1. msg[1] = BraceOpen /\ WithoutExtra(msg) = SubSeq(msg, 1, last)
    BY <1>4 DEF WithoutExtra
  <2>2. Json(text)
    BY <1>2, <2>1 DEF WholeText, Export
  <2>3. msg[Len(text)] = BraceClose
    BY <1>2, <2>2 DEF Json, Last
  <2>4. last \in 0 .. Len(msg) /\ Len(text) <= last
    BY <1>1, <2>3, LastIndex
  <2> HIDE DEF last
  <2>5. last \in Len(text) .. Len(msg)  BY <2>4
  <2> QED BY <2>1, <2>5, PrefixOfCut
<1> QED BY <1>3, <1>4

------------------------------------------------------------------------------

\* A text is being copied if some of its characters are; without one under way,
\* dataToPublish holds a text.
CopyInv ==
    /\ published \subseteq Texts
    /\ source = NoText => copied = 0
    /\ source # NoText => source \in published /\ DbaStrcpy(PublishDataSize, Len(source)) # Untouched
    /\ copied \in Nat
    /\ dataToPublish \in Seq(Characters)
    /\ dataToPublish # <<>> /\ copied = 0 =>
          dataToPublish \in published /\ Len(dataToPublish) + 1 < PublishDataSize

PayloadInv ==
    /\ CopyInv
    /\ subscribedData \in Seq(Characters)
    /\ subscribedData # <<>> /\ ~bufferTorn =>
          \E text \in published : IsPrefix(text, subscribedData)
    /\ MessageWhole

LEMMA TopicIsNotEmpty ==
  ~Occurs(TopicName, <<>>)
<1>1. Len(TopicName) \in Nat /\ Len(TopicName) # 0  BY PayloadAssumption
<1> QED BY <1>1 DEF Occurs

\* What the first trim leaves, of any string.
LEMMA TrimmedString ==
  ASSUME NEW str \in Seq(Characters)
  PROVE  LET n == DbaStrncpyCount(PublishDataSize, UpToBracket(str))
         IN  SubSeq(str, 1, n) \in Seq(Characters)
<1> USE BoundedCopyAssumption
<1> DEFINE k == UpToBracket(str)
           n == DbaStrncpyCount(PublishDataSize, k)
<1>1. k \in 0 .. Len(str)
  <2>1. LastIndexOf(str, Bracket) \in 0 .. Len(str)
    BY LastIndex
  <2> QED BY <2>1 DEF UpToBracket
<1>2. n \in 0 .. k
  <2> HIDE DEF k
  <2> QED BY <1>1, StrncpyFits
<1>3. n \in 0 .. Len(str)
  <2> HIDE DEF k, n
  <2> QED BY <1>1, <1>2
<1>4. SubSeq(str, 1, n) \in Seq(Characters)
  <2> HIDE DEF n
  <2> QED BY <1>3
<1> QED BY <1>4

\* What the first trim leaves of a text and of what is read behind it.
LEMMA TrimmedText ==
  ASSUME NEW text \in Seq(Characters), WholeText(text), Len(text) + 1 < PublishDataSize,
         NEW beyond \in Seq(Characters)
  PROVE  LET str == text \o beyond
             n == DbaStrncpyCount(PublishDataSize, UpToBracket(str))
         IN  IsPrefix(text, SubSeq(str, 1, n))
<1> USE BoundedCopyAssumption
<1> DEFINE str == text \o beyond
           k == UpToBracket(str)
           n == DbaStrncpyCount(PublishDataSize, k)
<1>1. str \in Seq(Characters) /\ IsPrefix(text, str)
  BY PrefixOfConcat
<1>2. k \in Len(text) .. Len(str)
  <2> HIDE DEF str
  <2> QED BY <1>1, BracketKeepsText
<1>3. n \in Len(text) .. Len(str)
  <2> HIDE DEF str, k
  <2>1. k \in Nat  BY <1>1, <1>2
  <2>2. n = k \/ n = PublishDataSize - 1
    BY <2>1 DEF DbaStrncpyCount, BoundFor
  <2>3. n \in 0 .. k
    BY <2>1, StrncpyFits
  <2> HIDE DEF n
  <2> QED BY <1>1, <1>2, <2>1, <2>2, <2>3
<1>4. IsPrefix(text, SubSeq(str, 1, n))
  <2> HIDE DEF str, n
  <2> QED BY <1>1, <1>3, PrefixOfCut
<1> QED BY <1>4

LEMMA CallbackKeepsTexts ==
  ASSUME NEW beyond \in Beyond, PayloadInv, SubscriptionCallback(beyond),
         \A text \in Texts : WholeText(text)
  PROVE  PayloadInv'
<1> USE PayloadAssumption
<1> DEFINE str == dataToPublish \o beyond
           n == DbaStrncpyCount(PublishDataSize, UpToBracket(str))
<1>1. /\ dataToPublish # <<>> /\ dataToPublish \in Seq(Characters)
      /\ beyond \in Seq(Characters) /\ str \in Seq(Characters)
  BY DEF PayloadInv, CopyInv, SubscriptionCallback
<1>2. UNCHANGED <<published, source, copied, dataToPublish>>
  BY DEF SubscriptionCallback, copy
<1>3. \/ subscribedData' \in {SubSeq(str, 1, n), <<>>} /\ (copied > 0 => bufferTorn')
      \/ subscribedData' = subscribedData /\ bufferTorn' = bufferTorn
  BY DEF SubscriptionCallback, Trimmed, After, DbaStrncpy, StrncpyS, Copied, Emptied, Untouched
<1>4. SubSeq(str, 1, n) \in Seq(Characters) /\ <<>> \in Seq(Characters)
  <2> HIDE DEF str
  <2> QED BY <1>1, TrimmedString, EmptySeq
<1>5. subscribedData' \in Seq(Characters)
  <2> HIDE DEF str, n
  <2> QED BY <1>3, <1>4 DEF PayloadInv
<1>6. ASSUME subscribedData' # <<>>, ~bufferTorn'
      PROVE  \E text \in published : IsPrefix(text, subscribedData')
  <2>1. CASE subscribedData' = SubSeq(str, 1, n) /\ (copied > 0 => bufferTorn')
    <3>1. copied = 0
      BY <1>6, <2>1 DEF PayloadInv, CopyInv
    <3>2. /\ dataToPublish \in published /\ WholeText(dataToPublish)
          /\ Len(dataToPublish) + 1 < PublishDataSize
      BY <1>1, <3>1 DEF PayloadInv, CopyInv
    <3>3. IsPrefix(dataToPublish, SubSeq(str, 1, n))
      BY <1>1, <3>2, TrimmedText
    <3> HIDE DEF str, n
    <3> QED BY <2>1, <3>2, <3>3
  <2>2. CASE subscribedData' = subscribedData /\ bufferTorn' = bufferTorn
    BY <1>6, <2>2 DEF PayloadInv
  <2> HIDE DEF str, n
  <2> QED BY <1>3, <1>6, <2>1, <2>2
<1>7. MessageWhole'
  <2>1. CASE message' = message /\ messageTorn' = messageTorn
    BY <1>2, <2>1 DEF PayloadInv, MessageWhole, Whole
  <2>2. CASE ~(message' = message /\ messageTorn' = messageTorn)
    <3>1. /\ Occurs(TopicName, subscribedData') /\ message' = WithoutExtra(subscribedData')
          /\ messageTorn' = bufferTorn'
      BY <2>2 DEF SubscriptionCallback
    <3>2. subscribedData' # <<>>
      BY <3>1, TopicIsNotEmpty
    <3>3. CASE bufferTorn'
      BY <3>1, <3>3 DEF MessageWhole, Whole
    <3>4. CASE ~bufferTorn'
      <4>1. PICK text \in published : IsPrefix(text, subscribedData')
        BY <1>6, <3>2, <3>4
      <4>2. text \in Seq(Characters) /\ WholeText(text)
        BY <4>1 DEF PayloadInv, CopyInv
      <4>3. IsPrefix(text, message')
        BY <1>5, <3>1, <4>1, <4>2, BraceKeepsText
      <4> QED BY <1>2, <4>1, <4>3 DEF MessageWhole, Whole
    <3> QED BY <3>3, <3>4
  <2> QED BY <2>1, <2>2
<1>8. CopyInv'
  BY <1>2 DEF PayloadInv, CopyInv
<1> HIDE DEF str, n
<1> QED BY <1>2, <1>5, <1>6, <1>7, <1>8 DEF PayloadInv

LEMMA CopyKeepsTexts ==
  ASSUME PayloadInv, (\E text \in Texts : Publish(text)) \/ CopyCharacter \/ EndCopy
  PROVE  PayloadInv'
<1> USE PayloadAssumption, BoundedCopyAssumption DEF PayloadInv
<1>1. published \subseteq published' /\ UNCHANGED received
  BY DEF Publish, CopyCharacter, EndCopy
<1>2. CopyInv'
  <2>1. ASSUME NEW text \in Texts, Publish(text) PROVE CopyInv'
    BY <2>1 DEF Publish, CopyInv
  <2>2. CASE CopyCharacter
    <3>1. source \in published /\ source \in Seq(Characters) /\ copied' = copied + 1
          /\ copied' \in 1 .. Len(source)
      BY <2>2 DEF CopyCharacter, CopyInv
    <3>2. PICK rest \in IF copied < Len(dataToPublish)
                        THEN {SubSeq(dataToPublish, copied + 2, Len(dataToPublish))} ELSE Beyond :
             dataToPublish' = SubSeq(source, 1, copied') \o rest
      BY <2>2 DEF CopyCharacter
    <3>3. rest \in Seq(Characters)
      <4>1. CASE copied < Len(dataToPublish)
        <5>1. \A i \in copied + 2 .. Len(dataToPublish) : dataToPublish[i] \in Characters
          BY ElementOfSeq DEF CopyInv
        <5>2. SubSeq(dataToPublish, copied + 2, Len(dataToPublish)) \in Seq(Characters)
          BY <5>1, SubSeqProperties DEF CopyInv
        <5> QED BY <3>2, <4>1, <5>2
      <4>2. CASE ~(copied < Len(dataToPublish))
        BY <3>2, <4>2
      <4> QED BY <4>1, <4>2
    <3>4. SubSeq(source, 1, copied') \in Seq(Characters)
      BY <3>1
    <3>5. dataToPublish' \in Seq(Characters)
      BY <3>2, <3>3, <3>4, ConcatProperties
    <3> QED BY <2>2, <3>1, <3>5 DEF CopyCharacter, CopyInv
  <2>3. CASE EndCopy
    <3>1. source \in published /\ source \in Seq(Characters) /\ Len(source) \in Nat
      BY <2>3 DEF EndCopy, CopyInv
    <3>2. DbaStrcpy(PublishDataSize, Len(source)) = Copied => Len(source) + 1 < PublishDataSize
      BY <3>1, StrcpyFits
    <3>3. DbaStrcpy(PublishDataSize, Len(source)) \in {Copied, Emptied, Untouched}
      BY DEF DbaStrcpy, StrcpyS
    <3> QED BY <2>3, <3>1, <3>2, <3>3, EmptySeq DEF EndCopy, CopyInv, After, Copied, Emptied, Untouched
  <2> QED BY <2>1, <2>2, <2>3
<1> QED BY <1>1, <1>2 DEF received, MessageWhole, Whole

LEMMA PayloadInvariance ==
  ASSUME \A text \in Texts : WholeText(text)
  PROVE  PayloadSpec => []PayloadInv
<1>1. PayloadInit => PayloadInv
  BY EmptySeq DEF PayloadInit, PayloadInv, CopyInv, MessageWhole, Whole
<1>2. PayloadInv /\ [PayloadNext]_payloadVars => PayloadInv'
  <2> SUFFICES ASSUME PayloadInv, [PayloadNext]_payloadVars PROVE PayloadInv'
    OBVIOUS
  <2>1. CASE (\E text \in Texts : Publish(text)) \/ CopyCharacter \/ EndCopy
    BY <2>1, CopyKeepsTexts
  <2>2. ASSUME NEW beyond \in Beyond, SubscriptionCallback(beyond) PROVE PayloadInv'
    BY <2>2, CallbackKeepsTexts
  <2>3. CASE UNCHANGED payloadVars
    BY <2>3 DEF payloadVars, copy, received, PayloadInv, CopyInv, MessageWhole, Whole
  <2> QED BY <2>1, <2>2, <2>3 DEF PayloadNext
<1> QED BY <1>1, <1>2, PTL DEF PayloadSpec

\* MessageWhole: a text of the exporter, or JSON without a list, that is not
\* sampled in the middle of its copy is never cut short or spliced with another
\* on its way to the subscriber, for every size of the buffer, limit of the safe
\* string library and content of memory, before and behind any number of torn
\* samples.
THEOREM PayloadsArriveWhole ==
  ASSUME \A text \in Texts : Export(text) \/ Json(text)
  PROVE  PayloadSpec => []MessageWhole
<1>1. PayloadSpec => []PayloadInv
  BY PayloadInvariance DEF WholeText
<1>2. PayloadInv => MessageWhole
  BY DEF PayloadInv
<1> QED BY <1>1, <1>2, PTL

------------------------------------------------------------------------------
(* The two trims take away no less than what was read behind the text *)

Unended(beyond) == ~Contains(beyond, Bracket) /\ ~Contains(beyond, BraceClose)

\* What the static buffer holds of a text: the text, and behind it, if the text
\* is JSON, what does not end it.
Holds(text, str) ==
    /\ IsPrefix(text, str)
    /\ \A i \in 1 .. Len(str) : str[i] = BraceClose /\ Json(text) => i <= Len(text)
    /\ Export(text) => str = text

ExactInv ==
    clean => /\ subscribedData # <<>> /\ ~bufferTorn =>
                    \E text \in published : Holds(text, subscribedData)
             /\ Whole => message \in published

LEMMA WholeSubSeq ==
  ASSUME NEW text \in Seq(Characters), NEW str \in Seq(Characters), IsPrefix(text, str)
  PROVE  SubSeq(str, 1, Len(text)) = text
<1>1. SubSeq(text, 1, Len(text)) = text
  OBVIOUS
<1> QED BY <1>1 DEF IsPrefix

\* The first trim, of a text that was read with nothing that ends one behind it.
LEMMA BracketTrimsToText ==
  ASSUME NEW text \in Seq(Characters), WholeText(text),
         NEW beyond \in Seq(Characters), Unended(beyond),
         NEW k \in Nat, k = UpToBracket(text \o beyond),
         NEW n \in Len(text) .. k, k = Len(text) => n = k
  PROVE  Holds(text, SubSeq(text \o beyond, 1, n))
<1> DEFINE str == text \o beyond
           last == LastIndexOf(str, Bracket)
<1>1. str \in Seq(Characters) /\ IsPrefix(text, str) /\ Len(str) = Len(text) + Len(beyond)
  BY PrefixOfConcat
<1>2. \A i \in Len(text) + 1 .. Len(str) : str[i] # Bracket /\ str[i] # BraceClose
  <2> TAKE i \in Len(text) + 1 .. Len(str)
  <2>1. i - Len(text) \in 1 .. Len(beyond)  BY <1>1
  <2>2. str[i] = beyond[i - Len(text)]  BY <1>1
  <2> QED BY <2>1, <2>2 DEF Unended, Contains
<1>3. k = UpToBracket(str) /\ k \in Len(text) .. Len(str)
  <2>1. k = UpToBracket(str)  OBVIOUS
  <2> HIDE DEF str
  <2> QED BY <1>1, <2>1, BracketKeepsText
<1>4. n \in Len(text) .. Len(str)
  <2> HIDE DEF str
  <2> QED BY <1>1, <1>3
<1> DEFINE cut == SubSeq(str, 1, n)
<1>5. /\ cut \in Seq(Characters) /\ IsPrefix(text, cut)
      /\ Len(cut) = n /\ \A i \in 1 .. n : cut[i] = str[i]
  <2> HIDE DEF str
  <2>1. n \in 0 .. Len(str)  BY <1>1, <1>4
  <2> QED BY <1>1, <1>4, <2>1, PrefixOfCut
<1>6. \A i \in 1 .. Len(cut) : cut[i] = BraceClose /\ Json(text) => i <= Len(text)
  <2> HIDE DEF cut, str
  <2> QED BY <1>1, <1>2, <1>4, <1>5
<1>7. ASSUME Export(text) PROVE cut = text
  <2>1. last \in 0 .. Len(str) /\ (last # 0 => str[last] = Bracket)
    <3> HIDE DEF str
    <3> QED BY <1>1, LastIndex
  <2>2. last <= Len(text)
    <3> HIDE DEF str, last
    <3> QED BY <1>1, <1>2, <2>1
  <2>3. k = IF last = 0 THEN Len(str) ELSE last
    BY <1>3 DEF UpToBracket
  <2>4. last # 0
    <3>1. Len(text) \in 1 .. Len(text) /\ text[Len(text)] = Bracket
      <4>1. Len(text) # 0  BY DEF WholeText, Export, Json
      <4> QED BY <1>7, <4>1 DEF Export, Last
    <3>2. Len(text) \in 1 .. Len(str) /\ str[Len(text)] = Bracket
      <4> HIDE DEF str
      <4> QED BY <1>1, <3>1, PrefixElement
    <3>3. Len(text) <= last
      <4> HIDE DEF str
      <4> QED BY <1>1, <3>2, LastIndex
    <3> HIDE DEF last
    <3> QED BY <2>1, <3>1, <3>3
  <2>5. n = Len(text)
    <3> HIDE DEF last, str
    <3> QED BY <1>3, <1>7, <2>2, <2>3, <2>4
  <2> HIDE DEF str
  <2> QED BY <1>1, <2>5, WholeSubSeq
<1> HIDE DEF cut
<1>8. Holds(text, cut)
  BY <1>5, <1>6, <1>7 DEF Holds
<1> QED BY <1>8 DEF cut

\* The second trim, of what the first one left.
LEMMA BraceTrimsToText ==
  ASSUME NEW text \in Seq(Characters), WholeText(text),
         NEW msg \in Seq(Characters), Holds(text, msg)
  PROVE  WithoutExtra(msg) = text
<1>1. /\ IsPrefix(text, msg) /\ Len(text) <= Len(msg)
      /\ 1 \in 1 .. Len(text) /\ Len(text) \in 1 .. Len(text)
  <2>1. Len(text) # 0  BY DEF WholeText, Export, Json
  <2> QED BY <2>1 DEF Holds, IsPrefix
<1>2. msg[1] = text[1] /\ msg[Len(text)] = text[Len(text)]
  BY <1>1, PrefixElement
<1>3. CASE Export(text)
  BY <1>2, <1>3 DEF Holds, Export, WithoutExtra
<1>4. CASE Json(text)
  <2> DEFINE last == LastIndexOf(msg, BraceClose)
  <2>1. msg[1] = BraceOpen /\ msg[Len(text)] = BraceClose
    BY <1>2, <1>4 DEF Json, Last
  <2>2. \A i \in 1 .. Len(msg) : msg[i] = BraceClose => i <= Len(text)
    BY <1>4 DEF Holds
  <2>3. CASE Last(msg) = BraceClose
    <3>1. Len(msg) = Len(text)
      BY <1>1, <2>2, <2>3 DEF Last
    <3>2. SubSeq(msg, 1, Len(msg)) = msg
      OBVIOUS
    <3>3. msg = text
      BY <1>1, <3>1, <3>2, WholeSubSeq
    <3> QED BY <2>3, <3>3 DEF WithoutExtra
  <2>4. CASE Last(msg) # BraceClose
    <3>1. /\ last \in 0 .. Len(msg) /\ (last # 0 => msg[last] = BraceClose)
          /\ \A i \in 1 .. Len(msg) : msg[i] = BraceClose => i <= last
      BY LastIndex
    <3>2. last = Len(text)
      <4> HIDE DEF last
      <4>1. Len(text) <= last  BY <1>1, <2>1, <3>1
      <4> QED BY <1>1, <2>2, <3>1, <4>1
    <3>3. WithoutExtra(msg) = SubSeq(msg, 1, last)
      BY <2>1, <2>4 DEF WithoutExtra
    <3> HIDE DEF last
    <3> QED BY <1>1, <3>2, <3>3, WholeSubSeq
  <2> QED BY <2>3, <2>4
<1> QED BY <1>3, <1>4 DEF WholeText

LEMMA CallbackKeepsExact ==
  ASSUME NEW beyond \in Beyond, PayloadInv, PayloadInv', ExactInv,
         SubscriptionCallback(beyond), \A text \in Texts : WholeText(text)
  PROVE  ExactInv'
<1> USE PayloadAssumption, BoundedCopyAssumption
<1> DEFINE str == dataToPublish \o beyond
           k == UpToBracket(str)
           n == DbaStrncpyCount(PublishDataSize, k)
<1> SUFFICES ASSUME clean' PROVE ExactInv'
  BY DEF ExactInv
<1>1. /\ clean /\ Unended(beyond) /\ beyond \in Seq(Characters)
      /\ dataToPublish # <<>> /\ dataToPublish \in Seq(Characters)
      /\ published' = published
  BY DEF PayloadInv, CopyInv, SubscriptionCallback, Unended
<1>2. ASSUME copied = 0
      PROVE  dataToPublish \in published /\ Holds(dataToPublish, SubSeq(str, 1, n))
  <2>1. /\ dataToPublish \in published /\ WholeText(dataToPublish)
        /\ Len(dataToPublish) + 1 < PublishDataSize
    BY <1>1, <1>2 DEF PayloadInv, CopyInv
  <2>2. str \in Seq(Characters) /\ k \in Len(dataToPublish) .. Len(str)
    <3>1. str \in Seq(Characters) /\ IsPrefix(dataToPublish, str)
      BY <1>1, PrefixOfConcat
    <3> HIDE DEF str
    <3> QED BY <1>1, <2>1, <3>1, BracketKeepsText
  <2>3. k \in Nat /\ n \in Len(dataToPublish) .. k /\ (k = Len(dataToPublish) => n = k)
    <3> HIDE DEF str, k
    <3>1. k \in Nat  BY <1>1, <2>2
    <3>2. n = k \/ n = PublishDataSize - 1
      BY <3>1 DEF DbaStrncpyCount, BoundFor
    <3>3. n \in 0 .. k /\ (k < PublishDataSize => n = k)
      BY <3>1, StrncpyFits
    <3> HIDE DEF n
    <3> QED BY <1>1, <2>1, <2>2, <3>1, <3>2, <3>3
  <2>4. k = UpToBracket(dataToPublish \o beyond)  OBVIOUS
  <2> HIDE DEF k, n
  <2> QED BY <1>1, <2>1, <2>3, <2>4, BracketTrimsToText
<1>3. \/ subscribedData' \in {SubSeq(str, 1, n), <<>>} /\ (copied > 0 => bufferTorn')
      \/ subscribedData' = subscribedData /\ bufferTorn' = bufferTorn
  BY DEF SubscriptionCallback, Trimmed, After, DbaStrncpy, StrncpyS, Copied, Emptied, Untouched
<1>4. ASSUME subscribedData' # <<>>, ~bufferTorn'
      PROVE  \E text \in published : Holds(text, subscribedData')
  <2> HIDE DEF str, n
  <2>1. CASE subscribedData' = SubSeq(str, 1, n) /\ (copied > 0 => bufferTorn')
    <3>1. copied = 0
      BY <1>4, <2>1 DEF PayloadInv, CopyInv
    <3> QED BY <1>2, <2>1, <3>1
  <2>2. CASE subscribedData' = subscribedData /\ bufferTorn' = bufferTorn
    BY <1>1, <1>4, <2>2 DEF ExactInv
  <2> QED BY <1>3, <1>4, <2>1, <2>2
<1>5. Whole' => message' \in published
  <2>1. CASE message' = message /\ messageTorn' = messageTorn
    BY <1>1, <2>1 DEF ExactInv, Whole
  <2>2. CASE ~(message' = message /\ messageTorn' = messageTorn)
    <3>1. /\ Occurs(TopicName, subscribedData') /\ message' = WithoutExtra(subscribedData')
          /\ messageTorn' = bufferTorn'
      BY <2>2 DEF SubscriptionCallback
    <3>2. subscribedData' # <<>>
      BY <3>1, TopicIsNotEmpty
    <3> SUFFICES ASSUME ~bufferTorn' PROVE message' \in published
      BY <3>1 DEF Whole
    <3>3. PICK text \in published : Holds(text, subscribedData')
      BY <1>4, <3>2
    <3>4. text \in Seq(Characters) /\ WholeText(text) /\ subscribedData' \in Seq(Characters)
      BY <3>3 DEF PayloadInv, CopyInv
    <3> QED BY <3>1, <3>3, <3>4, BraceTrimsToText
  <2> QED BY <2>1, <2>2
<1> QED BY <1>1, <1>4, <1>5 DEF ExactInv

\* MessageExact: as long as nothing that ends a text was read behind one, what
\* the two trims leave is a text that was published, to the last character,
\* unless it was sampled in the middle of a copy.
THEOREM MessagesArriveExact ==
  ASSUME \A text \in Texts : Export(text) \/ Json(text)
  PROVE  PayloadSpec => []MessageExact
<1>1. PayloadInit => ExactInv
  BY DEF PayloadInit, ExactInv, Whole
<1>2. PayloadInv /\ PayloadInv' /\ ExactInv /\ [PayloadNext]_payloadVars => ExactInv'
  <2> SUFFICES ASSUME PayloadInv, PayloadInv', ExactInv, [PayloadNext]_payloadVars
               PROVE  ExactInv'
    OBVIOUS
  <2>1. CASE (\E text \in Texts : Publish(text)) \/ CopyCharacter \/ EndCopy
    <3>1. published \subseteq published' /\ UNCHANGED received
      BY <2>1 DEF Publish, CopyCharacter, EndCopy
    <3> QED BY <3>1 DEF received, ExactInv, Whole
  <2>2. ASSUME NEW beyond \in Beyond, SubscriptionCallback(beyond) PROVE ExactInv'
    BY <2>2, CallbackKeepsExact DEF WholeText
  <2>3. CASE UNCHANGED payloadVars
    BY <2>3 DEF payloadVars, received, ExactInv, Whole
  <2> QED BY <2>1, <2>2, <2>3 DEF PayloadNext
<1>3. ExactInv => MessageExact
  BY DEF ExactInv, MessageExact, Whole
<1>4. PayloadSpec => []PayloadInv
  BY PayloadInvariance DEF WholeText
<1> QED BY <1>1, <1>2, <1>3, <1>4, PTL DEF PayloadSpec

===============================================================================
