------------------------ MODULE ReaderGrammarProofs ------------------------
(***************************************************************************)
(* The reader implements the grammar, for every value of its constants.    *)
(***************************************************************************)
EXTENDS ReaderRefinement, ReaderProofs

-----------------------------------------------------------------------------
(* Leftmost derivations, over symbols and tokens. *)

Symbols == Grammar!Symbols
Glyph == Symbols \cup Token

(* Sequences of glyphs, by their first. *)
Then(x, w) == <<x>> \o w

LEMMA Parted ==
    ASSUME NEW x \in Glyph, NEW w \in Seq(Glyph)
    PROVE  /\ Then(x, w) \in Seq(Glyph) /\ Then(x, w) # <<>>
           /\ Head(Then(x, w)) = x /\ Tail(Then(x, w)) = w
<1>1. <<x>> \in Seq(Glyph) /\ Len(<<x>>) = 1 /\ <<x>>[1] = x
  OBVIOUS
<1>2. /\ <<x>> \o w \in Seq(Glyph) /\ Len(<<x>> \o w) = 1 + Len(w)
      /\ \A i \in 1 .. 1 + Len(w) : (<<x>> \o w)[i] = IF i <= 1 THEN <<x>>[i] ELSE w[i - 1]
  BY <1>1, ConcatProperties
<1>3. Len(w) \in Nat /\ DOMAIN w = 1 .. Len(w)
  BY LenProperties
<1>4. <<x>> \o w # <<>> /\ Head(<<x>> \o w) = x
  BY <1>1, <1>2, <1>3, EmptySeq, HeadTailProperties
<1>5. /\ Tail(<<x>> \o w) \in Seq(Glyph) /\ Len(Tail(<<x>> \o w)) = Len(w)
      /\ \A i \in 1 .. Len(w) : Tail(<<x>> \o w)[i] = (<<x>> \o w)[i + 1]
  BY <1>2, <1>3, <1>4, HeadTailProperties
<1>6. \A i \in 1 .. Len(w) : Tail(<<x>> \o w)[i] = w[i]
  BY <1>2, <1>3, <1>5
<1>7. Tail(<<x>> \o w) = w
  BY <1>3, <1>5, <1>6, SeqEqual
<1>8. QED
  BY <1>2, <1>4, <1>7 DEF Then

LEMMA PairJoined ==
    ASSUME NEW a \in Glyph, NEW b \in Glyph
    PROVE  <<a, b>> = <<a>> \o <<b>>
<1>1. /\ <<a>> \in Seq(Glyph) /\ <<b>> \in Seq(Glyph) /\ <<a, b>> \in Seq(Glyph)
      /\ Len(<<a>>) = 1 /\ Len(<<b>>) = 1 /\ Len(<<a, b>>) = 2
  OBVIOUS
<1>2. /\ <<a>> \o <<b>> \in Seq(Glyph) /\ Len(<<a>> \o <<b>>) = 2
      /\ \A i \in 1 .. 2 : (<<a>> \o <<b>>)[i] = IF i <= 1 THEN <<a>>[i] ELSE <<b>>[i - 1]
  BY <1>1, ConcatProperties
<1>3. \A i \in 1 .. 2 : (<<a>> \o <<b>>)[i] = <<a, b>>[i]
  BY <1>2
<1>4. QED
  BY <1>1, <1>2, <1>3, SeqEqual

LEMMA Parts ==
    ASSUME NEW a \in Glyph, NEW b \in Glyph, NEW c \in Glyph, NEW w \in Seq(Glyph)
    PROVE  /\ <<a>> \o w = Then(a, w)
           /\ <<a, b>> \o w = Then(a, Then(b, w))
           /\ <<a, b, c>> \o w = Then(a, Then(b, Then(c, w)))
<1>1. /\ <<a>> \in Seq(Glyph) /\ <<b>> \in Seq(Glyph) /\ <<c>> \in Seq(Glyph)
      /\ <<b, c>> \in Seq(Glyph)
  OBVIOUS
<1>2. <<a, b>> = <<a>> \o <<b>> /\ <<b, c>> = <<b>> \o <<c>>
  BY PairJoined
<1>3. <<a, b, c>> = <<a>> \o <<b, c>>
  <2>1. /\ <<a, b, c>> \in Seq(Glyph) /\ Len(<<a, b, c>>) = 3
        /\ Len(<<a>>) = 1 /\ Len(<<b, c>>) = 2
    OBVIOUS
  <2>2. /\ <<a>> \o <<b, c>> \in Seq(Glyph) /\ Len(<<a>> \o <<b, c>>) = 3
        /\ \A i \in 1 .. 3 : (<<a>> \o <<b, c>>)[i] = IF i <= 1 THEN <<a>>[i] ELSE <<b, c>>[i - 1]
    BY <1>1, <2>1, ConcatProperties
  <2>3. \A i \in 1 .. 3 : (<<a>> \o <<b, c>>)[i] = <<a, b, c>>[i]
    BY <2>2
  <2>4. QED
    BY <2>1, <2>2, <2>3, SeqEqual
<1>4. (<<a>> \o <<b>>) \o w = <<a>> \o (<<b>> \o w) /\ (<<b>> \o <<c>>) \o w = <<b>> \o (<<c>> \o w)
  BY <1>1, ConcatAssociative
<1>5. (<<a>> \o <<b, c>>) \o w = <<a>> \o (<<b, c>> \o w)
  BY <1>1, ConcatAssociative
<1>6. <<a, b>> \o w = Then(a, Then(b, w)) /\ <<b, c>> \o w = Then(b, Then(c, w))
  BY <1>2, <1>4 DEF Then
<1>7. <<a, b, c>> \o w = Then(a, Then(b, Then(c, w)))
  BY <1>3, <1>5, <1>6 DEF Then
<1>8. QED
  BY <1>6, <1>7 DEF Then

LEMMA TokenStays ==
    ASSUME NEW x \in Token, NEW w \in Seq(Glyph)
    PROVE  Grammar!Expanded(Then(x, w)) = {Then(x, w)}
  BY Parted, SymbolsAssumption DEF Grammar!Expanded, Glyph, Symbols

LEMMA SymbolExpands ==
    ASSUME NEW x \in Symbols, NEW w \in Seq(Glyph)
    PROVE  Grammar!Expanded(Then(x, w)) = {body \o w : body \in Grammar!Productions(x)}
  BY Parted DEF Grammar!Expanded, Glyph, Symbols

(* Sequences that begin with a token are not expanded any further, and say *)
(* which tokens may come.                                                  *)
Fronted(sequences) ==
    \A s \in sequences : \E t \in Token, w \in Seq(Glyph) : s = Then(t, w)

LEMMA FrontedStay ==
    ASSUME NEW symbols, Fronted(Grammar!Expanded(symbols))
    PROVE  Grammar!Leftmost(symbols) = Grammar!Expanded(symbols)
<1>1. \A s \in Grammar!Expanded(symbols) : Grammar!Expanded(s) = {s}
  BY TokenStays DEF Fronted
<1>2. QED
  BY <1>1 DEF Grammar!Leftmost

LEMMA FrontedAfter ==
    ASSUME NEW symbols, Fronted(Grammar!Leftmost(symbols))
    PROVE  /\ Grammar!TokensFirst(symbols) /\ symbols # <<>>
           /\ \A t \in Token, w \in Seq(Glyph) :
                 Then(t, w) \in Grammar!Leftmost(symbols) => w \in Grammar!After(symbols, t)
           /\ \A t : (\A s \in Grammar!Leftmost(symbols) : Head(s) # t)
                      => Grammar!After(symbols, t) = {}
<1>1. \A t \in Token, w \in Seq(Glyph) :
         /\ Then(t, w) # <<>> /\ Head(Then(t, w)) = t /\ Tail(Then(t, w)) = w
         /\ t \notin Grammar!Symbols
  BY Parted, SymbolsAssumption DEF Glyph
<1>2. Grammar!TokensFirst(symbols)
  <2> SUFFICES ASSUME NEW s \in Grammar!Leftmost(symbols)
               PROVE  Head(s) \notin Grammar!Symbols
    BY DEF Grammar!TokensFirst
  <2>1. PICK t \in Token, w \in Seq(Glyph) : s = Then(t, w)
    BY DEF Fronted
  <2>2. QED
    BY <1>1, <2>1
<1>3. ASSUME NEW t \in Token, NEW w \in Seq(Glyph), Then(t, w) \in Grammar!Leftmost(symbols)
      PROVE  w \in Grammar!After(symbols, t)
  BY <1>1, <1>3 DEF Grammar!After
<1>4. ASSUME NEW t, \A s \in Grammar!Leftmost(symbols) : Head(s) # t
      PROVE  Grammar!After(symbols, t) = {}
  BY <1>4 DEF Grammar!After
<1>5. symbols # <<>>
  <2>1. <<>> \in Grammar!Leftmost(<<>>)
    BY DEF Grammar!Leftmost, Grammar!Expanded
  <2>2. QED
    BY <1>1, <2>1 DEF Fronted
<1>6. QED
  BY <1>2, <1>3, <1>4, <1>5

-----------------------------------------------------------------------------
(* The productions. *)

CommaSign == ","
ColonSign == ":"
OpenArray == "["
OpenObject == "{"
EndArray == "]"
EndObject == "}"
AValue == "value"
ItemsPart == "items"
MoreItemsPart == "more items"
MembersPart == "members"
MoreMembersPart == "more members"
AMember == "member"

Two(a, b) == <<a, b>>
Three(a, b, c) == <<a, b, c>>

LEMMA SignsAreTokens ==
    {CommaSign, ColonSign, OpenArray, OpenObject, EndArray, EndObject} \subseteq Token
  BY DEF Token, Punctuation, Opening, CommaSign, ColonSign, OpenArray, OpenObject, EndArray, EndObject

LEMMA ProductionsAre ==
    /\ Grammar!Productions(AValue) =
          {<<s>> : s \in Scalar}
            \cup {Three(OpenArray, ItemsPart, EndArray), Three(OpenObject, MembersPart, EndObject)}
    /\ Grammar!Productions(ItemsPart) = {<<>>, Two(AValue, MoreItemsPart)}
    /\ Grammar!Productions(MoreItemsPart) = {<<>>, Three(CommaSign, AValue, MoreItemsPart)}
    /\ Grammar!Productions(MembersPart) = {<<>>, Two(AMember, MoreMembersPart)}
    /\ Grammar!Productions(MoreMembersPart) = {<<>>, Three(CommaSign, AMember, MoreMembersPart)}
    /\ Grammar!Productions(AMember) = {Three(n, ColonSign, AValue) : n \in Names}
  BY DEF Grammar!Productions, CommaSign, ColonSign, OpenArray, OpenObject, EndArray, EndObject,
         AValue, ItemsPart, MoreItemsPart, MembersPart, MoreMembersPart, AMember, Two, Three

LEMMA SymbolsAre ==
    {AValue, ItemsPart, MoreItemsPart, MembersPart, MoreMembersPart, AMember} = Symbols
  BY DEF Symbols, Grammar!Symbols, AValue, ItemsPart, MoreItemsPart, MembersPart,
         MoreMembersPart, AMember

LEMMA TwoOrThree ==
    ASSUME NEW a \in Glyph, NEW b \in Glyph, NEW c \in Glyph
    PROVE  Two(a, b) \in Seq(Glyph) /\ Three(a, b, c) \in Seq(Glyph)
  BY DEF Two, Three

LEMMA Joined2 ==
    ASSUME NEW a \in Glyph, NEW b \in Glyph, NEW w \in Seq(Glyph)
    PROVE  Two(a, b) \o w = Then(a, Then(b, w))
<1>1. <<a, b>> \o w = Then(a, Then(b, w))
  BY Parts
<1>2. QED
  BY <1>1 DEF Two

LEMMA Joined3 ==
    ASSUME NEW a \in Glyph, NEW b \in Glyph, NEW c \in Glyph, NEW w \in Seq(Glyph)
    PROVE  Three(a, b, c) \o w = Then(a, Then(b, Then(c, w)))
<1>1. <<a, b, c>> \o w = Then(a, Then(b, Then(c, w)))
  BY Parts, ZenonT(60)
<1>2. QED
  BY <1>1 DEF Three

LEMMA GlyphsAre ==
    /\ Token \subseteq Glyph /\ Names \subseteq Scalar /\ Scalar \subseteq Token
    /\ {CommaSign, ColonSign, OpenArray, OpenObject, EndArray, EndObject} \subseteq Glyph
    /\ {AValue, ItemsPart, MoreItemsPart, MembersPart, MoreMembersPart, AMember} \subseteq Glyph
  BY SignsAreTokens, SymbolsAre DEF Glyph, Token, Scalar

(* What values, members and the parts of containers begin with. *)
ValueFronts(w) ==
    {Then(s, w) : s \in Scalar}
      \cup {Then(OpenArray, Then(ItemsPart, Then(EndArray, w))),
            Then(OpenObject, Then(MembersPart, Then(EndObject, w)))}
MemberFronts(w) == {Then(n, Then(ColonSign, Then(AValue, w))) : n \in Names}

LEMMA ValueExpands ==
    ASSUME NEW w \in Seq(Glyph)
    PROVE  /\ Fronted(ValueFronts(w))
           /\ Grammar!Expanded(Then(AValue, w)) = ValueFronts(w)
<1>1. Fronted(ValueFronts(w))
  BY GlyphsAre, SignsAreTokens, Parted DEF Fronted, ValueFronts
<1>2. Grammar!Expanded(Then(AValue, w)) =
         {body \o w : body \in {<<s>> : s \in Scalar}
            \cup {Three(OpenArray, ItemsPart, EndArray), Three(OpenObject, MembersPart, EndObject)}}
  BY SymbolExpands, SymbolsAre, ProductionsAre
<1>3. OpenArray \in Glyph /\ ItemsPart \in Glyph /\ EndArray \in Glyph
  BY GlyphsAre
<1>4. OpenObject \in Glyph /\ MembersPart \in Glyph /\ EndObject \in Glyph
  BY GlyphsAre
<1>5. Three(OpenArray, ItemsPart, EndArray) \o w = Then(OpenArray, Then(ItemsPart, Then(EndArray, w)))
  BY <1>3, Joined3
<1>6. Three(OpenObject, MembersPart, EndObject) \o w
         = Then(OpenObject, Then(MembersPart, Then(EndObject, w)))
  BY <1>4, Joined3
<1>7. \A s \in Scalar : <<s>> \o w = Then(s, w)
  BY DEF Then
<1> DEFINE some == {<<s>> : s \in Scalar}
           array == Three(OpenArray, ItemsPart, EndArray)
           object == Three(OpenObject, MembersPart, EndObject)
<1>8. {body \o w : body \in some \cup {array, object}} =
         {body \o w : body \in some} \cup {array \o w, object \o w}
  <2> HIDE DEF some, array, object
  <2>1. QED
    OBVIOUS
<1>9. {body \o w : body \in some} = {Then(s, w) : s \in Scalar}
  BY <1>7
<1>10. QED
  BY <1>1, <1>2, <1>5, <1>6, <1>8, <1>9 DEF ValueFronts

LEMMA MemberExpands ==
    ASSUME NEW w \in Seq(Glyph)
    PROVE  /\ Fronted(MemberFronts(w))
           /\ Grammar!Expanded(Then(AMember, w)) = MemberFronts(w)
<1>1. Fronted(MemberFronts(w))
  BY GlyphsAre, Parted DEF Fronted, MemberFronts
<1>2. Grammar!Expanded(Then(AMember, w)) =
         {body \o w : body \in {Three(n, ColonSign, AValue) : n \in Names}}
  BY SymbolExpands, SymbolsAre, ProductionsAre
<1>3. \A n \in Names : Three(n, ColonSign, AValue) \o w = Then(n, Then(ColonSign, Then(AValue, w)))
  <2> SUFFICES ASSUME NEW n \in Names
               PROVE  Three(n, ColonSign, AValue) \o w = Then(n, Then(ColonSign, Then(AValue, w)))
    OBVIOUS
  <2>1. n \in Glyph /\ ColonSign \in Glyph /\ AValue \in Glyph
    BY GlyphsAre
  <2>2. QED
    BY <2>1, Joined3, ZenonT(60)
<1>4. QED
  BY <1>1, <1>2, <1>3, ZenonT(60) DEF MemberFronts

(* A symbol that may be empty, before a token. *)
EmptyOr(x, body) == Grammar!Productions(x) = {<<>>, body}
Expands(symbols, v, whole) == Grammar!Expanded(symbols) = {v, whole}

LEMMA EmptyOrExpands ==
    ASSUME NEW x \in Symbols, NEW body, NEW w \in Seq(Glyph), EmptyOr(x, body)
    PROVE  Expands(Then(x, w), w, body \o w)
<1> DEFINE bodies == {<<>>, body}
<1>1. Grammar!Expanded(Then(x, w)) = {b \o w : b \in bodies}
  BY SymbolExpands DEF EmptyOr
<1>2. \A b : b \in bodies <=> b = <<>> \/ b = body
  OBVIOUS
<1> HIDE DEF bodies
<1>3. Grammar!Expanded(Then(x, w)) = {<<>> \o w, body \o w}
  BY <1>1, <1>2
<1>4. <<>> \o w = w
  BY ConcatEmptySeq
<1>5. QED
  BY <1>3, <1>4 DEF Expands

LEMMA MayBeEmpty ==
    ASSUME NEW symbols, NEW z \in Token, NEW w \in Seq(Glyph), NEW whole,
           Expands(symbols, Then(z, w), whole), Fronted(Grammar!Expanded(whole))
    PROVE  /\ Fronted(Grammar!Leftmost(symbols))
           /\ Grammar!Leftmost(symbols) = {Then(z, w)} \cup Grammar!Expanded(whole)
<1>1. Grammar!Expanded(Then(z, w)) = {Then(z, w)}
  BY TokenStays
<1>2. Grammar!Leftmost(symbols) = {Then(z, w)} \cup Grammar!Expanded(whole)
  BY <1>1 DEF Grammar!Leftmost, Expands
<1>3. QED
  BY <1>2 DEF Fronted

-----------------------------------------------------------------------------
(* What may come next, and what is then left, by what is to be derived.    *)

ValueStarts == Scalar \cup {OpenArray, OpenObject}

LEMMA ValueHeads ==
    ASSUME NEW w \in Seq(Glyph)
    PROVE  \A s \in ValueFronts(w) : Head(s) \in ValueStarts
<1>1. /\ OpenArray \in Glyph /\ ItemsPart \in Glyph /\ EndArray \in Glyph
      /\ OpenObject \in Glyph /\ MembersPart \in Glyph /\ EndObject \in Glyph
      /\ Scalar \subseteq Glyph
  BY GlyphsAre
<1>2. \A x \in Glyph, v \in Seq(Glyph) : Then(x, v) \in Seq(Glyph) /\ Head(Then(x, v)) = x
  BY Parted
<1>3. \A s \in Scalar : Head(Then(s, w)) = s
  BY <1>1, <1>2
<1>4. Head(Then(OpenArray, Then(ItemsPart, Then(EndArray, w)))) = OpenArray
  BY <1>1, <1>2
<1>5. Head(Then(OpenObject, Then(MembersPart, Then(EndObject, w)))) = OpenObject
  BY <1>1, <1>2
<1>6. QED
  BY <1>3, <1>4, <1>5 DEF ValueFronts, ValueStarts

LEMMA MemberHeads ==
    ASSUME NEW w \in Seq(Glyph)
    PROVE  \A s \in MemberFronts(w) : Head(s) \in Names
<1>1. ColonSign \in Glyph /\ AValue \in Glyph /\ Names \subseteq Glyph
  BY GlyphsAre
<1>2. \A x \in Glyph, v \in Seq(Glyph) : Then(x, v) \in Seq(Glyph) /\ Head(Then(x, v)) = x
  BY Parted
<1>3. Then(ColonSign, Then(AValue, w)) \in Seq(Glyph)
  BY <1>1, <1>2
<1>4. QED
  BY <1>1, <1>2, <1>3 DEF MemberFronts

(* A value: one that is a token, or the beginning of a container. *)
LEMMA AfterValue ==
    ASSUME NEW w \in Seq(Glyph), NEW symbols,
           Fronted(Grammar!Leftmost(symbols)), ValueFronts(w) \subseteq Grammar!Leftmost(symbols)
    PROVE  /\ \A t \in Scalar : w \in Grammar!After(symbols, t)
           /\ Then(ItemsPart, Then(EndArray, w)) \in Grammar!After(symbols, OpenArray)
           /\ Then(MembersPart, Then(EndObject, w)) \in Grammar!After(symbols, OpenObject)
<1>1. /\ ItemsPart \in Glyph /\ EndArray \in Glyph /\ MembersPart \in Glyph /\ EndObject \in Glyph
      /\ Scalar \subseteq Token /\ OpenArray \in Token /\ OpenObject \in Token
  BY GlyphsAre, SignsAreTokens
<1>2. /\ Then(ItemsPart, Then(EndArray, w)) \in Seq(Glyph)
      /\ Then(MembersPart, Then(EndObject, w)) \in Seq(Glyph)
  BY <1>1, Parted
<1>3. /\ \A t \in Scalar : Then(t, w) \in Grammar!Leftmost(symbols)
      /\ Then(OpenArray, Then(ItemsPart, Then(EndArray, w))) \in Grammar!Leftmost(symbols)
      /\ Then(OpenObject, Then(MembersPart, Then(EndObject, w))) \in Grammar!Leftmost(symbols)
  BY DEF ValueFronts
<1>4. \A t \in Token, v \in Seq(Glyph) :
         Then(t, v) \in Grammar!Leftmost(symbols) => v \in Grammar!After(symbols, t)
  BY FrontedAfter
<1>5. QED
  BY <1>1, <1>2, <1>3, <1>4

LEMMA AfterMember ==
    ASSUME NEW w \in Seq(Glyph), NEW symbols,
           Fronted(Grammar!Leftmost(symbols)), MemberFronts(w) \subseteq Grammar!Leftmost(symbols)
    PROVE  \A n \in Names : Then(ColonSign, Then(AValue, w)) \in Grammar!After(symbols, n)
<1>1. ColonSign \in Glyph /\ AValue \in Glyph /\ Names \subseteq Token
  BY GlyphsAre
<1>2. Then(ColonSign, Then(AValue, w)) \in Seq(Glyph)
  BY <1>1, Parted
<1>3. \A n \in Names : Then(n, Then(ColonSign, Then(AValue, w))) \in Grammar!Leftmost(symbols)
  BY DEF MemberFronts
<1>4. \A t \in Token, v \in Seq(Glyph) :
         Then(t, v) \in Grammar!Leftmost(symbols) => v \in Grammar!After(symbols, t)
  BY FrontedAfter
<1>5. QED
  BY <1>1, <1>2, <1>3, <1>4

LEMMA ValueIsLeft ==
    ASSUME NEW w \in Seq(Glyph)
    PROVE  /\ Fronted(Grammar!Leftmost(Then(AValue, w)))
           /\ Grammar!Leftmost(Then(AValue, w)) = ValueFronts(w)
  BY ValueExpands, FrontedStay

LEMMA MemberIsLeft ==
    ASSUME NEW w \in Seq(Glyph)
    PROVE  /\ Fronted(Grammar!Leftmost(Then(AMember, w)))
           /\ Grammar!Leftmost(Then(AMember, w)) = MemberFronts(w)
  BY MemberExpands, FrontedStay

LEMMA TokenIsLeft ==
    ASSUME NEW t \in Token, NEW w \in Seq(Glyph)
    PROVE  /\ Fronted(Grammar!Leftmost(Then(t, w)))
           /\ Grammar!Leftmost(Then(t, w)) = {Then(t, w)}
<1>1. Fronted(Grammar!Expanded(Then(t, w)))
  BY TokenStays DEF Fronted
<1>2. QED
  BY <1>1, TokenStays, FrontedStay

(* What an open container may go on with, and its end, before w. *)
MoreItems(w) == Then(MoreItemsPart, Then(EndArray, w))
MoreMembers(w) == Then(MoreMembersPart, Then(EndObject, w))

LEMMA ItemsAreLeft ==
    ASSUME NEW w \in Seq(Glyph)
    PROVE  /\ MoreItems(w) \in Seq(Glyph)
           /\ Fronted(Grammar!Leftmost(Then(ItemsPart, Then(EndArray, w))))
           /\ Grammar!Leftmost(Then(ItemsPart, Then(EndArray, w)))
                 = {Then(EndArray, w)} \cup ValueFronts(MoreItems(w))
<1>1. ItemsPart \in Symbols /\ EndArray \in Token /\ EndArray \in Glyph
  BY GlyphsAre, SignsAreTokens, SymbolsAre
<1>2. AValue \in Glyph /\ MoreItemsPart \in Glyph
  BY GlyphsAre
<1>3. /\ Then(EndArray, w) \in Seq(Glyph) /\ MoreItems(w) \in Seq(Glyph)
      /\ Two(AValue, MoreItemsPart) \in Seq(Glyph)
  BY <1>1, <1>2, Parted, TwoOrThree DEF MoreItems
<1>4. Two(AValue, MoreItemsPart) \o Then(EndArray, w) = Then(AValue, MoreItems(w))
  BY <1>2, <1>3, Joined2 DEF MoreItems
<1>5. /\ Fronted(ValueFronts(MoreItems(w)))
      /\ Grammar!Expanded(Then(AValue, MoreItems(w))) = ValueFronts(MoreItems(w))
  BY <1>3, ValueExpands
<1>6. EmptyOr(ItemsPart, Two(AValue, MoreItemsPart))
  BY ProductionsAre DEF EmptyOr
<1>7. Expands(Then(ItemsPart, Then(EndArray, w)), Then(EndArray, w), Then(AValue, MoreItems(w)))
  BY <1>1, <1>3, <1>4, <1>6, EmptyOrExpands
<1>8. QED
  BY <1>1, <1>3, <1>5, <1>7, MayBeEmpty

LEMMA MembersAreLeft ==
    ASSUME NEW w \in Seq(Glyph)
    PROVE  /\ MoreMembers(w) \in Seq(Glyph)
           /\ Fronted(Grammar!Leftmost(Then(MembersPart, Then(EndObject, w))))
           /\ Grammar!Leftmost(Then(MembersPart, Then(EndObject, w)))
                 = {Then(EndObject, w)} \cup MemberFronts(MoreMembers(w))
<1>1. MembersPart \in Symbols /\ EndObject \in Token /\ EndObject \in Glyph
  BY GlyphsAre, SignsAreTokens, SymbolsAre
<1>2. AMember \in Glyph /\ MoreMembersPart \in Glyph
  BY GlyphsAre
<1>3. /\ Then(EndObject, w) \in Seq(Glyph) /\ MoreMembers(w) \in Seq(Glyph)
      /\ Two(AMember, MoreMembersPart) \in Seq(Glyph)
  BY <1>1, <1>2, Parted, TwoOrThree DEF MoreMembers
<1>4. Two(AMember, MoreMembersPart) \o Then(EndObject, w) = Then(AMember, MoreMembers(w))
  BY <1>2, <1>3, Joined2 DEF MoreMembers
<1>5. /\ Fronted(MemberFronts(MoreMembers(w)))
      /\ Grammar!Expanded(Then(AMember, MoreMembers(w))) = MemberFronts(MoreMembers(w))
  BY <1>3, MemberExpands
<1>6. EmptyOr(MembersPart, Two(AMember, MoreMembersPart))
  BY ProductionsAre DEF EmptyOr
<1>7. Expands(Then(MembersPart, Then(EndObject, w)), Then(EndObject, w), Then(AMember, MoreMembers(w)))
  BY <1>1, <1>3, <1>4, <1>6, EmptyOrExpands
<1>8. QED
  BY <1>1, <1>3, <1>5, <1>7, MayBeEmpty

LEMMA MoreItemsAreLeft ==
    ASSUME NEW w \in Seq(Glyph)
    PROVE  /\ Fronted(Grammar!Leftmost(MoreItems(w)))
           /\ Grammar!Leftmost(MoreItems(w))
                 = {Then(EndArray, w), Then(CommaSign, Then(AValue, MoreItems(w)))}
<1>1. MoreItemsPart \in Symbols /\ EndArray \in Token /\ EndArray \in Glyph /\ CommaSign \in Token
  BY GlyphsAre, SignsAreTokens, SymbolsAre
<1>2. CommaSign \in Glyph /\ AValue \in Glyph /\ MoreItemsPart \in Glyph
  BY GlyphsAre
<1>3. /\ Then(EndArray, w) \in Seq(Glyph) /\ MoreItems(w) \in Seq(Glyph)
      /\ Then(AValue, MoreItems(w)) \in Seq(Glyph)
  BY <1>1, <1>2, Parted DEF MoreItems
<1>4. Three(CommaSign, AValue, MoreItemsPart) \in Seq(Glyph)
  BY <1>2, TwoOrThree
<1>5. Three(CommaSign, AValue, MoreItemsPart) \o Then(EndArray, w)
         = Then(CommaSign, Then(AValue, MoreItems(w)))
  BY <1>2, <1>3, Joined3, ZenonT(60) DEF MoreItems
<1>6. /\ Grammar!Expanded(Then(CommaSign, Then(AValue, MoreItems(w))))
            = {Then(CommaSign, Then(AValue, MoreItems(w)))}
      /\ Fronted({Then(CommaSign, Then(AValue, MoreItems(w)))})
  BY <1>1, <1>2, <1>3, TokenStays DEF Fronted
<1>7. EmptyOr(MoreItemsPart, Three(CommaSign, AValue, MoreItemsPart))
  BY ProductionsAre DEF EmptyOr
<1>8. Expands(MoreItems(w), Then(EndArray, w), Then(CommaSign, Then(AValue, MoreItems(w))))
  BY <1>1, <1>3, <1>5, <1>7, EmptyOrExpands DEF MoreItems
<1>9. EndArray \in Token
  BY SignsAreTokens
<1>10. Fronted(Grammar!Expanded(Then(CommaSign, Then(AValue, MoreItems(w)))))
  BY <1>6
<1>11. /\ Fronted(Grammar!Leftmost(MoreItems(w)))
      /\ Grammar!Leftmost(MoreItems(w)) = {Then(EndArray, w)} \cup
            Grammar!Expanded(Then(CommaSign, Then(AValue, MoreItems(w))))
  BY <1>9, <1>10, <1>8, MayBeEmpty
<1>12. /\ Fronted(Grammar!Leftmost(MoreItems(w)))
      /\ Grammar!Leftmost(MoreItems(w))
            = {Then(EndArray, w)} \cup {Then(CommaSign, Then(AValue, MoreItems(w)))}
  BY <1>6, <1>11
<1>13. QED
  BY <1>12

LEMMA MoreMembersAreLeft ==
    ASSUME NEW w \in Seq(Glyph)
    PROVE  /\ Fronted(Grammar!Leftmost(MoreMembers(w)))
           /\ Grammar!Leftmost(MoreMembers(w))
                 = {Then(EndObject, w), Then(CommaSign, Then(AMember, MoreMembers(w)))}
<1>1. MoreMembersPart \in Symbols /\ EndObject \in Token /\ EndObject \in Glyph /\ CommaSign \in Token
  BY GlyphsAre, SignsAreTokens, SymbolsAre
<1>2. CommaSign \in Glyph /\ AMember \in Glyph /\ MoreMembersPart \in Glyph
  BY GlyphsAre
<1>3. /\ Then(EndObject, w) \in Seq(Glyph) /\ MoreMembers(w) \in Seq(Glyph)
      /\ Then(AMember, MoreMembers(w)) \in Seq(Glyph)
  BY <1>1, <1>2, Parted DEF MoreMembers
<1>4. Three(CommaSign, AMember, MoreMembersPart) \in Seq(Glyph)
  BY <1>2, TwoOrThree
<1>5. Three(CommaSign, AMember, MoreMembersPart) \o Then(EndObject, w)
         = Then(CommaSign, Then(AMember, MoreMembers(w)))
  BY <1>2, <1>3, Joined3, ZenonT(60) DEF MoreMembers
<1>6. /\ Grammar!Expanded(Then(CommaSign, Then(AMember, MoreMembers(w))))
            = {Then(CommaSign, Then(AMember, MoreMembers(w)))}
      /\ Fronted({Then(CommaSign, Then(AMember, MoreMembers(w)))})
  BY <1>1, <1>2, <1>3, TokenStays DEF Fronted
<1>7. EmptyOr(MoreMembersPart, Three(CommaSign, AMember, MoreMembersPart))
  BY ProductionsAre DEF EmptyOr
<1>8. Expands(MoreMembers(w), Then(EndObject, w), Then(CommaSign, Then(AMember, MoreMembers(w))))
  BY <1>1, <1>3, <1>5, <1>7, EmptyOrExpands DEF MoreMembers
<1>9. EndObject \in Token
  BY SignsAreTokens
<1>10. Fronted(Grammar!Expanded(Then(CommaSign, Then(AMember, MoreMembers(w)))))
  BY <1>6
<1>11. /\ Fronted(Grammar!Leftmost(MoreMembers(w)))
      /\ Grammar!Leftmost(MoreMembers(w)) = {Then(EndObject, w)} \cup
            Grammar!Expanded(Then(CommaSign, Then(AMember, MoreMembers(w))))
  BY <1>9, <1>10, <1>8, MayBeEmpty
<1>12. /\ Fronted(Grammar!Leftmost(MoreMembers(w)))
      /\ Grammar!Leftmost(MoreMembers(w))
            = {Then(EndObject, w)} \cup {Then(CommaSign, Then(AMember, MoreMembers(w)))}
  BY <1>6, <1>11
<1>13. QED
  BY <1>12

-----------------------------------------------------------------------------
(* The ends of the open containers, by the innermost. *)

More(o, w) == IF o.object THEN MoreMembers(w) ELSE MoreItems(w)

LEMMA GoesOnIs ==
    ASSUME NEW o, NEW w \in Seq(Glyph)
    PROVE  /\ GoesOn(o) \in Seq(Glyph) /\ Len(GoesOn(o)) = 2
           /\ GoesOn(o)[1] \in Glyph /\ GoesOn(o)[2] \in Glyph
           /\ More(o, w) = GoesOn(o) \o w
<1>1. GoesOn(o) = IF o.object THEN Two(MoreMembersPart, EndObject) ELSE Two(MoreItemsPart, EndArray)
  BY DEF GoesOn, Two, MoreMembersPart, EndObject, MoreItemsPart, EndArray
<1>2. \A a, b \in Glyph : /\ Two(a, b) \in Seq(Glyph) /\ Len(Two(a, b)) = 2
                          /\ Two(a, b)[1] \in Glyph /\ Two(a, b)[2] \in Glyph
  BY DEF Two
<1>3. MoreMembersPart \in Glyph /\ EndObject \in Glyph
  BY GlyphsAre
<1>4. MoreItemsPart \in Glyph /\ EndArray \in Glyph
  BY GlyphsAre
<1>5. Two(MoreMembersPart, EndObject) \o w = MoreMembers(w)
  BY <1>3, Joined2 DEF MoreMembers
<1>6. Two(MoreItemsPart, EndArray) \o w = MoreItems(w)
  BY <1>4, Joined2 DEF MoreItems
<1>7. QED
  BY <1>1, <1>2, <1>3, <1>4, <1>5, <1>6 DEF More

LEMMA Halves ==
    ASSUME NEW n \in Nat, NEW i \in 1 .. 2 * n
    PROVE  /\ n - (i - 1) \div 2 \in 1 .. n
           /\ i \in Int /\ (i <= 2 \/ i > 2)
           /\ i <= 2 => n - (i - 1) \div 2 = n /\ i = IF i % 2 = 1 THEN 1 ELSE 2
           /\ i > 2 => /\ n - 1 - ((i - 2) - 1) \div 2 = n - (i - 1) \div 2
                       /\ i % 2 = (i - 2) % 2
                       /\ n - (i - 1) \div 2 \in 1 .. n - 1
                       /\ i - 2 \in 1 .. 2 * (n - 1)
  OBVIOUS

LEMMA EndsType ==
    ASSUME NEW S, NEW containers \in Seq(S)
    PROVE  /\ Ends(containers) \in Seq(Glyph)
           /\ Len(Ends(containers)) = 2 * Len(containers)
<1>1. 2 * Len(containers) \in Nat
  BY LenProperties
<1>2. <<>> \in Seq(Glyph)
  OBVIOUS
<1>3. \A o : GoesOn(o)[1] \in Glyph /\ GoesOn(o)[2] \in Glyph
  BY <1>2, GoesOnIs
<1>4. Ends(containers) \in [1 .. 2 * Len(containers) -> Glyph]
  BY <1>3 DEF Ends
<1>5. QED
  BY <1>1, <1>4, FunctionIsSeq

LEMMA EndsOfNone == Ends(<<>>) = <<>>
<1>1. <<>> \in Seq(Glyph) /\ Len(<<>>) = 0
  OBVIOUS
<1>2. Ends(<<>>) \in Seq(Glyph) /\ Len(Ends(<<>>)) = 2 * 0
  BY <1>1, EndsType
<1>3. QED
  BY <1>2, EmptySeq

LEMMA EndsInwards ==
    ASSUME NEW S, NEW containers \in Seq(S), containers # <<>>
    PROVE  Ends(containers) = More(Last(containers), Ends(Front(containers)))
<1> DEFINE n == Len(containers)
           o == Last(containers)
           outer == Front(containers)
           e == Ends(containers)
           f == Ends(outer)
<1>1. /\ n \in Nat \ {0} /\ outer \in Seq(S) /\ Len(outer) = n - 1
      /\ \A k \in 1 .. n - 1 : outer[k] = containers[k]
      /\ o = containers[n]
  BY FrontLast DEF Last
<1>2. e \in Seq(Glyph) /\ Len(e) = 2 * n /\ f \in Seq(Glyph) /\ Len(f) = 2 * (n - 1)
  BY <1>1, EndsType
<1>3. \A i \in 1 .. 2 * n :
         e[i] = GoesOn(containers[n - (i - 1) \div 2])[IF i % 2 = 1 THEN 1 ELSE 2]
  BY DEF Ends
<1>4. \A i \in 1 .. 2 * (n - 1) :
         f[i] = GoesOn(outer[n - 1 - (i - 1) \div 2])[IF i % 2 = 1 THEN 1 ELSE 2]
  BY <1>1 DEF Ends
<1> DEFINE g == GoesOn(o)
<1>5. g \in Seq(Glyph) /\ Len(g) = 2 /\ More(o, f) = g \o f
  BY <1>2, GoesOnIs
<1>6. n \in Nat
  BY <1>1
<1> HIDE DEF n, e, f, g
<1>7. /\ g \o f \in Seq(Glyph) /\ Len(g \o f) = Len(g) + Len(f)
      /\ \A i \in 1 .. Len(g) + Len(f) :
            (g \o f)[i] = IF i <= Len(g) THEN g[i] ELSE f[i - Len(g)]
  BY <1>2, <1>5, ConcatProperties
<1>8. Len(g) + Len(f) = 2 * n
  BY <1>6, <1>2, <1>5
<1>9. /\ g \o f \in Seq(Glyph) /\ Len(g \o f) = 2 * n
      /\ \A i \in 1 .. 2 * n : (g \o f)[i] = IF i <= 2 THEN g[i] ELSE f[i - 2]
  BY <1>5, <1>7, <1>8
<1>10. ASSUME NEW i \in 1 .. 2 * n
      PROVE  e[i] = (g \o f)[i]
  <2>1. i \in Int /\ (i <= 2 \/ i > 2)
    BY <1>6, Halves
  <2>2. CASE i <= 2
    <3>1. n - (i - 1) \div 2 = n /\ i = IF i % 2 = 1 THEN 1 ELSE 2
      BY <1>6, <2>2, Halves
    <3>2. e[i] = g[i]
      BY <1>1, <1>3, <3>1 DEF e, g
    <3>3. QED
      BY <1>9, <2>2, <3>2
  <2>3. CASE i > 2
    <3>1. /\ i - 2 \in 1 .. 2 * (n - 1) /\ i % 2 = (i - 2) % 2
          /\ n - (i - 1) \div 2 \in 1 .. n - 1
          /\ n - 1 - ((i - 2) - 1) \div 2 = n - (i - 1) \div 2
      BY <1>6, <2>3, Halves
    <3>2. outer[n - 1 - ((i - 2) - 1) \div 2] = containers[n - (i - 1) \div 2]
      BY <1>1, <3>1
    <3>3. f[i - 2] = GoesOn(outer[n - 1 - ((i - 2) - 1) \div 2])[IF (i - 2) % 2 = 1 THEN 1 ELSE 2]
      BY <1>4, <3>1
    <3>4. e[i] = f[i - 2]
      BY <1>3, <3>1, <3>2, <3>3
    <3>5. (g \o f)[i] = f[i - 2]
      BY <1>9, <2>3, <2>1
    <3>6. QED
      BY <3>4, <3>5
  <2>4. QED
    BY <2>1, <2>2, <2>3
<1>11. e = g \o f
  BY <1>2, <1>9, <1>10, SeqEqual
<1>12. QED
  BY <1>5, <1>11 DEF e, f, g

-----------------------------------------------------------------------------
(* What is left to derive, by what is expected. *)

Left == Ends(stack)
LeftAround == Ends(Front(stack))

LEMMA LeftType ==
    ASSUME TypeOK
    PROVE  /\ Left \in Seq(Glyph) /\ LeftAround \in Seq(Glyph)
           /\ stack = <<>> => Left = <<>>
           /\ InObject(stack) => Left = MoreMembers(LeftAround)
           /\ InArray(stack) => Left = MoreItems(LeftAround)
<1>1. stack \in Seq(OpenEntry) /\ Front(stack) \in Seq(OpenEntry)
  BY StackTypes, FrontType
<1>2. Left \in Seq(Glyph) /\ LeftAround \in Seq(Glyph)
  BY <1>1, EndsType DEF Left, LeftAround
<1>3. stack # <<>> => Left = More(Last(stack), LeftAround)
  BY <1>1, EndsInwards DEF Left, LeftAround
<1>4. QED
  BY <1>2, <1>3, EndsOfNone DEF More, InObject, InArray, Left

(* Rest, of what is expected and the open containers. *)
RestOf(expected, open) ==
    CASE expected = "Value"      -> <<"value">> \o Ends(open)
      [] expected = "ValueOrEnd" -> <<"items", "]">> \o Ends(Front(open))
      [] expected = "NameOrEnd"  -> <<"members", "}">> \o Ends(Front(open))
      [] expected = "Name"       -> <<"member">> \o Ends(open)
      [] expected = "Colon"      -> <<":", "value">> \o Ends(open)
      [] expected = "Separator"  -> Ends(open)

LEMMA RestOfIs ==
    ASSUME NEW open \in Seq(OpenEntry), NEW expected
    PROVE  /\ expected = "Value" => RestOf(expected, open) = Then(AValue, Ends(open))
           /\ expected = "ValueOrEnd" =>
                 RestOf(expected, open) = Then(ItemsPart, Then(EndArray, Ends(Front(open))))
           /\ expected = "NameOrEnd" =>
                 RestOf(expected, open) = Then(MembersPart, Then(EndObject, Ends(Front(open))))
           /\ expected = "Name" => RestOf(expected, open) = Then(AMember, Ends(open))
           /\ expected = "Colon" =>
                 RestOf(expected, open) = Then(ColonSign, Then(AValue, Ends(open)))
           /\ expected = "Separator" => RestOf(expected, open) = Ends(open)
<1> DEFINE left == Ends(open)
           around == Ends(Front(open))
<1>1. left \in Seq(Glyph) /\ around \in Seq(Glyph)
  BY EndsType, FrontType
<1>2. Two(ItemsPart, EndArray) \o around = Then(ItemsPart, Then(EndArray, around))
  <2>1. ItemsPart \in Glyph /\ EndArray \in Glyph
    BY GlyphsAre
  <2>2. QED
    BY <1>1, <2>1, Joined2
<1>3. Two(MembersPart, EndObject) \o around = Then(MembersPart, Then(EndObject, around))
  <2>1. MembersPart \in Glyph /\ EndObject \in Glyph
    BY GlyphsAre
  <2>2. QED
    BY <1>1, <2>1, Joined2
<1>4. Two(ColonSign, AValue) \o left = Then(ColonSign, Then(AValue, left))
  <2>1. ColonSign \in Glyph /\ AValue \in Glyph
    BY GlyphsAre
  <2>2. QED
    BY <1>1, <2>1, Joined2
<1>5. /\ expected = "Value" => RestOf(expected, open) = Then(AValue, left)
      /\ expected = "ValueOrEnd" => RestOf(expected, open) = Two(ItemsPart, EndArray) \o around
      /\ expected = "NameOrEnd" => RestOf(expected, open) = Two(MembersPart, EndObject) \o around
      /\ expected = "Name" => RestOf(expected, open) = Then(AMember, left)
      /\ expected = "Colon" => RestOf(expected, open) = Two(ColonSign, AValue) \o left
      /\ expected = "Separator" => RestOf(expected, open) = left
  BY DEF RestOf, Two, Then, AValue, ItemsPart, EndArray, MembersPart, EndObject,
         AMember, ColonSign
<1>6. QED
  BY <1>2, <1>3, <1>4, <1>5

LEMMA RestIs ==
    ASSUME TypeOK
    PROVE  /\ expect = "Value" => Rest = Then(AValue, Left)
           /\ expect = "ValueOrEnd" => Rest = Then(ItemsPart, Then(EndArray, LeftAround))
           /\ expect = "NameOrEnd" => Rest = Then(MembersPart, Then(EndObject, LeftAround))
           /\ expect = "Name" => Rest = Then(AMember, Left)
           /\ expect = "Colon" => Rest = Then(ColonSign, Then(AValue, Left))
           /\ expect = "Separator" => Rest = Left
<1>1. stack \in Seq(OpenEntry)
  BY StackTypes
<1>2. Rest = RestOf(expect, stack)
  BY DEF Rest, RestOf
<1>3. QED
  BY <1>1, <1>2, RestOfIs DEF Left, LeftAround

(* The same, in the next state. *)
LEMMA RestIsNext ==
    ASSUME TypeOK'
    PROVE  /\ expect' = "Value" => Rest' = Then(AValue, Left')
           /\ expect' = "ValueOrEnd" => Rest' = Then(ItemsPart, Then(EndArray, LeftAround'))
           /\ expect' = "NameOrEnd" => Rest' = Then(MembersPart, Then(EndObject, LeftAround'))
           /\ expect' = "Name" => Rest' = Then(AMember, Left')
           /\ expect' = "Colon" => Rest' = Then(ColonSign, Then(AValue, Left'))
           /\ expect' = "Separator" => Rest' = Left'
<1>1. stack' \in Seq(OpenEntry)
  BY DEF TypeOK, ScratchOK, OpenEntry
<1>2. Rest' = RestOf(expect', stack')
  BY DEF Rest, RestOf
<1>3. QED
  BY <1>1, <1>2, RestOfIs DEF Left, LeftAround

(* A value may come: its first token or the opening of a container, and    *)
(* the end of an array that is empty.                                      *)
LEMMA ValueNext ==
    ASSUME TypeOK, Turn, expect \in {"Value", "ValueOrEnd"}
    PROVE  /\ Fronted(Grammar!Leftmost(Rest))
           /\ \A t \in Scalar : Left \in Grammar!After(Rest, t)
           /\ Then(ItemsPart, Then(EndArray, Left)) \in Grammar!After(Rest, OpenArray)
           /\ Then(MembersPart, Then(EndObject, Left)) \in Grammar!After(Rest, OpenObject)
           /\ expect = "ValueOrEnd" => LeftAround \in Grammar!After(Rest, EndArray)
           /\ \A t : t \notin ValueStarts /\ (expect = "ValueOrEnd" => t # EndArray)
                       => Grammar!After(Rest, t) = {}
<1>1. Left \in Seq(Glyph) /\ LeftAround \in Seq(Glyph)
  BY LeftType
<1>2. \A s \in ValueFronts(Left) : Head(s) \in ValueStarts
  BY <1>1, ValueHeads
<1>3. CASE expect = "Value"
  <2>1. /\ Fronted(Grammar!Leftmost(Rest)) /\ Grammar!Leftmost(Rest) = ValueFronts(Left)
    BY <1>1, <1>3, RestIs, ValueIsLeft
  <2>2. QED
    BY <1>1, <1>2, <1>3, <2>1, AfterValue, FrontedAfter
<1>4. CASE expect = "ValueOrEnd"
  <2>1. Left = MoreItems(LeftAround)
    BY <1>4, LeftType DEF Turn
  <2>2. /\ Fronted(Grammar!Leftmost(Rest))
        /\ Grammar!Leftmost(Rest) = {Then(EndArray, LeftAround)} \cup ValueFronts(Left)
    BY <1>1, <1>4, <2>1, RestIs, ItemsAreLeft
  <2>3. EndArray \in Token /\ EndArray \in Glyph
    BY SignsAreTokens DEF Glyph
  <2>4. LeftAround \in Grammar!After(Rest, EndArray)
    BY <1>1, <2>2, <2>3, FrontedAfter
  <2>5. Head(Then(EndArray, LeftAround)) = EndArray
    BY <1>1, <2>3, Parted
  <2>6. \A t : t \notin ValueStarts /\ t # EndArray => Grammar!After(Rest, t) = {}
    BY <1>2, <2>2, <2>5, FrontedAfter
  <2>7. QED
    BY <1>1, <1>4, <2>2, <2>4, <2>6, AfterValue
<1>5. QED
  BY <1>3, <1>4

(* A name may come, and the end of an object that is empty. *)
LEMMA NameNext ==
    ASSUME TypeOK, Turn, expect \in {"Name", "NameOrEnd"}
    PROVE  /\ Fronted(Grammar!Leftmost(Rest))
           /\ \A n \in Names : Then(ColonSign, Then(AValue, Left)) \in Grammar!After(Rest, n)
           /\ expect = "NameOrEnd" => LeftAround \in Grammar!After(Rest, EndObject)
           /\ \A t : t \notin Names /\ (expect = "NameOrEnd" => t # EndObject)
                       => Grammar!After(Rest, t) = {}
<1>1. Left \in Seq(Glyph) /\ LeftAround \in Seq(Glyph)
  BY LeftType
<1>2. \A s \in MemberFronts(Left) : Head(s) \in Names
  BY <1>1, MemberHeads
<1>3. CASE expect = "Name"
  <2>1. /\ Fronted(Grammar!Leftmost(Rest)) /\ Grammar!Leftmost(Rest) = MemberFronts(Left)
    BY <1>1, <1>3, RestIs, MemberIsLeft
  <2>2. QED
    BY <1>1, <1>2, <1>3, <2>1, AfterMember, FrontedAfter
<1>4. CASE expect = "NameOrEnd"
  <2>1. Left = MoreMembers(LeftAround)
    BY <1>4, LeftType DEF Turn
  <2>2. /\ Fronted(Grammar!Leftmost(Rest))
        /\ Grammar!Leftmost(Rest) = {Then(EndObject, LeftAround)} \cup MemberFronts(Left)
    BY <1>1, <1>4, <2>1, RestIs, MembersAreLeft
  <2>3. EndObject \in Token /\ EndObject \in Glyph
    BY SignsAreTokens DEF Glyph
  <2>4. LeftAround \in Grammar!After(Rest, EndObject)
    BY <1>1, <2>2, <2>3, FrontedAfter
  <2>5. Head(Then(EndObject, LeftAround)) = EndObject
    BY <1>1, <2>3, Parted
  <2>6. \A t : t \notin Names /\ t # EndObject => Grammar!After(Rest, t) = {}
    BY <1>2, <2>2, <2>5, FrontedAfter
  <2>7. QED
    BY <1>1, <1>4, <2>2, <2>4, <2>6, AfterMember
<1>5. QED
  BY <1>3, <1>4

LEMMA ColonNext ==
    ASSUME TypeOK, expect = "Colon"
    PROVE  /\ Fronted(Grammar!Leftmost(Rest))
           /\ Then(AValue, Left) \in Grammar!After(Rest, ColonSign)
           /\ \A t : t # ColonSign => Grammar!After(Rest, t) = {}
<1>1. AValue \in Glyph /\ ColonSign \in Token /\ ColonSign \in Glyph
  BY GlyphsAre, SignsAreTokens
<1>2. Then(AValue, Left) \in Seq(Glyph)
  BY <1>1, LeftType, Parted
<1>3. Rest = Then(ColonSign, Then(AValue, Left))
  BY RestIs
<1>4. /\ Fronted(Grammar!Leftmost(Rest))
      /\ Grammar!Leftmost(Rest) = {Then(ColonSign, Then(AValue, Left))}
  BY <1>1, <1>2, <1>3, TokenIsLeft
<1>5. Head(Then(ColonSign, Then(AValue, Left))) = ColonSign
  BY <1>1, <1>2, Parted
<1>6. QED
  BY <1>1, <1>2, <1>4, <1>5, FrontedAfter

(* After a value in a container, a comma or its end may come. *)
LEMMA SeparatorNext ==
    ASSUME TypeOK, expect = "Separator", stack # <<>>
    PROVE  /\ Fronted(Grammar!Leftmost(Rest))
           /\ InArray(stack) => /\ LeftAround \in Grammar!After(Rest, EndArray)
                                /\ Then(AValue, Left) \in Grammar!After(Rest, CommaSign)
           /\ InObject(stack) => /\ LeftAround \in Grammar!After(Rest, EndObject)
                                 /\ Then(AMember, Left) \in Grammar!After(Rest, CommaSign)
           /\ \A t : /\ t # CommaSign
                     /\ InArray(stack) => t # EndArray
                     /\ InObject(stack) => t # EndObject
                     => Grammar!After(Rest, t) = {}
<1>1. Left \in Seq(Glyph) /\ LeftAround \in Seq(Glyph) /\ Rest = Left
  BY LeftType, RestIs
<1>2. CommaSign \in Token /\ CommaSign \in Glyph
  BY SignsAreTokens DEF Glyph
<1>3. CASE InArray(stack)
  <2>1. EndArray \in Token /\ EndArray \in Glyph /\ AValue \in Glyph
    BY GlyphsAre, SignsAreTokens
  <2>2. Then(AValue, Left) \in Seq(Glyph)
    BY <1>1, <2>1, Parted
  <2>3. /\ Fronted(Grammar!Leftmost(Rest))
        /\ Grammar!Leftmost(Rest) = {Then(EndArray, LeftAround), Then(CommaSign, Then(AValue, Left))}
    BY <1>1, <1>3, LeftType, MoreItemsAreLeft
  <2>4. /\ Head(Then(EndArray, LeftAround)) = EndArray
        /\ Head(Then(CommaSign, Then(AValue, Left))) = CommaSign
    BY <1>1, <1>2, <2>1, <2>2, Parted
  <2>5. /\ LeftAround \in Grammar!After(Rest, EndArray)
        /\ Then(AValue, Left) \in Grammar!After(Rest, CommaSign)
    BY <1>1, <1>2, <2>1, <2>2, <2>3, FrontedAfter
  <2>6. \A t : t # CommaSign /\ t # EndArray => Grammar!After(Rest, t) = {}
    BY <2>3, <2>4, FrontedAfter
  <2>7. QED
    BY <1>3, <2>3, <2>5, <2>6 DEF InArray, InObject
<1>4. CASE InObject(stack)
  <2>1. EndObject \in Token /\ EndObject \in Glyph /\ AMember \in Glyph
    BY GlyphsAre, SignsAreTokens
  <2>2. Then(AMember, Left) \in Seq(Glyph)
    BY <1>1, <2>1, Parted
  <2>3. /\ Fronted(Grammar!Leftmost(Rest))
        /\ Grammar!Leftmost(Rest) = {Then(EndObject, LeftAround), Then(CommaSign, Then(AMember, Left))}
    BY <1>1, <1>4, LeftType, MoreMembersAreLeft
  <2>4. /\ Head(Then(EndObject, LeftAround)) = EndObject
        /\ Head(Then(CommaSign, Then(AMember, Left))) = CommaSign
    BY <1>1, <1>2, <2>1, <2>2, Parted
  <2>5. /\ LeftAround \in Grammar!After(Rest, EndObject)
        /\ Then(AMember, Left) \in Grammar!After(Rest, CommaSign)
    BY <1>1, <1>2, <2>1, <2>2, <2>3, FrontedAfter
  <2>6. \A t : t # CommaSign /\ t # EndObject => Grammar!After(Rest, t) = {}
    BY <2>3, <2>4, FrontedAfter
  <2>7. QED
    BY <1>4, <2>3, <2>5, <2>6 DEF InArray, InObject
<1>5. QED
  BY <1>3, <1>4 DEF InArray, InObject

(* After the value of the text, only its end. *)
LEMMA NothingNext ==
    ASSUME TypeOK, expect = "Separator", stack = <<>>
    PROVE  /\ Rest = <<>> /\ Grammar!TokensFirst(Rest)
           /\ \A t : Grammar!After(Rest, t) = {}
<1>1. Rest = <<>>
  BY LeftType, RestIs
<1>2. Grammar!Leftmost(<<>>) = {<<>>}
  BY DEF Grammar!Leftmost, Grammar!Expanded
<1>3. QED
  BY <1>1, <1>2 DEF Grammar!TokensFirst, Grammar!After

-----------------------------------------------------------------------------
(* The tokens read, and the token at the position. *)

ReadSoFar == SubSeq(input, 1, position)

LEMMA PeekIs ==
    ASSUME TypeOK
    PROVE  /\ input \in Seq(Token) /\ Len(input) \in Nat
           /\ position \in Nat /\ position <= Len(input)
           /\ Peek \in Token \cup {End}
           /\ Peek = End <=> position = Len(input)
           /\ Peek # End => position + 1 \in 1 .. Len(input) /\ Peek = input[position + 1]
<1>1. /\ input \in Seq(Token) /\ Len(input) \in Nat
      /\ position \in Nat /\ position <= Len(input)
  BY LenProperties DEF TypeOK, InputOK
<1>2. position # Len(input) => position + 1 \in 1 .. Len(input)
  BY <1>1
<1>3. position # Len(input) => input[position + 1] \in Token
  BY <1>1, <1>2, ElementOfSeq
<1>4. QED
  BY <1>1, <1>2, <1>3, TokensAssumption DEF Peek, AtEnd

LEMMA OneMoreRead ==
    ASSUME TypeOK, Peek \in Token
    PROVE  SubSeq(input, 1, position + 1) = Append(ReadSoFar, Peek)
<1> DEFINE whole == SubSeq(input, 1, position + 1)
           more == Append(ReadSoFar, Peek)
<1>1. /\ input \in Seq(Token) /\ Len(input) \in Nat /\ position \in Nat /\ position <= Len(input)
      /\ position + 1 \in 1 .. Len(input) /\ Peek = input[position + 1]
  BY PeekIs, TokensAssumption
<1>2. whole \in Seq(Token) /\ Len(whole) = position + 1
  BY <1>1, PrefixType
<1>3. ReadSoFar \in Seq(Token) /\ Len(ReadSoFar) = position
  BY <1>1, PrefixType DEF ReadSoFar
<1>4. /\ more \in Seq(Token) /\ Len(more) = position + 1
      /\ \A i \in 1 .. position : more[i] = ReadSoFar[i]
      /\ more[position + 1] = Peek
  BY <1>3, AppendProperties
<1>5. \A i \in 1 .. position + 1 : whole[i] = input[i]
  BY <1>1, LenProperties
<1>6. \A i \in 1 .. position : ReadSoFar[i] = input[i]
  BY <1>1, LenProperties DEF ReadSoFar
<1>7. \A i \in 1 .. position + 1 : whole[i] = more[i]
  <2> HIDE DEF whole, more
  <2> SUFFICES ASSUME NEW i \in 1 .. position + 1 PROVE whole[i] = more[i]
    OBVIOUS
  <2>1. i \in 1 .. position \/ i = position + 1
    BY <1>1
  <2>2. QED
    BY <1>1, <1>4, <1>5, <1>6, <2>1
<1>8. QED
  <2> HIDE DEF whole, more
  <2>1. whole = more
    BY <1>2, <1>4, <1>7, SeqEqual
  <2>2. QED
    BY <2>1 DEF whole, more

LEMMA DisclosedStays ==
    ASSUME TypeOK, NEW t \in Token
    PROVE  SubSeq(Append(input, t), 1, position) = ReadSoFar
<1> DEFINE longer == Append(input, t)
<1>1. input \in Seq(Token) /\ Len(input) \in Nat /\ position \in Nat /\ position <= Len(input)
  BY PeekIs
<1>2. /\ longer \in Seq(Token) /\ Len(longer) = Len(input) + 1
      /\ \A i \in 1 .. Len(input) : longer[i] = input[i]
  BY <1>1, AppendProperties
<1> HIDE DEF longer
<1>3. position <= Len(longer)
  BY <1>1, <1>2
<1>4. /\ SubSeq(longer, 1, position) \in Seq(Token) /\ Len(SubSeq(longer, 1, position)) = position
      /\ ReadSoFar \in Seq(Token) /\ Len(ReadSoFar) = position
  BY <1>1, <1>2, <1>3, PrefixType DEF ReadSoFar
<1>5. \A i \in 1 .. position : SubSeq(longer, 1, position)[i] = longer[i]
  BY <1>1, <1>2, <1>3, LenProperties
<1>6. \A i \in 1 .. position : ReadSoFar[i] = input[i]
  BY <1>1, LenProperties DEF ReadSoFar
<1>7. \A i \in 1 .. position : i \in 1 .. Len(input)
  BY <1>1
<1>8. QED
  BY <1>2, <1>4, <1>5, <1>6, <1>7, SeqEqual DEF longer

-----------------------------------------------------------------------------
(* Steps of the reader as steps of the derivation. *)

LEMMA VerdictIs ==
    /\ answer.kind \in {"Unread", "Reading"} => Verdict = "reading" /\ Culprit = "none"
    /\ answer.kind = "Document" => Verdict = "accepted" /\ Culprit = "none"
    /\ answer.kind \in Ungrammatical =>
          /\ Verdict = "unexpected"
          /\ Culprit = IF answer.offset = Len(input) THEN End ELSE input[answer.offset + 1]
    /\ answer.kind \notin Ungrammatical \cup {"Unread", "Reading", "Document"} =>
          Verdict = "stopped" /\ Culprit = "none"
  BY DEF Verdict, Culprit, Ungrammatical

(* The same, for the answer of the next state. *)
LEMMA VerdictBecomes ==
    /\ answer'.kind \in {"Unread", "Reading"} => Verdict' = "reading" /\ Culprit' = "none"
    /\ answer'.kind = "Document" => Verdict' = "accepted" /\ Culprit' = "none"
    /\ answer'.kind \in Ungrammatical =>
          /\ Verdict' = "unexpected"
          /\ Culprit' = IF answer'.offset = Len(input') THEN End ELSE input'[answer'.offset + 1]
    /\ answer'.kind \notin Ungrammatical \cup {"Unread", "Reading", "Document"} =>
          Verdict' = "stopped" /\ Culprit' = "none"
  BY DEF Verdict, Culprit, Ungrammatical

LEMMA StopKeeps ==
    ASSUME NEW result, Stop(result)
    PROVE  /\ Rest' = Rest /\ SubSeq(input, 1, position)' = ReadSoFar
           /\ input' = input /\ position' = position /\ answer' = result
<1>1. /\ input' = input /\ position' = position /\ answer' = result
      /\ expect' = expect /\ stack' = stack
  BY DEF Stop, scratch
<1>2. QED
  BY <1>1 DEF Rest, Ends, ReadSoFar

(* The reader stops for a reason that is none of grammar. *)
LEMMA StopStops ==
    ASSUME NEW result, Stop(result), answer.kind \in {"Unread", "Reading"},
           result.kind \notin Ungrammatical \cup {"Unread", "Reading", "Document"}
    PROVE  Grammar!Next
<1>1. /\ Rest' = Rest /\ SubSeq(input, 1, position)' = SubSeq(input, 1, position)
      /\ answer' = result
  BY StopKeeps DEF ReadSoFar
<1>2. Verdict = "reading" /\ Culprit = "none" /\ Verdict' = "stopped" /\ Culprit' = "none"
  BY <1>1, VerdictIs, VerdictBecomes
<1>3. Grammar!Stop
  BY <1>1, <1>2 DEF Grammar!Stop
<1>4. QED
  BY <1>3 DEF Grammar!Next

(* It refuses the token at the position, where no derivation goes on. *)
LEMMA RefuseUnexpected ==
    ASSUME TypeOK, Ready, NEW kind \in Ungrammatical, Refuse(kind, position),
           Grammar!TokensFirst(Rest), Grammar!After(Rest, Peek) = {}, Peek = End => Rest # <<>>
    PROVE  Grammar!Next
<1>1. /\ Rest' = Rest /\ SubSeq(input, 1, position)' = SubSeq(input, 1, position)
      /\ input' = input /\ answer' = Answer(kind, position, <<>>)
  BY StopKeeps DEF ReadSoFar, Refuse
<1>2. answer'.kind = kind /\ answer'.offset = position
  BY <1>1 DEF Answer
<1>3. Culprit' = IF position = Len(input) THEN End ELSE input[position + 1]
  BY <1>1, <1>2, VerdictBecomes
<1>4. Culprit' = Peek
  BY <1>3, PeekIs
<1>5. Verdict = "reading" /\ Verdict' = "unexpected"
  BY <1>2, VerdictIs, VerdictBecomes DEF Ready, Reading
<1>6. Peek \in Punctuation \cup Scalar \cup ((Token \ (Punctuation \cup Scalar \cup Space)) \cup {End})
  BY PeekIs DEF Ready
<1>7. Grammar!Unexpected(Peek)
  BY <1>1, <1>4, <1>5 DEF Grammar!Unexpected, End
<1>8. Grammar!Punctuation = Punctuation
  BY DEF Grammar!Punctuation, Punctuation, Opening
<1>9. QED
  BY <1>6, <1>7, <1>8 DEF Grammar!Next

(* It consumes a token that a derivation goes on with. *)
LEMMA AdvanceReads ==
    ASSUME TypeOK, Ready, Peek \in Punctuation \cup Scalar,
           position' = position + 1, input' = input, answer' = answer,
           Rest' \in Grammar!After(Rest, Peek)
    PROVE  Grammar!Next
<1>1. Peek \in Token
  BY DEF Token
<1>2. SubSeq(input, 1, position)' = Append(SubSeq(input, 1, position), Peek)
  BY <1>1, OneMoreRead DEF ReadSoFar
<1>3. Verdict = "reading" /\ Culprit = "none" /\ Verdict' = "reading" /\ Culprit' = "none"
  BY VerdictIs, VerdictBecomes DEF Ready, Reading
<1>4. Grammar!Read(Peek)
  BY <1>2, <1>3 DEF Grammar!Read
<1>5. Grammar!Punctuation = Punctuation
  BY DEF Grammar!Punctuation, Punctuation, Opening
<1>6. QED
  BY <1>4, <1>5 DEF Grammar!Next

-----------------------------------------------------------------------------
(* An object always has the member whose value has just been read: what    *)
(* complete refuses for want of one is never refused.                      *)

LEMMA MemberAtHand ==
    ASSUME TypeOK, Shaped, NEW k \in 1 .. Len(stack), stack[k].object, Waits(k)
    PROVE  EndOf(k) \in Nat \ {0} /\ EndOf(k) <= Len(scratch_members) /\ Len(scratch_members) \in Nat
<1>1. /\ DOMAIN stack = 1 .. Len(stack) /\ stack[k].start \in Nat /\ EndOf(k) \in Nat
      /\ Len(scratch_members) \in Nat
  BY StackTypes
<1>2. stack[k].start < EndOf(k) /\ EndOf(k) <= Len(scratch_members)
  BY <1>1 DEF Shaped, Nested
<1>3. QED
  BY <1>1, <1>2

LEMMA MemberForLeaf ==
    ASSUME TypeOK, Shaped, expect \in {"Value", "ValueOrEnd"}
    PROVE  ~NoMember(stack, scratch_members)
<1> SUFFICES ASSUME InObject(stack), scratch_members = <<>>
             PROVE  FALSE
  BY DEF NoMember
<1>1. stack \in Seq(OpenEntry) /\ stack # <<>>
  BY StackTypes DEF InObject
<1>2. Len(stack) \in 1 .. Len(stack) /\ stack[Len(stack)].object
  BY <1>1, FrontLast DEF InObject, Last
<1>3. Waits(Len(stack))
  BY <1>2, ObjectsWait
<1>4. Len(scratch_members) > 0
  BY <1>2, <1>3, MemberAtHand
<1>5. QED
  BY <1>4

(* The pending members that the innermost container leaves. *)
Remaining ==
    IF Last(stack).object THEN Dropped(scratch_members, Last(stack).start) ELSE scratch_members

LEMMA MemberForClosed ==
    ASSUME TypeOK, Shaped, stack # <<>>
    PROVE  ~NoMember(Front(stack), Remaining)
<1> DEFINE n == Len(stack)
           outer == Front(stack)
<1> SUFFICES ASSUME InObject(outer) PROVE Remaining # <<>>
  BY ZenonT(60) DEF NoMember
<1>1. /\ stack \in Seq(OpenEntry) /\ n \in Nat \ {0} /\ outer \in Seq(OpenEntry)
      /\ Len(outer) = n - 1 /\ \A i \in 1 .. n - 1 : outer[i] = stack[i]
      /\ Last(stack) = stack[n]
  BY StackTypes, FrontLast DEF Last
<1>2. outer # <<>> /\ Last(outer).object
  BY DEF InObject
<1>3. Len(outer) \in Nat \ {0} /\ Last(outer) = outer[Len(outer)]
  BY <1>1, <1>2, FrontLast DEF Last
<1>4. n - 1 \in 1 .. n - 1 /\ n - 1 \in 1 .. n /\ n \in 1 .. n /\ n - 1 < n
  BY <1>1, <1>3
<1>5. stack[n - 1].object
  BY <1>1, <1>2, <1>3, <1>4
<1>6. EndOf(n - 1) \in Nat \ {0} /\ EndOf(n - 1) <= Len(scratch_members)
      /\ Len(scratch_members) \in Nat
  <2>1. Waits(n - 1)
    BY <1>4 DEF Waits
  <2>2. QED
    BY <1>4, <1>5, <2>1, MemberAtHand
<1>7. CASE ~Last(stack).object
  BY <1>6, <1>7 DEF Remaining
<1>8. CASE Last(stack).object
  <2>1. EndOf(n - 1) <= stack[n].start
    BY <1>1, <1>4, <1>5, <1>8, EndsApart DEF Shaped
  <2>2. stack[n].start \in Nat
    BY <1>4, StackTypes
  <2>3. stack[n].start > 0
    BY <1>6, <2>1, <2>2
  <2>4. scratch_members \in Seq(PendingMember)
    BY DEF TypeOK, ScratchOK
  <2>5. CASE stack[n].start < Len(scratch_members)
    <3>1. Remaining = SubSeq(scratch_members, 1, stack[n].start)
      BY <1>1, <1>8, <2>5 DEF Dropped, Remaining
    <3>2. Len(Remaining) = stack[n].start
      BY <2>2, <2>4, <2>5, <1>6, <3>1, PrefixType
    <3>3. QED
      BY <2>3, <3>2
  <2>6. CASE ~(stack[n].start < Len(scratch_members))
    <3>1. Remaining = scratch_members
      BY <1>1, <1>8, <2>6 DEF Dropped, Remaining
    <3>2. QED
      BY <1>6, <3>1
  <2>7. QED
    BY <2>5, <2>6
<1>9. QED
  BY <1>7, <1>8

-----------------------------------------------------------------------------
(* Each action. *)

LEMMA FrontOfLonger ==
    ASSUME NEW S, NEW s \in Seq(S), NEW x \in S
    PROVE  Front(Append(s, x)) = s
<1> DEFINE longer == Append(s, x)
<1>1. /\ longer \in Seq(S) /\ Len(longer) = Len(s) + 1 /\ Len(s) \in Nat
      /\ \A i \in 1 .. Len(s) : longer[i] = s[i]
  BY AppendProperties, LenProperties
<1> HIDE DEF longer
<1>2. longer # <<>>
  BY <1>1, EmptySeq
<1>3. /\ Front(longer) \in Seq(S) /\ Len(Front(longer)) = Len(s)
      /\ \A i \in 1 .. Len(s) : Front(longer)[i] = s[i]
  BY SMTT(30), <1>1, <1>2, FrontLast
<1>4. Front(longer) = s
  BY <1>1, <1>3, SeqEqual
<1>5. QED
  BY <1>4 DEF longer

LEMMA InitGrammar == Init => Grammar!Init
<1> SUFFICES ASSUME Init PROVE Grammar!Init
  OBVIOUS
<1>1. input = <<>> /\ position = 0 /\ expect = "Value" /\ stack = <<>> /\ answer.kind = "Unread"
  BY DEF Init, Only, Answer
<1>2. SubSeq(input, 1, position) = <<>>
  BY <1>1, SubSeqEmpty
<1>3. Rest = <<AValue>>
  <2>1. AValue \in Glyph
    BY GlyphsAre
  <2>2. <<AValue>> \in Seq(Glyph)
    BY <2>1
  <2>3. Rest = <<AValue>> \o <<>>
    BY <1>1, EndsOfNone DEF Rest, AValue
  <2>4. QED
    BY <2>2, <2>3, ConcatEmptySeq
<1>4. Verdict = "reading" /\ Culprit = "none"
  BY <1>1, VerdictIs
<1>5. QED
  BY <1>2, <1>3, <1>4 DEF Grammar!Init, AValue

LEMMA BeginGrammar == TypeOK /\ Begin => Grammar!Next \/ UNCHANGED Grammar!vars
<1> SUFFICES ASSUME TypeOK, Begin PROVE Grammar!Next \/ UNCHANGED Grammar!vars
  OBVIOUS
<1>1. answer.kind = "Unread"
  BY DEF Begin
<1>2. CASE Stop(Only("Reading"))
  <2>1. Only("Reading").kind = "Reading"
    BY DEF Only, Answer
  <2>2. /\ Rest' = Rest /\ SubSeq(input, 1, position)' = SubSeq(input, 1, position)
        /\ answer'.kind = "Reading"
    BY <1>2, <2>1, StopKeeps DEF ReadSoFar
  <2>3. Verdict' = Verdict /\ Culprit' = Culprit
    BY <1>1, <2>2, VerdictIs, VerdictBecomes
  <2>4. QED
    BY <2>2, <2>3 DEF Grammar!vars
<1>3. ASSUME NEW kind \in {"Limit", "Allocation", "InvalidUtf8"}, NEW offset,
             Stop(Answer(kind, offset, <<>>))
      PROVE  Grammar!Next
  <2>1. /\ Answer(kind, offset, <<>>).kind = kind
        /\ kind \notin Ungrammatical \cup {"Unread", "Reading", "Document"}
    BY <1>3 DEF Answer, Ungrammatical
  <2>2. QED
    BY <1>1, <1>3, <2>1, StopStops
<1>4. QED
  BY <1>2, <1>3 DEF Begin, Refuse, Only

LEMMA DiscloseGrammar == TypeOK /\ Disclose => UNCHANGED Grammar!vars
<1> SUFFICES ASSUME TypeOK, Disclose PROVE UNCHANGED Grammar!vars
  OBVIOUS
<1>1. position' = position /\ expect' = expect /\ stack' = stack /\ answer' = answer
  BY DEF Disclose, scratch
<1>2. answer.kind = "Reading"
  BY DEF Disclose, Reading
<1>3. Rest' = Rest
  BY <1>1 DEF Rest, Ends
<1>4. SubSeq(input, 1, position)' = SubSeq(input, 1, position)
  <2>1. input' = input \/ \E t \in Token : input' = Append(input, t)
    BY DEF Disclose
  <2>2. QED
    BY <1>1, <2>1, DisclosedStays DEF ReadSoFar
<1>5. Verdict' = Verdict /\ Culprit' = Culprit
  BY <1>1, <1>2, VerdictIs, VerdictBecomes
<1>6. QED
  BY <1>3, <1>4, <1>5 DEF Grammar!vars

LEMMA SkipWhitespaceGrammar == TypeOK /\ SkipWhitespace => Grammar!Next
<1> SUFFICES ASSUME TypeOK, SkipWhitespace PROVE Grammar!Next
  OBVIOUS
<1>1. /\ position' = position + 1 /\ input' = input /\ expect' = expect /\ stack' = stack
      /\ answer' = answer /\ Peek \in Space
  BY DEF SkipWhitespace, scratch
<1>2. Rest' = Rest
  BY <1>1 DEF Rest, Ends
<1>3. SubSeq(input, 1, position)' = Append(SubSeq(input, 1, position), Peek)
  <2>1. Peek \in Token
    BY <1>1 DEF Token
  <2>2. QED
    BY <1>1, <2>1, OneMoreRead DEF ReadSoFar
<1>4. Verdict = "reading" /\ Culprit = "none" /\ Verdict' = "reading" /\ Culprit' = "none"
  BY <1>1, VerdictIs, VerdictBecomes DEF SkipWhitespace, Reading
<1>5. Grammar!Skip(Peek)
  BY <1>2, <1>3, <1>4 DEF Grammar!Skip
<1>6. QED
  BY <1>1, <1>5 DEF Grammar!Next

LEMMA OpenContainerGrammar == TypeOK /\ Turn /\ OpenContainer => Grammar!Next
<1> SUFFICES ASSUME TypeOK, Turn, OpenContainer PROVE Grammar!Next
  OBVIOUS
<1> DEFINE object == Peek = "{"
           top == [object |-> object,
                   start |-> IF object THEN Len(scratch_members) ELSE Len(scratch_items)]
<1>1. /\ Ready /\ expect \in {"Value", "ValueOrEnd"} /\ Peek \in Opening
      /\ stack' = Append(stack, top)
      /\ expect' = IF object THEN "NameOrEnd" ELSE "ValueOrEnd"
      /\ position' = position + 1 /\ input' = input /\ answer' = answer
  BY DEF OpenContainer, AtValue
<1>2. Front(stack') = stack
  <2>1. stack \in Seq(OpenEntry) /\ top \in OpenEntry
    BY StackTypes DEF OpenEntry, Id
  <2>2. QED
    BY <1>1, <2>1, FrontOfLonger
<1>3. LeftAround' = Left
  BY <1>2 DEF LeftAround, Left
<1>4. TypeOK'
  BY OpenContainerTyped
<1>5. object => Peek = OpenObject /\ Rest' = Then(MembersPart, Then(EndObject, Left))
  BY <1>1, <1>3, <1>4, RestIsNext DEF OpenObject
<1>6. ~object => Peek = OpenArray /\ Rest' = Then(ItemsPart, Then(EndArray, Left))
  BY <1>1, <1>3, <1>4, RestIsNext DEF OpenArray, Opening
<1>7. Rest' \in Grammar!After(Rest, Peek)
  BY <1>1, <1>5, <1>6, ValueNext
<1>8. Peek \in Punctuation \cup Scalar
  BY <1>1 DEF Punctuation
<1>9. QED
  BY <1>1, <1>7, <1>8, AdvanceReads

LEMMA LeafValueGrammar == TypeOK /\ Shaped /\ LeafValue => Grammar!Next
<1> SUFFICES ASSUME TypeOK, Shaped, LeafValue PROVE Grammar!Next
  OBVIOUS
<1>1. Ready /\ expect \in {"Value", "ValueOrEnd"} /\ Peek \in Scalar
  BY DEF LeafValue, AtValue
<1>2. ~NoMember(stack, scratch_members)
  BY <1>1, MemberForLeaf
<1>3. /\ stack' = stack /\ expect' = "Separator"
      /\ position' = position + 1 /\ input' = input /\ answer' = answer
  BY <1>2 DEF LeafValue, Complete
<1>4. Rest' = Left
  BY <1>3, LeafValueTyped, RestIsNext DEF Left
<1>5. QED
  BY <1>1, <1>3, <1>4, ValueNext, AdvanceReads DEF Shaped

LEMMA BadValueGrammar == TypeOK /\ Turn /\ BadValue => Grammar!Next
<1> SUFFICES ASSUME TypeOK, Turn, BadValue PROVE Grammar!Next
  OBVIOUS
<1>1. /\ Ready /\ expect \in {"Value", "ValueOrEnd"} /\ ~AtClose
      /\ Peek \notin Opening \cup Scalar
  BY DEF BadValue, AtValue
<1>2. PICK kind \in Ungrammatical : Refuse(kind, position)
  BY DEF BadValue, Ungrammatical, Unexpected
<1>3. Peek \notin ValueStarts /\ (expect = "ValueOrEnd" => Peek # EndArray)
  BY <1>1 DEF ValueStarts, AtClose, AtValue, Opening, OpenArray, OpenObject, EndArray
<1>4. Fronted(Grammar!Leftmost(Rest)) /\ Grammar!After(Rest, Peek) = {}
  BY <1>1, <1>3, ValueNext
<1>5. QED
  BY <1>1, <1>2, <1>4, FrontedAfter, RefuseUnexpected

LEMMA MemberNameGrammar == TypeOK /\ Turn /\ MemberName => Grammar!Next
<1> SUFFICES ASSUME TypeOK, Turn, MemberName PROVE Grammar!Next
  OBVIOUS
<1>1. /\ Ready /\ expect \in {"Name", "NameOrEnd"} /\ Peek \in Names
      /\ stack' = stack /\ expect' = "Colon"
      /\ position' = position + 1 /\ input' = input /\ answer' = answer
  BY DEF MemberName, AtName, scratch
<1>2. Rest' = Then(ColonSign, Then(AValue, Left))
  BY <1>1, MemberNameTyped, RestIsNext DEF Left
<1>3. Peek \in Punctuation \cup Scalar
  BY <1>1 DEF Scalar
<1>4. QED
  BY <1>1, <1>2, <1>3, NameNext, AdvanceReads

LEMMA BadNameGrammar == TypeOK /\ Turn /\ BadName => Grammar!Next
<1> SUFFICES ASSUME TypeOK, Turn, BadName PROVE Grammar!Next
  OBVIOUS
<1>1. /\ Ready /\ expect \in {"Name", "NameOrEnd"} /\ ~AtClose /\ Peek \notin Names
  BY DEF BadName, AtName
<1>2. PICK kind \in Ungrammatical : Refuse(kind, position)
  BY DEF BadName, Ungrammatical, Unexpected
<1>3. expect = "NameOrEnd" => Peek # EndObject
  BY <1>1 DEF AtClose, AtName, EndObject
<1>4. Fronted(Grammar!Leftmost(Rest)) /\ Grammar!After(Rest, Peek) = {}
  BY <1>1, <1>3, NameNext
<1>5. QED
  BY <1>1, <1>2, <1>4, FrontedAfter, RefuseUnexpected

LEMMA ColonGrammar == TypeOK /\ Colon => Grammar!Next
<1> SUFFICES ASSUME TypeOK, Colon PROVE Grammar!Next
  OBVIOUS
<1>1. /\ Ready /\ expect = "Colon" /\ Peek = ":" /\ stack' = stack /\ expect' = "Value"
      /\ position' = position + 1 /\ input' = input /\ answer' = answer
  BY DEF Colon
<1>2. Rest' = Then(AValue, Left)
  BY <1>1, ColonTyped, RestIsNext DEF Left
<1>3. Peek = ColonSign /\ Peek \in Punctuation \cup Scalar
  BY <1>1 DEF ColonSign, Punctuation
<1>4. QED
  BY <1>1, <1>2, <1>3, ColonNext, AdvanceReads

LEMMA NoColonGrammar == TypeOK /\ NoColon => Grammar!Next
<1> SUFFICES ASSUME TypeOK, NoColon PROVE Grammar!Next
  OBVIOUS
<1>1. Ready /\ expect = "Colon" /\ Peek # ColonSign
  BY DEF NoColon, ColonSign
<1>2. PICK kind \in Ungrammatical : Refuse(kind, position)
  BY DEF NoColon, Ungrammatical, Unexpected
<1>3. Fronted(Grammar!Leftmost(Rest)) /\ Grammar!After(Rest, Peek) = {}
  BY <1>1, ColonNext
<1>4. QED
  BY <1>1, <1>2, <1>3, FrontedAfter, RefuseUnexpected

LEMMA CommaGrammar == TypeOK /\ Comma => Grammar!Next
<1> SUFFICES ASSUME TypeOK, Comma PROVE Grammar!Next
  OBVIOUS
<1>1. /\ Ready /\ expect = "Separator" /\ stack # <<>> /\ Peek = "," /\ stack' = stack
      /\ expect' = IF InObject(stack) THEN "Name" ELSE "Value"
      /\ position' = position + 1 /\ input' = input /\ answer' = answer
  BY DEF Comma, AtSeparator, scratch
<1>2. Rest' = IF InObject(stack) THEN Then(AMember, Left) ELSE Then(AValue, Left)
  BY <1>1, CommaTyped, RestIsNext DEF Left
<1>3. Peek = CommaSign /\ Peek \in Punctuation \cup Scalar
  BY <1>1 DEF CommaSign, Punctuation
<1>4. Rest' \in Grammar!After(Rest, Peek)
  BY <1>1, <1>2, <1>3, SeparatorNext DEF InArray, InObject
<1>5. QED
  BY <1>1, <1>3, <1>4, AdvanceReads

LEMMA BadSeparatorGrammar == TypeOK /\ BadSeparator => Grammar!Next
<1> SUFFICES ASSUME TypeOK, BadSeparator PROVE Grammar!Next
  OBVIOUS
<1>1. /\ Ready /\ expect = "Separator" /\ stack # <<>> /\ Peek # CommaSign /\ ~AtClose
  BY DEF BadSeparator, AtSeparator, CommaSign
<1>2. PICK kind \in Ungrammatical : Refuse(kind, position)
  BY DEF BadSeparator, Ungrammatical, Unexpected
<1>3. (InArray(stack) => Peek # EndArray) /\ (InObject(stack) => Peek # EndObject)
  BY <1>1 DEF AtClose, AtSeparator, EndArray, EndObject
<1>4. Fronted(Grammar!Leftmost(Rest)) /\ Grammar!After(Rest, Peek) = {}
  BY <1>1, <1>3, SeparatorNext
<1>5. QED
  BY <1>1, <1>2, <1>4, FrontedAfter, RefuseUnexpected

(* What close comes to: a container whose sign is the one at the position. *)
LEMMA ClosedIs ==
    ASSUME TypeOK, Turn, AtClose
    PROVE  /\ stack # <<>> /\ Ready /\ Peek \in Punctuation
           /\ Last(stack).object = (Peek = "}")
           /\ LeftAround \in Grammar!After(Rest, Peek)
<1>1. expect = "ValueOrEnd" => InArray(stack)
  BY DEF Turn
<1>2. expect = "NameOrEnd" => InObject(stack)
  BY DEF Turn
<1>3. stack # <<>> => Last(stack).object \in BOOLEAN
  <2> SUFFICES ASSUME stack # <<>> PROVE Last(stack).object \in BOOLEAN
    OBVIOUS
  <2>1. stack \in Seq(OpenEntry)
    BY StackTypes
  <2>2. Last(stack) \in OpenEntry
    BY <2>1, FrontLast
  <2>3. QED
    BY <2>2 DEF OpenEntry
<1>4. "]" # "}" /\ EndArray = "]" /\ EndObject = "}" /\ {"]", "}"} \subseteq Punctuation
  BY DEF EndArray, EndObject, Punctuation
<1>5. CASE AtValue /\ expect = "ValueOrEnd" /\ Peek = "]"
  <2>1. stack # <<>> /\ Last(stack).object = FALSE
    BY <1>1, <1>5, <1>3 DEF InArray
  <2>2. LeftAround \in Grammar!After(Rest, EndArray) /\ Ready
    BY <1>5, ValueNext DEF AtValue
  <2>3. QED
    BY <1>5, <1>4, <2>1, <2>2
<1>6. CASE AtName /\ expect = "NameOrEnd" /\ Peek = "}"
  <2>1. stack # <<>> /\ Last(stack).object = TRUE
    BY <1>2, <1>6, <1>3 DEF InObject
  <2>2. LeftAround \in Grammar!After(Rest, EndObject) /\ Ready
    BY <1>6, NameNext DEF AtName
  <2>3. QED
    BY <1>6, <1>4, <2>1, <2>2
<1>7. CASE AtSeparator /\ InArray(stack) /\ Peek = "]"
  <2>1. stack # <<>> /\ Last(stack).object = FALSE
    BY <1>7, <1>3 DEF InArray
  <2>2. LeftAround \in Grammar!After(Rest, EndArray) /\ Ready
    BY <1>7, <2>1, SeparatorNext DEF AtSeparator
  <2>3. QED
    BY <1>7, <1>4, <2>1, <2>2
<1>8. CASE AtSeparator /\ InObject(stack) /\ Peek = "}"
  <2>1. stack # <<>> /\ Last(stack).object = TRUE
    BY <1>8, <1>3 DEF InObject
  <2>2. LeftAround \in Grammar!After(Rest, EndObject) /\ Ready
    BY <1>8, <2>1, SeparatorNext DEF AtSeparator
  <2>3. QED
    BY <1>8, <1>4, <2>1, <2>2
<1>9. QED
  BY <1>5, <1>6, <1>7, <1>8 DEF AtClose

LEMMA CloseGrammar == TypeOK /\ Turn /\ Close => Grammar!Next
<1> SUFFICES ASSUME TypeOK, Turn, Close PROVE Grammar!Next
  OBVIOUS
<1>1. CloseObject(Front(stack), Last(stack).start) \/ CloseArray(Front(stack), Last(stack).start)
  BY DEF Close
<1>2. \A id, open, ids, pendings : Complete(id, open, ids, pendings) => expect' = "Separator"
  BY DEF Complete
<1>3. expect' = "Separator"
  BY <1>1, <1>2 DEF CloseObject, CloseArray
<1>4. /\ AtClose /\ stack' = Front(stack) /\ expect' = "Separator"
      /\ position' = position + 1 /\ input' = input /\ answer' = answer
  BY <1>3 DEF Close
<1>5. Rest' = LeftAround
  <2>1. Rest' = Left'
    BY <1>4, CloseTyped, RestIsNext
  <2>2. QED
    BY <1>4, <2>1 DEF Left, LeftAround
<1>6. QED
  BY <1>4, <1>5, ClosedIs, AdvanceReads

(* A close is refused for a name that occurs twice, and nothing else. *)
LEMMA RefusedForName ==
    ASSUME TypeOK, Shaped, AtClose, NEW refusal \in CloseRefusals
    PROVE  refusal.kind = "DuplicateName"
<1> DEFINE object == Peek = "}"
           start == Last(stack).start
           left == IF object THEN Dropped(scratch_members, start) ELSE scratch_members
           duplicates ==
             IF object THEN DuplicateAt(SubSeq(scratch_members, start + 1, Len(scratch_members)))
             ELSE {}
<1>1. CloseRefusals = IF stack = <<>> \/ Last(stack).object # object
          THEN {Answer("UnexpectedCharacter", position, <<>>)}
        ELSE IF duplicates # {}
          THEN {Answer("DuplicateName", offset, <<>>) : offset \in duplicates}
        ELSE IF NoMember(Front(stack), left)
          THEN {Answer("UnexpectedCharacter", position + 1, <<>>)}
        ELSE {}
  BY DEF CloseRefusals
<1>2. stack # <<>> /\ Last(stack).object = object
  BY ClosedIs DEF Shaped
<1>3. ~NoMember(Front(stack), left)
  BY <1>2, MemberForClosed DEF Remaining
<1> HIDE DEF left, duplicates, object
<1>4. refusal \in {Answer("DuplicateName", offset, <<>>) : offset \in duplicates}
  BY <1>1, <1>2, <1>3
<1>5. QED
  BY <1>4 DEF Answer

LEMMA RefuseCloseGrammar == TypeOK /\ Shaped /\ RefuseClose => Grammar!Next
<1> SUFFICES ASSUME TypeOK, Shaped, RefuseClose PROVE Grammar!Next
  OBVIOUS
<1>1. AtClose
  BY DEF RefuseClose
<1>2. PICK refusal \in CloseRefusals : Stop(refusal)
  BY DEF RefuseClose
<1>3. refusal.kind \notin Ungrammatical \cup {"Unread", "Reading", "Document"}
  BY <1>1, <1>2, RefusedForName DEF Ungrammatical
<1>4. answer.kind = "Reading"
  BY <1>1, ClosedIs DEF Shaped, Ready, Reading
<1>5. QED
  BY <1>2, <1>3, <1>4, StopStops

LEMMA FinishGrammar == TypeOK /\ Turn /\ Finish => Grammar!Next
<1> SUFFICES ASSUME TypeOK, Turn, Finish PROVE Grammar!Next
  OBVIOUS
<1>1. Ready /\ expect = "Separator" /\ stack = <<>> /\ slots # <<>>
  BY DEF Finish, AtSeparator, Turn
<1>2. /\ Rest = <<>> /\ Grammar!TokensFirst(Rest) /\ Grammar!After(Rest, Peek) = {}
  BY <1>1, NothingNext
<1>3. CASE ~AtEnd
  <2>1. Refuse("TrailingContent", position) /\ "TrailingContent" \in Ungrammatical
    BY <1>3 DEF Finish, Ungrammatical
  <2>2. Peek # End
    BY <1>3, PeekIs DEF AtEnd
  <2>3. QED
    BY <1>1, <1>2, <2>1, <2>2, RefuseUnexpected
<1>4. CASE AtEnd
  <2>1. Stop(Only("Document"))
    BY <1>1, <1>4 DEF Finish
  <2>2. Only("Document").kind = "Document"
    BY DEF Only, Answer
  <2>3. /\ Rest' = Rest /\ SubSeq(input, 1, position)' = SubSeq(input, 1, position)
        /\ answer'.kind = "Document"
    BY <2>1, <2>2, StopKeeps DEF ReadSoFar
  <2>4. Verdict = "reading" /\ Culprit = "none" /\ Verdict' = "accepted" /\ Culprit' = "none"
    BY <1>1, <2>3, VerdictIs, VerdictBecomes DEF Ready, Reading
  <2>5. Grammar!Accept
    BY <1>2, <2>3, <2>4 DEF Grammar!Accept
  <2>6. QED
    BY <2>5 DEF Grammar!Next
<1>5. QED
  BY <1>3, <1>4

(* Numbers out of range and exhausted memory are no matter of grammar. *)
LEMMA LimitsGrammar == TypeOK /\ Turn /\ (OutOfRange \/ OutOfMemory) => Grammar!Next
<1> SUFFICES ASSUME TypeOK, Turn, OutOfRange \/ OutOfMemory PROVE Grammar!Next
  OBVIOUS
<1>1. answer.kind = "Reading"
  BY ClosedIs DEF OutOfRange, OutOfMemory, AtValue, Ready, Reading
<1>2. PICK result : Stop(result) /\ result.kind \in {"NumberOutOfRange", "Allocation"}
  BY DEF OutOfRange, OutOfMemory, Only, Answer
<1>3. QED
  BY <1>1, <1>2, StopStops DEF Ungrammatical

(* The reader implements the grammar of JSON texts, for every limit and    *)
(* every set of names, scalars and other tokens: whatever the input and    *)
(* however deep its containers, read returns a document only for a text of *)
(* the grammar, and calls a text malformed only at the first token that no *)
(* text goes on with.                                                      *)
THEOREM ReaderImplementsGrammar == Spec => ImplementsGrammar
<1>1. Init => Grammar!Init
  BY InitGrammar
<1>2. Building /\ [Next]_vars => [Grammar!Next]_(Grammar!vars)
  <2> SUFFICES ASSUME Building, [Next]_vars
               PROVE  Grammar!Next \/ UNCHANGED Grammar!vars
    OBVIOUS
  <2>1. TypeOK /\ Shaped /\ Turn
    BY DEF Building, Shaped
  <2>2. CASE UNCHANGED vars
    BY <2>2 DEF vars, scratch, arena, Grammar!vars, Rest, Ends, Verdict, Culprit
  <2>3. CASE Begin \/ Disclose
    BY <2>1, <2>3, BeginGrammar, DiscloseGrammar
  <2>4. CASE Parse
    BY <2>1, <2>4, SkipWhitespaceGrammar, OpenContainerGrammar, LeafValueGrammar,
       BadValueGrammar, LimitsGrammar, MemberNameGrammar, BadNameGrammar, ColonGrammar,
       NoColonGrammar, CommaGrammar, BadSeparatorGrammar, CloseGrammar, RefuseCloseGrammar,
       FinishGrammar DEF Parse
  <2>5. QED
    BY <2>2, <2>3, <2>4 DEF Next
<1>3. QED
  BY <1>1, <1>2, AlwaysBuilding, PTL DEF Spec, ImplementsGrammar, Grammar!Spec

=============================================================================
