--------------------------- MODULE MultistatusProofs ---------------------------
(***************************************************************************)
(* Every document is read as it is meant, whatever its responses, their    *)
(* properties and their texts, as long as each value is one piece.         *)
(***************************************************************************)
EXTENDS Multistatus, TLAPS

LEMMA AppendIsConcat ==
    ASSUME NEW S, NEW w \in Seq(S), NEW e \in S
    PROVE  Append(w, e) = w \o <<e>> /\ Append(w, e) \in Seq(S) /\ << >> \o <<e>> = <<e>>
  OBVIOUS

LEMMA InitIInv == Init => IInv
  <1>. SUFFICES ASSUME Init PROVE IInv
    OBVIOUS
  <1>1. Empty \in Response
    BY DEF Empty, Response, NoProps, Pieces
  <1>2. TypeOK
    <2>1. << >> \in Seq(Response)
      OBVIOUS
    <2>2. place \in Places /\ depth \in Nat /\ inHref \in BOOLEAN
      BY DEF Init, Places
    <2>. QED
      BY <1>1, <2>1, <2>2 DEF Init, TypeOK
  <1>. QED
    BY <1>2 DEF Init, IInv, FlatInv, Outside, HrefInv, DraftInv, NestedInv,
                ReadAsMeant, FoundIsNested

\* Names that no arm of either loop takes for another.
LEMMA NamesApart ==
    /\ Structure \subseteq Names /\ Containers \subseteq Names
    /\ Leaves \subseteq Names /\ Nestings \subseteq Names
    /\ Structure \cap Asked = {} /\ Structure \cap Nestings = {}
    /\ Target \notin Structure /\ Target \notin Leaves /\ Target \notin Containers
    /\ Leaves \cap Containers = {}
    /\ None \notin Names
  BY XmlAssumption DEF Names, Asked, Structure, Containers

-----------------------------------------------------------------------------

LEMMA WithProp ==
    ASSUME NEW r \in Response, NEW n \in Names, NEW w \in Pieces
    PROVE  /\ [r EXCEPT !.props[n] = w] \in Response
           /\ [r EXCEPT !.props[n] = w].href = r.href
           /\ [r EXCEPT !.props[n] = w].props[n] = w
           /\ \A k \in Names \ {n} : [r EXCEPT !.props[n] = w].props[k] = r.props[k]
  BY DEF Response

LEMMA WithHref ==
    ASSUME NEW r \in Response, NEW w \in Pieces
    PROVE  /\ [r EXCEPT !.href = w] \in Response
           /\ [r EXCEPT !.href = w].href = w
           /\ [r EXCEPT !.href = w].props = r.props
  BY DEF Response

LEMMA OnePieceValue ==
    ASSUME NEW e \in Texts \cup Types \cup Comps
    PROVE  <<e>> \in Pieces /\ << >> \in Pieces
  BY DEF Pieces

\* The two readers' parts of the invariant, and what they rest on.
LEMMA Facts ==
    ASSUME IInv
    PROVE  /\ draft \in Response
           /\ place \notin Outside => cur \in Response /\ Agree(cur, draft)
           /\ draft.href \in Pieces
           /\ \A n \in Names : draft.props[n] \in Pieces \cup {None}
  BY DEF IInv, TypeOK, FlatInv, DraftInv, Response

\* What a step of the document inside a response owes, when it leaves the
\* place and what is complete as they are.
LEMMA ValueStep ==
    ASSUME IInv, place \notin Outside,
           UNCHANGED <<place, element, written, curProp, container, responses>>,
           draft' \in Response, draft.href # << >> => draft'.href # << >>,
           cur' \in Response, Agree(cur', draft'),
           UNCHANGED <<nested, depth, inHref, found>>
    PROVE  IInv'
  <1>1. TypeOK'
    BY DEF IInv, TypeOK
  <1>2. FlatInv'
    <2>1. cur # None /\ cur' # None
      BY XmlAssumption DEF IInv, FlatInv
    <2>. QED
      BY <2>1 DEF IInv, FlatInv
  <1>3. HrefInv' /\ DraftInv'
    BY DEF IInv, HrefInv, DraftInv
  <1>4. NestedInv' /\ ReadAsMeant' /\ FoundIsNested'
    BY DEF IInv, NestedInv, ReadAsMeant, FoundIsNested
  <1>. QED
    BY <1>1, <1>2, <1>3, <1>4 DEF IInv
\* A value that is given in one piece.
LEMMA ValueInv ==
    ASSUME IInv, Chunks = 1, NEW w \in Pieces, Value(w), UNCHANGED <<nested, depth, inHref, found>>
    PROVE  IInv'
  <1>. USE NamesApart
  <1>1. /\ place \notin Outside
        /\ UNCHANGED <<place, element, written, curProp, container, responses>>
    BY DEF Value, FlatText, Outside
  <1>2. /\ cur \in Response /\ Agree(cur, draft) /\ draft \in Response /\ cur # None
        /\ draft.href \in Pieces
    BY <1>1, Facts, XmlAssumption
  <1>3. container = None /\ Asked \subseteq Names
    BY DEF Value, IInv, FlatInv, Asked
  <1>4. CASE place = "href"
    <2>1. draft.href = << >> /\ w # << >> /\ draft' = [draft EXCEPT !.href = draft.href \o w]
      BY <1>2, <1>4 DEF Value, Pieces
    <2>2. draft' = [draft EXCEPT !.href = w]
      BY <2>1 DEF Pieces
    <2>3. cur.href = << >> /\ curProp = "href"
      BY <1>2, <1>4, <2>1 DEF Agree, IInv, FlatInv
    <2>4. cur' = [cur EXCEPT !.href = w]
      BY <1>2, <1>3, <2>3, XmlAssumption DEF Value, FlatText, Structure
    <2>5. cur' \in Response /\ draft' \in Response /\ Agree(cur', draft') /\ draft'.href # << >>
      BY <1>2, <2>1, <2>2, <2>4, WithHref DEF Agree
    <2>. QED
      BY <1>1, <2>5, ValueStep
  <1>5. CASE place = "leaf"
    <2>1. element \in Leaves /\ element \in Asked /\ curProp = element
      BY <1>5 DEF IInv, FlatInv, Asked
    <2>2. draft' = [draft EXCEPT !.props[element] = w]
      <3>1. draft' = [draft EXCEPT !.props[element] = Join(draft.props[element], w)]
        BY <1>2, <1>5, <2>1 DEF Value, Response
      <3>2. draft.props[element] \in Pieces \cup {None}
        BY <1>2, <2>1 DEF Response
      <3>3. draft.props[element] = None \/ Len(draft.props[element]) < 1
        BY <1>5 DEF Value, Room
      <3>4. draft.props[element] = None \/ draft.props[element] = << >>
        BY <3>2, <3>3 DEF Pieces
      <3>5. Join(draft.props[element], w) = w
        BY <3>4 DEF Join, Pieces
      <3>. QED
        BY <3>1, <3>5
    <2>3. cur' = [cur EXCEPT !.props[element] = w]
      BY <1>2, <1>3, <2>1, XmlAssumption DEF Value, FlatText, Structure
    <2>4. cur' \in Response /\ draft' \in Response /\ Agree(cur', draft') /\ draft'.href = draft.href
      BY <1>2, <1>3, <2>1, <2>2, <2>3, WithProp DEF Agree
    <2>. QED
      BY <1>1, <2>4, ValueStep
  <1>. QED
    BY <1>4, <1>5 DEF Value

LEMMA JoinWord ==
    ASSUME NEW v \in Pieces \cup {None}, NEW e \in Texts \cup Types \cup Comps
    PROVE  /\ Join(v, <<e>>) \in Pieces
           /\ (IF v = None THEN <<e>> ELSE Append(v, e)) = Join(v, <<e>>)
  <1>. DEFINE S == Texts \cup Types \cup Comps
  <1>1. CASE v = None
    BY <1>1, OnePieceValue DEF Join
  <1>2. CASE v # None
    <2>1. v \in Seq(S) /\ e \in S
      BY <1>2 DEF Pieces
    <2>2. Append(v, e) = v \o <<e>> /\ Append(v, e) \in Seq(S)
      BY <2>1, AppendIsConcat
    <2>. QED
      BY <1>2, <2>2 DEF Join, Pieces
  <1>. QED
    BY <1>1, <1>2

LEMMA ChildName ==
    ASSUME NEW child \in Children
    PROVE  /\ child.name # Target /\ child.name # "href"
           /\ child.name # "response" /\ child.name \notin Containers
  BY XmlAssumption DEF Children, Structure, Containers

\* A child of a container adds the same word to what is read and what is meant.
LEMMA ChildInv ==
    ASSUME IInv, place = "container", NEW child \in Children, draft' = Meaning(child)
    PROVE  /\ draft' \in Response /\ draft'.href = draft.href
           /\ Collect(child.name, child.attr) \in Response
           /\ Agree(Collect(child.name, child.attr), draft')
  <1>. USE NamesApart
  <1>. DEFINE read == Collect(child.name, child.attr)
              key == element
              word == Word(child)
  <1>1. /\ cur \in Response /\ Agree(cur, draft) /\ draft \in Response
        /\ container = key /\ key \in Containers /\ key \in Asked /\ Asked \subseteq Names
    BY Facts DEF IInv, FlatInv, Outside, Asked
  <1>2. cur.props[key] = draft.props[key] /\ draft.props[key] \in Pieces \cup {None}
    BY <1>1 DEF Agree, Response
  <1>3. CASE word = None
    <2>1. draft' = draft /\ read = cur
      BY <1>1, <1>3, XmlAssumption DEF Meaning, Word, Collect, Children, Containers
    <2>. QED
      BY <1>1, <2>1
  <1>4. CASE word # None
    <2>1. word \in Types \cup Comps
      BY <1>4 DEF Word, Children
    <2>. DEFINE w == Join(draft.props[key], <<word>>)
    <2>2. w \in Pieces
      BY <1>2, <2>1, JoinWord
    <2>3. draft' = [draft EXCEPT !.props[key] = w]
      BY <1>1, <1>4 DEF Meaning, Response
    <2>4. read = AppendProp(cur, key, word)
      BY <1>1, <1>4 DEF Collect, Word, Children, Containers
    <2>5. (IF cur.props[key] = None THEN <<word>> ELSE Append(cur.props[key], word)) = w
      BY <1>2, <2>1, JoinWord
    <2>6. read = [cur EXCEPT !.props[key] = w]
      BY <1>1, <2>4, <2>5 DEF AppendProp, Response
    <2>. HIDE DEF w, read, word
    <2>7. /\ draft' \in Response /\ draft'.href = draft.href /\ draft'.props[key] = w
          /\ \A k \in Names \ {key} : draft'.props[k] = draft.props[k]
      BY <1>1, <2>2, <2>3, WithProp
    <2>8. /\ read \in Response /\ read.href = cur.href /\ read.props[key] = w
          /\ \A k \in Names \ {key} : read.props[k] = cur.props[k]
      BY <1>1, <2>2, <2>6, WithProp
    <2>9. Agree(read, draft')
      BY <1>1, <2>7, <2>8 DEF Agree
    <2>. QED
      BY <2>7, <2>8, <2>9 DEF read
  <1>. QED
    BY <1>3, <1>4

LEMMA NextIInv ==
    ASSUME IInv, [Next]_vars, Chunks = 1, ~CDataHrefs
    PROVE  IInv'
  <1>. USE NamesApart
  <1>1. CASE StartMultistatus
    BY <1>1, XmlAssumption DEF StartMultistatus, Open, FlatStart, NestedStart,
       IInv, TypeOK, FlatInv, Outside, HrefInv,
       DraftInv, NestedInv, ReadAsMeant, FoundIsNested, Places, Structure, Containers
  <1>2. CASE StartResponse
    <2>1. Empty \in Response /\ Empty # None /\ Agree(Empty, Empty)
      <3>1. Empty \in Response
        BY DEF Empty, NoProps, Response, Pieces
      <3>. QED
        BY <3>1, XmlAssumption DEF Agree
    <2>2. cur' = Empty /\ draft' = Empty /\ place' = "response" /\ container' = None
      BY <1>2 DEF StartResponse, Open, FlatStart, IInv, FlatInv, Containers
    <2>. QED
      BY <1>2, <2>1, <2>2, XmlAssumption
         DEF StartResponse, Open, FlatStart, NestedStart,
       IInv, TypeOK, FlatInv, Outside, HrefInv,
       DraftInv, NestedInv, ReadAsMeant, FoundIsNested, Places, Structure, Containers
  <1>3. CASE EndResponse
    <2>1. responses' = Append(responses, cur) /\ written' = Append(written, draft)
          /\ cur' = None /\ place' = "multistatus"
      BY <1>3 DEF EndResponse, Close, FlatEnd, IInv, FlatInv, Outside
    <2>2. cur \in Response /\ draft \in Response /\ Agree(cur, draft)
      BY <1>3, Facts DEF EndResponse, Outside
    <2>3. ReadAsMeant'
      BY <2>1, <2>2 DEF IInv, TypeOK, ReadAsMeant
    <2>4. TypeOK'
      BY <1>3, <2>1, <2>2 DEF EndResponse, Close, FlatEnd, NestedEnd, IInv, TypeOK, Places
    <2>. QED
      BY <1>3, <2>1, <2>3, <2>4, XmlAssumption
         DEF EndResponse, Close, FlatEnd, NestedEnd, IInv, FlatInv, Outside, HrefInv,
             DraftInv, NestedInv, FoundIsNested, Structure, Containers
  <1>4. CASE StartPart
    BY <1>4, XmlAssumption DEF StartPart, Open, FlatStart, NestedStart,
       IInv, TypeOK, FlatInv, Outside, HrefInv,
       DraftInv, NestedInv, ReadAsMeant, FoundIsNested, Places, Structure, Containers
  <1>5. CASE EndPart
    BY <1>5, XmlAssumption DEF EndPart, Close, FlatEnd, NestedEnd,
       IInv, TypeOK, FlatInv, Outside, HrefInv,
       DraftInv, NestedInv, ReadAsMeant, FoundIsNested, Places, Structure, Containers
  <1>6. CASE \E t \in Texts : StatusText(t)
    <2>1. PICK t \in Texts : StatusText(t)
      BY <1>6
    <2>2. cur \in Response /\ Agree(cur, draft) /\ draft \in Response
      BY <2>1, Facts DEF StatusText, Outside
    <2>3. cur' = [cur EXCEPT !.props["status"] = <<t>>]
      BY <2>1, <2>2, XmlAssumption DEF StatusText, FlatText, IInv, FlatInv, Outside, Structure
    <2>4. cur' \in Response /\ Agree(cur', draft)
      <3>1. "status" \in Names \ Asked /\ Asked \subseteq Names
        BY DEF Structure, Asked
      <3>. QED
        BY <2>2, <2>3, <3>1, WithProp, OnePieceValue DEF Agree
    <2>5. UNCHANGED <<nested, depth, inHref, found>>
      BY <2>1 DEF StatusText, NestedText, document, IInv, NestedInv
    <2>. QED
      BY <2>1, <2>2, <2>4, <2>5, ValueStep DEF StatusText, FlatText, document, Outside
  <1>7. CASE \E name \in Leaves \cup Containers \cup Nestings : StartProperty(name)
    BY <1>7, XmlAssumption DEF StartProperty, Kind, Open, FlatStart, NestedStart,
       IInv, TypeOK, FlatInv, Outside, HrefInv,
       DraftInv, NestedInv, ReadAsMeant, FoundIsNested, Places, Structure, Containers
  <1>8. CASE \E name \in Leaves \cup Containers \cup Nestings : EmptyProperty(name)
    BY <1>8, XmlAssumption DEF EmptyProperty, FlatEmpty, document, nesting,
       IInv, TypeOK, FlatInv, Outside, HrefInv,
       DraftInv, NestedInv, ReadAsMeant, FoundIsNested, Places, Structure, Containers
  <1>9. CASE EndProperty
    BY <1>9, XmlAssumption DEF EndProperty, Close, FlatEnd, NestedEnd,
       IInv, TypeOK, FlatInv, Outside, HrefInv,
       DraftInv, NestedInv, ReadAsMeant, FoundIsNested, Places, Structure, Containers
  <1>10. CASE \E t \in Texts : TextValue(t)
    <2>1. PICK t \in Texts : TextValue(t)
      BY <1>10
    <2>2. UNCHANGED <<nested, depth, inHref, found>>
      BY <2>1 DEF TextValue, NestedText, Value, IInv, NestedInv
    <2>. QED
      BY <2>1, <2>2, ValueInv, OnePieceValue DEF TextValue
  <1>11. CASE \E t \in Texts : CDataValue(<<t>>)
    BY <1>11, ValueInv, OnePieceValue DEF CDataValue, nesting, Value
  <1>12. CASE CDataValue(<< >>)
    <2>1. << >> \in Pieces
      BY DEF Pieces
    <2>. QED
      BY <1>12, <2>1, ValueInv DEF CDataValue, nesting, Value
  <1>13. CASE \E child \in Children : StartChild(child)
    <2>1. PICK child \in Children : StartChild(child)
      BY <1>13
    <2>2. container = element /\ cur # None /\ cur' = Collect(child.name, child.attr)
      BY <2>1, XmlAssumption DEF StartChild, FlatStart, IInv, FlatInv, Outside, Containers
    <2>3. draft' \in Response /\ draft'.href = draft.href /\ cur' \in Response /\ Agree(cur', draft')
      BY <2>1, <2>2, ChildInv DEF StartChild
    <2>4. child.name # Target /\ child.name # "href"
      BY ChildName
    <2>5. UNCHANGED <<nested, depth, inHref, found, element, written, curProp, container, responses>>
          /\ place' = "child" /\ place = "container"
      BY <2>1, <2>2, <2>4, XmlAssumption DEF StartChild, FlatStart, NestedStart, IInv, TypeOK, FlatInv, Containers
    <2>6. cur' # None
      BY <2>3, XmlAssumption
    <2>. QED
      BY <2>2, <2>3, <2>5, <2>6 DEF IInv, TypeOK, FlatInv, Outside, HrefInv,
       DraftInv, NestedInv, ReadAsMeant, FoundIsNested, Places, Structure, Containers
  <1>14. CASE \E child \in Children : EmptyChild(child)
    <2>1. PICK child \in Children : EmptyChild(child)
      BY <1>14
    <2>2. container = element /\ cur # None /\ cur' = Collect(child.name, child.attr)
      BY <2>1, XmlAssumption DEF EmptyChild, FlatEmpty, IInv, FlatInv, Outside, Containers
    <2>3. draft' \in Response /\ draft'.href = draft.href /\ cur' \in Response /\ Agree(cur', draft')
      BY <2>1, <2>2, ChildInv DEF EmptyChild
    <2>. QED
      BY <2>1, <2>2, <2>3, ValueStep DEF EmptyChild, FlatEmpty, nesting, Outside
  <1>15. CASE EndChild
    <2>1. PICK child \in Children : Close(child.name, "container")
      BY <1>15 DEF EndChild
    <2>2. /\ child.name # Target /\ child.name # "href"
          /\ child.name # "response" /\ child.name \notin Containers
      BY ChildName
    <2>. QED
      BY <1>15, <2>1, <2>2, XmlAssumption DEF EndChild, Close, FlatEnd, NestedEnd,
       IInv, TypeOK, FlatInv, Outside, HrefInv,
       DraftInv, NestedInv, ReadAsMeant, FoundIsNested, Places, Structure, Containers
  <1>16. CASE StartNested
    <2>1. place = "nesting" /\ place' = "nested" /\ container = None /\ element \in Nestings
      BY <1>16 DEF StartNested, Open, IInv, FlatInv
    <2>2. curProp' = "href" /\ UNCHANGED <<cur, container, responses>>
      BY <1>16, <2>1 DEF StartNested, Open, FlatStart, Structure, Containers
    <2>3. UNCHANGED <<depth, found>> /\ inHref' \in BOOLEAN
      BY <1>16 DEF StartNested, Open, NestedStart, Structure, IInv, TypeOK
    <2>4. found = None => (inHref' <=> element = Target)
      <3>1. found = None => ~inHref /\ (depth > 0 <=> element = Target)
        BY <2>1 DEF IInv, NestedInv
      <3>2. inHref' = (inHref \/ (found = None /\ depth > 0 /\ "href" = "href"))
        BY <1>16 DEF StartNested, Open, NestedStart
      <3>. QED
        BY <3>1, <3>2
    <2>5. TypeOK'
      BY <1>16, <2>1, <2>2, <2>3 DEF StartNested, IInv, TypeOK, Places, Structure
    <2>6. NestedInv'
      BY <1>16, <2>1, <2>3, <2>4 DEF StartNested, IInv, NestedInv
    <2>. QED
      BY <1>16, <2>1, <2>2, <2>3, <2>5, <2>6 DEF StartNested, IInv, FlatInv, Outside, HrefInv,
             DraftInv, ReadAsMeant, FoundIsNested
  <1>17. CASE EndNested
    BY <1>17, XmlAssumption DEF EndNested, Close, FlatEnd, NestedEnd,
       IInv, TypeOK, FlatInv, Outside, HrefInv,
       DraftInv, NestedInv, ReadAsMeant, FoundIsNested, Places, Structure, Containers
  <1>18. CASE \E t \in Texts : NestedValue(t)
    <2>1. PICK t \in Texts : NestedValue(t)
      BY <1>18
    <2>2. /\ cur \in Response /\ Agree(cur, draft) /\ draft \in Response
          /\ curProp = "href" /\ draft.href # << >>
      BY <2>1, Facts DEF NestedValue, Outside, IInv, FlatInv, HrefInv
    <2>3. cur' = [cur EXCEPT !.props["href"] = <<t>>]
      BY <2>1, <2>2, XmlAssumption DEF NestedValue, FlatText, IInv, FlatInv, Outside, Structure, Agree
    <2>4. cur' \in Response /\ cur' # None /\ Agree(cur', draft)
      <3>1. "href" \in Names \ Asked /\ Asked \subseteq Names
        BY DEF Structure, Asked
      <3>. QED
        BY <2>2, <2>3, <3>1, WithProp, OnePieceValue, XmlAssumption DEF Agree
    <2>5. UNCHANGED <<place, element, draft, written, curProp, container, responses, depth, inHref>>
      BY <2>1 DEF NestedValue, NestedText, FlatText, nesting
    <2>6. nested' = found' /\ (found' = None => found = None) /\ found' \in Pieces \cup {None}
      <3>1. NestedText(<<t>>)
        BY <2>1 DEF NestedValue
      <3>2. found = None => (depth > 0 /\ inHref <=> element = Target)
        BY <2>1 DEF NestedValue, IInv, NestedInv
      <3>3. <<t>> \in Pieces
        BY OnePieceValue
      <3>4. found' = IF found = None /\ element = Target THEN <<t>> ELSE found
        BY <3>1, <3>2 DEF NestedText
      <3>5. found = nested /\ found \in Pieces \cup {None}
        BY DEF IInv, TypeOK, FoundIsNested
      <3>. QED
        BY <2>1, <3>3, <3>4, <3>5 DEF NestedValue
    <2>7. TypeOK'
      BY <2>2, <2>4, <2>5, <2>6 DEF IInv, TypeOK
    <2>8. FlatInv' /\ HrefInv' /\ DraftInv' /\ ReadAsMeant'
      BY <2>1, <2>4, <2>5 DEF NestedValue, IInv, FlatInv, Outside, HrefInv, DraftInv, ReadAsMeant
    <2>9. NestedInv' /\ FoundIsNested'
      BY <2>5, <2>6 DEF IInv, NestedInv, FoundIsNested
    <2>. QED
      BY <2>7, <2>8, <2>9 DEF IInv
  <1>19. CASE UNCHANGED vars
    BY <1>19 DEF vars, document, flat, nesting, Agree,
       IInv, TypeOK, FlatInv, Outside, HrefInv,
       DraftInv, NestedInv, ReadAsMeant, FoundIsNested, Places, Structure, Containers
  <1>. QED
    BY <1>1, <1>2, <1>3, <1>4, <1>5, <1>6, <1>7, <1>8, <1>9, <1>10, <1>11, <1>12, <1>13, <1>14, <1>15, <1>16, <1>17, <1>18, <1>19 DEF Next, PropertyStep

-----------------------------------------------------------------------------

\* The invariant holds in every state of every run.
THEOREM XmlInvariance == Chunks = 1 /\ ~CDataHrefs => (Spec => []IInv)
  <1>. SUFFICES ASSUME Chunks = 1, ~CDataHrefs PROVE Spec => []IInv
    OBVIOUS
  <1>1. IInv /\ [Next]_vars => IInv'
    BY NextIInv
  <1>. QED
    BY InitIInv, <1>1, PTL DEF Spec

\* Every complete response of every document is read as it is meant, when no
\* value is cut into pieces.
THEOREM EveryDocumentIsReadAsMeant == Chunks = 1 /\ ~CDataHrefs => (Spec => []ReadAsMeant)
  <1>1. IInv => ReadAsMeant
    BY DEF IInv
  <1>. QED
    BY XmlInvariance, <1>1, PTL

\* nested_href finds the first href of its property, when the server writes
\* hrefs as plain text.
THEOREM NestedHrefIsFound == Chunks = 1 /\ ~CDataHrefs => (Spec => []FoundIsNested)
  <1>1. IInv => FoundIsNested
    BY DEF IInv
  <1>. QED
    BY XmlInvariance, <1>1, PTL
=============================================================================
