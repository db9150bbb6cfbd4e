------------------------------ MODULE Multistatus ------------------------------
(***************************************************************************)
(* The two readers of DAV answers, src/caldav/xml.rs: parse_multistatus,   *)
(* which flattens a multistatus into one map of properties per response,   *)
(* and nested_href, which looks for the <href> inside one property.  Both  *)
(* are loops over the events of the quick-xml reader.  The document is the *)
(* server's (external): it is written one event after the other, along the *)
(* content model of RFC 4918, and what it says is kept aside, as it is     *)
(* meant, element within element.                                          *)
(***************************************************************************)
EXTENDS Naturals, Sequences

CONSTANTS
    Texts,         \* values, trimmed
    Leaves,        \* properties with a text for value
    Types,         \* children of resourcetype
    Comps,         \* names of calendar components
    Nestings,      \* properties whose value is an <href>
    Target,        \* the property nested_href is asked for
    CDataHrefs,    \* whether the server may put an href of a property in CDATA
    Chunks,        \* into how many pieces the server may cut a value
    MaxResponses,  \* bound: responses of a document
    MaxChildren,   \* bound: children of a container
    None           \* no value

Containers == {"resourcetype", "supported-calendar-component-set"}

Structure == {"multistatus", "response", "propstat", "prop", "status", "href"}

Names == Structure \cup Leaves \cup Containers \cup Nestings

\* A value is the sequence of its pieces, or of its space-separated words.
Pieces == Seq(Texts \cup Types \cup Comps)

Response == [href : Pieces, props : [Names -> Pieces \cup {None}]]

ASSUME XmlAssumption ==
    /\ (Structure \cup Containers) \cap (Leaves \cup Types \cup Nestings) = {}
    /\ Nestings \cap (Leaves \cup Types \cup {"comp"}) = {}
    /\ Target \in Nestings
    /\ CDataHrefs \in BOOLEAN
    /\ Chunks \in Nat \ {0} /\ MaxResponses \in Nat /\ MaxChildren \in Nat
    /\ None \notin Texts \cup Types \cup Comps \cup Leaves \cup Nestings
    /\ None \notin Structure \cup Containers /\ None \notin Response

VARIABLES
    place,      \* document: what is open
    element,    \* document: the name of the open property
    draft,      \* document: what its open response says
    written,    \* document: what its complete responses say
    nested,     \* document: the first href inside Target
    cur,        \* parse_multistatus: the response being read
    curProp,    \* parse_multistatus: cur_prop
    container,  \* parse_multistatus: the container being read
    responses,  \* parse_multistatus: its result
    depth,      \* nested_href: > 0 inside Target
    inHref,     \* nested_href: inside an href inside Target
    found       \* nested_href: its result

document == <<place, element, draft, written, nested>>
flat == <<cur, curProp, container, responses>>
nesting == <<depth, inHref, found>>
vars == <<document, flat, nesting>>

NoProps == [n \in Names |-> None]

Empty == [href |-> << >>, props |-> NoProps]

Init ==
    /\ place = "document" /\ element = None
    /\ draft = Empty /\ written = << >> /\ nested = None
    /\ cur = None /\ curProp = None /\ container = None /\ responses = << >>
    /\ depth = 0 /\ inHref = FALSE /\ found = None

-----------------------------------------------------------------------------
(***************************************************************************)
(* parse_multistatus: one operator per arm of its match.                   *)
(***************************************************************************)

\* append_prop
AppendProp(r, key, word) ==
    [r EXCEPT !.props[key] = IF @ = None THEN <<word>> ELSE Append(@, word)]

\* collect_container_child: of a <comp> the name counts, if it has one.
Collect(name, attr) ==
    IF container = "resourcetype" THEN AppendProp(cur, container, name)
    ELSE IF name = "comp" /\ attr # None THEN AppendProp(cur, container, attr)
    ELSE cur

\* A faulty variant of FlatStart: a child of a container is a property.
FlatStartNoContainer(name, attr) ==
    /\ cur' = IF name = "response" THEN Empty ELSE cur
    /\ curProp' = IF name = "response" THEN curProp
                  ELSE IF name \in Containers THEN None ELSE name
    /\ container' = IF name \in Containers THEN name ELSE None
    /\ UNCHANGED responses

FlatStart(name, attr) ==
    IF container # None
      THEN /\ cur' = IF cur # None THEN Collect(name, attr) ELSE cur
           /\ UNCHANGED <<curProp, container, responses>>
      ELSE /\ cur' = IF name = "response" THEN Empty ELSE cur
           /\ curProp' = IF name = "response" THEN curProp
                         ELSE IF name \in Containers THEN None ELSE name
           /\ container' = IF name \in Containers THEN name ELSE None
           /\ UNCHANGED responses

FlatEmpty(name, attr) ==
    /\ cur' = IF container # None /\ cur # None THEN Collect(name, attr) ELSE cur
    /\ UNCHANGED <<curProp, container, responses>>

\* The arms of Text and CDATA: the first href is that of the response, any
\* other text replaces the value of the property that is open.
FlatText(pieces) ==
    /\ cur' = IF container # None \/ cur = None \/ curProp = None THEN cur
              ELSE IF curProp = "href" /\ cur.href = << >> THEN [cur EXCEPT !.href = pieces]
              ELSE [cur EXCEPT !.props[curProp] = pieces]
    /\ UNCHANGED <<curProp, container, responses>>

FlatEnd(name) ==
    /\ IF name = "response" /\ cur # None
         THEN responses' = Append(responses, cur) /\ cur' = None
         ELSE UNCHANGED <<responses, cur>>
    /\ container' = IF name \in Containers THEN None ELSE container
    /\ curProp' = None

-----------------------------------------------------------------------------
(***************************************************************************)
(* nested_href: it returns at the first text it finds.                     *)
(***************************************************************************)

NestedStart(name) ==
    /\ depth' = IF found = None /\ name = Target THEN depth + 1 ELSE depth
    /\ inHref' = (inHref \/ (found = None /\ depth > 0 /\ name = "href"))
    /\ UNCHANGED found

NestedText(pieces) ==
    /\ found' = IF found = None /\ depth > 0 /\ inHref THEN pieces ELSE found
    /\ UNCHANGED <<depth, inHref>>

\* A faulty variant of NestedEnd: the end of the property is not noticed.
NestedEndHref(name) ==
    /\ inHref' = (inHref /\ (found # None \/ name # "href"))
    /\ UNCHANGED <<depth, found>>

NestedEnd(name) ==
    /\ depth' = IF found = None /\ name = Target /\ depth > 0 THEN depth - 1 ELSE depth
    /\ inHref' = (inHref /\ (found # None \/ name # "href"))
    /\ UNCHANGED found

-----------------------------------------------------------------------------
(***************************************************************************)
(* The document, event by event.                                           *)
(***************************************************************************)

Open(name, where) ==
    /\ place' = where
    /\ FlatStart(name, None) /\ NestedStart(name)

Close(name, where) ==
    /\ place' = where
    /\ FlatEnd(name) /\ NestedEnd(name)

StartMultistatus ==
    /\ place = "document" /\ written = << >>
    /\ Open("multistatus", "multistatus")
    /\ UNCHANGED <<element, draft, written, nested>>

StartResponse ==
    /\ place = "multistatus" /\ Len(written) < MaxResponses
    /\ Open("response", "response")
    /\ draft' = Empty
    /\ UNCHANGED <<element, written, nested>>

EndResponse ==
    /\ place = "response" /\ draft.href # << >>
    /\ Close("response", "multistatus")
    /\ written' = Append(written, draft)
    /\ UNCHANGED <<element, draft, nested>>

\* The href of a response comes first.
StartPart ==
    /\ \/ /\ place = "response" /\ draft.href = << >> /\ Open("href", "href")
       \/ /\ place = "response" /\ draft.href # << >> /\ Open("propstat", "propstat")
       \/ /\ place = "propstat"
          /\ Open("prop", "prop") \/ Open("status", "status")
    /\ UNCHANGED <<element, draft, written, nested>>

EndPart ==
    /\ \/ place = "href" /\ draft.href # << >> /\ Close("href", "response")
       \/ place = "propstat" /\ Close("propstat", "response")
       \/ place = "prop" /\ Close("prop", "propstat")
       \/ place = "status" /\ Close("status", "propstat")
       \/ place = "multistatus" /\ Close("multistatus", "end")
    /\ UNCHANGED <<element, draft, written, nested>>

Kind(name) ==
    IF name \in Leaves THEN "leaf" ELSE IF name \in Containers THEN "container" ELSE "nesting"

\* A response gives a property a value once; where it is named again, in the
\* propstat of an error, it is empty.
StartProperty(name) ==
    /\ place = "prop" /\ draft.props[name] = None
    /\ Open(name, Kind(name))
    /\ element' = name
    /\ UNCHANGED <<draft, written, nested>>

EmptyProperty(name) ==
    /\ place = "prop"
    /\ FlatEmpty(name, None)
    /\ UNCHANGED <<document, nesting>>

EndProperty ==
    /\ place \in {"leaf", "container", "nesting"}
    /\ Close(element, "prop")
    /\ element' = None
    /\ UNCHANGED <<draft, written, nested>>

Join(value, pieces) == IF value = None THEN pieces ELSE value \o pieces

Room(value, bound) == IF value = None THEN TRUE ELSE Len(value) < bound

\* A piece of text, or of blank text: the reader skips blank text, and not
\* blank CDATA.
Value(pieces) ==
    /\ \/ /\ place = "href" /\ Len(draft.href) < Chunks /\ pieces # << >>
          /\ draft' = [draft EXCEPT !.href = @ \o pieces]
       \/ /\ place = "leaf" /\ Room(draft.props[element], Chunks)
          /\ draft' = [draft EXCEPT !.props[element] = Join(@, pieces)]
    /\ FlatText(pieces)
    /\ UNCHANGED <<place, element, written, nested>>

TextValue(t) == Value(<<t>>) /\ NestedText(<<t>>)

CDataValue(pieces) == Value(pieces) /\ UNCHANGED nesting

StatusText(t) ==
    /\ place = "status"
    /\ FlatText(<<t>>) /\ NestedText(<<t>>)
    /\ UNCHANGED document

Children ==
    IF element = "resourcetype" THEN {[name |-> t, attr |-> None] : t \in Types}
    ELSE {[name |-> "comp", attr |-> c] : c \in Comps \cup {None}}

\* What a child of a container means.
Word(child) == IF element = "resourcetype" THEN child.name ELSE child.attr

Meaning(child) ==
    IF Word(child) = None THEN draft
    ELSE [draft EXCEPT !.props[element] = Join(@, <<Word(child)>>)]

StartChild(child) ==
    /\ place = "container" /\ Room(draft.props[element], MaxChildren)
    /\ place' = "child"
    /\ FlatStart(child.name, child.attr) /\ NestedStart(child.name)
    /\ draft' = Meaning(child)
    /\ UNCHANGED <<element, written, nested>>

\* No arm tells the names of children apart.
EndChild ==
    /\ place = "child"
    /\ \E child \in Children : Close(child.name, "container")
    /\ UNCHANGED <<element, draft, written, nested>>

EmptyChild(child) ==
    /\ place = "container" /\ Room(draft.props[element], MaxChildren)
    /\ FlatEmpty(child.name, child.attr)
    /\ draft' = Meaning(child)
    /\ UNCHANGED <<place, element, written, nested, nesting>>

StartNested ==
    /\ place = "nesting"
    /\ Open("href", "nested")
    /\ UNCHANGED <<element, draft, written, nested>>

NestedValue(t) ==
    /\ place = "nested"
    /\ nested' = IF element = Target /\ nested = None THEN <<t>> ELSE nested
    /\ FlatText(<<t>>)
    /\ NestedText(<<t>>) \/ (CDataHrefs /\ UNCHANGED nesting)
    /\ UNCHANGED <<place, element, draft, written>>

EndNested ==
    /\ place = "nested"
    /\ Close("href", "nesting")
    /\ UNCHANGED <<element, draft, written, nested>>

PropertyStep ==
    \/ \E name \in Leaves \cup Containers \cup Nestings :
         StartProperty(name) \/ EmptyProperty(name)
    \/ EndProperty
    \/ \E t \in Texts : TextValue(t) \/ CDataValue(<<t>>)
    \/ CDataValue(<< >>)
    \/ \E child \in Children : StartChild(child) \/ EmptyChild(child)
    \/ EndChild \/ StartNested \/ EndNested
    \/ \E t \in Texts : NestedValue(t)

Next ==
    \/ StartMultistatus
    \/ StartResponse \/ EndResponse
    \/ StartPart \/ EndPart
    \/ \E t \in Texts : StatusText(t)
    \/ PropertyStep

Spec == Init /\ [][Next]_vars

-----------------------------------------------------------------------------
(***************************************************************************)
(* Properties.  The document may end, or turn out malformed, after any     *)
(* event: the result is then `responses' or an error, and `found'.         *)
(***************************************************************************)

Places == {"document", "multistatus", "response", "href", "propstat", "prop", "status",
           "leaf", "container", "child", "nesting", "nested", "end"}

\* Every variable holds a value of its type.
TypeOK ==
    /\ place \in Places
    /\ element \in Leaves \cup Containers \cup Nestings \cup {None}
    /\ draft \in Response
    /\ written \in Seq(Response)
    /\ nested \in Pieces \cup {None}
    /\ cur \in Response \cup {None}
    /\ curProp \in Names \cup {None}
    /\ container \in Containers \cup {None}
    /\ responses \in Seq(Response)
    /\ depth \in Nat
    /\ inHref \in BOOLEAN
    /\ found \in Pieces \cup {None}

\* The properties the program asks a response for.
Asked == Leaves \cup Containers

Agree(r, said) ==
    r.href = said.href /\ \A key \in Asked : r.props[key] = said.props[key]

\* "One <response> element: an href plus a flat map of local-name -> text"
\* (src/src/caldav/xml.rs:7).  Although the parser forgets what is open around an
\* element, each complete response is read as it is meant: its own href and
\* not that of a property, each property's own text, the children of its
\* containers; and nothing of a response that is cut short.
ReadAsMeant ==
    /\ Len(responses) = Len(written)
    /\ \A i \in DOMAIN responses : Agree(responses[i], written[i])

\* "Extract the text of a nested <href> element inside a named container
\* property" (src/src/caldav/xml.rs:221): the first one inside Target, never the
\* href of a response or of another property.
FoundIsNested == found = nested

-----------------------------------------------------------------------------
(***************************************************************************)
(* The inductive invariant.                                                *)
(***************************************************************************)

Outside == {"document", "multistatus", "end"}

\* What the flat parser remembers of the place it is at.
FlatInv ==
    /\ cur = None <=> place \in Outside
    /\ container = IF place \in {"container", "child"} THEN element ELSE None
    /\ place = "leaf" => element \in Leaves /\ curProp = element
    /\ place \in {"container", "child"} => element \in Containers
    /\ place \in {"nesting", "nested"} => element \in Nestings
    /\ place \in {"href", "nested"} => curProp = "href"
    /\ place = "status" => curProp = "status"

\* The response's own href is read before any other can come.
HrefInv == place \notin Outside \cup {"response", "href"} => draft.href # << >>

DraftInv == cur # None => Agree(cur, draft)

\* As long as nothing is found, depth and inHref say where the reader is.
NestedInv ==
    found = None =>
      /\ depth = IF place \in {"nesting", "nested"} /\ element = Target THEN 1 ELSE 0
      /\ inHref <=> place = "nested" /\ element = Target

IInv ==
    TypeOK /\ FlatInv /\ HrefInv /\ DraftInv /\ NestedInv /\ ReadAsMeant /\ FoundIsNested
=============================================================================
