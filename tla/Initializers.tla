---------------------------- MODULE Initializers ----------------------------
(***************************************************************************)
(* Initializers: parse_initializer() of parser.c reads the tokens of one   *)
(* with a path to the object the next value is for, and makes lists of     *)
(* what it has read; create_ir_initializer() and                           *)
(* create_dynamic_initializer() of ast2firm.c walk the lists with a path   *)
(* of their own and find the objects again.                                *)
(*                                                                         *)
(* The tokens are chosen when they are read and are those of a well-formed *)
(* initializer. An error ends it: nothing is translated then.              *)
(***************************************************************************)
EXTENDS SubObjects, TLC

CONSTANTS Objects,    \* the types of objects, each with designators for it
          MaxTokens   \* bound on the length of an initializer

ASSUME BoundsOK == MaxTokens \in Nat /\ \A o \in Objects : o.designators \subseteq DOMAIN Designators

VARIABLES object,     \* the object that is initialized
          text,       \* the tokens read
          place,      \* where the parser is
          lists,      \* the calls of parse_sub_initializer(), the last one innermost
          path,       \* the type path: the aggregates around the next object, with the positions in them
          top_type,   \* the type of the next object; NoType behind the last one
          max_index,  \* the largest index used in an outermost array
          diagnosed,  \* a warning or an error was given
          lost,       \* the path was not at the level of the list in its braces
          result      \* the initializer
vars == << object, text, place, lists, path, top_type, max_index, diagnosed, lost, result >>

NoType == [kind |-> "none", size |-> 0, of |-> << >>]
NoResult == [kind |-> "none"]
At(p, t) == [path |-> p, top |-> t]

Value(n, t) == [kind |-> "value", at |-> n, to |-> t.kind]
String(n) == [kind |-> "string", at |-> n]
List(items) == [kind |-> "list", items |-> items]
Designator(d) == [kind |-> "designator", to |-> d]

-----------------------------------------------------------------------------
(***************************************************************************)
(* The type path.                                                          *)
(***************************************************************************)
descend_into_subtype(pos) ==
  At(Append(pos.path, [type |-> pos.top, index |-> 0]), Part(pos.top, 0))
ascend_from_subtype(pos) == At(Front(pos.path), Last(pos.path).type)

\* Mutant: a designation starts where the last one ended.
ascend_to_Never(pos, level) == pos
ascend_to(pos, level) ==
  IF Len(pos.path) > level THEN At(SubSeq(pos.path, 1, level), pos.path[level + 1].type) ELSE pos

\* Mutant: the members of a union are initialized one after the other.
MemberBehind_All(type, i) == Has(type, i + 1)
MemberBehind(type, i) == type.kind # "union" /\ Has(type, i + 1)

MoveTo(pos, i, top) == At(Append(Front(pos.path), [Last(pos.path) EXCEPT !.index = i]), top)

RECURSIVE advance_current_object(_, _)
advance_current_object(pos, level) ==
  LET entry == Last(pos.path) IN
  IF MemberBehind(entry.type, entry.index) THEN MoveTo(pos, entry.index + 1, Part(entry.type, entry.index + 1))
  ELSE IF Len(pos.path) > level THEN advance_current_object(ascend_from_subtype(pos), level)
  ELSE MoveTo(pos, entry.type.size, NoType)

\* What initializer_from_expression() makes of the expression at n; any
\* scalar may be converted to any other, if with a warning.
Convertible(type, v) == IsScalar(type) \/ (v = "s" /\ IsCharArray(type))
initializer_from_expression(type, v, n) == IF IsScalar(type) THEN Value(n, type) ELSE String(n)
Doubtful(type, v) == IsScalar(type) /\ ~ Accepts(type, v)

\* "descend into subtypes until expression matches type"
RECURSIVE DescendFor(_, _)
DescendFor(pos, v) == IF Convertible(pos.top, v) THEN pos ELSE DescendFor(descend_into_subtype(pos), v)

RECURSIVE walk_designator(_, _)
walk_designator(pos, d) ==
  LET at == MoveTo(pos, Head(d), Part(Last(pos.path).type, Head(d)))
  IN IF Len(d) = 1 THEN at ELSE walk_designator(descend_into_subtype(at), Tail(d))

-----------------------------------------------------------------------------
Room(n) == Len(text) + n + Len(lists) <= MaxTokens
Reads(tokens) == Room(Len(tokens)) /\ text' = text \o tokens

here == At(path, top_type)
Go(pos) == path' = pos.path /\ top_type' = pos.top

Innermost == Last(lists)
With(list) == lists' = Append(Front(lists), list)
Is(p) == place' = p
Fail == Is("failed") /\ diagnosed' = TRUE

\* The largest index used in the outermost aggregate, if it is an array.
CountIndex(p) ==
  max_index' = IF p[1].type.kind = "array" /\ p[1].index > max_index THEN p[1].index ELSE max_index

\* An item, at the next object: it joins the list.
Item(initializer, pos) ==
  /\ With([Innermost EXCEPT !.items = Append(@, initializer)])
  /\ Go(pos) /\ Is("after") /\ CountIndex(pos.path)

\* parse_scalar_initializer(): there may be braces around the value, and
\* what follows the value in these is skipped.
Rests == { << >>, <<",">>, <<",", "i">> }
ScalarInitializer(type, v, rest) ==
  /\ IsScalar(type) /\ Reads(<<"{", v>> \o rest \o <<"}">>)
  /\ diagnosed' = (diagnosed \/ Doubtful(type, v) \/ Len(rest) = 2)

-----------------------------------------------------------------------------
(***************************************************************************)
(* parse_initializer() and parse_sub_initializer().                        *)
(***************************************************************************)
Init ==
  /\ \E o \in Objects : object = o.type
  /\ text = << >> /\ place = "start" /\ lists = << >> /\ path = << >> /\ top_type = NoType
  /\ max_index = 0 /\ diagnosed = FALSE /\ lost = FALSE /\ result = NoResult

\* A call of parse_sub_initializer().
OpenList(type, level) ==
  /\ Room(2) /\ text' = Append(text, "{") /\ Is("first")
  /\ lists' = Append(lists, [level |-> level, outer |-> type, items |-> << >>, over |-> FALSE, depth |-> Len(path)])
  /\ Go(descend_into_subtype(At(path, type)))

StartList ==
  /\ place = "start" /\ ~ IsScalar(object) /\ OpenList(object, 1)
  /\ UNCHANGED << object, max_index, diagnosed, lost, result >>

StartScalar ==
  /\ place = "start" /\ Is("done") /\ result' = Value(2, object)
  /\ \E v \in Values, rest \in Rests : ScalarInitializer(object, v, rest)
  /\ UNCHANGED << object, lists, path, top_type, max_index, lost >>

StartExpression ==
  /\ place = "start"
  /\ \E v \in Values :
       /\ Reads(<<v>>)
       /\ IF Convertible(object, v)
          THEN /\ result' = initializer_from_expression(object, v, 1) /\ Is("done")
               /\ diagnosed' = Doubtful(object, v)
          ELSE Fail /\ UNCHANGED result
  /\ UNCHANGED << object, lists, path, top_type, max_index, lost >>

\* A designation: the path is reset to the object of the list's braces, and
\* leads from there.
Designations ==
  LET known == UNION { o.designators : o \in { o \in Objects : o.type = object } }
      new == known \ OldDesignators
  IN { << << d, "=" >>, << d >> >> : d \in new } \cup { << << d, e, "=" >>, << d, e >> >> : d \in new, e \in new }
       \cup { << << d >>, << d >> >> : d \in known \cap OldDesignators }

Designated(type, d) == IF Designates(d, type) THEN Part(type, Designators[d]) ELSE NoType

Designation ==
  /\ place \in {"first", "item"}
  /\ \E d \in Designations :
       LET top == ascend_to(here, Innermost.level)
           indices == [k \in DOMAIN d[2] |-> Designators[d[2][k]]]
       IN /\ Reads(d[1])
          /\ IF FoldLeft(Designated, Last(top.path).type, d[2]) = NoType
             THEN Fail /\ UNCHANGED << lists, path, top_type >>
             ELSE /\ With([Innermost EXCEPT !.items = Append(@, Designator(indices)), !.over = FALSE])
                  /\ Go(walk_designator(top, indices)) /\ Is("initializer") /\ UNCHANGED diagnosed
  /\ UNCHANGED << object, max_index, lost, result >>

AtItem == place \in {"first", "item", "initializer"}

\* Braces: of an aggregate, of a scalar, or extra ones behind the last object.
OpenBraces ==
  /\ AtItem /\ ~ Innermost.over /\ ~ IsScalar(top_type)
  /\ OpenList(top_type, Innermost.level + 1)
  /\ lost' = (lost \/ Len(path) # Innermost.level)
  /\ UNCHANGED << object, max_index, diagnosed, result >>

ScalarInBraces ==
  /\ AtItem /\ ~ Innermost.over
  /\ \E v \in Values, rest \in Rests : ScalarInitializer(top_type, v, rest)
  /\ Item(Value(Len(text) + 2, top_type), here)
  /\ UNCHANGED << object, lost, result >>

ExtraBraces ==
  /\ AtItem /\ Innermost.over /\ Reads(<<"{">>) /\ Fail
  /\ UNCHANGED << object, lists, path, top_type, max_index, lost, result >>

\* { "string" } is for the array itself.
StringInBraces ==
  /\ AtItem /\ ~ Innermost.over /\ Convertible(Innermost.outer, "s")
  /\ Reads(<<"s">>) /\ Is("string")
  /\ UNCHANGED << object, lists, path, top_type, max_index, diagnosed, lost, result >>

Expression ==
  /\ AtItem /\ ~ Innermost.over
  /\ \E v \in Values :
       LET pos == DescendFor(here, v) IN
       /\ v = "s" => ~ Convertible(Innermost.outer, "s")
       /\ Reads(<<v>>)
       /\ diagnosed' = (diagnosed \/ Doubtful(pos.top, v))
       /\ Item(initializer_from_expression(pos.top, v, Len(text) + 1), pos)
  /\ UNCHANGED << object, lost, result >>

ExcessExpression ==
  /\ AtItem /\ Innermost.over
  /\ Reads(<<"i">>) /\ diagnosed' = TRUE /\ Is("after")
  /\ UNCHANGED << object, lists, path, top_type, max_index, lost, result >>

Comma ==
  /\ place = "after" /\ Reads(<<",">>) /\ Is("comma")
  /\ UNCHANGED << object, lists, path, top_type, max_index, diagnosed, lost, result >>

\* Unless the list ends, the next object is the one behind.
NextObject ==
  /\ place = "comma" /\ Is("item")
  /\ LET next == advance_current_object(here, Innermost.level) IN
     IF Innermost.over THEN UNCHANGED << lists, path, top_type >>
     ELSE Go(next) /\ With([Innermost EXCEPT !.over = (next.top = NoType)])
  /\ UNCHANGED << object, text, max_index, diagnosed, lost, result >>

\* A list returns to the one around it, with the path at pos.
Leave(initializer, pos) ==
  IF Len(lists) = 1
  THEN /\ result' = initializer /\ Is("done") /\ lists' = << >> /\ Go(At(<< >>, NoType))
       /\ UNCHANGED << max_index, lost >>
  ELSE LET back == ascend_from_subtype(pos)
           around == lists[Len(lists) - 1]
       IN /\ lists' = Append(SubSeq(lists, 1, Len(lists) - 2), [around EXCEPT !.items = Append(@, initializer)])
          /\ Go(back) /\ Is("after") /\ CountIndex(back.path)
          /\ lost' = (lost \/ Len(back.path) # Innermost.depth)
          /\ UNCHANGED result

LeftAt == IF place = "first" THEN here ELSE ascend_to(here, Innermost.level + 1)

CloseList ==
  /\ place \in {"first", "after", "comma"}
  /\ text' = Append(text, "}") /\ Leave(List(Innermost.items), LeftAt)
  /\ UNCHANGED << object, diagnosed >>

CloseString ==
  /\ place = "string"
  /\ \E rest \in {<< >>, <<",">>} : Room(Len(rest)) /\ text' = text \o rest \o <<"}">>
  /\ Leave(String(Len(text)), here)
  /\ UNCHANGED << object, diagnosed >>

Next ==
  \/ StartList \/ StartScalar \/ StartExpression \/ Designation \/ OpenBraces \/ ScalarInBraces \/ ExtraBraces
  \/ StringInBraces \/ Expression \/ ExcessExpression \/ Comma \/ NextObject \/ CloseList \/ CloseString

Spec == Init /\ [][Next]_vars

-----------------------------------------------------------------------------
(***************************************************************************)
(* create_ir_initializer(): what each of the lists gives the objects, by   *)
(* the paths of these. made are the aggregates that have an initializer.   *)
(***************************************************************************)
NoValues == [q \in {} |-> << >>]
Within(p, q) == SubSeq(q, Len(p) + 1, Len(q))
Location(entries) == [k \in DOMAIN entries |-> entries[k].index]

\* set_initializer_compound_value(): a part and all that is in it, replaced.
Set(ir, p, part) ==
  [ ir EXCEPT
      !.values = part.values @@ Without(@, p),
      !.made = { q \in @ : ~ Under(p, q) } \cup part.made ]
MovedTo(p, part) ==
  [ values |-> [ q \in { p \o r : r \in DOMAIN part.values } |-> part.values[Within(p, q)] ],
    made |-> { p \o r : r \in part.made }, failed |-> part.failed ]

Enter(ir) ==
  IF IsScalar(ir.pos.top) THEN [ir EXCEPT !.failed = TRUE]
  ELSE [ir EXCEPT !.made = @ \cup { Location(ir.pos.path) }, !.pos = descend_into_subtype(@)]

is_string_type(type) ==
  type.kind = "pointer" \/ (type.kind = "array" /\ type.of[1].kind \in {"int", "char"})

RECURSIVE EnterFor(_, _)
EnterFor(ir, kind) ==
  IF ir.failed \/ (IF kind = "value" THEN IsScalar(ir.pos.top) ELSE is_string_type(ir.pos.top)) THEN ir
  ELSE EnterFor(Enter(ir), kind)

\* "revert previous initialisations of other union elements"
Revert(ir, p, q) ==
  IF q \in ir.made \cup DOMAIN ir.values THEN ir
  ELSE [Set(ir, p, [values |-> NoValues, made |-> {p}]) EXCEPT !.pos = ir.pos]

RECURSIVE WalkTo(_, _)
WalkTo(ir, d) ==
  LET type == Last(ir.pos.path).type
      p == Front(Location(ir.pos.path))
      kept == IF type.kind = "union" THEN Revert(ir, p, Append(p, Head(d))) ELSE ir
      at == [kept EXCEPT !.pos = MoveTo(@, Head(d), Part(type, Head(d)))]
  IN IF Len(d) = 1 THEN at ELSE WalkTo(Enter(at), Tail(d))

RECURSIVE create_ir_initializer(_, _)

\* One of the initializers of a list.
LowerItem(ir, item) ==
  IF ir.failed THEN ir
  ELSE IF item.kind = "designator"
  THEN WalkTo([ir EXCEPT !.pos = ascend_to(@, 1)], item.to)
  ELSE LET at == IF item.kind = "list" THEN ir ELSE EnterFor(ir, item.kind)
           part == create_ir_initializer(item, at.pos.top)
           set == Set(at, Location(at.pos.path), MovedTo(Location(at.pos.path), part))
       IN IF at.failed \/ part.failed \/ ir.pos.top = NoType THEN [ir EXCEPT !.failed = TRUE]
          ELSE [set EXCEPT !.pos = advance_current_object(@, 1)]

create_ir_initializer_list(items, type) ==
  FoldLeft(LowerItem, Enter([values |-> NoValues, made |-> {}, failed |-> FALSE, pos |-> At(<< >>, type)]), items)

create_ir_initializer(initializer, type) ==
  CASE initializer.kind = "value" ->
         [values |-> << >> :> << initializer.at, 0, initializer.to >>, made |-> {}, failed |-> FALSE]
    [] initializer.kind = "string" ->
         [values |-> [ p \in { << i >> : i \in 0 .. type.size - 1 } |->
                         IF p[1] < StringSize THEN << initializer.at, p[1], "char" >> ELSE << 0, 0, "char" >> ],
          made |-> {<< >>}, failed |-> ~ IsCharArray(type)]
    [] initializer.kind = "list" -> create_ir_initializer_list(initializer.items, type)

-----------------------------------------------------------------------------
\* The array size that an initializer determines.
Sized ==
  IF object.size # Unknown \/ result.kind = "value" THEN object
  ELSE [object EXCEPT !.size = IF result.kind = "list" THEN max_index + 1 ELSE StringSize]

Given(ir) == [ q \in { q \in DOMAIN ir.values : ir.values[q][1] # 0 } |-> << ir.values[q][1], ir.values[q][2] >> ]

\* "revert previous initialisations of other union elements": no two members
\* of a union have values.
Alternative(q, r) ==
  \E k \in 1 .. Len(q) :
    /\ SubType(object, SubSeq(q, 1, k - 1)).kind = "union"
    /\ Under(SubSeq(q, 1, k - 1), r) /\ r[k] # q[k]
OneMember(ir) == \A q, r \in DOMAIN ir.values : ~ Alternative(q, r)

\* An initializer that obeys the rules of C is accepted without a complaint,
\* gives every object the value it has by these rules, converted to the type
\* of that object, and an array its size. Two cases are left out: lists in
\* braces at the level of which the path was not (lost), and unions of which
\* the first member was initialized without its name after another one.
MeaningOK ==
  (place = "done" /\ ~ lost) =>
    LET meaning == Meaning(object, text)
        ir == create_ir_initializer(result, Sized)
    IN (meaning.legal /\ OneMember(ir)) =>
         /\ ~ diagnosed /\ ~ ir.failed
         /\ Given(ir) = meaning.values
         /\ \A q \in DOMAIN ir.values : ir.values[q][3] = SubType(object, q).kind
         /\ object.size = Unknown => Sized.size = 1 + Max({ q[1] : q \in DOMAIN meaning.values })

\* What is refused breaks the rules of C.
RefusedRightly == (place = "failed" /\ ~ lost) => ~ Meaning(object, text).legal
=============================================================================
