---------------------------- MODULE Declarators ----------------------------
(***************************************************************************)
(* The parser of declarations (parser.c): declaration specifiers,          *)
(* declarators and parameter lists.  A declarator is read from its middle  *)
(* outwards: its parts are collected in a list that says how to construct  *)
(* the type from that of the specifiers.  The stack holds the calls of the *)
(* parse functions; the text is chosen token by token.  What was declared  *)
(* is printed (type.c, ast.c), and what was printed is parsed again.       *)
(*                                                                         *)
(* Left out: attributes, typeof, definitions of structs and enums, C++,    *)
(* initializers, expressions as sizes other than a number, and the         *)
(* recovery after a syntax error, which ends the text.                     *)
(***************************************************************************)
EXTENDS TypePrinter

C99 == INSTANCE C99Declarators

CONSTANT Languages     \* how texts start, their tokens, length and place

VARIABLES
  stack,        \* the calls of parse functions
  mode,         \* what is to be read next
  token, la,    \* the current token, and look_ahead(1)
  text,         \* the tokens before
  visible,      \* the names of types that are visible
  declared,     \* what was declared
  worst,        \* the worst that was reported
  todo,         \* the tokens that were printed and are to be parsed
  original,     \* what was printed
  setting       \* the language of this run

vars == <<stack, mode, token, la, text, visible, declared, worst, todo,
          original, setting>>

End    == ";"           \* also stands for the ) after a type name
None   == << >>
Silent == 0
Warns == 1
Errs == 2
Worse(a, b) == IF a > b THEN a ELSE b
Level(cond, level) == IF cond THEN level ELSE Silent

StorageClasses == {"typedef", "extern", "static", "auto", "register"}
Qualifiers     == {"const", "volatile", "restrict"}
TypeSpecifiers == {"void", "char", "int", "short", "long", "signed",
                   "unsigned", "float", "double", "_Bool", "_Complex"}
Numbers        == {"0", "3"}
DECLARATION_START ==
  StorageClasses \cup {"__thread", "inline", "struct"} \cup Qualifiers
    \cup TypeSpecifiers

(***************************************************************************)
(* The calls.                                                              *)
(***************************************************************************)
NoSpecifiers == [storage |-> "none", thread |-> FALSE, inline |-> FALSE,
                 quals |-> {}, bits |-> {}, type |-> << >>, error |-> FALSE]
\* A declaration, a parameter or a type name, with the environment of its
\* declarator.
Context(c) == [c |-> c, specifiers |-> NoSpecifiers, symbol |-> "",
               must |-> c = "typename", parameters |-> << >>]
\* parse_inner_declarator
Inner == [c |-> "declarator", pointers |-> << >>, suffixes |-> << >>,
          inner |-> << >>]
\* parse_parameters
ParameterList(scoped) == [c |-> "parameters", scoped |-> scoped,
                          list |-> << >>, flags |-> {}]
\* parse_array_declarator
ArrayPart == [c |-> "array", static |-> FALSE, quals |-> {}]

Contexts == {"block", "file", "typename", "parameter"}
Top == stack[Len(stack)]
\* The innermost declaration, whose declarator is being parsed.
Here == CHOOSE i \in DOMAIN stack :
          /\ stack[i].c \in Contexts
          /\ \A k \in i + 1 .. Len(stack) : stack[k].c \notin Contexts
env == stack[Here]
SetTop(f) == [stack EXCEPT ![Len(stack)] = f]
Push(f)   == Append(stack, f)
May == env.c \in {"typename", "parameter"}

\* What a declaration or a type name can start with.
MayStart(c, tok) ==
  CASE c = "typename" -> tok \in {"struct"} \cup Qualifiers \cup TypeSpecifiers
                                   \cup DOMAIN Typedefs
    [] c = "block"    -> tok \in DECLARATION_START \cup DOMAIN Typedefs
    [] OTHER          -> tok \in DECLARATION_START \cup Names \cup {"*", "("}

\* The n-th token of a text: those of the prefix are fixed.
TokensAt(language, n) ==
  CASE n <= Len(language.prefix) -> {language.prefix[n]}
    [] n > language.length       -> {End}
    [] OTHER                     -> language.tokens \cup {End}

Init ==
  /\ setting \in Languages
  /\ token \in TokensAt(setting, 1) \ {End} /\ MayStart(setting.context, token)
  /\ la \in TokensAt(setting, 2)
  /\ stack = <<Context(setting.context)>> /\ mode = "specifiers"
  /\ visible = IF setting.context = "file" THEN {} ELSE DOMAIN Typedefs
  /\ text = << >> /\ declared = << >> /\ worst = Silent /\ todo = << >>
  /\ original = None

next_token ==
  /\ text' = Append(text, token) /\ token' = la
  /\ IF original = None
     THEN /\ la' \in IF la = End THEN {End}
                     ELSE TokensAt(setting, Len(text) + 3)
          /\ UNCHANGED todo
     ELSE /\ la' = IF todo = << >> THEN End ELSE Head(todo)
          /\ todo' = IF todo = << >> THEN todo ELSE Tail(todo)
Keep == UNCHANGED <<token, la, text, todo>>
Rest == UNCHANGED <<original, setting>>
Report(level) == worst' = Worse(worst, level)
Refuse == /\ mode' = "refused" /\ Report(Errs) /\ Keep
          /\ UNCHANGED <<stack, visible, declared>>

(***************************************************************************)
(* parse_declaration_specifiers                                            *)
(***************************************************************************)
AtSpecifiers == mode = "specifiers" /\ UNCHANGED <<mode, declared>> /\ Rest
S == Top.specifiers
SetS(s) == stack' = SetTop([Top EXCEPT !.specifiers = s])
NoTypeYet == S.type = << >> /\ S.bits = {}

WrongThread(s) == s.thread /\ s.storage \in {"auto", "register", "typedef"}

\* MATCH_STORAGE_CLASS: the last one counts.
ParseStorageClass ==
  /\ AtSpecifiers /\ token \in StorageClasses
  /\ LET s == [S EXCEPT !.storage = token]
     IN /\ SetS(s)
        /\ Report(Level(S.storage # "none" \/ WrongThread(s), Errs))
  /\ next_token /\ UNCHANGED visible

ParseThread ==
  /\ AtSpecifiers /\ token = "__thread"
  /\ LET s == [S EXCEPT !.thread = TRUE]
     IN SetS(s) /\ Report(Level(S.thread \/ WrongThread(s), Errs))
  /\ next_token /\ UNCHANGED visible

ParseQualifier ==
  /\ AtSpecifiers /\ token \in Qualifiers \cup {"inline"}
  /\ SetS(IF token = "inline" THEN [S EXCEPT !.inline = TRUE]
                              ELSE [S EXCEPT !.quals = @ \cup {token}])
  /\ next_token /\ UNCHANGED <<visible, worst>>

\* MATCH_SPECIFIER, and long, which may come twice
ParseTypeSpecifier ==
  /\ AtSpecifiers /\ token \in TypeSpecifiers
  /\ LET bit == IF token = "long" /\ "long" \in S.bits THEN "long long"
                                                       ELSE token
     IN /\ SetS([S EXCEPT !.bits = @ \cup {bit}])
        /\ Report(Level(bit \in S.bits, Errs))
  /\ next_token /\ UNCHANGED visible

\* struct s, which is not complete
ParseStruct ==
  /\ AtSpecifiers /\ token = "struct"
  /\ SetS([S EXCEPT !.type = <<Base("struct", {})>>])
  /\ Report(Level(S.type # << >>, Errs))
  /\ next_token /\ UNCHANGED visible

\* The next token looks as if the specifiers went on.
Goes(tok) == tok \in (DECLARATION_START \cup Identifiers \cup {"*"})

ParseTypedefName ==
  /\ AtSpecifiers /\ token \in visible /\ NoTypeYet
  /\ SetS([S EXCEPT !.type = <<Base(token, {})>>])
  /\ next_token /\ UNCHANGED <<visible, worst>>

\* "discarding stray ... in declaration specifier"
DiscardStray ==
  /\ AtSpecifiers /\ token \in Identifiers /\ ~NoTypeYet /\ Goes(la)
  /\ Report(Errs) /\ next_token /\ UNCHANGED <<stack, visible>>

\* "... does not name a type": from now on it does.
UnknownType ==
  /\ mode = "specifiers" /\ UNCHANGED declared /\ Rest
  /\ token \in Identifiers \ visible /\ NoTypeYet /\ Goes(la)
  /\ SetS([S EXCEPT !.type = <<Base(token, {})>>, !.error = TRUE])
  /\ visible' = visible \cup {token}
  /\ mode' = IF la = "*" THEN "specified" ELSE mode
  /\ Report(Errs) /\ next_token

\* The combinations of bits for an atomic type.
WithInt(bits)    == {bits, bits \cup {"int"}}
WithSigned(bits) == WithInt(bits) \cup WithInt(bits \cup {"signed"})
Combinations ==
  [ void |-> {{"void"}}, char |-> {{"char"}},
    schar |-> {{"signed", "char"}}, uchar |-> {{"unsigned", "char"}},
    short |-> WithSigned({"short"}), ushort |-> WithInt({"unsigned", "short"}),
    int |-> WithSigned({}) \ {{}}, uint |-> WithInt({"unsigned"}),
    long |-> WithSigned({"long"}), ulong |-> WithInt({"unsigned", "long"}),
    longlong |-> WithSigned({"long", "long long"}),
    ulonglong |-> WithInt({"unsigned", "long", "long long"}),
    float |-> {{"float"}}, double |-> {{"double"}},
    longdouble |-> {{"long", "double"}}, _Bool |-> {{"_Bool"}} ]
ComplexOf ==
  [ float |-> "complex float", double |-> "complex double",
    longdouble |-> "complex longdouble" ]

\* The kind of an atomic type, or none.
AtomicKind(bits) ==
  LET real  == bits \ {"_Complex"}
      kinds == { k \in DOMAIN Combinations : real \in Combinations[k] }
  IN IF "_Complex" \notin bits THEN kinds
     ELSE { ComplexOf[k] : k \in kinds \cap DOMAIN ComplexOf }

\* The type of the specifiers, and what is reported.
SpecifiedType(s) ==
  LET kinds == AtomicKind(s.bits)
  IN CASE s.type # << >> /\ (s.bits = {} \/ ~s.error) ->
            [t |-> <<Base(s.type[1][1], s.quals)>>,
             r |-> Level(s.bits # {}, Errs)]
       [] s.bits = {}  -> [t |-> <<Base("int", s.quals)>>, r |-> Warns]
       [] kinds # {}   -> [t |-> <<Base(CHOOSE k \in kinds : TRUE, s.quals)>>,
                           r |-> Silent]
       [] OTHER        -> [t |-> type_error_type, r |-> Errs]

SpecifierNext ==
  \/ token \in DECLARATION_START
  \/ token \in visible /\ NoTypeYet
  \/ token \in Identifiers /\ Goes(la)

FinishSpecifiers ==
  /\ mode = "specifiers" /\ ~SpecifierNext
  /\ mode' = "specified" /\ Keep /\ Rest
  /\ UNCHANGED <<stack, visible, declared, worst>>

(***************************************************************************)
(* parse_inner_declarator                                                  *)
(***************************************************************************)
\* The specifiers end.  A type name takes no storage class; a declaration may
\* end without a declarator.
StartDeclarator ==
  /\ mode = "specified"
  /\ LET type == SpecifiedType(S)
     IN /\ stack' = Append(SetTop([Top EXCEPT !.specifiers.type = type.t]),
                           Inner)
        /\ Report(Worse(type.r,
             Level(Top.c = "typename" /\ (S.storage # "none" \/ S.thread),
                   Errs)))
  /\ Top.c \in {"block", "file"} => token # ";"
  /\ mode' = "pointer" /\ Keep /\ Rest /\ UNCHANGED <<visible, declared>>

parse_anonymous_declaration_rest ==
  /\ mode = "specified" /\ Top.c \in {"block", "file"} /\ token = ";"
  /\ mode' = "finished"
  /\ LET type == SpecifiedType(S)
     IN Report(Worse(type.r, Level(S.storage # "none" \/ S.thread
                                     \/ type.t[1][1] # "struct", Warns)))
  /\ Keep /\ Rest /\ UNCHANGED <<stack, visible, declared>>

At(m) == mode = m /\ Rest /\ UNCHANGED <<visible, declared>>

\* parse_pointer_declarator, with the qualifiers that follow the *
ParsePointer ==
  /\ At("pointer")
  /\ \/ /\ token = "*"
        /\ stack' = SetTop([Top EXCEPT !.pointers = Append(@, Pointer({}))])
     \/ /\ token \in Qualifiers /\ Top.pointers # << >>
        /\ stack' = SetTop([Top EXCEPT !.pointers =
                              Append(Front(@), Pointer(Last(@)[2] \cup {token}))])
  /\ next_token /\ UNCHANGED <<mode, worst>>
AfterPointers ==
  At("pointer") /\ token # "*"
    /\ (token \in Qualifiers => Top.pointers = << >>)

\* The name; a type name has none.
ParseName ==
  /\ AfterPointers /\ token \in Identifiers
  /\ IF env.must
     THEN Report(Errs) /\ UNCHANGED stack
     ELSE /\ stack' = [stack EXCEPT ![Here].symbol = token]
          /\ UNCHANGED worst
  /\ mode' = "suffix" /\ next_token

\* Empty parentheses are a parameter list.
ParseParenthesis ==
  /\ AfterPointers /\ token = "(" /\ la # ")"
  /\ stack' = Push(Inner) /\ mode' = "pointer" /\ next_token
  /\ UNCHANGED worst

ParseNoName ==
  /\ AfterPointers
  /\ token \notin Identifiers /\ (token = "(" => la = ")")
  /\ IF May THEN mode' = "suffix" /\ Keep /\ UNCHANGED <<stack, worst>>
            ELSE mode' = "refused" /\ Report(Errs) /\ Keep /\ UNCHANGED stack

\* The parameters that a function declares: those next to its name.
Scoped == ~env.must

ParseFunctionPart ==
  /\ At("suffix") /\ token = "("
  /\ stack' = Push(ParameterList(Scoped)) /\ mode' = "parameters"
  /\ next_token /\ UNCHANGED worst

ParseArrayPart ==
  /\ At("suffix") /\ token = "["
  /\ stack' = Push(ArrayPart) /\ mode' = "array"
  /\ next_token /\ UNCHANGED worst

\* parse_array_declarator: static before or after the qualifiers
ParseArrayQualifier ==
  /\ At("array")
  /\ \/ /\ token = "static" /\ ~Top.static
        /\ stack' = SetTop([Top EXCEPT !.static = TRUE])
        /\ mode' = IF Top.quals = {} THEN mode ELSE "size"
     \/ /\ token \in Qualifiers
        /\ stack' = SetTop([Top EXCEPT !.quals = @ \cup {token}])
        /\ UNCHANGED mode
  /\ next_token /\ UNCHANGED worst

\* A part of a declarator is complete.
AddSuffix(part) ==
  stack' = [Front(stack) EXCEPT ![Len(stack) - 1].suffixes = Append(@, part)]

CloseArray(size) ==
  /\ AddSuffix(Array(Top.quals, Top.static, size))
  /\ mode' = "suffix"

ParseArraySize ==
  /\ \/ At("size")
     \/ /\ At("array")
        /\ ~(token = "static" /\ ~Top.static) /\ token \notin Qualifiers
  /\ CASE token = "]" ->
            /\ CloseArray("") /\ next_token
            /\ Report(Level(Top.static, Errs))
       [] token \in Numbers \cup {"*"} /\ la = "]" ->
            /\ mode' = "close array" /\ next_token
            /\ stack' = [stack EXCEPT ![Len(stack)] =
                           [size |-> token] @@ @]
            /\ Report(Level(token = "*" /\ Top.static, Errs))
       [] OTHER -> mode' = "refused" /\ Report(Errs) /\ Keep /\ UNCHANGED stack

ExpectBracket ==
  /\ At("close array") /\ CloseArray(Top.size)
  /\ next_token /\ UNCHANGED worst

\* Mutant: the suffixes are appended, not inserted after the pointers.
ConstructList_Appended(f) == f.pointers \o f.suffixes \o f.inner

\* Every suffix is inserted after the pointers; the inner types come last.
ConstructList(f) == f.pointers \o Reverse(f.suffixes) \o f.inner

DeclaratorFinished == mode = "suffix" /\ token \notin {"(", "["}

\* Mutant: what follows an inner declarator is not known to be abstract.
BecomesAbstract_Never(list) == FALSE

\* "All later declarators only modify the return type"
BecomesAbstract(list) == list # << >>

ReturnInner ==
  /\ DeclaratorFinished /\ At("suffix") /\ stack[Len(stack) - 1].c = "declarator"
  /\ IF token = ")"
     THEN LET list  == ConstructList(Top)
              outer == [Front(stack) EXCEPT ![Len(stack) - 1].inner = list]
          IN /\ stack' = [outer EXCEPT ![Here].must =
                            @ \/ BecomesAbstract(list)]
             /\ next_token /\ UNCHANGED <<mode, worst>>
     ELSE mode' = "refused" /\ Report(Errs) /\ Keep /\ UNCHANGED stack

(***************************************************************************)
(* parse_parameters                                                        *)
(***************************************************************************)
VoidName(tok) ==
  \/ tok = "void"
  \/ tok \in visible /\ skip_typeref(<<Base(tok, {})>>) = <<Base("void", {})>>

StartsIdentifiers ==
  token \in Identifiers \ visible /\ la \in {",", ")"}

\* An identifier list, nothing, (void), or parameters
StartParameters ==
  /\ At("parameters")
  /\ CASE StartsIdentifiers ->
            /\ stack' = SetTop([Top EXCEPT !.flags = {"kr"}])
            /\ mode' = "identifiers" /\ Keep
       [] token = ")" ->
            /\ stack' = SetTop([Top EXCEPT !.flags = {"unspecified"}])
            /\ mode' = "close" /\ Keep
       [] VoidName(token) /\ la = ")" ->
            mode' = "close" /\ next_token /\ UNCHANGED stack
       [] OTHER -> mode' = "parameter" /\ Keep /\ UNCHANGED stack
  /\ UNCHANGED worst

\* parse_identifier_list; the parameters have no type yet.
ParseIdentifier ==
  /\ At("identifiers")
  /\ IF token \in Identifiers
     THEN /\ stack' = SetTop([Top EXCEPT !.list =
                                Append(@, [name |-> token, type |-> << >>])])
          /\ mode' = IF la = "," THEN mode ELSE "close"
     ELSE /\ mode' = IF token = "," /\ la \in Identifiers THEN mode ELSE "close"
          /\ UNCHANGED stack
  /\ next_token /\ UNCHANGED worst

ParseParameter ==
  /\ At("parameter")
  /\ CASE token = "..." ->
            /\ stack' = SetTop([Top EXCEPT !.flags = {"variadic"}])
            /\ mode' = "close" /\ next_token
       [] token \in Identifiers \cup DECLARATION_START ->
            /\ stack' = Push(Context("parameter"))
            /\ mode' = "specifiers" /\ Keep
       [] OTHER -> mode' = "close" /\ Keep /\ UNCHANGED stack
  /\ UNCHANGED worst

Types(list) == [ i \in DOMAIN list |-> list[i].type ]

\* The type of the function is complete but for what it returns.
CloseParameters ==
  /\ At("close")
  /\ IF token = ")"
     THEN LET types == IF Top.flags = {"kr"} THEN << >> ELSE Types(Top.list)
              outer == [Front(stack) EXCEPT ![Len(stack) - 1].suffixes =
                          Append(@, Function(types, Top.flags))]
          IN /\ stack' = IF ~Top.scoped THEN outer
                         ELSE [outer EXCEPT ![Here].parameters = @ \o Top.list]
             /\ mode' = "suffix" /\ next_token /\ UNCHANGED worst
     ELSE mode' = "refused" /\ Report(Errs) /\ Keep /\ UNCHANGED stack

(***************************************************************************)
(* The type of the declarator and what it declares.                        *)
(***************************************************************************)
\* One step of construct_declarator_type.
Construct(part, done) ==
  LET t     == done.t
      level ==
        CASE part[1] = "func" ->
               IF is_type_function(t) \/ is_type_array(t) THEN Errs
               ELSE Level(skip_typeref(t)[1][2] # {}, Warns)
          [] part[1] = "array" ->
               Worse(Level(part[4] = "0", Warns),
                     Level(is_type_incomplete(t) \/ is_type_function(t), Errs))
          [] OTHER -> Silent
  IN [t |-> <<part>> \o t, r |-> Worse(done.r, level)]
construct_declarator_type(list, type) ==
  FoldLeft(LAMBDA done, part : Construct(part, done),
           [t |-> type, r |-> Silent], list)

\* The entity that parse_declarator creates.
Declared(ctx, type) ==
  LET s == ctx.specifiers
  IN [name |-> ctx.symbol, type |-> type, storage |-> s.storage,
      thread |-> s.thread, inline |-> s.inline,
      parameters |-> IF s.storage # "typedef" /\ is_type_function(type)
                     THEN ctx.parameters ELSE << >>,
      kind |-> CASE s.storage = "typedef"   -> "typedef"
                 [] is_type_function(type) -> "function"
                 [] OTHER                  -> "variable"]

\* Mutant: what holds for variables of the file holds for those of blocks.
WrongStorage_File(d, inBlock) ==
  CASE d.kind = "typedef"  -> FALSE
    [] d.kind = "function" ->
         \/ d.thread
         \/ d.storage \notin {"extern", "none"} \cup
                             (IF inBlock THEN {} ELSE {"static"})
    [] OTHER -> d.storage \notin {"extern", "none", "static"}

\* "invalid storage class", "declared inline"
WrongStorage(d, inBlock) ==
  CASE d.kind = "typedef"  -> FALSE
    [] d.kind = "function" ->
         \/ d.thread
         \/ d.storage \notin {"extern", "none"} \cup
                             (IF inBlock THEN {} ELSE {"static"})
    [] OTHER -> IF inBlock THEN d.thread /\ d.storage = "none"
                ELSE d.storage \notin {"extern", "none", "static"}
WrongInline(d) == d.kind = "variable" /\ d.inline /\ is_type_valid(d.type)

\* check_variable_type_complete
Incomplete(d, inBlock) ==
  /\ d.kind = "variable" /\ d.storage \notin {"extern", "static"}
  /\ is_type_incomplete(d.type)
  /\ is_type_array(d.type) => inBlock

EndsDeclarator(c) == DeclaratorFinished /\ stack[Len(stack) - 1].c \in c
\* The type, and the declaration that it completes.
Constructed == construct_declarator_type(ConstructList(Top),
                                         env.specifiers.type)

\* The next declarator starts with the same specifiers.
DeclareName ==
  /\ EndsDeclarator({"block", "file"}) /\ Rest
  /\ LET done    == Constructed
         d       == Declared(env, done.t)
         inBlock == env.c = "block"
         wrong   == d.name # "" /\ (WrongStorage(d, inBlock) \/ WrongInline(d))
     IN /\ Report(Worse(done.r, Level(wrong \/ Incomplete(d, inBlock), Errs)))
        /\ declared' = Append(declared, d)
        /\ visible' = IF d.kind = "typedef" THEN visible \cup {d.name}
                                            ELSE visible \ {d.name}
  /\ CASE token = "," ->
            /\ stack' = <<[env EXCEPT !.symbol = "", !.must = FALSE,
                                      !.parameters = << >>], Inner>>
            /\ mode' = "pointer" /\ next_token
       [] token = ";" -> mode' = "finished" /\ Keep /\ UNCHANGED stack
       [] OTHER ->
            /\ mode' = IF env.c = "file" /\ declared = << >> THEN "definition"
                                                            ELSE "refused"
            /\ Keep /\ UNCHANGED stack

\* parse_typename
NameType ==
  /\ EndsDeclarator({"typename"}) /\ Rest
  /\ LET done == Constructed
     IN /\ Report(Worse(done.r, Level(token # End, Errs)))
        /\ declared' = <<Declared(env, done.t)>>
  /\ mode' = IF token = End THEN "finished" ELSE "refused"
  /\ Keep /\ UNCHANGED <<stack, visible>>

\* semantic_parameter, and semantic_parameter_incomplete.  A typedef is not
\* appended.
DeclareParameter ==
  /\ EndsDeclarator({"parameter"}) /\ At("suffix")
  /\ LET done == Constructed
         s    == env.specifiers
         type == automatic_type_conversion(done.t)
         wrong == \/ s.storage \notin {"none", "register"} \/ s.thread
                  \/ s.inline \/ is_type_incomplete(type)
         list == SubSeq(stack, 1, Here - 1)
     IN /\ Report(Worse(done.r, Level(wrong, Errs)))
        /\ stack' = IF s.storage = "typedef" THEN list
                    ELSE [list EXCEPT ![Len(list)].list =
                            Append(@, [name |-> env.symbol, type |-> type])]
  /\ IF token = "," THEN mode' = "parameter" /\ next_token
                    ELSE mode' = "close" /\ Keep

(***************************************************************************)
(* What was declared is printed, and read again.                           *)
(***************************************************************************)
PrintAst ==
  /\ mode = "finished" /\ original = None /\ worst < Errs
  /\ \E i \in DOMAIN declared :
       LET d == declared[i]
           printed == (IF setting.context = "typename" THEN print_type(d.type)
                       ELSE print_declaration(d)) \o <<End, End>>
       IN /\ original' = <<d>>
          /\ token' = printed[1] /\ la' = printed[2]
          /\ todo' = SubSeq(printed, 3, Len(printed))
  /\ stack' = <<Context(setting.context)>> /\ mode' = "specifiers"
  /\ visible' = IF setting.context = "file" THEN {} ELSE DOMAIN Typedefs
  /\ text' = << >> /\ declared' = << >> /\ worst' = Silent
  /\ UNCHANGED setting

Next ==
  \/ ParseStorageClass \/ ParseThread \/ ParseQualifier \/ ParseTypeSpecifier
  \/ ParseStruct \/ ParseTypedefName \/ DiscardStray \/ UnknownType
  \/ FinishSpecifiers \/ StartDeclarator \/ parse_anonymous_declaration_rest
  \/ ParsePointer \/ ParseName \/ ParseParenthesis \/ ParseNoName
  \/ ParseFunctionPart \/ ParseArrayPart \/ ParseArrayQualifier
  \/ ParseArraySize \/ ExpectBracket \/ ReturnInner
  \/ StartParameters \/ ParseIdentifier \/ ParseParameter \/ CloseParameters
  \/ DeclareName \/ NameType \/ DeclareParameter
  \/ PrintAst

Spec == Init /\ [][Next]_vars

(***************************************************************************)
(* Properties                                                              *)
(***************************************************************************)

FirstPass  == original = None
Finished   == FirstPass /\ mode = "finished"
ReadingsOf(s) == IF setting.context = "typename" THEN C99!TypeName(s)
                 ELSE C99!Declaration(s, setting.context = "block")

\* A name of a type that is declared anew hides it for the declarators that
\* follow; LexicalScoping is about that.
Hides == \E n \in DOMAIN declared :
           n < Len(declared) /\ declared[n].name \in DOMAIN Typedefs

\* Where a function type without a name starts, its parameter list is taken for
\* a declarator in parentheses.
AbstractFunction(s) ==
  \E k \in 1 .. Len(s) - 1 :
    /\ s[k] = "(" /\ (k = 1 \/ s[k - 1] \notin Names \cup C99!Closes)
    /\ C99!StartsParameters(s, k + 1)

\* What is accepted without a warning is a declaration of C, and every name is
\* declared with the type and the storage class that the standard gives it: the
\* constructors closest to the name come first.  (What the parser does not
\* insist on: the sizes and qualifiers of arrays, a comma at the end of a
\* parameter list, a parameter before an ellipsis, that only definitions have
\* identifier lists, that a static object is complete.)
DeclaredAsC99 ==
  Finished /\ worst = Silent /\ ~Hides /\ ~AbstractFunction(text) =>
    LET readings == ReadingsOf(text)
    IN declared # << >> =>
       /\ Len(readings) = Len(declared)
       /\ \A n \in DOMAIN declared :
         \E r \in readings[n] :
           /\ r.name = declared[n].name /\ r.type = declared[n].type
           /\ r.storage = declared[n].storage

\* The text, and where it was refused the shortest ways to complete it.
Texts ==
  IF mode = "finished" THEN {text}
  ELSE LET seen == text \o SelectSeq(<<token, la>>, LAMBDA tok : tok # End)
       IN {seen} \cup (IF la = End THEN {}
                       ELSE { Append(seen, tok) : tok \in setting.tokens })

\* An error is only reported if the text is no declaration of C.  Three kinds
\* of text are excepted that are legal C and are refused all the same: function
\* types without a name (AbstractFunction); in a declarator that defines
\* nothing, a parameter of incomplete type, "int x(struct s);" ("incomplete
\* parameter"); and in a prototype an array of arrays of unspecified size,
\* "int x(int [][*]);" ("unspecified elements").  All other marks in lax name
\* rules of C.
ErrorsAreDue ==
  FirstPass /\ mode \in {"finished", "refused"} /\ worst = Errs /\ ~Hides =>
    \A s \in Texts :
      \/ s = << >> \/ AbstractFunction(s)
      \/ \E readings \in {ReadingsOf(s)} :
           \E n \in DOMAIN readings : \A r \in readings[n] : r.lax # {}

\* The parameters in the scope of a function are those of its type, not those
\* of a function that is only part of another type.
ParametersOfFunction ==
  FirstPass /\ worst < Errs =>
    \A n \in DOMAIN declared :
      LET d == declared[n]
      IN d.kind = "function" /\ d.type[1][1] = "func"
           /\ "kr" \notin d.type[1][4] =>
           Types(d.parameters) = d.type[1][3]

\* What is not printed as it was read: complex types, the arrays whose size is
\* given as *, and the identifier lists of types.
RECURSIVE Unprintable(_, _)
Unprintable(t, first) ==
  \E k \in DOMAIN t :
    \/ t[k][1] \in { ComplexOf[c] : c \in DOMAIN ComplexOf }
    \/ t[k][1] = "array" /\ t[k][4] = "*"
    \/ /\ t[k][1] = "func"
       /\ \/ "kr" \in t[k][4] /\ k >= first
          \/ \E i \in DOMAIN t[k][3] : Unprintable(t[k][3][i], 1)

SecondPass == original # None
SameAsPrinted ==
  /\ mode \notin {"refused", "definition"} /\ worst < Errs
  /\ mode = "finished" =>
       /\ declared # << >>
       /\ declared[1].type = original[1].type
       /\ setting.context # "typename" =>
            declared[1] = [original[1] EXCEPT !.inline =
                             @ /\ original[1].kind = "function"]

\* --print-ast writes C: what it prints for a declaration is read as that
\* declaration, with its parentheses where they are needed.
PrintedBack ==
  SecondPass =>
    \/ SameAsPrinted
    \/ Unprintable(original[1].type,
                   IF original[1].parameters = << >> THEN 1 ELSE 2)

====
