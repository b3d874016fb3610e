--------------------------- MODULE C99Declarators ---------------------------
(***************************************************************************)
(* What the grammar and the constraints of C99 (6.7) say about a text: the *)
(* set of the ways to read it, from the outside in.  A reading is          *)
(*    [name, type, storage, kind, lax]                                     *)
(* where lax names the rules of the standard that were not insisted on.    *)
(***************************************************************************)
EXTENDS DeclaredTypes, FiniteSetsExt

StorageWords   == {"typedef", "extern", "static", "auto", "register"}
QualifierWords == {"const", "volatile", "restrict"}
KeyTypes       == {"void", "char", "int", "short", "long", "signed",
                   "unsigned", "float", "double", "_Bool", "_Complex", "struct"}
Words == StorageWords \cup QualifierWords \cup KeyTypes
           \cup {"inline", "__thread"}
IsTypedef(w) == w \in DOMAIN Typedefs

\* Where the specifiers that start at i end: a name is one if no other type
\* has been given.
SpecifiersEnd(s, i) ==
  LET IsSpecifier(k) ==
        \/ s[k] \in Words
        \/ IsTypedef(s[k])
             /\ \A m \in i .. k - 1 : s[m] \notin KeyTypes \cup DOMAIN Typedefs
  IN Min({ k \in i .. Len(s) + 1 : k > Len(s) \/ ~IsSpecifier(k) })

\* 6.7.2:2, the lists of type specifiers: the kinds of type they give.
KindsOf(words) ==
  LET n(w)   == Cardinality({ k \in DOMAIN words : words[k] = w })
      types  == { k \in DOMAIN words :
                    words[k] \in KeyTypes \cup DOMAIN Typedefs }
      total  == Cardinality(types)
      the    == words[CHOOSE k \in types : TRUE]
      sign   == n("signed") + n("unsigned")
      prefix == IF n("unsigned") = 1 THEN "u" ELSE ""
      size   == CASE n("short") = 1 /\ n("long") = 0 -> "short"
                  [] n("short") = 0 /\ n("long") = 1 -> "long"
                  [] n("short") = 0 /\ n("long") = 2 -> "longlong"
                  [] OTHER                           -> "int"
      real   == total - n("_Complex")
      isComplex == n("_Complex") = 1
  IN CASE sign > 1 \/ n("int") > 1 \/ n("_Complex") > 1 -> {}
       [] n("_Complex") = 0 /\ total = 1
            /\ the \in {"void", "char", "float", "double", "_Bool", "struct"}
                         \cup DOMAIN Typedefs -> {the}
       [] isComplex /\ real = 1 /\ n("float") = 1  -> {"complex float"}
       [] isComplex /\ real = 1 /\ n("double") = 1 -> {"complex double"}
       [] isComplex /\ real = 2 /\ n("double") = 1 /\ n("long") = 1 ->
            {"complex longdouble"}
       [] n("_Complex") = 0 /\ total = 2 /\ n("double") = 1 /\ n("long") = 1 ->
            {"longdouble"}
       [] total = 2 /\ n("char") = 1 /\ sign = 1 ->
            {IF n("signed") = 1 THEN "schar" ELSE "uchar"}
       [] total > 0 /\ total = sign + n("int") + n("short") + n("long")
            /\ n("short") <= 1 /\ n("long") <= 2 /\ n("short") * n("long") = 0 ->
            {IF n("unsigned") = 1 THEN "u" \o size ELSE size}
       [] OTHER -> {}

\* The specifiers from i to j - 1: at most one storage class (6.7.1:2), and a
\* type.  (__thread is an extension.)
Specifiers(s, i, j) ==
  LET words == SubSeq(s, i, j - 1)
      quals == ToSet(words) \cap QualifierWords
      storage == { k \in DOMAIN words : words[k] \in StorageWords }
      threads == { k \in DOMAIN words : words[k] = "__thread" }
  IN IF Cardinality(storage) > 1 \/ Cardinality(threads) > 1 THEN {}
     ELSE { [type    |-> <<Base(kind, quals)>>,
             storage |-> IF storage = {} THEN "none"
                         ELSE words[CHOOSE k \in storage : TRUE],
             thread  |-> threads # {}, inline |-> "inline" \in ToSet(words)] :
              kind \in KindsOf(words) }

Opens  == {"(", "["}
Closes == {")", "]"}
Balance(s, i, j) ==
  Cardinality({ k \in i .. j : s[k] \in Opens })
    - Cardinality({ k \in i .. j : s[k] \in Closes })

\* The bracket that the one at j closes, or 0.
Match(s, i, j) ==
  LET c == { k \in i .. j : s[k] \in Opens /\ Balance(s, k, j) = 0 }
  IN IF c = {} \/ <<s[Max(c)], s[j]>> \notin {<<"(", ")">>, <<"[", "]">>}
     THEN 0 ELSE Max(c)

\* 6.7.2.3, 6.2.5:22: incomplete types; an array of unknown size is one, but
\* not if its size is given as *.
RECURSIVE Resolved(_)
\* 6.7.3:8: the elements of an array take its qualifiers.
RECURSIVE ToElements(_, _)
ToElements(t, q) ==
  IF t[1][1] = "array" THEN <<t[1]>> \o ToElements(Tail(t), q)
                       ELSE Qualified(t, q)
Resolved(t) ==
  IF IsTypedef(t[1][1]) THEN ToElements(Resolved(Typedefs[t[1][1]]), t[1][2])
                        ELSE t
Class(t) == Resolved(t)[1][1]
IsIncomplete(t) ==
  \/ Class(t) \in {"void", "struct"}
  \/ Class(t) = "array" /\ Resolved(t)[1][4] = ""

\* 6.7.5.3:7 and :8
Adjusted(t) ==
  CASE Class(t) = "array" -> <<Pointer(Resolved(t)[1][2])>> \o Tail(Resolved(t))
    [] Class(t) = "func"  -> <<Pointer({})>> \o t
    [] OTHER              -> t

Reading(name, type, lax) == [name |-> name, type |-> type, lax |-> lax]
Laxer(readings, lax) == { [r EXCEPT !.lax = @ \cup lax] : r \in readings }

\* 6.7.5.2: what is written in brackets
Brackets(s, a, b) ==
  LET words == SubSeq(s, a, b)
      size  == IF words # << >> /\ Last(words) \in {"0", "3", "*"}
               THEN Last(words) ELSE ""
      rest  == IF size = "" THEN words ELSE Front(words)
      quals == ToSet(rest) \cap QualifierWords
      statics == { k \in DOMAIN rest : rest[k] = "static" }
      static == statics # {}
  IN IF \/ ToSet(rest) \ (QualifierWords \cup {"static"}) # {}
        \/ Cardinality(statics) > 1
        \/ static /\ size \in {"", "*"}
        \* static comes first or last
        \/ \E k \in statics : k \notin {1, Len(rest)}
     THEN {}
     ELSE { Array(quals, static, size) }

RECURSIVE Declarator(_, _, _, _, _), Direct(_, _, _, _, _), ParameterLists(_, _, _)

\* What s[i..j] declares, if the specifiers give the type t.  "abstract" is a
\* declarator without a name, "named" one with a name, "either" both.
Declarator(s, i, j, t, abs) ==
  IF i <= j /\ s[i] = "*"
  THEN LET e == Min({ k \in i + 1 .. j + 1 :
                        k = j + 1 \/ s[k] \notin QualifierWords })
       IN Declarator(s, e, j,
                     <<Pointer(ToSet(SubSeq(s, i + 1, e - 1)))>> \o t, abs)
  ELSE Direct(s, i, j, t, abs)

\* 6.7.5.3:11: a name of a type in parentheses, where a parameter may be meant,
\* is one.
StartsParameters(s, i) == s[i] \in Words \/ IsTypedef(s[i])

Direct(s, i, j, t, abs) ==
  LET k == IF j >= i /\ s[j] \in Closes THEN Match(s, i, j) ELSE 0
      nothing == IF i > j /\ abs # "named" THEN {Reading("", t, {})} ELSE {}
      name == IF i = j /\ s[i] \in Identifiers /\ abs # "abstract"
              THEN {Reading(s[i], t, {})} ELSE {}
      inner == IF /\ k = i /\ s[j] = ")" /\ i + 1 < j
                  /\ abs # "named" => ~StartsParameters(s, i + 1)
               THEN Declarator(s, i + 1, j - 1, t, abs) ELSE {}
      array == IF k = 0 \/ s[j] = ")" \/ IsIncomplete(t) \/ Class(t) = "func"
               THEN {}
               ELSE UNION { Laxer(Direct(s, i, k - 1, <<b>> \o t, abs),
                                  IF Class(t) = "array"
                                     /\ Resolved(t)[1][4] = "*"
                                  THEN {"unspecified elements"} ELSE {}) :
                              b \in Brackets(s, k + 1, j - 1) }
      function == IF k = 0 \/ s[j] = "]" \/ Class(t) \in {"func", "array"}
                  THEN {}
                  ELSE UNION { Laxer(Direct(s, i, k - 1,
                                   <<Function(p.types, p.flags)>> \o t, abs),
                                     p.lax) :
                                 p \in ParameterLists(s, k + 1, j - 1) }
  IN nothing \cup name \cup inner \cup array \cup function

\* static and qualifiers are for the outermost array of a parameter (6.7.5.2:1),
\* and 0 is no size.
LaxArrays(t, parameter) ==
  IF \E k \in DOMAIN t :
        /\ t[k][1] = "array" /\ (t[k][2] # {} \/ t[k][3])
        /\ k > 1 \/ ~parameter
  THEN {"qualified array"} ELSE {}
LaxSizes(t, parameter) ==
  (IF \E k \in DOMAIN t : t[k][1] = "array" /\ t[k][4] = "0"
   THEN {"size 0"} ELSE {})
    \cup (IF ~parameter /\ \E k \in DOMAIN t : t[k][1] = "array" /\ t[k][4] = "*"
          THEN {"unspecified size"} ELSE {})

\* The readings of s[i..j] as a parameter (6.7.5.3).
Parameter(s, i, j) ==
  LET e == Min({SpecifiersEnd(s, i), j + 1})
  IN UNION
       { { [type |-> Adjusted(r.type), name |-> r.name,
            lax |-> r.lax \cup LaxArrays(r.type, TRUE)
                          \cup LaxSizes(r.type, TRUE)
                          \cup (IF IsIncomplete(Adjusted(r.type))
                                THEN {"incomplete parameter"} ELSE {})] :
             r \in Declarator(s, e, j, spec.type, "either") } :
         spec \in { x \in Specifiers(s, i, e) :
                      /\ x.storage \in {"none", "register"}
                      /\ ~x.thread /\ ~x.inline } }

List(types, flags, lax) == [types |-> types, flags |-> flags, lax |-> lax]
RECURSIVE ParameterSeqs(_, _, _)
ParameterSeqs(s, i, j) ==
  LET commas == { k \in i .. j : s[k] = "," /\ Balance(s, i, k) = 0 }
      e == IF commas = {} THEN j + 1 ELSE Min(commas)
      first == Parameter(s, i, e - 1)
      rest  == CASE e > j -> { List(<< >>, {}, {}) }
                 [] e = j -> { List(<< >>, {}, {"trailing comma"}) }
                 [] e + 1 = j /\ s[j] = "..." -> { List(<< >>, {"variadic"}, {}) }
                 [] OTHER -> ParameterSeqs(s, e + 1, j)
  IN { List(<<p.type>> \o l.types, l.flags, p.lax \cup l.lax) :
         p \in first, l \in rest }

ParameterLists(s, i, j) ==
  CASE i > j -> { List(<< >>, {"unspecified"}, {}) }
    [] i = j /\ Resolved(<<Base(s[i], {})>>) = <<Base("void", {})>> ->
         { List(<< >>, {}, {}) }
    [] i = j /\ s[i] = "..." -> { List(<< >>, {"variadic"}, {"only ellipsis"}) }
    [] s[i] \in Names ->
         IF \A k \in i .. j : IF (k - i) % 2 = 0 THEN s[k] \in Identifiers
                                                 ELSE s[k] = ","
         THEN { List(<< >>, {"kr"}, {"identifier list"}) }
         ELSE {}
    [] OTHER -> ParameterSeqs(s, i, j)

\* 6.7.4:1: inline is for declarations of functions.
LaxInline(spec, type) ==
  IF spec.inline /\ (Class(type) # "func" \/ spec.storage = "typedef")
  THEN {"inline"} ELSE {}

\* 6.7.1 and 6.9: the storage classes of a declaration.
StorageOK(spec, type, inBlock) ==
  LET function == Class(type) = "func"
  IN /\ ~inBlock => spec.storage \notin {"auto", "register"}
     /\ inBlock /\ function => spec.storage \in {"none", "extern", "typedef"}
     /\ function => spec.storage \notin {"auto", "register"}
     /\ spec.thread => ~function /\
          spec.storage \in (IF inBlock THEN {} ELSE {"none"})
                             \cup {"extern", "static"}

\* 6.7:7 and 6.9.2:3: an object is complete, unless it is defined elsewhere or
\* later.
CompleteOK(spec, type, inBlock) ==
  \/ spec.storage \in {"typedef", "extern"} \/ Class(type) = "func"
  \/ ~IsIncomplete(type)
  \/ ~inBlock /\ Class(type) = "array"

\* The readings of the declarator s[i..j] after the specifiers s[1..e-1].
Declares(s, e, i, j, inBlock) ==
  UNION { { [name |-> r.name, type |-> r.type, storage |-> spec.storage,
             lax |-> r.lax \cup LaxArrays(r.type, FALSE)
                           \cup LaxSizes(r.type, FALSE)
                           \cup LaxInline(spec, r.type)
                           \cup IF CompleteOK(spec, r.type, inBlock) THEN {}
                                ELSE {"incomplete"}] :
              r \in { x \in Declarator(s, i, j, spec.type, "named") :
                        StorageOK(spec, x.type, inBlock) } } :
          spec \in Specifiers(s, 1, e) }

\* The declarators of a declaration are separated by commas: their ends.
DeclaratorEnds(s, e) ==
  SetToSortSeq({ k \in e .. Len(s) : s[k] = "," /\ Balance(s, e, k) = 0 }
                 \cup {Len(s) + 1}, <)

\* The readings of each of the declarators of a declaration without its ; .
Declaration(s, inBlock) ==
  LET e    == SpecifiersEnd(s, 1)
      ends == DeclaratorEnds(s, e)
  IN [ n \in DOMAIN ends |->
         Declares(s, e, IF n = 1 THEN e ELSE ends[n - 1] + 1, ends[n] - 1,
                  inBlock) ]

\* The readings of a type name (6.7.6).
TypeName(s) ==
  LET e == SpecifiersEnd(s, 1)
  IN << UNION { { [name |-> "", type |-> r.type, storage |-> "none",
                   lax |-> r.lax \cup LaxArrays(r.type, FALSE)
                                 \cup LaxSizes(r.type, FALSE)
                                 \cup LaxInline([spec EXCEPT !.storage =
                                                  "typedef"], r.type)] :
                    r \in Declarator(s, e, Len(s), spec.type, "abstract") } :
                spec \in { x \in Specifiers(s, 1, e) :
                             x.storage = "none" /\ ~x.thread } } >>
=============================================================================
