--------------------------- MODULE DeclaredTypes ---------------------------
(***************************************************************************)
(* The types that declarations construct (type.c), with their typedefs.  A *)
(* type is a sequence of layers from the outside in; the second component  *)
(* of a layer is its set of qualifiers.                                    *)
(*    <<Pointer({"const"}), Array({}, FALSE, "3"), Base("int", {})>>       *)
(* is a constant pointer to an array of three int.                         *)
(***************************************************************************)
EXTENDS Integers, SequencesExt

CONSTANTS Typedefs,     \* the types of the names of types
          Names         \* names of no type

Identifiers == DOMAIN Typedefs \cup Names

Base(name, q)          == <<name, q>>
Pointer(q)             == <<"ptr", q>>
Array(q, static, size) == <<"array", q, static, size>>
Function(params, flags) == <<"func", {}, params, flags>>

type_error_type == <<Base("error", {})>>

Qualified(t, q) == <<[t[1] EXCEPT ![2] = @ \cup q]>> \o Tail(t)

RECURSIVE skip_typeref(_)

\* The elements of an array take the qualifiers of the typedef, but those of
\* the elements of its elements do not.
HandDown(real, q) ==
  IF real[1][1] = "array" THEN <<real[1]>> \o Qualified(Tail(real), q)
                          ELSE Qualified(real, q)

\* The type behind its names.
skip_typeref(t) ==
  CASE t[1][1] \in DOMAIN Typedefs ->
         HandDown(skip_typeref(Typedefs[t[1][1]]), t[1][2])
    [] t[1][1] \in Names -> type_error_type
    [] OTHER -> t

Kind(t) == skip_typeref(t)[1][1]

is_type_valid(t)    == Kind(t) # "error"
is_type_function(t) == Kind(t) = "func"
is_type_array(t)    == Kind(t) = "array"

\* Also the arrays whose size is given as *.
is_type_incomplete(t) ==
  \/ Kind(t) \in {"void", "struct"}
  \/ is_type_array(t) /\ skip_typeref(t)[1][4] \in {"", "*"}

\* The conversions of arrays and functions.
automatic_type_conversion(t) ==
  LET real == skip_typeref(t)
  IN CASE is_type_array(t)    -> <<Pointer(real[1][2])>> \o Tail(real)
       [] is_type_function(t) -> <<Pointer({})>> \o t
       [] OTHER               -> t
=============================================================================
