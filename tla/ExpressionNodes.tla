-------------------------- MODULE ExpressionNodes --------------------------
(***************************************************************************)
(* The nodes of the syntax tree of an expression (ast_t.h), and what is    *)
(* known of a node without its operands.  A token is a sequence of words:  *)
(* <<"+">>, the name <<"x">>, and <<"cast", ...>> for a type in            *)
(* parentheses.                                                            *)
(***************************************************************************)
EXTENDS Integers, Sequences, SequencesExt

CONSTANTS Members,      \* the members of the struct, with their types
          Types         \* the declared type of every name
ASSUME ConstNames == DOMAIN Members \cap DOMAIN Types = {}

-----------------------------------------------------------------------------
(***************************************************************************)
(* The types of C as type.c keeps them, hash-consed: two types are the     *)
(* same object iff they are the same value here.  A type is a sequence of  *)
(* words read from the outside in:                                         *)
(*    <<"ptr", "const", "char">>   a pointer to constant characters,       *)
(*    <<"array", "int">>           an array of int,                        *)
(*    <<"func", "int">>            a function that returns int.            *)
(* "const" stands for every qualifier, typedefs are resolved, there is     *)
(* one struct type and one enum type, and no bit-fields.                   *)
(***************************************************************************)
\* The kinds of atomic types in the order of their declaration, which is the
\* order of their ranks.
AtomicKinds ==
  <<"void", "wchar_t", "char", "schar", "uchar", "short", "ushort", "int",
    "uint", "long", "ulong", "longlong", "ulonglong", "float", "double",
    "longdouble", "bool">>

FloatKinds  == {"float", "double", "longdouble"}
Unsigned    == {"uchar", "ushort", "uint", "ulong", "ulonglong", "bool",
                "wchar_t"}
IntegerKinds == ToSet(AtomicKinds) \ (FloatKinds \cup {"void"})

type_int        == <<"int">>
type_void       == <<"void">>
type_error_type  == <<"error">>
PtrTo(t)   == <<"ptr">> \o t
PointsTo(t) == Tail(t)

is_const(t) == t[1] = "const"

get_unqualified_type(t) == IF is_const(t) THEN Tail(t) ELSE t

\* The word that tells the kind of a type.
Kind(t) == get_unqualified_type(t)[1]

\* The elements of an array take the qualifiers.
get_qualified_type(t, const) ==
  CASE ~const \/ is_const(t) \/ Kind(t) = "error" -> t
    [] Kind(t) = "array" ->
         IF is_const(Tail(t)) THEN t ELSE <<"array", "const">> \o Tail(t)
    [] OTHER -> <<"const">> \o t

\* The size of an integer, when a long has longsize bytes.
get_atomic_type_size(akind, longsize) ==
  CASE akind \in {"char", "schar", "uchar", "bool"} -> 1
    [] akind \in {"short", "ushort"}                -> 2
    [] akind \in {"int", "uint", "float"}           -> 4
    [] akind \in {"long", "ulong"}                  -> longsize
    [] OTHER                                        -> 8

is_type_valid(t)      == Kind(t) # "error"
is_type_pointer(t)    == Kind(t) = "ptr"
is_type_array(t)      == Kind(t) = "array"
is_type_function(t)   == Kind(t) = "func"
is_type_compound(t)   == Kind(t) = "struct"
is_type_atomic(t, k)  == Kind(t) = k
is_type_integer(t)    == Kind(t) \in IntegerKinds \cup {"enum"}
is_type_float(t)      == Kind(t) \in FloatKinds
is_type_arithmetic(t) == is_type_integer(t) \/ is_type_float(t)
is_type_real(t)       == is_type_arithmetic(t)
is_type_scalar(t)     == is_type_arithmetic(t) \/ is_type_pointer(t)
is_type_signed(t)     == is_type_arithmetic(t) /\ Kind(t) \notin Unsigned
is_type_incomplete(t) == Kind(t) = "void"
is_type_object(t)     == ~is_type_function(t) /\ ~is_type_incomplete(t)

\* Types without typedefs, tags and prototypes are compatible iff they are
\* the same; the type of an error is compatible with everything.
types_compatible(t1, t2) ==
  t1 = t2 \/ ~is_type_valid(t1) \/ ~is_type_valid(t2)

\* The conversions of arrays and functions.
automatic_type_conversion(t) ==
  CASE is_type_array(t)    -> PtrTo(Tail(t))
    [] is_type_function(t) -> PtrTo(t)
    [] OTHER               -> t

-----------------------------------------------------------------------------
(***************************************************************************)
(* The nodes.                                                              *)
(***************************************************************************)
\* A node: its kind, its token, its operands, its type, and how often it was
\* put in parentheses (the code keeps whether it was).
Node(k, tok, a, t) == [k |-> k, tok |-> tok, a |-> a, t |-> t, p |-> 0]
InvalidExpression  == Node("invalid", <<"?">>, << >>, type_error_type)

\* The levels of precedence, from the loosest.
PREC_BOTTOM == 0
PREC_EXPRESSION == 1
PREC_ASSIGNMENT == 2
PREC_CONDITIONAL == 3
PREC_LOGICAL_OR == 4
PREC_LOGICAL_AND == 5
PREC_OR == 6
PREC_XOR == 7
PREC_AND == 8
PREC_EQUALITY == 9
PREC_RELATIONAL == 10
PREC_SHIFT == 11
PREC_ADDITIVE == 12
PREC_MULTIPLICATIVE == 13
PREC_CAST == 14
PREC_UNARY == 15
PREC_POSTFIX == 16
PREC_PRIMARY == 17
PREC_TOP == 18

ToToken(words) == { <<w>> : w \in words }
AddOps   == ToToken({"+", "-"})
MulOps   == ToToken({"*", "/", "%"})
BitOps   == ToToken({"&", "^", "|"})
ShiftOps == ToToken({"<<", ">>"})
Relations  == ToToken({"<", ">", "<=", ">="})
Equalities == ToToken({"==", "!="})
LogicalOps == ToToken({"&&", "||"})
MulAssigns   == ToToken({"*=", "/=", "%="})
AddAssigns   == ToToken({"+=", "-="})
BitAssigns   == ToToken({"&=", "|=", "^="})
ShiftAssigns == ToToken({"<<=", ">>="})
AssignOps  == MulAssigns \cup AddAssigns \cup BitAssigns \cup ShiftAssigns
                \cup {<<"=">>}
IncDecs    == ToToken({"++", "--"})
PrefixOps  == IncDecs \cup ToToken({"-", "+", "!", "~", "*", "&"})
TypeProps  == ToToken({"sizeof", "__alignof__"})
Names      == ToToken(DOMAIN Types)
Literals   == ToToken({"0", "1"})
IsCast(tok) == tok[1] = "cast"
CastTo(t)   == <<"cast">> \o t

\* The type of a node before arrays and functions became pointers.
revert_automatic_type_conversion(e) ==
  CASE e.k = "reference" -> Types[e.tok[1]]
    [] e.k = "select" ->
         get_qualified_type(Members[e.tok[1]], is_const(e.t))
    [] e.k = "prefix" /\ e.tok = <<"*">> ->
         IF is_type_pointer(e.a[1].t)
         THEN PointsTo(get_unqualified_type(e.a[1].t)) ELSE type_error_type
    [] e.k \in {"array", "flipped"} ->
         LET ref == IF e.k = "array" THEN e.a[1] ELSE e.a[2]
         IN IF is_type_pointer(ref.t)
            THEN PointsTo(get_unqualified_type(ref.t)) ELSE type_error_type
    [] e.k = "compound_literal" -> Tail(e.tok)
    [] OTHER -> e.t
=============================================================================
