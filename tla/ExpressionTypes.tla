-------------------------- MODULE ExpressionTypes --------------------------
(***************************************************************************)
(* The semantic checks of parser.c: every operator completes the node of   *)
(* an operation from the nodes of its operands, with the conversions that  *)
(* are inserted, the type, and what is reported.                           *)
(***************************************************************************)
EXTENDS ConstantExpressions

CONSTANTS GNU_MODE,     \* are the extensions of GNU C on?
          Parameters    \* the parameter types of the one type of functions
ASSUME ConstMode == GNU_MODE \in BOOLEAN

size_t    == <<"uint">>
ptrdiff_t == <<"int">>

\* What an operation reports, in order of gravity.
Silent == 0
Warns == 1
Errs == 2
Panics == 3

Result(n, d)   == [n |-> n, d |-> d]
Worse(x, y)    == IF x < y THEN y ELSE x
Good(n)        == Result(n, Silent)
Bad(n)         == Result([n EXCEPT !.t = type_error_type], Errs)
Valid(l, r)    == is_type_valid(l.t) /\ is_type_valid(r.t)
\* An operand of the wrong type is not reported if it is itself an error.
Unfit(n, l, r) == IF Valid(l, r) THEN Bad(n)
                  ELSE Result([n EXCEPT !.t = type_error_type], Silent)
Typed(n, t)    == [n EXCEPT !.t = t]
Binary(tok, l, r) == Node("binary", tok, <<l, r>>, type_error_type)

create_implicit_cast(e, t) ==
  IF e.t = t THEN e ELSE Node("implicit_cast", CastTo(t), <<e>>, t)

get_akind_rank(k) == CHOOSE i \in DOMAIN AtomicKinds : AtomicKinds[i] = k
get_rank(t) == get_akind_rank(IF Kind(t) = "enum" THEN "int" ELSE Kind(t))

\* The integer promotions.  A _Bool has the highest of all ranks.
promote_integer(t) ==
  IF get_rank(t) < get_akind_rank("int") THEN type_int ELSE t

get_default_promoted_type(t) ==
  CASE is_type_integer(t)         -> promote_integer(t)
    [] is_type_atomic(t, "float") -> <<"double">>
    [] OTHER                      -> t

\* Mutant: the signed type wins without a look at its size.
semantic_arithmetic_Rank(tl, tr, longsize) ==
  LET l == promote_integer(get_unqualified_type(tl))
      r == promote_integer(get_unqualified_type(tr))
  IN CASE <<"double">> \in {l, r} -> <<"double">>
       [] get_rank(l) >= get_rank(r) -> l
       [] OTHER -> r

\* The usual arithmetic conversions.
semantic_arithmetic(tl, tr, longsize) ==
  LET l == get_unqualified_type(tl)  r == get_unqualified_type(tr)
      pl == promote_integer(l)       pr == promote_integer(r)
      s == IF is_type_signed(pl) THEN pl ELSE pr
      u == IF is_type_signed(pl) THEN pr ELSE pl
  IN CASE <<"longdouble">> \in {l, r} -> <<"longdouble">>
       [] <<"double">> \in {l, r}     -> <<"double">>
       [] <<"float">> \in {l, r}      -> <<"float">>
       [] pl = pr                     -> pl
       [] is_type_signed(pl) = is_type_signed(pr) ->
            IF get_rank(pl) >= get_rank(pr) THEN pl ELSE pr
       [] get_rank(u) >= get_rank(s)  -> u
       [] get_atomic_type_size(Kind(s), longsize)
            > get_atomic_type_size(Kind(u), longsize) -> s
       [] OTHER -> <<"u" \o Kind(s)>>

\* Is e the constant 0, or that cast to void *?
ZeroClass(e, class) ==
  CASE ~is_type_integer(e.t)   -> "no"
    [] class = PanicClass      -> "panic"
    [] class = ErrorClass      -> "yes"
    [] class = VariableClass   -> "no"
    [] ~fold_constant(e).ok    -> "panic"
    [] OTHER -> IF IsTrue(e) THEN "no" ELSE "yes"
IsZero(e) == ZeroClass(e, is_constant_expression(e))
NullPointerClass(e) ==
  IsZero(IF e.k \in {"cast", "implicit_cast"}
              /\ types_compatible(e.t, PtrTo(type_void)) THEN e.a[1] ELSE e)

\* May e be assigned to an object of type tl?  null tells whether e is a null
\* pointer constant.  The implicit conversions between pointers and integers
\* are warnings, and so is the assignment of a pointer that loses qualifiers.
AssignOf(tl, e, null) ==
  LET toL == PointsTo(get_unqualified_type(tl))
      toR == PointsTo(get_unqualified_type(e.t))
      res == IF is_const(toR) /\ ~is_const(toL) THEN Warns ELSE Silent
      unqualL == get_unqualified_type(toL)
      unqualR == get_unqualified_type(toR)
  IN CASE is_type_pointer(tl) /\ null = "panic" -> Panics
       [] is_type_pointer(tl) /\ null = "yes"   -> Silent
       [] is_type_pointer(tl) /\ is_type_pointer(e.t) ->
            IF type_void \in {unqualL, unqualR} THEN res
            ELSE IF types_compatible(unqualL, unqualR) THEN res ELSE Warns
       [] is_type_pointer(tl) /\ is_type_integer(e.t) -> Warns
       [] is_type_arithmetic(tl) /\ is_type_arithmetic(e.t) -> Silent
       [] is_type_atomic(tl, "bool") /\ is_type_pointer(e.t) -> Silent
       [] is_type_compound(tl) /\ is_type_compound(e.t) -> Silent
       [] is_type_integer(tl) /\ is_type_pointer(e.t) -> Warns
       [] ~is_type_valid(tl) \/ ~is_type_valid(e.t) -> Silent
       [] OTHER -> Errs

semantic_assign(tl, e) == AssignOf(tl, e, NullPointerClass(e))

\* Mutant: members are forgotten.
is_lvalue_NoMember(e) ==
  \/ e.k \in {"array", "flipped", "compound_literal", "reference"}
  \/ e.k = "prefix" /\ e.tok = <<"*">>

is_lvalue(e) ==
  \/ e.k \in {"array", "flipped", "compound_literal", "reference", "select"}
  \/ e.k = "prefix" /\ e.tok = <<"*">>
  \/ ~is_type_valid(e.t)

\* Arithmetic with pointers to void and to functions is an extension.
check_pointer_arithmetic(t) ==
  LET to == PointsTo(get_unqualified_type(t))
  IN CASE is_type_object(to) -> Silent
       [] GNU_MODE           -> Warns
       [] OTHER              -> Errs

\* A condition is scalar.
semantic_condition(e) ==
  IF is_type_scalar(e.t) \/ ~is_type_valid(e.t) THEN Silent ELSE Errs

(***************************************************************************)
(* Unary operators.                                                        *)
(***************************************************************************)
semantic_incdec(n) ==
  LET e == n.a[1]
      check == IF is_type_pointer(e.t) THEN check_pointer_arithmetic(e.t)
               ELSE IF is_type_real(e.t) \/ ~is_type_valid(e.t) THEN Silent
               ELSE Errs
  IN IF check = Errs THEN Bad(n)
     ELSE Result(Typed(n, e.t), IF is_lvalue(e) THEN check ELSE Errs)

\* The result has the type of the operand: it is not promoted.
semantic_unexpr_arithmetic(n) ==
  LET e == n.a[1]
  IN IF is_type_arithmetic(e.t) THEN Good(Typed(n, e.t)) ELSE Unfit(n, e, e)
semantic_unexpr_integer(n) ==
  LET e == n.a[1]
  IN IF is_type_integer(e.t) THEN Good(Typed(n, e.t)) ELSE Unfit(n, e, e)

semantic_not(n) == Result(Typed(n, type_int), semantic_condition(n.a[1]))

semantic_dereference(n) ==
  LET e == n.a[1]
  IN IF is_type_pointer(e.t)
     THEN Good(Typed(n, automatic_type_conversion(
                          PointsTo(get_unqualified_type(e.t)))))
     ELSE Unfit(n, e, e)

\* The operand gets the type back that it was declared with.
semantic_take_addr(n) ==
  LET t == revert_automatic_type_conversion(n.a[1])
      e == Typed(n.a[1], t)
      taken == [n EXCEPT !.a = <<e>>]
  IN IF ~is_type_valid(t) THEN Result(taken, Silent)
     ELSE Result(Typed(taken, PtrTo(t)), IF is_lvalue(e) THEN Silent ELSE Errs)

semantic_prefix(n) ==
  CASE n.tok \in ToToken({"-", "+"}) -> semantic_unexpr_arithmetic(n)
    [] n.tok = <<"~">>  -> semantic_unexpr_integer(n)
    [] n.tok = <<"!">>  -> semantic_not(n)
    [] n.tok = <<"*">>  -> semantic_dereference(n)
    [] n.tok = <<"&">>  -> semantic_take_addr(n)
    [] n.tok \in IncDecs -> semantic_incdec(n)

\* An explicit conversion.
semantic_cast(n) ==
  LET dst == n.t  src == n.a[1].t
  IN CASE dst = type_void -> Good(n)
       [] is_type_pointer(dst) /\ ~is_type_pointer(src)
            /\ ~is_type_integer(src) /\ is_type_valid(src) -> Result(n, Errs)
       [] ~is_type_scalar(dst) -> Result(n, Errs)
       [] ~is_type_scalar(src) /\ is_type_valid(src) -> Result(n, Errs)
       [] OTHER -> Good(n)

\* sizeof and alignof take the type that the operand was declared with; void
\* and functions have a size in GNU C.
TypeProp(tok, e) ==
  LET t == revert_automatic_type_conversion(e)
      n == Node("sizeof", tok, <<Typed(e, t)>>, size_t)
  IN CASE is_type_object(t) \/ (GNU_MODE /\ is_type_incomplete(t)) -> Good(n)
       [] GNU_MODE -> Result(n, Warns)
       [] OTHER    -> Result(n, Errs)

(***************************************************************************)
(* Binary operators.                                                       *)
(***************************************************************************)
\* Both operands are converted to the common type, which is the result's.
Arithmetic(n, longsize) ==
  LET l == n.a[1]  r == n.a[2]
      t == semantic_arithmetic(l.t, r.t, longsize)
  IN Good([n EXCEPT !.a = <<create_implicit_cast(l, t),
                            create_implicit_cast(r, t)>>, !.t = t])

semantic_binexpr_arithmetic(n, longsize) ==
  LET l == n.a[1]  r == n.a[2]
  IN IF is_type_arithmetic(l.t) /\ is_type_arithmetic(r.t)
     THEN Arithmetic(n, longsize) ELSE Unfit(n, l, r)

\* warn_div_by_zero: a constant divisor is folded to see whether it is 0.
warn_div_by_zero(r) ==
  LET zero == IsZero(r.n.a[2])
  IN CASE ~is_type_integer(r.n.t) -> r
       [] zero = "panic"          -> Result(r.n, Panics)
       [] zero = "yes"            -> Result(r.n, Worse(r.d, Warns))
       [] OTHER                   -> r

\* % does not ask for integers.
semantic_divmod_arithmetic(n, longsize) ==
  warn_div_by_zero(semantic_binexpr_arithmetic(n, longsize))

semantic_binexpr_integer(n, longsize) ==
  LET l == n.a[1]  r == n.a[2]
  IN IF is_type_integer(l.t) /\ is_type_integer(r.t)
     THEN Arithmetic(n, longsize) ELSE Unfit(n, l, r)

\* A constant count is folded for the warnings about it.
ShiftCount(e) == IF IsZero(e) = "panic" THEN Panics ELSE Silent

\* The operands are promoted each for itself.
semantic_shift_op(n) ==
  LET l == n.a[1]  r == n.a[2]
      t == promote_integer(l.t)
  IN IF is_type_integer(l.t) /\ is_type_integer(r.t)
     THEN Result([n EXCEPT !.a = <<create_implicit_cast(l, t),
                     create_implicit_cast(r, promote_integer(r.t))>>, !.t = t],
                 ShiftCount(r))
     ELSE Unfit(n, l, r)

semantic_add(n, longsize) ==
  LET l == n.a[1]  r == n.a[2]
  IN CASE is_type_arithmetic(l.t) /\ is_type_arithmetic(r.t) ->
            Arithmetic(n, longsize)
       [] is_type_pointer(l.t) /\ is_type_integer(r.t) ->
            Result(Typed(n, l.t), check_pointer_arithmetic(l.t))
       [] is_type_pointer(r.t) /\ is_type_integer(l.t) ->
            Result(Typed(n, r.t), check_pointer_arithmetic(r.t))
       [] OTHER -> Unfit(n, l, r)

semantic_sub(n, longsize) ==
  LET l == n.a[1]  r == n.a[2]
      To(e) == get_unqualified_type(PointsTo(get_unqualified_type(e.t)))
  IN CASE is_type_arithmetic(l.t) /\ is_type_arithmetic(r.t) ->
            Arithmetic(n, longsize)
       [] is_type_pointer(l.t) /\ is_type_integer(r.t) ->
            Result(Typed(n, l.t), check_pointer_arithmetic(l.t))
       [] is_type_pointer(l.t) /\ is_type_pointer(r.t) ->
            Result(Typed(n, ptrdiff_t),
                   IF ~types_compatible(To(l), To(r)) THEN Errs
                   ELSE IF is_type_object(To(l)) THEN Silent
                   ELSE IF To(l) = type_void THEN Warns ELSE Errs)
       [] OTHER -> Unfit(n, l, r)

\* Whether two pointers, or a pointer and another operand, may be compared is
\* not checked.
semantic_comparison(n, longsize) ==
  LET l == n.a[1]  r == n.a[2]
      cmp == [Arithmetic(n, longsize).n EXCEPT !.t = type_int]
  IN CASE is_type_arithmetic(l.t) /\ is_type_arithmetic(r.t) -> Good(cmp)
       [] is_type_pointer(l.t) /\ is_type_pointer(r.t) -> Good(Typed(n, type_int))
       [] is_type_pointer(l.t) ->
            Good([n EXCEPT !.t = type_int, !.a[2] = create_implicit_cast(r, l.t)])
       [] is_type_pointer(r.t) ->
            Good([n EXCEPT !.t = type_int, !.a[1] = create_implicit_cast(l, r.t)])
       [] OTHER -> Result(Typed(n, type_int), IF Valid(l, r) THEN Errs ELSE Silent)

semantic_logical_op(n) ==
  Result(Typed(n, type_int), Worse(semantic_condition(n.a[1]),
                              semantic_condition(n.a[2])))

semantic_comma(n) == Good(Typed(n, n.a[2].t))

is_valid_assignment_lhs(e) ==
  LET t == revert_automatic_type_conversion(e)
  IN /\ is_lvalue(e)
     /\ ~(e.k = "reference" /\ is_type_function(t))
     /\ ~is_type_array(t) /\ ~is_const(t) /\ ~is_type_incomplete(t)

\* A compound assignment converts its right operand to the type in which the
\* operation is done.
CombinedAssign(n, longsize) ==
  LET l == n.a[1]  r == n.a[2]
      t == semantic_arithmetic(l.t, r.t, longsize)
  IN Good([n EXCEPT !.t = l.t, !.a[2] = create_implicit_cast(r, t)])

semantic_arithmetic_assign(n, longsize) ==
  LET l == n.a[1]  r == n.a[2]
  IN IF is_type_arithmetic(l.t) /\ is_type_arithmetic(r.t)
     THEN CombinedAssign(n, longsize) ELSE Unfit(n, l, r)

semantic_divmod_assign(n, longsize) ==
  warn_div_by_zero(semantic_arithmetic_assign(n, longsize))

semantic_arithmetic_addsubb_assign(n, longsize) ==
  LET l == n.a[1]  r == n.a[2]
  IN CASE is_type_arithmetic(l.t) /\ is_type_arithmetic(r.t) ->
            CombinedAssign(n, longsize)
       [] is_type_pointer(l.t) /\ is_type_integer(r.t) ->
            Result(Typed(n, l.t), check_pointer_arithmetic(l.t))
       [] OTHER -> Unfit(n, l, r)

semantic_integer_assign(n, longsize) ==
  LET l == n.a[1]  r == n.a[2]
  IN IF is_type_integer(l.t) /\ is_type_integer(r.t)
     THEN CombinedAssign(n, longsize) ELSE Unfit(n, l, r)

semantic_shift_assign(n) ==
  LET l == n.a[1]  r == n.a[2]
  IN IF is_type_integer(l.t) /\ is_type_integer(r.t)
     THEN Result([n EXCEPT !.t = l.t,
                    !.a[2] = create_implicit_cast(r, promote_integer(r.t))],
                 ShiftCount(r))
     ELSE Unfit(n, l, r)

semantic_binexpr_assign(n) ==
  LET l == n.a[1]  r == n.a[2]
  IN Result([n EXCEPT !.t = l.t, !.a[2] = create_implicit_cast(r, l.t)],
            semantic_assign(l.t, r))

semantic_binary(n, longsize) ==
  CASE n.tok \in AssignOps /\ ~is_valid_assignment_lhs(n.a[1]) -> Bad(n)
    [] n.tok = <<"=">>       -> semantic_binexpr_assign(n)
    [] n.tok = <<"*=">>      -> semantic_arithmetic_assign(n, longsize)
    [] n.tok \in MulAssigns   -> semantic_divmod_assign(n, longsize)
    [] n.tok \in AddAssigns   -> semantic_arithmetic_addsubb_assign(n, longsize)
    [] n.tok \in BitAssigns   -> semantic_integer_assign(n, longsize)
    [] n.tok \in ShiftAssigns -> semantic_shift_assign(n)
    [] n.tok = <<"*">>   -> semantic_binexpr_arithmetic(n, longsize)
    [] n.tok \in MulOps   -> semantic_divmod_arithmetic(n, longsize)
    [] n.tok = <<"+">>   -> semantic_add(n, longsize)
    [] n.tok = <<"-">>   -> semantic_sub(n, longsize)
    [] n.tok \in ShiftOps -> semantic_shift_op(n)
    [] n.tok \in Relations \cup Equalities -> semantic_comparison(n, longsize)
    [] n.tok \in BitOps   -> semantic_binexpr_integer(n, longsize)
    [] n.tok \in LogicalOps -> semantic_logical_op(n)
    [] n.tok = <<",">>   -> semantic_comma(n)

(***************************************************************************)
(* The conditional operator.                                               *)
(***************************************************************************)
\* Pointers to the types to1 and to2.
PointersResult(to1, to2) ==
  LET u1  == get_unqualified_type(to1)
      u2  == get_unqualified_type(to2)
      void == type_void \in {u1, u2}
      compatible == types_compatible(u1, u2)
      to == IF ~compatible \/ void THEN type_void ELSE to1
  IN [t |-> PtrTo(get_qualified_type(to, is_const(to1) \/ is_const(to2))),
      d |-> IF compatible \/ void THEN Silent ELSE Warns]

\* A pointer, and the operand that is adapted to it.
Adapted(pointer, other, null) ==
  CASE null = "yes" -> [t |-> pointer.t, d |-> Silent]
    [] is_type_pointer(other.t) ->
         PointersResult(PointsTo(get_unqualified_type(pointer.t)),
                        PointsTo(get_unqualified_type(other.t)))
    [] is_type_integer(other.t) -> [t |-> pointer.t, d |-> Warns]
    [] OTHER -> [t |-> type_error_type,
                 d |-> IF is_type_valid(other.t) THEN Errs ELSE Silent]

\* The one that is not a null pointer constant comes first.
PointerResult(x, y, nullX, nullY) ==
  CASE "panic" \in {nullX, nullY} -> [t |-> type_error_type, d |-> Panics]
    [] is_type_pointer(x.t) /\ (~is_type_pointer(y.t) \/ nullY = "yes") ->
         Adapted(x, y, nullY)
    [] OTHER -> Adapted(y, x, nullX)

\* The type of c ? x : y.
ConditionalType(x, y, longsize) ==
  CASE type_void \in {x.t, y.t} ->
         [t |-> type_void, d |-> IF x.t = y.t THEN Silent ELSE Warns]
    [] is_type_arithmetic(x.t) /\ is_type_arithmetic(y.t) ->
         [t |-> semantic_arithmetic(x.t, y.t, longsize), d |-> Silent]
    [] is_type_compound(x.t) /\ is_type_compound(y.t) ->
         [t |-> x.t, d |-> Silent]
    [] is_type_pointer(x.t) \/ is_type_pointer(y.t) ->
         PointerResult(x, y, NullPointerClass(x), NullPointerClass(y))
    [] OTHER -> [t |-> type_error_type,
                 d |-> IF Valid(x, y) THEN Errs ELSE Silent]

\* c ? x : y, or c ?: y, whose first operand stands for the second and is not
\* converted.
ConditionalNode(c, x, y, gnu, r) ==
  LET cx == create_implicit_cast(x, r.t)
      cy == create_implicit_cast(y, r.t)
  IN Result(IF gnu THEN Node("binary_conditional", <<"?:">>, <<c, cy>>, r.t)
            ELSE Node("conditional", <<"?">>, <<c, cx, cy>>, r.t),
            Worse(semantic_condition(c), r.d))
semantic_conditional(c, x, y, gnu, longsize) ==
  ConditionalNode(c, x, y, gnu, ConditionalType(x, y, longsize))

(***************************************************************************)
(* Postfix operators.                                                      *)
(***************************************************************************)
\* l[r]: the pointer may be either of them.
semantic_array_access(l, r) ==
  LET NodeOf(kind, ptr) ==
        Good(Node(kind, <<"[">>, <<l, r>>, automatic_type_conversion(
               PointsTo(get_unqualified_type(ptr.t)))))
  IN CASE is_type_pointer(l.t) -> NodeOf("array", l)
       [] is_type_pointer(r.t) -> NodeOf("flipped", r)
       [] OTHER -> Unfit(Node("array", <<"[">>, <<l, r>>, type_error_type), l, r)

\* e.m or e->m, by op.
semantic_select(e, op, member) ==
  LET pointer == is_type_pointer(e.t)
      t == IF pointer THEN PointsTo(get_unqualified_type(e.t)) ELSE e.t
      wrong == (pointer # (op = <<"->">>)) /\ is_type_valid(e.t)
      mt == automatic_type_conversion(
              get_qualified_type(Members[member[1]], is_const(t)))
  IN CASE ~is_type_compound(t) ->
            Result(InvalidExpression,
                   IF wrong \/ is_type_valid(t) THEN Errs ELSE Silent)
       [] member[1] \notin DOMAIN Members -> Result(InvalidExpression, Errs)
       [] OTHER -> Result(Node("select", member, <<e>>, mt),
                          IF wrong THEN Errs ELSE Silent)

WorstOf(ds) == CHOOSE d \in ds : \A c \in ds : c <= d

\* A call e(args).  Arguments are converted to the types of the parameters.
semantic_call(e, args) ==
  LET to == PointsTo(get_unqualified_type(e.t))
      n == Node("call", <<"(">>, <<e>> \o args, type_error_type)
      check == { semantic_assign(Parameters[i], args[i]) :
                   i \in DOMAIN Parameters \cap DOMAIN args }
      converted == [ i \in DOMAIN args |->
                       IF i \in DOMAIN Parameters
                       THEN create_implicit_cast(args[i], Parameters[i])
                       ELSE create_implicit_cast(args[i],
                              get_default_promoted_type(args[i].t)) ]
      count == IF Len(args) = Len(Parameters) THEN Silent ELSE Errs
  IN CASE ~is_type_valid(e.t) -> Result(n, Silent)
       [] ~(is_type_pointer(e.t) /\ is_type_function(to)) -> Result(n, Errs)
       [] OTHER -> Result([n EXCEPT !.a = <<e>> \o converted, !.t = Tail(to)],
                          WorstOf(check \cup {Silent, count}))
=============================================================================
