-------------------------- MODULE FirmConstruction --------------------------
(***************************************************************************)
(* The translation of the statements of a function to a graph              *)
(* (ast2firm.c).  Every function takes the graph built so far and returns  *)
(* it extended, the node it returns in res.  The syntax tree is that of    *)
(* CExecution.                                                             *)
(*                                                                         *)
(* Left out: what computes values other than conditions, declarations,     *)
(* asm, structured exception handling, and nodes that only keep other      *)
(* nodes alive.                                                            *)
(***************************************************************************)
EXTENDS Integers, SequencesExt, FiniteSets

CONSTANTS INT_MAX,        \* the largest int
          Warnings        \* warning.other

(***************************************************************************)
(* The graph of a function under construction: what ast2firm.c uses of     *)
(* libFirm, modelled from how it is used.  A block holds operations, and   *)
(* is a successor of the jumps that were added to it before it became      *)
(* mature; the current block is NULL where nothing can be executed.        *)
(***************************************************************************)
Null   == 0
NoNode == << >>             \* a node is <<block, index>>

Jmp          == <<"jump", 0>>
Proj(n)      == <<"proj", n>>       \* of a Cond with the number n
TrueProj     == Proj(1)
FalseProj    == Proj(0)
IndirectJump(l) == <<"indirect", l>>

NewGraph ==
  [ ops      |-> << << >> >>,    \* of every block; the first is the start
    mature   |-> {},
    edges    |-> {},             \* <<from, how, to>>
    cur      |-> 1,              \* get_cur_block()
    res      |-> NoNode,         \* what the last function returned
    break    |-> Null,           \* break_label, continue_label
    continue |-> Null,
    cond     |-> NoNode,         \* current_switch_cond
    number   |-> 0,              \* current_switch->default_proj_nr
    default  |-> FALSE,          \* saw_default_label
    labels   |-> << >>,          \* label_t.block
    indirect |-> {},             \* ijmp_list: the blocks with such a jump
    failed   |-> {} ]            \* the assertions that failed

\* F(g), with g evaluated once.
Of(g, F(_)) == CHOOSE result \in { F(x) : x \in {g} } : TRUE

SetCur(g, b)  == [g EXCEPT !.cur = b]
NewBlock(g)   == [g EXCEPT !.ops = Append(@, << >>)]
LastBlock(g)  == Len(g.ops)
Mature(g, b)  == [g EXCEPT !.mature = @ \cup {b}]
Fail(g, what) == [g EXCEPT !.failed = @ \cup {what}, !.res = NoNode]

\* A node of the current block.
AddOp(g, op) ==
  IF g.cur = Null THEN Fail(g, "block")
  ELSE [g EXCEPT !.ops[g.cur] = Append(@, op),
                 !.res = <<g.cur, Len(g.ops[g.cur]) + 1>>]
\* One that is made of the last result.
AddOpOn(g, what) == Of(g, LAMBDA now : AddOp(now, <<what, now.res>>))

\* add_immBlock_pred
AddPred(g, from, how, to) ==
  IF to \in g.mature THEN Fail(g, "mature")
  ELSE [g EXCEPT !.edges = @ \cup {<<from, how, to>>}]

\* new_Block, for the jumps from two blocks
NewBlockOf(g, one, two) ==
  LET new == NewBlock(g)
  IN Mature([new EXCEPT !.edges = @ \cup {<<one, Jmp, LastBlock(new)>>,
                                          <<two, Jmp, LastBlock(new)>>}],
            LastBlock(new))

jump_if_reachable(g, to) ==
  IF g.cur = Null THEN g ELSE AddPred(g, g.cur, Jmp, to)

Omitted == <<"omitted">>
Truth(n) == IF n # 0 THEN 1 ELSE 0

(***************************************************************************)
(* Constants                                                               *)
(***************************************************************************)
RECURSIVE is_constant_expression(_), fold_constant(_)

is_constant_expression(e) ==
  CASE e[1] = "const" -> TRUE
    [] e[1] = "not"   -> is_constant_expression(e[2])
    [] e[1] = "and"   -> /\ is_constant_expression(e[2])
                         /\ fold_constant(e[2]) # 0 => is_constant_expression(e[3])
    [] e[1] = "or"    -> /\ is_constant_expression(e[2])
                         /\ fold_constant(e[2]) = 0 => is_constant_expression(e[3])
    [] e[1] = "cond"  ->
         /\ is_constant_expression(e[2])
         /\ IF fold_constant(e[2]) = 0 THEN is_constant_expression(e[4])
            ELSE e[3] = Omitted \/ is_constant_expression(e[3])
    [] OTHER -> FALSE

fold_constant(e) ==
  CASE e[1] = "const" -> e[2]
    [] e[1] = "not"   -> 1 - Truth(fold_constant(e[2]))
    [] e[1] = "and"   -> IF fold_constant(e[2]) = 0 THEN 0 ELSE Truth(fold_constant(e[3]))
    [] e[1] = "or"    -> IF fold_constant(e[2]) # 0 THEN 1 ELSE Truth(fold_constant(e[3]))
    [] e[1] = "cond"  -> IF fold_constant(e[2]) = 0 THEN fold_constant(e[4])
                         ELSE IF e[3] = Omitted THEN fold_constant(e[2])
                         ELSE fold_constant(e[3])

\* A condition that is always true.
IsTrue(c)  == is_constant_expression(c) /\ fold_constant(c) # 0

(***************************************************************************)
(* Expressions                                                             *)
(***************************************************************************)
get_label_block(g, l) ==
  IF l \in DOMAIN g.labels THEN g
  ELSE LET new == NewBlock(g)
       IN [new EXCEPT !.labels = [ n \in DOMAIN @ \cup {l} |->
                                     IF n = l THEN LastBlock(new) ELSE @[n] ]]

\* Mutant: the label found last is not the one that was asked for.
label_address_to_firm_First(g, l) ==
  Of(get_label_block(g, l), LAMBDA found :
     AddOp(found, <<"const", CHOOSE n \in DOMAIN found.labels :
                               \A m \in DOMAIN found.labels : n <= m>>))

label_address_to_firm(g, l) == AddOp(get_label_block(g, l), <<"const", l>>)

RECURSIVE produces_mode_b(_)
produces_mode_b(e) ==
  e[1] = "not" \/ (e[1] = "comma" /\ produces_mode_b(e[3]))

RECURSIVE node_to_firm(_, _), create_condition_evaluation(_, _, _, _),
          compound_statement_to_firm(_, _), statement_to_firm(_, _)

\* A dead end: further nodes are put into a block that is not reachable.
DeadEnd(g) == SetCur(Mature(NewBlock(g), LastBlock(g) + 1), LastBlock(g) + 1)

\* A Cond in the current block, and the jumps from it.
Branch(g, true, false) ==
  [AddPred(AddPred(AddOp(g, <<"cond", g.res>>), g.cur, TrueProj, true),
           g.cur, FalseProj, false) EXCEPT !.cur = Null, !.res = g.res]

\* && and ||: an extra block for the right operand
Both(g, e, extra, true, false) ==
  LET left == IF e[1] = "and"
              THEN create_condition_evaluation(g, e[2], extra, false)
              ELSE create_condition_evaluation(g, e[2], true, extra)
      right == create_condition_evaluation(SetCur(Mature(left, extra), extra),
                                           e[3], true, false)
  IN [right EXCEPT !.res = NoNode]

ConditionJumps(g, e, true, false) ==
  CASE e[1] = "not" ->
         [create_condition_evaluation(g, e[2], false, true) EXCEPT !.res = NoNode]
    [] e[1] \in {"and", "or"} ->
         Both(NewBlock(g), e, LastBlock(g) + 1, true, false)
    [] OTHER -> Of(node_to_firm(g, e), LAMBDA value : Branch(value, true, false))

create_condition_evaluation(g, e, true, false) ==
  Of(g, LAMBDA now : ConditionJumps(now, e, true, false))

\* The value that comes with the jump from each block.
Phi(g, one, x, two, y) ==
  AddOp(SetCur(g, LastBlock(g)), <<"phi", <<one, x>>, <<two, y>>>>)

ZeroOrOne(g, one, zero) ==
  AddOp(SetCur(NewBlockOf(g, one, zero), LastBlock(g) + 1),
        <<"phi of constants", one, zero>>)

produce_condition_result(g, e) ==
  LET one  == LastBlock(g) + 1
      zero == LastBlock(g) + 2
      eval == create_condition_evaluation(NewBlock(NewBlock(g)), e, one, zero)
  IN Of(Mature(Mature(eval, one), zero), LAMBDA now : ZeroOrOne(now, one, zero))

expression_to_firm(g, e) ==
  CASE ~produces_mode_b(e)       -> node_to_firm(g, e)
    [] is_constant_expression(e) -> AddOp(g, <<"const", fold_constant(e)>>)
    [] OTHER                     -> produce_condition_result(g, e)

\* && and || where a value is needed
create_lazy_op(g, e) ==
  CASE ~is_constant_expression(e[2]) -> produce_condition_result(g, e)
    [] e[1] = "and" /\ fold_constant(e[2]) = 0 -> AddOp(g, <<"const", 0>>)
    [] e[1] = "or"  /\ fold_constant(e[2]) # 0 -> AddOp(g, <<"const", 1>>)
    [] is_constant_expression(e[3]) ->
         AddOp(g, <<"const", Truth(fold_constant(e[3]))>>)
    [] OTHER -> produce_condition_result(g, e[3])

\* The arms of ?: in their blocks, and the block where they meet.
TrueArm(g, e, value) ==
  CASE e[3] # Omitted  -> expression_to_firm(g, e[3])
    [] value # NoNode /\ ~produces_mode_b(e[2]) -> [g EXCEPT !.res = value]
    [] OTHER           -> AddOp(g, <<"const", 1>>)
Join(one, two) ==
  Of(NewBlockOf(two, one.cur, two.cur), LAMBDA joined :
     IF one.res = NoNode \/ two.res = NoNode
     THEN [SetCur(joined, LastBlock(joined)) EXCEPT !.res = NoNode]
     ELSE Phi(joined, one.cur, one.res, two.cur, two.res))
Arms(g, e, true, false) ==
  Of(TrueArm(SetCur(g, true), e, g.res), LAMBDA one :
     Of(expression_to_firm(SetCur(one, false), e[4]), LAMBDA two : Join(one, two)))

conditional_to_firm(g, e) ==
  IF is_constant_expression(e[2])
  THEN IF fold_constant(e[2]) = 0 THEN expression_to_firm(g, e[4])
       ELSE expression_to_firm(g, IF e[3] = Omitted THEN e[2] ELSE e[3])
  ELSE LET true  == LastBlock(g) + 1
           false == LastBlock(g) + 2
       IN Of(create_condition_evaluation(NewBlock(NewBlock(g)), e[2], true, false),
             LAMBDA eval : Arms(Mature(Mature(eval, true), false), e, true, false))

ExpressionToFirm(g, e) ==
  CASE e[1] = "const"    -> AddOp(g, <<"const", e[2]>>)
    [] e[1] = "address"  -> label_address_to_firm(g, e[2])
    [] e[1] = "call"     -> AddOp(g, <<"call", e[2], e[3]>>)
    [] e[1] = "noreturn" -> [DeadEnd(AddOp(g, <<"noreturn", e[2]>>)) EXCEPT !.res = NoNode]
    [] e[1] = "not"      -> AddOpOn(node_to_firm(g, e[2]), "not")
    [] e[1] \in {"and", "or"} -> create_lazy_op(g, e)
    [] e[1] = "comma"    -> node_to_firm(expression_to_firm(g, e[2]), e[3])
    [] e[1] = "cond"     -> conditional_to_firm(g, e)
    [] e[1] = "stmt"     -> compound_statement_to_firm(g, e[2][2])

\* _expression_to_firm
node_to_firm(g, e) == Of(g, LAMBDA now : ExpressionToFirm(now, e))

(***************************************************************************)
(* Statements                                                              *)
(***************************************************************************)
\* Nothing is built for an expression that is not executed.
expression_statement_to_firm(g, e) ==
  IF g.cur = Null THEN [g EXCEPT !.res = NoNode] ELSE expression_to_firm(g, e)

\* The last expression is the result.
compound_statement_to_firm(g, list) ==
  CASE list = << >> -> [g EXCEPT !.res = NoNode]
    [] Len(list) = 1 /\ list[1][1] = "expr" ->
         expression_statement_to_firm(g, list[1][2])
    [] OTHER -> compound_statement_to_firm(statement_to_firm(g, Head(list)), Tail(list))

return_statement_to_firm(g, e) ==
  IF g.cur = Null THEN g
  ELSE SetCur(AddOpOn(expression_to_firm(g, e), "return"), Null)

TrueStatement(g, s, true, after) ==
  LET done == statement_to_firm(SetCur(g, true), s[3])
      to   == IF after = Null THEN LastBlock(done) + 1 ELSE after
      last == IF after = Null THEN NewBlock(done) ELSE done
  IN CASE done.cur # Null -> SetCur(Mature(AddPred(last, done.cur, Jmp, to), to), to)
       [] after # Null    -> SetCur(Mature(done, after), after)
       [] OTHER           -> done

FalseStatement(g, s, false) ==
  statement_to_firm(SetCur(IF false = Null THEN g ELSE Mature(g, false), false), s[4])

AfterFalse(g, s, true) ==
  LET after == LastBlock(g) + 1
  IN IF g.cur = Null THEN TrueStatement(g, s, true, Null)
     ELSE TrueStatement(AddPred(NewBlock(g), g.cur, Jmp, after), s, true, after)

\* The false statement comes first, so that its block is where the statement
\* goes on if there is none.
IfBranches(g, s, true, false) ==
  IF s[4] = Omitted THEN TrueStatement(g, s, true, false)
  ELSE AfterFalse(FalseStatement(g, s, false), s, true)

if_statement_to_firm(g, s) ==
  IF g.cur = Null THEN IfBranches(g, s, Null, Null)
  ELSE LET true  == LastBlock(g) + 1
           false == LastBlock(g) + 2
           cond  == create_condition_evaluation(NewBlock(NewBlock(g)), s[2], true, false)
       IN Of(Mature(cond, true), LAMBDA now : IfBranches(now, s, true, false))

\* The labels are those of the statement, and what they were before again.
WithLabels(g, continue, break) == [g EXCEPT !.continue = continue, !.break = break]

\* A loop ends where break_label says, if it does.
EndLoop(g, old) ==
  LET left == IF g.break = Null THEN g ELSE Mature(g, g.break)
  IN WithLabels(SetCur(left, g.break), old.continue, old.break)

WhileBody(g, s, header, body, false) ==
  LET done == statement_to_firm(SetCur(WithLabels(g, header, false), body), s[3])
  IN Mature(jump_if_reachable(done, header), header)

while_statement_to_firm(g, s) ==
  LET header  == LastBlock(g) + 1
      entered == jump_if_reachable(NewBlock(g), header)
  IN IF IsTrue(s[2]) THEN EndLoop(WhileBody(entered, s, header, header, Null), g)
     ELSE LET body == header + 1
              cond == create_condition_evaluation(
                        SetCur(NewBlock(NewBlock(entered)), header),
                        s[2], body, body + 1)
          IN Of(WhileBody(Mature(cond, body), s, header, body, body + 1),
                LAMBDA done : EndLoop(done, g))

\* The block behind the statement is made when it is needed.
get_break_label(g) ==
  IF g.break # Null THEN g
  ELSE [NewBlock(g) EXCEPT !.break = LastBlock(g) + 1]

DoCondition(g, s, old, header, body, false) ==
  LET cond == create_condition_evaluation(
                SetCur(Mature(jump_if_reachable(WithLabels(g, old.continue, old.break),
                                                header), header), header),
                s[2], body, false)
  IN SetCur(Mature(Mature(cond, body), false), false)

do_while_statement_to_firm(g, s) ==
  LET header  == LastBlock(g) + 1
      body    == LastBlock(g) + 2
      entered == jump_if_reachable(NewBlock(NewBlock(g)), body)
      done    == get_break_label(statement_to_firm(
                   SetCur(WithLabels(entered, header, Null), body), s[3]))
  IN DoCondition(done, s, g, header, body, done.break)

\* The blocks of the header, and unless the loop is endless of the body and of
\* what follows it; then that of the step.
\* Mutant: continue goes to the header although there is a step.
StepBlock_Header(g, s, header) == header

StepBlock(g, s, header) == IF s[4] = Omitted THEN header ELSE LastBlock(g) + 1
ForStep(g, s, header, step) ==
  LET to == jump_if_reachable(g, step)
  IN IF s[4] = Omitted THEN Mature(to, header)
     ELSE Mature(jump_if_reachable(
                   expression_to_firm(SetCur(Mature(to, step), step), s[4]),
                   header), header)
ForBody(g, s, header, body, false, step) ==
  ForStep(statement_to_firm(
            SetCur(WithLabels(IF s[4] = Omitted THEN g ELSE NewBlock(g), step, false),
                   body), s[5]),
          s, header, step)

ForLoop(g, s, old) ==
  LET header  == LastBlock(g) + 1
      entered == jump_if_reachable(NewBlock(g), header)
  IN IF s[3] = Omitted
     THEN EndLoop(ForBody(entered, s, header, header, Null,
                          StepBlock(entered, s, header)), old)
     ELSE LET body == header + 1
              cond == create_condition_evaluation(
                        SetCur(NewBlock(NewBlock(entered)), header),
                        s[3], body, body + 1)
          IN Of(Mature(cond, body), LAMBDA now :
                EndLoop(ForBody(now, s, header, body, body + 1,
                                StepBlock(now, s, header)), old))

for_statement_to_firm(g, s) ==
  Of(IF s[2] = Omitted THEN g ELSE expression_statement_to_firm(g, s[2]),
     LAMBDA init : ForLoop(init, s, g))

create_jump_statement(g, to) ==
  IF g.cur = Null THEN g ELSE SetCur(AddPred(g, g.cur, Jmp, to), Null)

(***************************************************************************)
(* switch                                                                  *)
(***************************************************************************)
\* The labels that the parser links into the statement: <<first, last>>.
RECURSIVE CaseRanges(_)
CaseRanges(s) ==
  CASE s[1] = "case"    -> {<<s[2], s[3]>>} \cup CaseRanges(s[4])
    [] s[1] = "default" -> CaseRanges(s[2])
    [] s[1] = "compound" -> UNION { CaseRanges(s[2][i]) : i \in DOMAIN s[2] }
    [] s[1] = "if"      -> CaseRanges(s[3]) \cup CaseRanges(s[4])
    [] s[1] \in {"while", "do", "label"} -> CaseRanges(s[3])
    [] s[1] = "for"     -> CaseRanges(s[5])
    [] OTHER            -> {}

InRange(r) == r[1] .. r[2]

\* Mutant: the number of the last case.
default_proj_nr_Last(ranges) ==
  CHOOSE n \in {0} \cup { r[2] : r \in ranges } : \A r \in ranges : 0 <= n /\ r[2] <= n

\* A number that is the number of no case: that after the last one, or if that
\* overflows a free one among the first ones.
default_proj_nr(ranges) ==
  LET last   == CHOOSE n \in {0} \cup { r[2] : r \in ranges } :
                  \A r \in ranges : 0 <= n /\ r[2] <= n
      values == UNION { InRange(r) : r \in ranges }
      num_cases == Cardinality(values)
      free   == { i \in 0 .. num_cases : i < num_cases => i \notin values }
  IN IF last = INT_MAX THEN CHOOSE i \in free : \A k \in free : i <= k
     ELSE last + 1

EndSwitch(g, old, first) ==
  LET done == get_break_label(g)
      jump == jump_if_reachable(done, done.break)
      none == IF g.default \/ first = Null THEN jump
              ELSE AddPred(jump, first, Proj(g.number), jump.break)
  IN [SetCur(Mature(none, none.break), none.break)
        EXCEPT !.break = old.break, !.cond = old.cond, !.number = old.number,
               !.default = old.default]

SwitchBody(g, s, old, number) ==
  LET body == statement_to_firm(
                [g EXCEPT !.number = number, !.break = Null,
                          !.default = FALSE, !.cur = Null], s[3])
  IN EndSwitch(body, old, IF g.cond = NoNode THEN Null ELSE g.cond[1])

switch_statement_to_firm(g, s) ==
  LET number == default_proj_nr(CaseRanges(s[3]))
  IN IF g.cur = Null THEN SwitchBody([g EXCEPT !.cond = NoNode], s, g, number)
     ELSE Of(Of(expression_to_firm(g, s[2]), LAMBDA value :
                AddOp(value, <<"switch", value.res, number>>)),
             LAMBDA cond : SwitchBody([cond EXCEPT !.cond = cond.res], s, g, number))

\* The range was found to be empty, which needs warnings.
is_empty_range(s) == s[1] = "case" /\ Warnings /\ s[3] < s[2]

RECURSIVE CaseJumps(_, _, _, _)
\* do ... while (pn++ < end_pn)
CaseJumps(g, pn, end_pn, block) ==
  LET jump == AddPred(g, g.cond[1], Proj(pn), block)
  IN IF pn < end_pn THEN CaseJumps(jump, pn + 1, end_pn, block) ELSE jump

Jumps(g, s, block) ==
  CASE g.cond = NoNode -> g
    [] s[1] = "default" -> AddPred([g EXCEPT !.default = TRUE], g.cond[1],
                                   Proj(g.number), block)
    [] OTHER -> CaseJumps(IF s[2] <= s[3] THEN g ELSE Fail(g, "range"),
                          s[2], s[3], block)

case_label_to_firm(g, s, inner) ==
  IF is_empty_range(s) THEN g
  ELSE LET block == LastBlock(g) + 1
           fall  == jump_if_reachable(NewBlock(g), block)
       IN statement_to_firm(SetCur(Mature(Jumps(fall, s, block), block), block), inner)

(***************************************************************************)
(* Labels                                                                  *)
(***************************************************************************)
label_to_firm(g, s) ==
  LET found == get_label_block(g, s[2])
      block == found.labels[s[2]]
  IN statement_to_firm(SetCur(jump_if_reachable(found, block), block), s[3])

goto_to_firm(g, l) ==
  IF g.cur = Null THEN g
  ELSE LET found == get_label_block(g, l)
       IN SetCur(AddPred(found, g.cur, Jmp, found.labels[l]), Null)

computed_goto_to_firm(g, e) ==
  IF g.cur = Null THEN g
  ELSE Of(AddOpOn(expression_to_firm(g, e), "goto"), LAMBDA jump :
          [jump EXCEPT !.indirect = @ \cup {jump.cur}, !.cur = Null])

StatementToFirm(g, s) ==
  CASE s[1] = "empty"    -> g
    [] s[1] = "compound" -> compound_statement_to_firm(g, s[2])
    [] s[1] = "return"   -> return_statement_to_firm(g, s[2])
    [] s[1] = "expr"     -> expression_statement_to_firm(g, s[2])
    [] s[1] = "if"       -> if_statement_to_firm(g, s)
    [] s[1] = "while"    -> while_statement_to_firm(g, s)
    [] s[1] = "do"       -> do_while_statement_to_firm(g, s)
    [] s[1] = "for"      -> for_statement_to_firm(g, s)
    [] s[1] = "break"    -> LET found == get_break_label(g)
                            IN create_jump_statement(found, found.break)
    [] s[1] = "continue" -> create_jump_statement(g, g.continue)
    [] s[1] = "switch"   -> switch_statement_to_firm(g, s)
    [] s[1] = "case"     -> case_label_to_firm(g, s, s[4])
    [] s[1] = "default"  -> case_label_to_firm(g, s, s[2])
    [] s[1] = "label"    -> label_to_firm(g, s)
    [] s[1] = "goto"     -> goto_to_firm(g, s[2])
    [] s[1] = "computed" -> computed_goto_to_firm(g, s[2])

statement_to_firm(g, s) == Of(g, LAMBDA now : StatementToFirm(now, s))

\* gen_ijmp_branches, for every label whose address is taken
IndirectJumps(g, addressed) ==
  [g EXCEPT !.edges = @ \cup
     { <<from, IndirectJump(l), g.labels[l]>> :
         from \in g.indirect, l \in addressed \cap DOMAIN g.labels },
            !.mature = @ \cup { g.labels[l] : l \in DOMAIN g.labels }]

\* The end of the body returns, if it can be reached.
create_function(body, addressed) ==
  Of(statement_to_firm(NewGraph, body), LAMBDA g :
     IndirectJumps(IF g.cur = Null THEN g ELSE AddOp(g, <<"end">>), addressed))
=============================================================================
