---------------------------- MODULE EntityScopes ----------------------------
(***************************************************************************)
(* Scopes and name lookup of the parser (src/parser.c): the entities that  *)
(* a symbol stands for form one linked list per symbol, with at most one   *)
(* entity of each name space; environment_stack and label_stack remember   *)
(* what to put back into these lists at the end of a scope; and a scope_t  *)
(* lists its own entities in order of declaration.                         *)
(*                                                                         *)
(* Both stacks work on the same lists, and an entity's symbol_next is only *)
(* up to date while the entity is in its list: this module keeps the       *)
(* pointers as the code does. Pointers are indices, 0 is NULL.             *)
(***************************************************************************)
EXTENDS Integers, Sequences, FiniteSets, SequencesExt

CONSTANTS
  Symbols,       \* the identifiers
  Dialects,      \* what the input makes use of: sets of Features
  MaxEntities,   \* bound: entities that are ever allocated
  MaxScopes,     \* bound: scopes, those of closed blocks included
  MaxParameters  \* bound: parameters of a function

Features ==
  { "tags",        \* struct and enum specifiers
    "labels",      \* labels and local labels
    "kr",          \* old-style function definitions
    "nested",      \* GNU nested functions
    "namespace",   \* C++ namespaces
    "enumerators", \* enumerators among the declarations of a "kr" head
    "stmtexpr",    \* statement expressions there
    "redefine",    \* second definitions of a struct or function
    "again" }      \* second definitions of an enum or namespace

ASSUME EntityScopesAssumption ==
  /\ Dialects \subseteq SUBSET Features
  /\ MaxEntities \in Nat /\ MaxScopes \in Nat /\ MaxParameters \in Nat

\* The symbols are alike (for TLC).
Symmetry == Permutations(Symbols)

Null == 0

NameSpaces == {"normal", "tag", "label"}

\* The kinds of entities, and the name space of each.
NameSpaceOf ==
  [ variable |-> "normal", typedef |-> "normal", enum_value |-> "normal",
    parameter |-> "normal", function |-> "normal", namespace |-> "normal",
    member |-> "normal", struct |-> "tag", enum |-> "tag",
    label |-> "label", local_label |-> "label" ]

VARIABLES
  dialect,        \* the one the input is in, a member of Dialects
  table,          \* entity: the entities allocated so far: kind, symbol,
                  \*   parent_scope, own: the scope_t in it (parameters or
                  \*   members), complete: it has members, or a body, or a
                  \*   type (if it is a K&R parameter)
                  \* next: entity->base.next
                  \* scope: the scope_t's: entities, last_entity, depth
                  \* head: symbol->entity, link: entity->base.symbol_next
                  \* env, label: environment_stack and label_stack
                  \* aborted: an assertion has failed
  current_scope,
  current_function,
  open            \* the local variables of the functions that parse the
                  \* constructs around the input read last, innermost first

vars == << dialect, table, current_scope, current_function, open >>

File == 1   \* file_scope

NewScope == [entities |-> Null, last_entity |-> Null, depth |-> 0]

Init ==
  /\ dialect \in Dialects
  /\ table = [ entity |-> <<>>, next |-> <<>>, scope |-> << NewScope >>,
               head |-> [s \in Symbols |-> Null], link |-> <<>>,
               env |-> <<>>, label |-> <<>>, aborted |-> FALSE ]
  /\ current_scope = File
  /\ current_function = Null
  /\ open = <<>>

-----------------------------------------------------------------------------
(***************************************************************************)
(* The lists of entities with the same symbol.                             *)
(***************************************************************************)
\* The elements of a linked list, in order; the first n of them when the
\* list does not end.
Elements(first, link, n) ==
  LET follow == [e \in 0 .. Len(link) |-> IF e = Null THEN Null ELSE link[e]]
      at[k \in 0 .. n] == IF k = 0 THEN first ELSE follow[at[k - 1]]
  IN SubSeq([k \in 1 .. n |-> at[k - 1]],
            1, Cardinality({ k \in 0 .. n - 1 : at[k] # Null }))

Ends(first, link) == Len(Elements(first, link, Len(link) + 1)) <= Len(link)

Chain(T, s) == Elements(T.head[s], T.link, Len(T.link))

\* The place of the entity of a name space among those of the symbol, 0 if
\* there is none.
Place(T, s, namespc) ==
  SelectInSeq(Chain(T, s), LAMBDA e : NameSpaceOf[T.entity[e].kind] = namespc)

\* The first entity of a name space on the list, as far as the list goes.
get_entity(T, s, namespc) ==
  LET follow == [e \in 0 .. Len(T.link) |->
                   IF e = Null THEN Null
                   ELSE IF NameSpaceOf[T.entity[e].kind] = namespc THEN e ELSE T.link[e]]
      at[k \in 0 .. Len(T.link)] == IF k = 0 THEN T.head[s] ELSE follow[at[k - 1]]
  IN at[Len(T.link)]

\* *anchor = e, where anchor is the k-th pointer of the list of s.
Anchored(T, s, k, e) ==
  IF k = 1 THEN [T EXCEPT !.head[s] = e]
  ELSE [T EXCEPT !.link[Chain(T, s)[k - 1]] = e]

\* Mutant: the new entity goes to the front of the list, whatever it is to
\* replace.
stack_push_InFront(T, which, e) ==
  LET s == T.entity[e].symbol
      M == [T EXCEPT !.link[e] = T.head[s], !.head[s] = e]
  IN [M EXCEPT ![which] = Append(@, [symbol |-> s, old_entity |-> Null,
                                     namespc |-> NameSpaceOf[T.entity[e].kind]])]

\* stack_push(): e takes the place of the entity of its name space, or goes
\* to the end of the list.
stack_push(T, which, e) ==
  LET s       == T.entity[e].symbol
      namespc == NameSpaceOf[T.entity[e].kind]
      old     == get_entity(T, s, namespc)
      place   == IF old = Null THEN Len(Chain(T, s)) + 1 ELSE Place(T, s, namespc)
      L       == IF old = Null THEN T ELSE [T EXCEPT !.link[e] = T.link[old]]
  IN [Anchored(L, s, place, e) EXCEPT
        ![which] = Append(@, [symbol |-> s, old_entity |-> old, namespc |-> namespc])]

\* One round of the loop in stack_pop_to().
PopOne(T, entry) ==
  LET s     == entry.symbol
      place == Place(T, s, entry.namespc)
      after == T.link[Chain(T, s)[place]]
  IN IF place = 0 THEN [T EXCEPT !.aborted = TRUE]
     ELSE IF entry.old_entity = Null THEN Anchored(T, s, place, after)
     ELSE Anchored([T EXCEPT !.link[entry.old_entity] = after], s, place, entry.old_entity)

\* Mutant: the entries are put back oldest first.
stack_pop_to_OldestFirst(T, which, top) ==
  LET popped[i \in top .. Len(T[which])] ==
        IF i = top THEN T ELSE PopOne(popped[i - 1], T[which][i])
  IN [popped[Len(T[which])] EXCEPT ![which] = SubSeq(@, 1, top)]

\* stack_pop_to(), where popped[i] is the table when i entries are left.
stack_pop_to(T, which, top) ==
  LET popped[i \in top .. Len(T[which])] ==
        IF i = Len(T[which]) THEN T ELSE PopOne(popped[i + 1], T[which][i + 1])
  IN [popped[top] EXCEPT ![which] = SubSeq(@, 1, top)]

environment_push(T, e) ==
  [stack_push(T, "env", e) EXCEPT !.aborted = @ \/ T.entity[e].parent_scope = Null]

-----------------------------------------------------------------------------
(***************************************************************************)
(* Entities and the lists of the scopes.                                   *)
(***************************************************************************)
Fresh(T) == Len(T.entity) + 1

\* Mutant: the pointer to the last entity is not moved.
append_entity_LastKept(T, s, e) ==
  LET last == T.scope[s].last_entity
  IN IF last = Null
     THEN [T EXCEPT !.scope[s].entities = e, !.scope[s].last_entity = e]
     ELSE [T EXCEPT !.next[last] = e]

append_entity(T, s, e) ==
  LET last == T.scope[s].last_entity
  IN [ (IF last = Null THEN [T EXCEPT !.scope[s].entities = e] ELSE [T EXCEPT !.next[last] = e])
       EXCEPT !.scope[s].last_entity = e ]

Listed(T, s) == Elements(T.scope[s].entities, T.next, Len(T.next))

\* allocate_entity_zero(), with a scope of its own where the kind has one.
Allocate(T, kind, symbol, parent) ==
  LET owner == kind \in {"function", "struct", "namespace"}
  IN [T EXCEPT
        !.entity = Append(@, [kind |-> kind, symbol |-> symbol, parent_scope |-> parent,
                              own |-> IF owner THEN Len(T.scope) + 1 ELSE Null,
                              complete |-> FALSE]),
        !.next   = Append(@, Null),
        !.link   = Append(@, Null),
        !.scope  = IF owner THEN Append(@, NewScope) ELSE @]

\* Allocate, push and append, for entities that record_entity() does not see.
Enlist(T, e, s) == append_entity(environment_push(T, e), s, e)

\* scope_push()
scope_push(T, s, outer) == [T EXCEPT !.scope[s].depth = T.scope[outer].depth + 1]

\* The declaration e stands in the outermost block of the current function,
\* of which the previous entity p is a parameter.
RedeclaresParameter(T, s, p) ==
  /\ p # Null /\ current_function # Null
  /\ T.entity[p].parent_scope = T.entity[current_function].own
  /\ T.scope[T.entity[p].parent_scope].depth + 1 = T.scope[s].depth

Merges(T, s, e, p) ==
  /\ p # Null /\ ~RedeclaresParameter(T, s, p)
  /\ T.entity[p].parent_scope = s
  /\ T.entity[p].kind = T.entity[e].kind
  /\ T.entity[e].kind \notin {"enum_value", "typedef"}

\* record_entity() in scope s. The types are left out: a second declaration
\* of an object only gives an untyped K&R parameter its type.
record_entity(T, s, e) ==
  LET p == get_entity(T, T.entity[e].symbol, "normal")
  IN IF Merges(T, s, e, p)
     THEN [T EXCEPT !.entity[p].complete = @ \/ T.entity[p].kind = "parameter"]
     ELSE Enlist([T EXCEPT
                    !.entity[e].parent_scope = s,
                    !.aborted = @ \/ T.entity[e].parent_scope # Null
                                  \/ /\ RedeclaresParameter(T, s, p)
                                     /\ T.entity[p].kind # "parameter"],
                 e, s)

\* What record_entity() returns.
Recorded(T, s, e) ==
  LET p == get_entity(T, T.entity[e].symbol, "normal")
  IN IF Merges(T, s, e, p) THEN p ELSE e

-----------------------------------------------------------------------------
Room(entities, scopes) ==
  /\ Len(table.entity) + entities <= MaxEntities
  /\ Len(table.scope) + scopes <= MaxScopes
  /\ ~table.aborted

Innermost(what) == open # <<>> /\ Head(open).what = what
InHead          == Innermost("kr")
InBody          == Len(open) >= 2 /\ open[2].what = "function"

\* The local variables that every construct with a scope has.
Construct(what, scope, T) ==
  [ what |-> what, scope |-> scope, old_scope |-> current_scope, top |-> Len(T.env),
    label_top |-> Len(T.label), old_function |-> current_function, declared |-> Null ]

\* A declaration with a symbol, outside of the head of an old-style function.
Declare(s, kind) ==
  /\ Room(1, IF kind = "function" THEN 1 ELSE 0) /\ ~InHead
  /\ table' = record_entity(Allocate(table, kind, s, Null), current_scope, Fresh(table))
  /\ UNCHANGED << current_scope, current_function, open >>

\* get_tag()
get_tag(s, kind) ==
  LET e == get_entity(table, s, "tag")
  IN IF e # Null /\ table.entity[e].kind = kind THEN e ELSE Null

\* parse_compound_type_specifier(): "define" is struct s { int m; }, "forward"
\* is struct s; and "use" is struct s with a declarator after it.
CompoundSpecifier(s, how) ==
  LET known   == get_tag(s, "struct")
      shadows == known # Null /\ table.entity[known].parent_scope # current_scope
                              /\ how \in {"define", "forward"}
      new     == known = Null \/ shadows
      e       == IF new THEN Fresh(table) ELSE known
      again   == ~new /\ table.entity[e].complete /\ how = "define"
      T       == IF new THEN Enlist(Allocate(table, "struct", s, current_scope), e, current_scope)
                 ELSE IF again THEN [table EXCEPT !.scope[table.entity[e].own].entities = Null]
                 ELSE table
      m       == Fresh(T)
      own     == T.entity[e].own
  IN /\ "tags" \in dialect /\ Room(2, 1)
     /\ again => "redefine" \in dialect
     /\ table' = IF how = "define"
                 THEN [append_entity(Allocate(T, "member", s, own), own, m)
                         EXCEPT !.entity[e].complete = TRUE]
                 ELSE T
     /\ UNCHANGED << current_scope, current_function, open >>

\* parse_enum_specifier() with the enumerators in braces; without them it
\* changes nothing but the entity it allocates in vain.
EnumSpecifier(s, enumerators) ==
  LET known == get_tag(s, "enum")
      new   == known = Null \/ table.entity[known].parent_scope # current_scope
      e     == IF new THEN Fresh(table) ELSE known
      T     == Enlist(IF new THEN Allocate(table, "enum", s, current_scope) ELSE table,
                      e, current_scope)
      with[i \in 0 .. Len(enumerators)] ==
        IF i = 0 THEN [T EXCEPT !.entity[e].complete = TRUE]
        ELSE record_entity(Allocate(with[i - 1], "enum_value", enumerators[i], Null),
                           current_scope, Fresh(with[i - 1]))
  IN /\ "tags" \in dialect /\ Room(2, 0)
     /\ ~new => "again" \in dialect /\ Len(table.env) < MaxEntities
     /\ InHead => "enumerators" \in dialect \/ enumerators = <<>>
     /\ table' = with[Len(enumerators)]
     /\ UNCHANGED << current_scope, current_function, open >>

-----------------------------------------------------------------------------
(***************************************************************************)
(* Blocks and functions.                                                   *)
(***************************************************************************)
\* The start of a compound statement or of a for statement.
OpenBlock ==
  LET s == Len(table.scope) + 1
  IN /\ current_function # Null /\ Room(0, 1)
     /\ InHead => "stmtexpr" \in dialect
     /\ table' = scope_push([table EXCEPT !.scope = Append(@, NewScope)], s, current_scope)
     /\ open' = << Construct("block", s, table) >> \o open
     /\ current_scope' = s
     /\ UNCHANGED current_function

CloseBlock ==
  /\ Innermost("block") /\ ~InBody
  /\ table' = stack_pop_to(table, "env", Head(open).top)
  /\ current_scope' = Head(open).old_scope
  /\ open' = Tail(open)
  /\ UNCHANGED current_function

\* A function declarator: the entity, with its parameters in its scope.
Declarator(s, parameters) ==
  LET own == Len(table.scope) + 1
      with[i \in 0 .. Len(parameters)] ==
        IF i = 0 THEN Allocate(table, "function", s, Null)
        ELSE append_entity(Allocate(with[i - 1], "parameter", parameters[i], Null),
                           own, Fresh(with[i - 1]))
  IN with[Len(parameters)]

MayDefine ==
  /\ open # <<>> => Head(open).what \in {"block", "namespace"}
  /\ current_function # Null => "nested" \in dialect

PushParameter(T, p, own, declared) ==
  environment_push([T EXCEPT
    !.entity[p].parent_scope = own,
    !.aborted = @ \/ T.entity[p].parent_scope \notin {Null, declared, own}], p)

\* The parameters become visible in the scope of function f; they are of the
\* scope declared (of the declaration before it was recorded), or of none yet.
PushParameters(T, f, declared) ==
  LET own        == T.entity[f].own
      parameters == Listed(T, own)
      with[i \in 0 .. Len(parameters)] ==
        IF i = 0 THEN T ELSE PushParameter(with[i - 1], parameters[i], own, declared)
  IN with[Len(parameters)]

\* The rest of parse_external_declaration() at the body of a function, up to
\* the first statement in it: nd is the declaration, s the scope it is in.
DefineFunction(T, nd, s, rest) ==
  LET f    == Recorded(T, s, nd)
      R    == record_entity(T, s, nd)
      own  == R.entity[f].own
      C    == [R EXCEPT !.scope[own] = R.scope[R.entity[nd].own]]
      P    == PushParameters(scope_push(C, own, s), f, R.entity[nd].own)
      body == Len(P.scope) + 1
      B    == scope_push([P EXCEPT !.scope = Append(@, NewScope)], body, own)
  IN IF R.entity[f].complete
     THEN /\ "redefine" \in dialect
          /\ table' = stack_pop_to(P, "env", Len(R.env))
          /\ current_scope' = s /\ open' = rest
          /\ UNCHANGED current_function
     ELSE /\ table' = B
          /\ current_function' = f
          /\ current_scope' = body
          /\ open' = << [Construct("block", body, B) EXCEPT !.old_scope = own],
                        [Construct("function", own, R) EXCEPT !.old_scope = s] >> \o rest

\* A prototype and a body.
Define(s, parameters) ==
  /\ MayDefine /\ Room(1 + Len(parameters), 2)
  /\ DefineFunction(Declarator(s, parameters), Fresh(table), current_scope, open)

\* The head of an old-style definition: parse_kr_declaration_list() up to the
\* first declaration.
OpenHead(s, parameters) ==
  LET T   == Declarator(s, parameters)
      own == Len(table.scope) + 1
  IN /\ "kr" \in dialect /\ MayDefine /\ Room(1 + Len(parameters), 2)
     /\ table' = PushParameters(scope_push(T, own, current_scope), Fresh(table), Null)
     /\ current_scope' = own
     /\ open' = << [Construct("kr", own, T) EXCEPT !.declared = Fresh(table)] >> \o open
     /\ UNCHANGED current_function

\* finished_kr_declaration()
DeclareParameter(s) ==
  LET p == get_entity(table, s, "normal")
  IN /\ InHead /\ Room(1, 0)
     /\ p # Null /\ table.entity[p].parent_scope = current_scope
     /\ table' = record_entity(Allocate(table, "parameter", s, Null), current_scope, Fresh(table))
     /\ UNCHANGED << current_scope, current_function, open >>

\* The end of the head without a body after it, an error.
AbandonHead ==
  /\ InHead
  /\ table' = stack_pop_to(table, "env", Head(open).top)
  /\ current_scope' = Head(open).old_scope
  /\ open' = Tail(open)
  /\ UNCHANGED current_function

\* Mutant: the parameters of the head stay in the environment.
DefineAfterHead_HeadStays ==
  /\ InHead /\ Room(0, 1)
  /\ DefineFunction(table, Head(open).declared, Head(open).old_scope, Tail(open))

\* The end of the head, and the start of the body.
DefineAfterHead ==
  /\ InHead /\ Room(0, 1)
  /\ DefineFunction(stack_pop_to(table, "env", Head(open).top), Head(open).declared,
                    Head(open).old_scope, Tail(open))

\* Mutant: the labels stay on label_stack.
CloseFunction_LabelsStay ==
  /\ InBody
  /\ table' = [stack_pop_to(stack_pop_to(table, "env", open[1].top), "env", open[2].top)
                 EXCEPT !.entity[current_function].complete = TRUE]
  /\ current_function' = open[2].old_function
  /\ current_scope' = open[2].old_scope
  /\ open' = Tail(Tail(open))

\* The end of the body.
CloseFunction ==
  /\ InBody
  /\ table' = [stack_pop_to(stack_pop_to(stack_pop_to(table, "env", open[1].top),
                                         "label", open[2].label_top),
                            "env", open[2].top)
                 EXCEPT !.entity[current_function].complete = TRUE]
  /\ current_function' = open[2].old_function
  /\ current_scope' = open[2].old_scope
  /\ open' = Tail(Tail(open))

-----------------------------------------------------------------------------
(***************************************************************************)
(* Labels and namespaces.                                                  *)
(***************************************************************************)
\* get_label(): a local label that is visible, or the label of the current
\* function, or a new one.
get_label(s) ==
  LET e      == get_entity(table, s, "label")
      kind   == table.entity[e].kind
      parent == table.entity[e].parent_scope
      own    == table.entity[current_function].own
      T      == Allocate(table, "label", s, own)
  IN table' = IF e # Null /\ kind = "local_label"
              THEN [table EXCEPT !.aborted = @ \/ /\ parent # current_scope
                                                  /\ table.scope[parent].depth
                                                       >= table.scope[current_scope].depth]
              ELSE IF e # Null /\ parent = own THEN table
              ELSE stack_push(T, "label", Fresh(table))

UseLabel(s) ==
  /\ "labels" \in dialect /\ Room(1, 0)
  /\ Innermost("block")
  /\ get_label(s)
  /\ UNCHANGED << current_scope, current_function, open >>

\* parse_local_label_declaration()
LocalLabel(s) ==
  LET e == get_entity(table, s, "label")
      T == Allocate(table, "local_label", s, current_scope)
  IN /\ "labels" \in dialect /\ Room(1, 0)
     /\ Innermost("block")
     /\ ~(e # Null /\ table.entity[e].parent_scope = current_scope)
     /\ table' = environment_push(T, Fresh(table))
     /\ UNCHANGED << current_scope, current_function, open >>

\* parse_namespace_definition(). An entity of another kind from an outer scope
\* is taken for the namespace; what the parser does then is not modelled.
OpenNamespace(s) ==
  LET e     == get_entity(table, s, "normal")
      new   == e = Null \/ /\ table.entity[e].kind # "namespace"
                           /\ table.entity[e].parent_scope = current_scope
      n     == IF new THEN Fresh(table) ELSE e
      T     == IF new THEN Allocate(table, "namespace", s, current_scope) ELSE table
      E     == Enlist(T, n, current_scope)
      own   == T.entity[n].own
  IN /\ "namespace" \in dialect /\ Room(1, 1)
     /\ open # <<>> => Innermost("namespace")
     /\ ~new => /\ "again" \in dialect /\ Len(table.env) < MaxEntities
                /\ table.entity[e].kind = "namespace"
     /\ table' = scope_push(E, own, current_scope)
     /\ current_scope' = own
     /\ open' = << Construct("namespace", own, E) >> \o open
     /\ UNCHANGED current_function

CloseNamespace ==
  /\ Innermost("namespace")
  /\ table' = stack_pop_to(table, "env", Head(open).top)
  /\ current_scope' = Head(open).old_scope
  /\ open' = Tail(open)
  /\ UNCHANGED current_function

-----------------------------------------------------------------------------
ParameterLists == UNION { [1 .. n -> Symbols] : n \in 0 .. MaxParameters }

Step ==
  \/ \E s \in Symbols, kind \in {"variable", "typedef", "function"} : Declare(s, kind)
  \/ \E s \in Symbols, how \in {"define", "forward", "use"} : CompoundSpecifier(s, how)
  \/ \E s \in Symbols, v \in {<<>>} \cup { <<n>> : n \in Symbols } : EnumSpecifier(s, v)
  \/ OpenBlock
  \/ CloseBlock
  \/ \E s \in Symbols, p \in ParameterLists : Define(s, p)
  \/ \E s \in Symbols, p \in ParameterLists : OpenHead(s, p)
  \/ \E s \in Symbols : DeclareParameter(s)
  \/ AbandonHead
  \/ DefineAfterHead
  \/ CloseFunction
  \/ \E s \in Symbols : UseLabel(s)
  \/ \E s \in Symbols : LocalLabel(s)
  \/ \E s \in Symbols : OpenNamespace(s)
  \/ CloseNamespace

Next == Step /\ UNCHANGED dialect

Spec == Init /\ [][Next]_vars

-----------------------------------------------------------------------------
(***************************************************************************)
(* Properties.                                                             *)
(***************************************************************************)

\* No assertion of record_entity(), environment_push(), stack_pop_to(),
\* get_label() or of the function definition fails.
NotAborted == ~table.aborted

\* The list of a symbol ends and has at most one entity of each name space,
\* all of them of this symbol: get_entity() always returns, with the only
\* candidate. This is what replacing and removing entities by their name
\* space in stack_push() and stack_pop_to() rests on.
ChainsOK ==
  \A s \in Symbols :
    /\ Ends(table.head[s], table.link)
    /\ LET C == Chain(table, s)
       IN /\ \A k \in DOMAIN C : table.entity[C[k]].symbol = s
          /\ \A j, k \in DOMAIN C :
               NameSpaceOf[table.entity[C[j]].kind] = NameSpaceOf[table.entity[C[k]].kind] => j = k

\* The list of the entities of a scope ends, at its last_entity, so that the
\* next declaration goes behind all others; and every entity that has been
\* declared in a scope is on the list of the scope, once. The passes over the
\* declarations (check_unused_globals(), the code generator) see it there.
\* (Not so after the second definition of a struct, which is an error.)
ListsOK ==
  "redefine" \notin dialect =>
    /\ \A s \in DOMAIN table.scope :
         /\ Ends(table.scope[s].entities, table.next)
         /\ LET L == Listed(table, s)
            IN table.scope[s].last_entity = (IF L = <<>> THEN Null ELSE Last(L))
    /\ \A e \in DOMAIN table.entity :
         /\ table.entity[e].parent_scope # Null
         /\ NameSpaceOf[table.entity[e].kind] # "label"
         => LET L == Listed(table, table.entity[e].parent_scope)
            IN Cardinality({ k \in DOMAIN L : L[k] = e }) = 1

\* Outside of every construct the stacks hold what the file scope needs and
\* nothing else: no label, and one entry for each entity pushed at file scope.
Balanced ==
  open = <<>> =>
    /\ table.label = <<>>
    /\ Len(table.env) = Cardinality({ e \in DOMAIN table.entity :
                                        table.entity[e].parent_scope = File })

\* What the names mean, and what they will mean after the k innermost of the
\* constructs that are open: what the oldest entry of those to be popped from
\* a stack remembers.
Name(entry) == << entry.symbol, entry.namespc >>

Undone(e, stack, top, n) ==
  LET popped == { i \in top + 1 .. Len(stack) : Name(stack[i]) = n }
  IN IF popped = {} THEN e ELSE stack[Min(popped)].old_entity

LabelTop(k) ==
  LET F == { i \in 1 .. k : open[i].what = "function" }
  IN IF F = {} THEN Len(table.label) ELSE open[Max(F)].label_top

visible == [n \in Symbols \X NameSpaces |-> get_entity(table, n[1], n[2])]

After(k) ==
  [n \in Symbols \X NameSpaces |->
     Undone(Undone(get_entity(table, n[1], n[2]), table.env, open[k].top, n),
            table.label, LabelTop(k), n)]

outer == [k \in DOMAIN open |-> [env |-> After(k), function |-> open[k].what = "function"]]

\* Lookup by the lists and stacks implements lexical scoping.
Scoping == INSTANCE LexicalScoping WITH
  Entities <- 1 .. MaxEntities, None <- Null, visible <- visible, outer <- outer

LexicallyScoped == Scoping!Spec
=============================================================================
