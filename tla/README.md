# A formal model of cparser

cparser is a C99 (GNU, some C++ and MSVC) compiler front end: a recursive
descent parser that checks and annotates as it parses, a translation of the
syntax tree to the Firm intermediate representation, and a driver. It is a
sequential program; what is hard in it is not concurrency but *state shared
across recursion*: linked lists that several undo stacks edit, globals that a
recursive function saves and restores (or forgets to), depth-first searches
that stop at what they have seen, error paths that leave a function early.

The specifications here model these parts as state machines whose steps are
the pieces of code between two reads of the input or between two recursive
calls, and check them against definitions that are written from the language,
not from the code.

## Inventory

| Part | State it keeps | Operations | Hard behaviour | What makes it correct |
|---|---|---|---|---|
| Scopes and lookup (`parser.c` 670-850, 2402-2610, 4165-4405, 4592-4790, 5512-5680, 7026-7057, 10164-10262) | per-symbol entity lists, `environment_stack`, `label_stack`, scope lists, `current_scope`, `current_function` | push, pop, lookup, record, open and close of blocks, functions, heads, namespaces | two undo stacks on one list; stale `symbol_next`; entities pushed twice | lookup is lexical scoping; lists end and are complete |
| Reachability (`parser.c` 4905-5511, `walk_statements.c`) | marks on statements, `reaches_end`, `noreturn_candidate` | depth-first marking, climbing to parents, warning pass | mutual recursion through statement expressions; loops entered by jumps | marks are executable statements; warnings are dead ones; termination |
| Statement parser, error recovery (`parser.c` 450-665, 9340-10825) | `token_anchor_set`, `current_parent`, `current_loop`, `current_switch`, `current_try`, `in_gcc_extension` | add, remove anchors, skip, save and restore context | early exits through `expect` | anchors and context balanced; progress |
| Labels and gotos (`parser.c` 4806-4840, 9501-9540, 9839-9885) | `goto_first/anchor`, `label_first/anchor`, `used` | goto, label, address of label, check | nested functions reuse the globals | each goto finds its label; each unused or missing label is reported once |
| switch (`parser.c` 9376-9500, 9587-9675) | list of cases, default, ranges | case, default, check of duplicates and of enums | ranges, empty ranges, bad expressions | duplicates are those that overlap |
| Declarations (`parser.c` 2844-4547, 10870-10896) | specifiers, declarator chain, storage class of entities, `incomplete_arrays` | parse, construct type, merge declarations | order of merging; tentative definitions | result is independent of harmless order |
| Initializers (`parser.c` 1611-2400) | type path, index per level | descend, advance, designate, unwind | braces left out, designators into the middle | each scalar gets the expression C99 6.7.8 gives it |
| Expressions (`parser.c` 6000-9160) | none of its own | operator table, conversions, checks | precedence | grouping and types of C99 6.5 |
| Use analysis (`parser.c` 1380-1610, 4840-4900, 10634) | `used`, `read` flags | mark, report | which side of an assignment is read | set but unused is what is reported |
| Lexer (`lexer.c`), preprocessor (`preprocessor.c`) | buffer, position, macro stack, conditional stack | next character, next token, expansion, include | buffer refills, line splices, recursive macros | tokens do not depend on splices and buffer borders |
| Types (`type.c`, `type_hash.c`) | hash consing set, layouts | identify, compatible, layout | bit-fields, flexible members | pointer equality is type equality |
| Hash set (`adt/hashset.c`) | buckets, tombstones, counters | insert, remove, find, resize, iterate | tombstones and resizing | a set |
| Translation to Firm (`ast2firm.c`) | current block, jump targets, local variables | statements and expressions to blocks | unreachable code, switch, computed goto | every executable statement gets the block it is executed in |
| Driver, warnings, formats, attributes, mangling, printing | options, counters | | option order | |

Interactions: the statement parser calls the declaration parser, which calls
the scopes; both call each other through statement expressions and nested
functions. At the end of a function body `parse_external_declaration()` runs
the label check, the use analysis and the reachability analysis on it, in this
order. The translation to Firm runs after the whole unit has been parsed
without errors.

## Plan

Done:

1. `ControlFlow`, `Reachability`: the reachability analysis; proofs that the marking
   is sound and complete.
2. `LexicalScoping`, `EntityScopes`: scopes; proofs that the lists of symbols end
   and that lookup implements lexical scoping.
3. `StatementParser`: anchors, error recovery and context of the recursive descent.
4. `KeySet`, `HashSet`: the hash table; refinement of a set; both proved.
5. `ConditionalGroups`, `Preprocessor`: conditionals, macros and includes; refinement of
   conditional inclusion.
6. `TranslationPhases`, `SourceText`, `Lexer`: from bytes to tokens, against the
   translation phases of the standard.
7. `SubObjects`, `Initializers`: initializers, parsed and translated, against C99 6.7.8.
8. `C99Expressions`, `Expressions`: the tree, the types and the printing of expressions.
9. `C99Declarators`, `Declarators`: specifiers, declarators, their types and printing.
10. `CExecution`, `FirmConstruction`, `FirmExecution`: statements and conditions in
    `ast2firm.c`, executed side by side with the program.

Next, proof: `ListsOK` and `Balanced` of the scopes, on top of the invariant of
`EntityScopesRefinement`, and that the lexer's line numbers follow the lines of the
file (`LinesOK`). `WellBuilt` needs `FirmConstruction` without `RECURSIVE` and
stays with TLC.
Then, models: `DeclMerge` (second declarations, storage classes,
tentative definitions), labels and the duplicate checks of `case`, use
analysis, layout of types, format checks, driver.

Composition: `Lexer` is `SourceText` and the token functions; `Expressions`
composes the parser with the checks (`ExpressionTypes`), the constant
classification and the printer, and reads back what was printed, as
`Declarators` does with the types of `DeclaredTypes` and `TypePrinter`;
`Initializers` composes the parser with the translation in `ast2firm.c`;
`FirmExecution` runs the graph that `FirmConstruction` makes next to
`CExecution`.

## Modules

### Reachability

`ControlFlow` is the tree of a function body and, independently of the code,
which control point may follow which (`Succ`, `Closed`). Branches on constant
conditions are pruned. `Reachability` is `check_reachable()`,
`expression_returns()`, `check_unreachable()` and `walk_statements()`: the C
call stack is the variable `stack`, one frame per invocation, and each action
is the code from one call or return to the next. The flags `base.reachable`,
`condition_reachable`, `step_reachable` are sets of statements; `ret` is the
value returned by the last call of `expression_returns()`. Classifying a
condition as constant and a call as noreturn is left to the input.

`MCReachability` builds families of small bodies with the help of `Families`,
their live control points computed by a least fixed point.

| Run | What it shows | Bodies |
|---|---|---|
| `reach` | `MarkedIsExecutable`, `WarnedIsUnreachable`, `LeavingIsKnown` (marks, warnings and the end of the function are right), `Termination` | a loop of each kind with a two-statement body, a condition of each constancy, jumps from and into the loop, each tried from each leaf; selectors below, between, on and above the labels of a switch, with and without default, fall-through and jumps between labels; `__try` with its exits; two nested statement expressions, in every kind of operand |

The only fairness is `WF_vars(Next)`: the analysis is a function that runs
until it returns. The bounds are enough since the code decides locally: each
pending call looks at one statement, its parent and its next, and every pair
of kinds occurs in the families.

Seen with other bodies, where the properties do not hold: a statement expression
among the arguments of a noreturn call (`expression_returns()` answers for the call
at line 4925, before its arguments, so nothing in them is marked, but
`walk_expression()` walks them, `walk_statements.c` line 49: in `exit(({ f(); 1; }))`
the call of `f`, which is executed, is reported, and a `return` or `goto` there that
leaves the function or the call is missed); a `__try` that is not
last in its list (the block of `__finally` has the statement around the `__try`
as its parent, so the search climbs past what follows, which is reported as
unreachable; `parser.c` line 10126); an empty statement expression before a return
(line 5075: "control reaches end of non-void function"); a `do` entered by a jump, the
arms of `?:`, a computed goto (executable code is taken for unreachable), and
a jump out of an inner statement expression, which leaves `reaches_end` set
for the outer one (dead code is taken for live).

**Proved** (`ReachabilityProofs`): `MarkingIsSound`, that for *every* set of
bodies meeting `RegularBodies` nothing is marked that cannot be executed.
`RegularBodies` excludes what the disagreements are about: jumps into or out of a
statement expression, empty statement expressions, and a `__try` that is not
last in its list; it is a hypothesis of the theorem and the runs check that
their bodies meet it. `MarkedIsExecutable` is not inductive: a
pending call has to be justified before its statement is marked. The
invariant `IInv` says for every frame why it is pending (`Good`: the control
point it stands for is live), for the two values that are passed through
globals whom they belong to (`RetOK`, `EndOK`), and that neighbouring frames
agree on the statement expression they are in (`Link`). Each action has a
lemma; `NextLemma` puts them together.

**Proved** (`ReachabilityCompleteness`): `MarkingIsComplete`
(`WarnedIsUnreachable`) and `LeavingIsSeen` (`LeavingIsKnown`), for every set of
bodies meeting `RegularBodies` and `ExactBodies`. `Least` says that `live` is the
least closed set of control points, which every body has; `Exact` excludes
the cases in which the code takes executable code for unreachable or looks at
less than all of the body:

- a `do` that a jump enters before its top, and a computed goto that leads
  forward (`TopFirst`; `b.before[t]` holds what can be executed before `t`);
- a statement expression in what the marking does not evaluate: the first and third
  clauses of `for` (`ClausesOK`) and the third operand of `?:`; an f in GNU's
  `c ?: f` that is not a plain value, since the code takes the whole not to
  return when f does not (`ArmsOK`);
- a noreturn call whose arguments are more than plain values (`ArgumentsOK`);
- a label twice in a switch on a constant (`LabelsOK`), an error in C; and
  graphs that are not trees (`Tree`).

The argument is a worklist one: `CInv` follows a set C of control points that
have been looked at. What may follow a point of C is in C, or owed by a pending
call (`Owe`, by kind of frame), by `ret` or by `reaches_end` (`Covers`). A
call that ends or leads on takes its point from the owed to C (`Discharge`).
Two facts make that work where the marks say less than C. No point is in C that is
not executable (the last part of `Covers`), so a `do` whose condition has
been evaluated was entered from its top, and `VisitAgain` may return. And no
expression is evaluated twice (`Settled`, `Begun`), so the flag of a braced
initializer tells whether *all* its elements return. With the stack empty
nothing is owed: C is closed, up to the clauses of `for`, and by
`Least` contains `live` (`Over`); the marks tell what C holds (`Known`), and
the walk reports by the marks (`Reported`).

The runs check that their bodies meet `Regular` and `Exact`, but for those in
which a goto leaves a statement expression. `Termination` is liveness and stays with
TLC.

### Scopes

`EntityScopes` keeps the pointers of the code: `head` (`symbol->entity`),
`link` (`symbol_next`), `next`, and per scope `entities` and `last_entity`,
all in the record `table`; the undo stacks `env` and `label`; and `open`, the
C locals (`top`, `old_scope`, `label_stack_top`, `old_current_function`) of
the parsing functions that are active. An action is the code for one
construct: a declaration, a tag, a label, the beginning or the end of a
block, function, old-style head or namespace. `aborted` records a failed
assertion. Types, attributes and messages are left out, and entities without
a symbol, which are on scope lists only.

`LexicalScoping` says what names mean: a binding per name, and for every open
scope what the names will mean once it is closed. `EntityScopes` implements
it (`LexicallyScoped`): `visible` is what `get_entity()` finds, `outer` reads
from the undo stacks what they will restore. The check thus says both that
lookup finds the innermost declaration and that the entries on the stacks
always hold what the end of the scope needs.

| Run | What it shows |
|---|---|
| `scopes` | `LexicallyScoped`: lookup is lexical scoping; `ChainsOK`, `ListsOK`: the lists of symbols and scopes end and are complete; `Balanced`: the stacks are as they were when a scope closes; `NotAborted` |
| `scopes_cyclic` (violation) | a label in the head of a nested old-style function makes `get_entity()` loop |

Two names in five dialects: tags with labels; labels with nested functions and
old-style heads (labels of two functions in one list, parameters pushed twice);
tags with old-style heads; tags with namespaces; tags with second definitions
of structs and functions. Each list belongs to one symbol, so the second name
only has to show that the entries of the stacks do not mix; four entities fill
a list with all three name spaces and shadow one of them. `ListsOK` is not
asked of second definitions, after which the list of members is not defined by
any document: `last_entity` of a redefined struct stays (`parser.c` line 2444).
The scopes of closed blocks count against the bound. CHECK_DEADLOCK is off:
the input may end, and the bounds stop the rest.

**Proved** (`EntityScopesTables`, `EntityScopesProofs`): `ChainsCorrect`, that
for any number of symbols, entities, scopes and parameters the list of every
symbol ends and has at most one entity of each name space. It holds in every
mixture of dialects but two (`Covered`): a statement expression in the head of a
nested function makes a list cyclic (the run `scopes_cyclic`), and a namespace
or enum declared "again" is pushed a second time while it is on the stack.
Redefined structs and functions are covered, as are enumerators in heads.

That lists are right now says nothing of what they will be after a pop, so
the inductive invariant is about the future. A stack entry holds the entity
that was replaced; the two stacks are popped in whatever order constructs end;
and an entry may be of an entity that is not in its list any more, or was
pushed again by the head of a function. `Good` says of a table that its
entries name entities that exist (`Table`), that every list is a chain of its
symbol with one entity of each name space (`Chained`), and that scopes belong to one entity
(`OwnsOK`). `EntryOK` is the part of `Table` that makes popping safe: the
entity of an entry and the one it hides are of one symbol and name space. So
popping any entry of any table replaces an entity by another of its name space or
removes it, whatever is on the list by then (`PopOne` keeps `Good`), and it does
not matter in what order entries are popped. Over the stacks of constructs
the invariant is `Nested` (inner constructs start higher on both stacks),
`Functions` (who has a current function) and `Headed`: in an old-style head, the
innermost construct, every entry above the head's `top` is of a name of its
parameters, and popping those entries gives a table that none of the parameters is in
(`HeadList`), so that pushing all of them again at the body does not push an entity
that is still in a list. The folds of the code (`stack_pop_to()`, the parameters of a body) are
recursive functions over a stack, a list or a chain; what is said of them by
induction is proved from `LEMMA Induction`, which gets induction over the
numbers from a pigeonhole argument about finite sets. `EntityScopesTables` shows what each
operator does to a table; `EntityScopesProofs` applies that to each action.

**Proved** (`EntityScopesRefinement`): `Implements`, that the parser implements
`LexicalScoping` in the dialects of `Covered`, for any number of names, entities,
scopes and parameters. `ChainsCorrect` says that popping is safe; this says that it gives back
the right entity. What a name will mean once a construct is closed is read
from the oldest entry of that name above the construct's `top`, first of the
environment, then of the labels. The invariant `StackInv` is that of `ChainsCorrect` and

- `Steady`: every name with an entry means something, and only its oldest
  entry remembers that it meant nothing. So each entry replaces an entity that
  is there, and a name is never dropped by an inner scope and found by an outer one;
- `Locals`: an entry of a label in the environment is of a local label (`__label__`),
  and is again once the younger entries have been put back;
- `Apart`: labels are the only names with entries on both stacks. The labels of a
  function are popped before the environment of its body, in whatever order they were pushed;
  where the entry of a local label lies below a function's body, so does the
  entry of the label it replaces. Hence the order of the two pops does not show;
- `Enclosed` and `Pending`: a function's construct has its body's block right inside
  it, a current function has a construct, and the function of an open old-style head has no body yet;
- `Listing`: lists of scopes hold no labels, so that a scope that is appended to
  again (a redefined function's parameters) pushes ordinary names and tags only.

A step is then one of four kinds: it changes the meaning of one name in the
innermost scope; it opens a scope; it closes one, where popping to `top` gives
what the oldest entries said (`PopUndoes`); or it leaves every meaning as it was. A
function's definition opens two scopes, declares its parameters and enters
the body, an old-style head pushes parameters it has pushed before: `Grown` says
of a table that came from another by any of these that all that outer scopes will restore is
kept. Each action has a lemma `Follows...` that names the step of `LexicalScoping`
it takes.

Seen with other inputs: an enumerator of an old-style head that is declared again
in the body fails the assertion of line 4208, which expects a parameter (no dialect of the runs
has enumerators in old-style heads, so `NotAborted` does not speak of them); an enum that is defined twice is pushed and
appended twice, and so is a namespace that is opened again; its scope's list
is then cyclic.

### Statement parser

`StatementParser` is the recursive descent from `parse_translation_unit()` to
`parse_expression()`. `stack` is the C call stack: an activation has its
function, the place in it where it goes on (`at`), and the globals and the
anchor set as it found them, among which are its locals (`prev_parent`, `rem`,
`old_scope`, ...). A statement, scope or function is named by the place of
its parsing function in the stack; a pointer that outlives its construct is
then one above the top, or names what has come in its place.
`token_anchor_set` counts the anchors, modulo 256; `globals` are
`current_parent`, `current_loop`, `current_switch`, `current_try`,
`current_scope`, `current_function`, `current_linkage`, `in_gcc_extension` and
the function whose gotos and labels are being listed. An action is the code
between two calls or two expected tokens; `ret` is what the last function
returned: a statement, the invalid one, or an abort.

The input is not fixed before: whatever token of the alphabet the parser asks
for, it may get, up to `MaxTokens` more, then EOF. Skipping to an anchor
(`eat_until_anchor()`) may stop at any token it looks for, so all that is lost
is how many tokens were skipped. What is skipped counts as one token.

Not every input is coped with. `slips` records four the code does not cope
with. Behind them the properties do not hold, so they are about the inputs without
and say nothing of these defects:

- `switch`: `parse_switch()` expects the ")" before it removes it from the anchor
  set (line 9655); if it is missing it stays there, and `parse_externals()` aborts;
- `for`: `for (__extension__ x` without ";" leaves `in_gcc_extension` set;
- `nested`: a nested function resets `current_parent` and the lists of gotos
  and labels and does not put them back, and its body sees the outer
  `current_loop`, `current_switch` and `current_try`;
- `try`: `__try`, `__finally` and `__except ( )` assert the "{" that is
  expected of the input.

| Run | What it shows | Bounds |
|---|---|---|
| `statements` | `Balanced`: every function returns with the anchors and globals it was called with, on each of its paths; `ContextIsLexical`: the globals are the innermost constructs around the token; `NotAborted`: no assertion fails and no leak is found; `Terminates`: error recovery comes to the end of every input | seven alphabets of at most 12 tokens: blocks and expressions with the tokens of each construct, and pairs of constructs that share a global; eight tokens |

Eight tokens are a function name, its "{" and six more: each construct fits in
with a missing, wrong or repeated token at each place, and a loop, switch or
`__try` in another. CHECK_DEADLOCK is off since the parser stops. The
fairness is `WF_vars(Next)`: the parser runs until it returns.

Left out: asm, local labels, namespaces and old-style heads (the latter three
are in `EntityScopes`), initializers, and the operators of expressions but for
"(", `comma` and `__extension__` (tokens that the provers cannot read in a
string have words: `lbrace`, `semicolon`, `comma`); each other operator reads its tokens and calls
`parse_subexpression()`, without touching the state, but for those that are
parenthesised, which expect ")" like the ones here. `__noop` without "("
removes anchors it has not added (`parser.c` line 7112).

**Proved** (`StatementParserProofs`), for every alphabet and length of the
input: `Contexts`, that `ContextIsLexical` is an invariant; and `NoAbort` and
`Balances`, that `NotAborted` and `Balanced` hold of every behaviour of `Spec`
in which `Shallow` does. `Shallow` says that no anchor's count reaches 255. It
is a condition since the code counts in `unsigned char`: where one more is
added to 255 the anchor is lost, and the assertion of `rem_anchor_token()`
fails later. The run's inputs are too short for that.

What is proved inductive is what every activation owes to its caller, by the
place where it is: the anchors it has added and not removed yet (`Holds`), and
what it has changed of the globals (`Fits`). What one activation found when it
was called is what the one below it has left (`Left`), so the globals are
determined by the stack, and no step needs an induction over it (`Context`). A
function returns from a place where it holds nothing and has changed nothing.

### Hash set

`HashSet` is `src/adt/hashset.c`, on which the symbol table, the string set,
the type hash and the entity map are built. `entries` is the table, with
`Empty` and `Deleted` for the two null values; probing is by triangular
numbers. Finding and removing are one step. An insertion is a step for
`maybe_shrink()`, one for `maybe_grow()` and one for `insert_nogrow()`;
resizing is one step per old entry. Where a search would meet neither its key
nor an empty entry in `num_buckets` probes, the code asserts (`aborted`). Keys
are what `KeysEqual` tells apart; the iterators are left out, since no part of
cparser uses them.

`KeySet` is a set with an answer to the last operation. `HashSet` implements
it (`Implements`): the set is what is in the table and in the part of the old
table that has not been copied.

| Run | What it shows | Bounds |
|---|---|---|
| `hashset` | `NotAborted`: searches end; `Findable`: keys are in the table once, and before an empty entry on their way; `SizeOK`: `hashset_size()` is their number; `Implements` | four keys, of which two always collide and two in small tables; 4 to 32 buckets; `HT_MIN_BUCKETS` is 2 |

32 buckets with `HT_MIN_BUCKETS` at 2 (32 in the code) let a table shrink to one that it
fills up, which grows at once: with four keys of 32 buckets to 4. Growing
beyond 32 is the bound `MayGrow`. The bound is needed: an entry
used again counts again in `num_elements`, and tables of at most
`HT_MIN_BUCKETS` elements never shrink, so inserting and removing a single key
for ever doubles the table again and again. No user in cparser removes keys.

**Proved** (`HashSetProofs`): `SearchesEnd` and `Typing`, for all sets of keys,
hash functions and table sizes that meet `HashSetAssumption` and
`ProbingCovers` (as many probes as there are buckets meet all of them, which
holds for powers of two; TLC evaluates both for the run). The inductive
invariant adds to `TypeOK` and `NotAborted` what the counters count
(`Counted`: `num_elements` bounds the entries that are not empty,
`hashset_size()` is the number of living entries), that there is room for
what is still to be inserted (`Room`, whose numbers depend on where the
insertion is) and that a table being filled has no deleted entries
(`Filling`). That searches end then is a pigeonhole argument (`SearchEnds`);
that the smaller table is large enough needs the exact count.

Also proved there, under the same assumptions: `KeysAreFound`
(`Findable`), `SizeIsRight` (`SizeOK`) and `Refinement` (`Spec => Implements`).
An entry that has been used never becomes empty while its table lives, so no
search that passed it stops before it later: removal leaves a deleted entry,
insertion reuses one only where the search for the key has found that the key
is not behind it. While a table is copied, no key is in both tables, and every
key is in one (`Copying`); a step of the copy is then a step of the set that
changes nothing.

### Preprocessor

`Preprocessor` is `src/preprocessor.c`, the stand-alone preprocessor.
`next_preprocessing_token()` is called by the main loop, by each directive and,
for the arguments of a macro, by itself; `stack` has the place that waits for
the token and, above it, `eat_pp_directive()` or the loop over the arguments.
`pc` is what happens to the next token: it is read (`next`), it was a macro's
name and "(" is looked for (`peek`), it comes out of a replacement (`expand`),
or it is handed to the place on top (`run`). `definitions` are all
`pp_definition_t` ever made, and `macro` the one a name has. The input is not
fixed before: any token of the alphabet that the bounds permit may come next,
or the end of the file; `ahead` is the character that was looked at without
being read. `first` is not in the code: it says that the token is the first of
its line in its file, where directives begin.

`ConditionalGroups` is conditional inclusion as C99 6.10.1 has it: the stack
of open conditionals, each taken, pending, spent or ignored. `Preprocessor`
implements it (`Implements`): what a conditional is follows from its flags and
from `skip_mode`, or, below the top, from whether the one above was opened in
skipped text. This holds on all inputs.

The other invariants exclude inputs that the code does not cope with. `slips`
records them:

- `deep`: an include at the limit. `parse_include_directive()` eats the end of
  the line, and so does its caller, whose assertion fails unless the token
  behind is another end of line;
- `computed`: `#include` without "<" or a quote is not implemented (`panic`);
- `newline`, `arguments`: looking for "(" behind a macro with parameters, and
  skipping its arguments, takes ends of lines for spaces, so that a directive
  on one of these lines is lost, an `#endif` as well; a macro expanded within the arguments is
  abandoned and stays `is_expanding`, and is never expanded again;
- `parameters`: `pp_definitions_equal()` compares the replacements only, so
  that `#define M(x) 1` after `#define M 1` keeps the first;
- `header`: an unclosed header name has eaten its line's end, and the next
  line is eaten as the rest of the directive. What has been read of the name stays on
  `input_obstack` (`begun`) until its file ends, and the next `#include` fails
  the assertion of line 1450 (`BegunHeaderName`), the only abort that `NotAborted`
  permits behind such a name;
- `end`: a file that ends within a line goes on with the includer's next line;
- `hash`: a "#" from a replacement, at the beginning of a line, is taken for a
  directive.

| Run | What it shows | Bounds |
|---|---|---|
| `preprocessor` | `Implements`; `ExpansionOK`: the macros being expanded are the chain of parents of `current_expansion`, each at the name of its child; `DirectivesOK`: the first "#" of a line of a file always reaches the place where directives begin; `NotAborted`: the current token ends the line wherever a directive ends; `Reads`: expansion ends | three alphabets of at most eight tokens: conditionals and includes; two macros that name themselves and each other; parameters. Three open conditionals, two definitions with at most two tokens, `INCLUDE_LIMIT` 1 |

Three conditionals are a skipped one within a skipped one within one of either
kind, each with repeated `#else`. Two macros of two tokens are the smallest
cycle with something behind it. In the run no directive begins after a slip but
`header` (`BehindSlips`), so that what follows from it is not explored for ever,
and the arguments of an invocation contain no other invocation (`Permitted`). CHECK_DEADLOCK is off
since the preprocessor stops. The fairness is `WF_vars(Next)`: the program
runs until it stops. Without `do_expansions` nothing is expanded, so that
`Reads` is about lines of text.

**Proved** (`PreprocessorProofs`), for every set of names and alphabets, all
bounds, `INCLUDE_LIMIT` among them, and whichever slips directives may follow:

- `Ends` (`NotAborted`): every directive leaves the end of its line as the
  current token, unless it is an include that is too deep, is not implemented, or
  follows an unclosed header name in the same file. Those three are all the ways
  to abort.
  `Control` says which places wait for a token, alone or under
  `eat_pp_directive()` or the loop over arguments, and that nothing is expanded
  in a directive; `EndsOK` what the current token is where a directive ends.
- `Inclusion` (`Spec => Implements`): the conditionals implement
  `ConditionalGroups` on every input, behind slips as well. `GroupsOK` says
  that a conditional was opened in skipped text if and only if the one around
  it was being skipped, so that one global `skip_mode` and one flag per
  conditional are enough to tell pending, spent and ignored apart.
- `DirectivesAreSeen` (`DirectivesOK`): without slips, every "#" that begins a
  line of a file reaches the main loop. `Seen` says that whoever else gets the
  token after a line's end has put the main loop on top before reading it.
- `ExpansionIsChain` (`ExpansionOK`): without slips, the macros marked
  `is_expanding` are the members of one chain (`Chain`) from the text to
  `current_expansion`, each once, each where the name of the next was read.
  Beginning, advancing, descending and returning extend, keep or shorten it;
  `#define` and `#undef` happen only where it is empty.

That expansion ends (`Reads`) is liveness and stays with TLC.

An expansion that ends leaves `expand_pos` behind the replacement; the position
is set when the next one begins. A comma is the token `comma`, and a new
definition starts with that position, which nothing reads.

Left out: the characters (trigraphs, comments, line splices, numbers and
literals), `L` before a string, which leaves the token as it was, and output.
Behind a deep include or an unopened header name nothing depends on the names
of files, which are not modelled: an include succeeds or fails.

### Lexer

`TranslationPhases` is the reference: phases 1 to 3 of C99 5.1.1.2 and the
tokens of 6.4 as functions from a file's characters to its tokens, with the
lines each of them is on. `SourceText` is the reading of characters: blocks
(`Fill`), the decoders, the buffer in which a few characters may be put back
(`ahead`, `room`), trigraphs and spliced lines. `next_char()` and
`maybe_concat_lines()` call each other; `calls` are the calls that wait.
`Lexer` is the rest of `lexer.c`: `place` says where the lexer goes on with the
next character, `text` what it has of the token, `want` what the token is for:
the parser, or a directive of a preprocessed file.

| Run | What it shows | Bounds |
|---|---|---|
| `lexer` | `TokensOK`: the tokens are those of the file's meaning, whatever the encoding, blocks, trigraphs and splices; `LinesOK`: so are their lines, also behind line directives; `Terminates` | all files of 4 or 5 characters over seven alphabets (splices and trigraphs, comments, ends of lines, literals, numbers, punctuators, bytes), every directive with up to two arguments, rows of three to six backslashes |

`BUF_SIZE` is 2 where the code has 1024, so that a block ends within every
construct; `MAX_PUTBACK` is 3 as in the code. The fairness is `WF_vars(Next)`:
the lexer runs until it has read the file. CHECK_DEADLOCK is off since it stops.

Where the code does not do what the standard says: `put_back()` asserts that
there is room, and five backslashes in a row at the end of a block leave none
(line 379); after an invalid byte at the end of a block a byte is skipped, and
`part_decoded_rest_len` stays for the next file; `\` `\` and two ends of lines
are taken for two splices (`spliced`), a carriage return, a splice and a line
feed for one end of line; `0x1p1f` is split (line 656); ends of lines within
string literals are not counted; `# 5 \` with a splice is off by one; `#pragma 1`
dereferences NULL; `#define` without a name eats the next line; `# 0 "f"` is an
error of an octal constant; a `#` in the middle of a line is a directive.

### Initializers

`SubObjects` says what C99 6.7.8 gives each sub-object, token by token.
`Initializers` is `parse_initializer()` with its type path (`path`, `top_type`)
and the lists of items it leaves, and `create_ir_initializer()` of
`ast2firm.c`, which goes through the lists with a path of its own. The two have
to agree on every step to the next object although neither stores it.

| Run | What it shows | Bounds |
|---|---|---|
| `initializers` | `MeaningOK`: what an accepted initializer gives each scalar, and the size of an array, is what the standard says; `RefusedRightly`: what is refused is not legal | every well-formed initializer of up to 13 tokens for six objects: structs of structs and arrays, an array of arrays of unknown size, a union in a struct, character arrays, a scalar; designators of every member and index, in the old form as well |

Thirteen tokens are two nested lists with a designator and three values. GNU
designators (`b:`) mean what their C99 forms mean. CHECK_DEADLOCK is off since
the parser stops. The properties leave out two cases in which the code does not
follow the standard: lists in braces that are met while the path is not at the
level of their object (`lost`: nested braces pass on a level that is too high by
one), and unions of which the first member is initialized after another one
without its name (`OneMember`: only a designator reverts the other). Further,
`{ "s" }` is special at any item, `int a[] = {}` has one element, a struct-valued
item panics, and unions in local structs are not cleared.

### Expressions

`Expressions` is `parse_subexpression()`: a stack of operations that wait for an
operand, each with the precedence its caller asked for. As soon as an operation
is complete `ExpressionTypes` (the `semantic_*` functions) gives it a type,
casts and errors; `ConstantExpressions` classifies and folds it (`ast.c`,
`ast2firm.c`); `AstPrinter` prints the finished tree with each choice of the
options, and the parser reads that. `C99Expressions` is the reference: a tree
*is a* tree of a text if it reads as the text and each operand has the
syntactic category the grammar asks for; `TypeOf` are the rules of 6.3 and 6.5.

| Run | What it shows | Bounds |
|---|---|---|
| `expressions` | `ParsedByGrammar`, `TypesAreC99`, `ErrorsAreDue` (nothing legal is refused), `ConstantsAreConstant`, `PrintedBack` | eight languages of 3 to 7 tokens: operators of all levels, prefix and postfix operators with casts, one operation on operands of fifteen types, conditional expressions, members, calls, constants; `long` of 4 and of 8 bytes |

Seven tokens are three binary operators, which is what precedence and
associativity need; types depend on one operation and its operands. What the
parser is known not to insist on is in `Unchecked` and `LiteralOperand`: unary
operators do not promote, `_Bool` has the highest rank (line 867), comparisons
of pointers, the operands of `++` and of `%`, and indices are not checked;
`sizeof (T){0}.a` takes the literal alone. `- -x` is printed as `--x` (`Glued`,
`ast.c` line 396). Further: `(int){0}` counts as constant, and folding it or
1/0 panics (`ast2firm.c` line 3077); `&"s"` is rejected; `"a" L"b"` stays narrow.

### Declarations

`Declarators` is the path from `parse_declaration_specifiers()` through the
nested declarators and parameter lists to `parse_declarator()`; `stack` holds
the calls with their local state, among it the list of type constructors that
`construct_declarator_type()` applies. `DeclaredTypes` are the types, with
qualifiers and typedefs, `TypePrinter` the printing of types and declarations,
and `C99Declarators` the reference: the set of all readings a text has in the
grammar of 6.7, from the outside in, each with the rules it does not insist on.

| Run | What it shows | Bounds |
|---|---|---|
| `declarations` | `DeclaredAsC99`: each name has the type and storage class of a reading; `ErrorsAreDue`: what is refused has no reading, with the three exceptions below; `ParametersOfFunction`: the parameters in scope of a definition are those of the function's own type; `PrintedBack`: a printed declaration is read as itself | eleven languages of up to 12 tokens in a block, a file and a type name: specifiers in every order, storage classes, pointers, arrays, functions and parentheses, parameter lists, several declarators |

What the code does not follow. Three kinds of legal text are refused, and
`ErrorsAreDue` leaves them out: a parameter of incomplete type in a declarator
that defines nothing, `int x(struct s);` (`parser.c` line 3343, though the comment
above it restricts the rule to definitions); an array of unspecified size as the element
of another in a prototype, `int x(int [][*]);` (line 3819 takes it for
incomplete); and a function type without a name as a parameter or type name
(`AbstractFunction`). The first two are the marks `incomplete parameter` and
`unspecified elements` of a reading. Besides, a trailing comma in a parameter list and
a single `...` are accepted; qualifiers and `static` in brackets are not
checked; identifier lists are accepted in declarations, and the type they make
is printed as `(void)`; complex types are printed without a space; `[*]` is
printed as `[]`; parameters do not hide typedef names in later parameters.

### Translation to Firm

`CExecution` executes a function body as C says, with a continuation of
frames; it follows nothing in the code. `FirmConstruction` is the translation
in `ast2firm.c`: every function takes the graph so far and returns it extended.
Part of the graph's record is what the code keeps in globals: the current
block, `break_label`, `continue_label`, `current_switch_cond`, the label of
the default case, the blocks of labels and the indirect jumps. Its first part is
what is used of libFirm: blocks, operations in their order, jumps, and that no
jump can be added to a mature block. An assertion that fails is an element of
`failed`. `FirmExecution` builds the graph of a body in `Init` and executes both
side by side: what is not seen of an execution happens in both at once, calls
wait for each other and return the same value.

| Run | What it shows | Bounds |
|---|---|---|
| `firm` | `SameEvents`: both make the same calls in the same order and end alike; `NoneWaits`: neither loops where the other goes on; `WellBuilt`: nothing is built without a block, every block gets mature and no jump is added later | loops of five kinds with each condition, entered by goto, with break, continue, goto and nested loops; switches in loops with cases, ranges, default at each place, break and continue through them; every condition of two operators in six places; computed gotos; statement expressions in conditions |
| `firm_empty_range` (violation) | the assertion of `case_label_to_firm()` fails for an empty range if warnings are off | a switch |

The fairness is `WF_vars(Move)`: generated code runs on, but a call need not
return. `INT_MAX` is 3 so that the largest case is the largest int.

Not followed by the code and outside the bodies: a case with an empty range
loses its whole statement, labels in it included (line 5172); statement
expressions that do not complete inside a condition or an argument build
operations without a block; a `break` in the step of a `for` leaves that loop;
case constants are not converted to the type of the selector; LONG_MAX as a
case overflows the number of the default; `__finally` and `__except` blocks are
dropped. Left out: values other than conditions, declarations, asm.

## What is proved and what is checked

Proved with TLAPS, for every value of the constants that meets the assumptions:

| Module | Theorem | Property |
|---|---|---|
| `ReachabilityProofs` | `MarkingIsSound` | `MarkedIsExecutable`, for all bodies that meet `RegularBodies` |
| `ReachabilityCompleteness` | `MarkingIsComplete`, `LeavingIsSeen` | `WarnedIsUnreachable`, `LeavingIsKnown`, for those that meet `ExactBodies` as well |
| `HashSetProofs` | `SearchesEnd`, `Typing` | `NotAborted`, `TypeOK` |
| | `KeysAreFound`, `SizeIsRight`, `Refinement` | `Findable`, `SizeOK`, `Implements` |
| `StatementParserProofs` | `Contexts` | `ContextIsLexical` |
| | `NoAbort`, `Balances` | `NotAborted`, `Balanced`, where no anchor is counted beyond 255 |
| `PreprocessorProofs` | `Ends`, `DirectivesAreSeen`, `ExpansionIsChain` | `NotAborted`, `DirectivesOK`, `ExpansionOK` |
| | `Inclusion` | `Implements` |
| `EntityScopesProofs` | `ChainsCorrect` | `ChainsOK`, where neither statement expressions in heads nor repeated enums and namespaces occur |
| `EntityScopesRefinement` | `StacksDisciplined`, `Implements` | `LexicallyScoped`, in the same dialects |

Model-checked on the instances above: everything else. Some of it is out of
reach of the prover: the liveness properties `Termination`, `Terminates`,
`Reads` and `NoneWaits`; and what the `RECURSIVE` definitions of the parsers'
references and of `FirmConstruction` compute. Within reach, but not proved
yet, are `ListsOK`, `Balanced` and `NotAborted` of the scopes.

## Mutants

Next to a definition, `Name_What` is the definition as a plausible bug would
have it ("Mutant: ..."). PROJECT.json names for each property of each passing
run a mutant that violates it.

## Not modelled

See "components" in PROJECT.json. Within reach and left for later: labels and
gotos (`check_labels()`), merging of declarations, use analysis, layout and
hash consing of types, the states of format checks, the order of options in
the driver. libFirm is external, as are the phases that the driver runs on its
graphs. Output formatting (diagnostics' wording, wrapper generators) has no
state worth checking.
