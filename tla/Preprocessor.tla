---------------------------- MODULE Preprocessor ----------------------------
(***************************************************************************)
(* The stand-alone preprocessor of src/preprocessor.c: directives, macro   *)
(* expansion and the stack of included files.                              *)
(*                                                                         *)
(* next_preprocessing_token() is called from many places, among which are  *)
(* its own callees: stack holds the places that wait for a token. The text *)
(* is not fixed before: what is read next may be any token of alphabet, or *)
(* the end of the file. (The comma has its name for a token, since the     *)
(* provers cannot read it in a string.)                                    *)
(***************************************************************************)
EXTENDS Naturals, Sequences, SequencesExt

CONSTANTS
  Name,          \* identifiers
  Alphabets,     \* sets of the tokens of an input: names, "define", "#", "nl", ...
  IncludeLimit,  \* INCLUDE_LIMIT
  MaxConditionals, MaxDefinitions, MaxList, \* bounds of the input
  BehindSlips    \* of what the code does not cope with, that which directives may follow

Directives == {"define", "undef", "ifdef", "ifndef", "else", "endif", "include"}
Tokens == Name \cup Directives \cup {"#", "(", ")", "comma", "...", "other", "nl"}
EndOfLine == {"nl", "eof"}
Slips == {"end", "newline", "arguments", "hash", "parameters", "header", "computed", "deep"}

ASSUME PreprocessorAssumption ==
  /\ \A alphabet \in Alphabets : alphabet \subseteq Tokens /\ "nl" \in alphabet
  /\ Name \cap (Directives \cup {"#", "(", ")", "comma", "...", "other", "nl", "eof"}) = {}
  /\ IncludeLimit \in Nat /\ MaxConditionals \in Nat
  /\ MaxDefinitions \in Nat /\ MaxList \in Nat /\ BehindSlips \subseteq Slips

VARIABLES
  alphabet,           \* of this input
  pp_token,
  ahead,              \* what was read to look for "(" and was something else
  n_inputs,           \* files that wait for the end of an included one
  ended,              \* the file that includes the others has been read
  begun,              \* input_obstack holds the beginning of a header name
  conditional_stack,
  skip_mode,
  do_expansions,
  definitions,        \* every pp_definition_t made; 0 is NULL
  macro,              \* of a name: its pp_definition
  current_expansion,
  list,               \* of the #define being read: its replacement so far
  parameters,         \* ... and whether it has parameters
  pc,                 \* what next_preprocessing_token() is doing
  stack,              \* who waits for its token
  line_begin,         \* the next token read is the first of its line
  first,              \* pp_token is the first token of its line in the file
  slips               \* what was met that the code does not cope with

input       == << alphabet, ahead, n_inputs, ended, begun, line_begin, first >>
conditional == << conditional_stack, skip_mode >>
expansion   == << definitions, macro, current_expansion >>
defining    == << list, parameters >>
control     == << pc, stack >>
vars == << alphabet, pp_token, input, conditional, do_expansions, expansion, defining, control, slips >>

None == "none"
Frame(at, name, flag) == [at |-> at, name |-> name, flag |-> flag]
Top == Last(stack)
Under == Front(stack)
At(place) == pc = "run" /\ Top.at = place

\* Go on at a place of the same function, at once or with the next token.
Go(place)   == pc' = "run" /\ stack' = Append(Under, [Top EXCEPT !.at = place])
Read(place) == pc' = "next" /\ stack' = Append(Under, [Top EXCEPT !.at = place])

Slip(s, met) == slips' = IF met THEN slips \cup {s} ELSE slips

\* eat_pp_directive(), then go on.
EatThen(place, f) ==
  /\ pc' = "run"
  /\ stack' = Under \o << [f EXCEPT !.at = place], Frame("eat", f.name, FALSE) >>

Abort == pc' = "aborted" /\ UNCHANGED stack

-----------------------------------------------------------------------------
(***************************************************************************)
(* Reading: next_preprocessing_token() and parse_symbol()                  *)
(***************************************************************************)

\* Bounds of the input: so many definitions, open conditionals and tokens of
\* a replacement, which are names and "#"; no invocation in arguments; and,
\* but for BehindSlips, no directives after what the code does not cope with.
Permitted(t) ==
  /\ t = "define" => Len(definitions) < MaxDefinitions
  /\ t \in {"ifdef", "ifndef"} => Len(conditional_stack) < MaxConditionals
  /\ Top.at = "list" => t \in Name \cup {"#", "nl"}
  /\ Len(stack) = 2 => t # "("
  /\ ~ (slips \subseteq BehindSlips) => t # "#"
  /\ Len(list) = MaxList => t = "nl"

Upcoming ==
  IF ahead # << >> THEN { Head(ahead) }
  ELSE IF ended /\ n_inputs = 0 THEN {"eof"}
  ELSE { t \in alphabet : Permitted(t) } \cup {"eof"}

\* A definition begins to be expanded.
Started(d, parent) ==
  [definitions EXCEPT ![d].is_expanding = TRUE, ![d].expand_pos = 1, ![d].parent_expansion = parent]

Expanding == pc = "next" /\ current_expansion # 0

\* The included file ends, and reading goes on behind the #include.
\* pop_restore_input() also frees the beginning of a header name.
EndOfInput ==
  /\ pc = "next" /\ current_expansion = 0
  /\ "eof" \in Upcoming /\ n_inputs > 0
  /\ n_inputs' = n_inputs - 1 /\ begun' = FALSE
  /\ ahead' = << >> /\ line_begin' = TRUE
  /\ Slip("end", ~ line_begin)
  /\ UNCHANGED << alphabet, pp_token, ended, first, conditional, do_expansions, expansion,
                  defining, control >>

\* A token of the file.
Raw(t) ==
  /\ pc = "next" /\ current_expansion = 0
  /\ t \in Upcoming /\ (t = "eof" => n_inputs = 0)
  /\ pp_token' = t
  /\ first' = line_begin /\ line_begin' = (t = "nl")
  /\ ahead' = << >> /\ ended' = (ended \/ t = "eof")
  /\ UNCHANGED << alphabet, n_inputs, begun, conditional, do_expansions, defining, stack, slips >>

IsMacro(t) == t \in Name /\ do_expansions /\ macro[t] # 0

PlainToken ==
  \E t \in Upcoming :
    /\ Raw(t) /\ ~ IsMacro(t)
    /\ pc' = "run"
    /\ UNCHANGED expansion

\* parse_symbol() leaves parent_expansion as it is.
ObjectMacro ==
  \E t \in Upcoming :
    /\ Raw(t) /\ IsMacro(t) /\ ~ definitions[macro[t]].has_parameters
    /\ current_expansion' = macro[t]
    /\ definitions' = Started(macro[t], definitions[macro[t]].parent_expansion)
    /\ pc' = "expand"
    /\ UNCHANGED macro

FunctionMacro ==
  \E t \in Upcoming :
    /\ Raw(t) /\ IsMacro(t) /\ definitions[macro[t]].has_parameters
    /\ pc' = "peek"
    /\ UNCHANGED expansion

\* skip_spaces(true): ends of lines are spaces, also if no "(" comes.
SkipNewline ==
  /\ pc = "peek" /\ "nl" \in Upcoming
  /\ ahead' = << >> /\ line_begin' = TRUE
  /\ Slip("newline", TRUE)
  /\ UNCHANGED << alphabet, pp_token, n_inputs, ended, begun, first, conditional, do_expansions,
                  expansion, defining, control >>

NoArguments ==
  /\ pc = "peek"
  /\ \E t \in Upcoming \ {"nl", "("} : ahead' = << t >>
  /\ pc' = "run"
  /\ UNCHANGED << alphabet, pp_token, n_inputs, ended, begun, line_begin, first, conditional,
                  do_expansions, expansion, defining, stack, slips >>

Arguments ==
  /\ pc = "peek" /\ "(" \in Upcoming
  /\ ahead' = << >> /\ line_begin' = FALSE
  /\ pc' = "next" /\ stack' = Append(stack, Frame("argument", pp_token, FALSE))
  /\ Slip("arguments", TRUE)
  /\ UNCHANGED << alphabet, pp_token, n_inputs, ended, begun, first, conditional, do_expansions,
                  expansion, defining >>

\* The first ")" ends the arguments; then one token more is read.
Argument ==
  /\ At("argument")
  /\ Read(IF pp_token \in {"eof", ")"} THEN "invocation" ELSE "argument")
  /\ UNCHANGED << pp_token, input, conditional, do_expansions, expansion, defining, slips >>

Invocation ==
  /\ At("invocation")
  /\ LET d == macro[Top.name] IN
     /\ current_expansion' = d
     /\ definitions' = Started(d, definitions[d].parent_expansion)
  /\ pc' = "expand" /\ stack' = Under
  /\ UNCHANGED << pp_token, input, conditional, do_expansions, macro, defining, slips >>

-----------------------------------------------------------------------------
(***************************************************************************)
(* expand_next()                                                           *)
(***************************************************************************)
Current == definitions[current_expansion]

Resume ==
  /\ Expanding
  /\ pc' = "expand"
  /\ UNCHANGED << pp_token, input, conditional, do_expansions, expansion, defining, stack, slips >>

\* Mutant: the macro stays marked as being expanded.
EndOfExpansion_Expanding ==
  /\ pc = "expand" /\ Current.expand_pos > Len(Current.list)
  /\ definitions' = [definitions EXCEPT ![current_expansion].parent_expansion = 0]
  /\ current_expansion' = Current.parent_expansion
  /\ pc' = IF Current.parent_expansion = 0 THEN "next" ELSE "expand"
  /\ UNCHANGED << pp_token, input, conditional, do_expansions, macro, defining, stack, slips >>

EndOfExpansion ==
  /\ pc = "expand" /\ Current.expand_pos > Len(Current.list)
  /\ definitions' = [definitions EXCEPT ![current_expansion].is_expanding = FALSE,
                                        ![current_expansion].parent_expansion = 0]
  /\ current_expansion' = Current.parent_expansion
  /\ pc' = IF Current.parent_expansion = 0 THEN "next" ELSE "expand"
  /\ UNCHANGED << pp_token, input, conditional, do_expansions, macro, defining, stack, slips >>

\* Mutant: a macro is expanded within its own expansion.
ExpandNext_Again ==
  /\ pc = "expand" /\ Current.expand_pos <= Len(Current.list)
  /\ LET t == Current.list[Current.expand_pos]
         past == [definitions EXCEPT ![current_expansion].expand_pos = @ + 1]
         d == IF t \in Name THEN macro[t] ELSE 0
     IN /\ pp_token' = t
        /\ IF d # 0
           THEN /\ definitions' =
                     [past EXCEPT ![d].is_expanding = TRUE, ![d].expand_pos = 1,
                                  ![d].parent_expansion = current_expansion]
                /\ current_expansion' = d
                /\ UNCHANGED pc
           ELSE /\ definitions' = past
                /\ pc' = "run"
                /\ UNCHANGED current_expansion
  /\ first' = FALSE
  /\ UNCHANGED << alphabet, ahead, n_inputs, ended, begun, line_begin, conditional, do_expansions,
                  macro, defining, stack, slips >>

ExpandNext ==
  /\ pc = "expand" /\ Current.expand_pos <= Len(Current.list)
  /\ LET t == Current.list[Current.expand_pos]
         past == [definitions EXCEPT ![current_expansion].expand_pos = @ + 1]
         d == IF t \in Name THEN macro[t] ELSE 0
     IN /\ pp_token' = t
        /\ IF d # 0 /\ ~ definitions[d].is_expanding
           THEN /\ definitions' =
                     [past EXCEPT ![d].is_expanding = TRUE, ![d].expand_pos = 1,
                                  ![d].parent_expansion = current_expansion]
                /\ current_expansion' = d
                /\ UNCHANGED pc
           ELSE /\ definitions' = past
                /\ pc' = "run"
                /\ UNCHANGED current_expansion
  /\ first' = FALSE
  /\ UNCHANGED << alphabet, ahead, n_inputs, ended, begun, line_begin, conditional, do_expansions,
                  macro, defining, stack, slips >>

-----------------------------------------------------------------------------
(***************************************************************************)
(* Lines                                                                   *)
(***************************************************************************)
lines == << pp_token, input, expansion, defining >>

Directive ==
  /\ At("line") /\ pp_token = "#"
  /\ do_expansions' = FALSE
  /\ Read("directive")
  /\ Slip("hash", ~ first)
  /\ UNCHANGED << lines, conditional >>

Text ==
  /\ At("line") \/ At("text")
  /\ pp_token \notin {"eof"} /\ ~ (At("line") /\ pp_token = "#")
  /\ Read(IF pp_token = "nl" THEN "line" ELSE "text")
  /\ UNCHANGED << lines, conditional, do_expansions, slips >>

\* check_unclosed_conditionals()
EndOfText ==
  /\ At("line") \/ At("text")
  /\ pp_token = "eof"
  /\ conditional_stack' = << >>
  /\ pc' = "done"
  /\ UNCHANGED << lines, skip_mode, do_expansions, stack, slips >>

\* eat_pp_directive()
Eat ==
  /\ At("eat")
  /\ IF pp_token \in EndOfLine THEN pc' = "run" /\ stack' = Under ELSE Read("eat")
  /\ UNCHANGED << lines, conditional, do_expansions, slips >>

EndOfDirective ==
  /\ At("end")
  /\ do_expansions' = TRUE
  /\ IF pp_token \in EndOfLine
     THEN pc' = "next" /\ stack' = Append(Under, Frame("line", None, FALSE))
     ELSE Abort
  /\ UNCHANGED << lines, conditional, slips >>

InvalidDirective ==
  /\ At("directive")
  /\ pp_token \notin IF skip_mode THEN {"ifdef", "ifndef", "else", "endif"} ELSE Directives
  /\ EatThen("end", Top)
  /\ UNCHANGED << lines, conditional, do_expansions, slips >>

-----------------------------------------------------------------------------
(***************************************************************************)
(* #ifdef, #ifndef, #else, #endif                                          *)
(***************************************************************************)
others == << pp_token, input, do_expansions, expansion, defining, slips >>

Dispatch(t, place) ==
  /\ At("directive") /\ pp_token = t
  /\ pc' = "next"
  /\ stack' = Append(Under, Frame(place, None, t = "ifndef"))
  /\ UNCHANGED << others, conditional >>

Ifdef == \E t \in {"ifdef", "ifndef"} : Dispatch(t, "condition")

\* Without an identifier the condition is taken to be true.
Condition ==
  /\ At("condition")
  /\ IF skip_mode THEN EatThen("skipped", Top)
     ELSE IF pp_token \notin Name THEN EatThen("decided", [Top EXCEPT !.flag = TRUE])
     ELSE /\ pc' = "next"
          /\ stack' = Append(Under, Frame("extra", None, (macro[pp_token] = 0) = Top.flag))
  /\ UNCHANGED << others, conditional >>

Extra == At("extra") /\ EatThen("decided", Top) /\ UNCHANGED << others, conditional >>

push_conditional(condition, skip) ==
  conditional_stack' =
    Append(conditional_stack, [condition |-> condition, in_else |-> FALSE, skip |-> skip])

Conditional ==
  /\ At("skipped") \/ At("decided")
  /\ IF Top.at = "skipped" THEN push_conditional(FALSE, TRUE) /\ UNCHANGED skip_mode
     ELSE push_conditional(Top.flag, FALSE) /\ skip_mode' = ~ Top.flag
  /\ Go("end")
  /\ UNCHANGED others

Else == Dispatch("else", "else") \/ Dispatch("endif", "endif")

EndOfElse ==
  /\ At("else") \/ At("endif")
  /\ EatThen(IF Top.at = "else" THEN "other_group" ELSE "no_group", Top)
  /\ UNCHANGED << others, conditional >>

Innermost == Last(conditional_stack)

OtherGroup ==
  /\ At("other_group")
  /\ IF conditional_stack = << >> THEN UNCHANGED conditional
     ELSE IF Innermost.in_else THEN skip_mode' = TRUE /\ UNCHANGED conditional_stack
     ELSE /\ conditional_stack' = Append(Front(conditional_stack), [Innermost EXCEPT !.in_else = TRUE])
          /\ skip_mode' = IF Innermost.skip THEN skip_mode ELSE Innermost.condition
  /\ Go("end")
  /\ UNCHANGED others

\* Mutant: the end of an ignored conditional ends the skipping.
NoGroup_Unskipped ==
  /\ At("no_group")
  /\ IF conditional_stack = << >> THEN UNCHANGED conditional
     ELSE /\ conditional_stack' = Front(conditional_stack)
          /\ skip_mode' = FALSE
  /\ Go("end")
  /\ UNCHANGED others

NoGroup ==
  /\ At("no_group")
  /\ IF conditional_stack = << >> THEN UNCHANGED conditional
     ELSE /\ conditional_stack' = Front(conditional_stack)
          /\ skip_mode' = (Innermost.skip /\ skip_mode)
  /\ Go("end")
  /\ UNCHANGED others

-----------------------------------------------------------------------------
(***************************************************************************)
(* #define, #undef                                                         *)
(***************************************************************************)
Define == ~ skip_mode /\ (Dispatch("define", "name") \/ Dispatch("undef", "undef"))

notDefining == << pp_token, conditional, do_expansions, slips >>

MacroName ==
  /\ At("name")
  /\ IF pp_token \notin Name
     THEN EatThen("end", Top) /\ UNCHANGED << ahead, defining >>
     ELSE \E t \in Upcoming :
       /\ ahead' = << t >> /\ list' = << >>
       /\ \E adjacent \in IF t = "(" THEN BOOLEAN ELSE {FALSE} :
            /\ parameters' = adjacent
            /\ pc' = "next"
            /\ stack' = Append(Under, Frame(IF adjacent THEN "(" ELSE "list", pp_token, FALSE))
  /\ UNCHANGED << alphabet, notDefining, n_inputs, ended, begun, line_begin, first, expansion >>

\* Behind "(" or a comma: a parameter, "..." or ")".
Parameter ==
  /\ \/ At("(") /\ Read("parameter")
     \/ /\ At("parameter")
        /\ \/ pp_token = ")" /\ Read("list")
           \/ pp_token = "..." /\ Read("last_parameter")
           \/ pp_token \in Name /\ Read("separator")
           \/ pp_token \notin Name \cup {")", "..."} /\ EatThen("end", Top)
     \/ At("last_parameter") /\ IF pp_token = ")" THEN Go("parameter") ELSE EatThen("end", Top)
     \/ /\ At("separator")
        /\ \/ pp_token = "comma" /\ Read("parameter")
           \/ pp_token = ")" /\ Go("parameter")
           \/ pp_token \notin {"comma", ")"} /\ EatThen("end", Top)
  /\ UNCHANGED << notDefining, input, expansion, defining >>

Replacement ==
  /\ At("list") /\ pp_token \notin EndOfLine
  /\ list' = Append(list, pp_token)
  /\ Read("list")
  /\ UNCHANGED << notDefining, input, expansion, parameters >>

\* pp_definitions_equal() compares the replacements only.
Redefines(name) == macro[name] # 0 /\ definitions[macro[name]].list = list

\* (expand_pos is that of a definition whose expansion has ended: it is not
\* read before the next expansion sets it.)
EndOfDefine ==
  /\ At("list") /\ pp_token \in EndOfLine
  /\ IF Redefines(Top.name) THEN UNCHANGED << definitions, macro >>
     ELSE /\ definitions' = Append(definitions,
               [ list |-> list, has_parameters |-> parameters,
                 is_expanding |-> FALSE, parent_expansion |-> 0, expand_pos |-> Len(list) + 1 ])
          /\ macro' = [macro EXCEPT ![Top.name] = Len(definitions')]
  /\ list' = << >> /\ parameters' = FALSE
  /\ Slip("parameters", Redefines(Top.name) /\ definitions[macro[Top.name]].has_parameters # parameters)
  /\ Go("end")
  /\ UNCHANGED << pp_token, conditional, do_expansions, input, current_expansion >>

Undef ==
  /\ At("undef")
  /\ IF pp_token \in Name THEN macro' = [macro EXCEPT ![pp_token] = 0] /\ Read("undefined")
     ELSE EatThen("end", Top) /\ UNCHANGED macro
  /\ UNCHANGED << notDefining, input, definitions, current_expansion, defining >>

\* Mutant: extra tokens are not eaten.
EndOfUndef_Extra ==
  /\ At("undefined")
  /\ Go("end")
  /\ UNCHANGED << notDefining, input, expansion, defining >>

EndOfUndef ==
  /\ At("undefined")
  /\ EatThen("end", Top)
  /\ UNCHANGED << notDefining, input, expansion, defining >>

-----------------------------------------------------------------------------
(***************************************************************************)
(* #include                                                                *)
(***************************************************************************)
atInclude == At("directive") /\ pp_token = "include" /\ ~ skip_mode

notInput == << pp_token, conditional, expansion, defining >>

\* parse_headername() asserts that no header name has been begun. It finds a
\* name, behind which one token is read; a name whose end is missing, when the
\* end of the line has been read but is not the token, and the name stays
\* begun; or something else, which is not implemented.
BegunHeaderName ==
  /\ atInclude /\ begun
  /\ Abort
  /\ UNCHANGED << notInput, input, do_expansions, slips >>

HeaderName ==
  /\ atInclude /\ ~ begun
  /\ Read("header")
  /\ UNCHANGED << notInput, input, do_expansions, slips >>

UnclosedHeaderName ==
  /\ atInclude /\ ~ begun
  /\ EatThen("end", Top)
  /\ begun' = TRUE /\ line_begin' = TRUE
  /\ Slip("header", TRUE)
  /\ UNCHANGED << alphabet, notInput, ahead, n_inputs, ended, first, do_expansions >>

NoHeaderName ==
  /\ atInclude /\ ~ begun
  /\ Abort
  /\ Slip("computed", TRUE)
  /\ UNCHANGED << notInput, input, do_expansions >>

EndOfInclude ==
  /\ At("header")
  /\ EatThen("open", Top)
  /\ UNCHANGED << notInput, input, do_expansions, slips >>

\* Mutant: the end of the line is eaten though the input was switched.
OpenInput_EatNewline ==
  /\ At("open") /\ n_inputs <= IncludeLimit
  /\ do_expansions' = TRUE
  /\ \/ /\ n_inputs' = n_inputs + 1
        /\ line_begin' = TRUE
        /\ Read("end")
     \/ Go("end") /\ UNCHANGED << n_inputs, line_begin >>
  /\ UNCHANGED << alphabet, notInput, ahead, ended, begun, first, slips >>

OpenInput ==
  /\ At("open") /\ n_inputs <= IncludeLimit
  /\ do_expansions' = TRUE
  /\ \/ /\ n_inputs' = n_inputs + 1
        /\ line_begin' = TRUE
        /\ pc' = "next" /\ stack' = Append(Under, Frame("line", None, FALSE))
     \/ Go("end") /\ UNCHANGED << n_inputs, line_begin >>
  /\ UNCHANGED << alphabet, notInput, ahead, ended, begun, first, slips >>

\* The token behind the end of the line is read here, and another at the end
\* of the directive.
TooDeep ==
  /\ At("open") /\ n_inputs > IncludeLimit
  /\ Read("end")
  /\ Slip("deep", TRUE)
  /\ UNCHANGED << notInput, input, do_expansions >>

-----------------------------------------------------------------------------
\* open_input() reads the first token.
Init ==
  /\ alphabet \in Alphabets
  /\ pp_token = "nl" /\ ahead = << >> /\ n_inputs = 0 /\ ended = FALSE /\ begun = FALSE
  /\ conditional_stack = << >> /\ skip_mode = FALSE
  /\ do_expansions = FALSE
  /\ definitions = << >> /\ macro = [name \in Name |-> 0] /\ current_expansion = 0
  /\ list = << >> /\ parameters = FALSE
  /\ pc = "next" /\ stack = << Frame("line", None, FALSE) >>
  /\ line_begin = TRUE /\ first = FALSE
  /\ slips = {}

Reading == EndOfInput \/ PlainToken \/ ObjectMacro \/ FunctionMacro \/ SkipNewline
           \/ NoArguments \/ Arguments \/ Argument \/ Invocation
           \/ Resume \/ EndOfExpansion \/ ExpandNext

Next ==
  \/ Reading
  \/ Directive \/ Text \/ EndOfText \/ Eat \/ EndOfDirective \/ InvalidDirective
  \/ Ifdef \/ Condition \/ Extra \/ Conditional \/ Else \/ EndOfElse \/ OtherGroup \/ NoGroup
  \/ Define \/ MacroName \/ Parameter \/ Replacement \/ EndOfDefine \/ Undef \/ EndOfUndef
  \/ BegunHeaderName \/ HeaderName \/ UnclosedHeaderName \/ NoHeaderName
  \/ EndOfInclude \/ OpenInput \/ TooDeep

Spec == Init /\ [][Next]_vars /\ WF_vars(Next)

-----------------------------------------------------------------------------
(***************************************************************************)
(* Properties.                                                             *)
(***************************************************************************)

\* Outside of what is known not to be coped with, every directive that is
\* read ends with its line. (What is not: includes that are nested too deeply
\* or computed, and an #include behind one whose name has no end.)
NotAborted ==
  pc = "aborted" =>
    \/ slips \cap {"deep", "computed"} # {}
    \/ begun /\ Top.at = "directive" /\ pp_token = "include"

\* What is being expanded is the chain of parents of current_expansion: each
\* is where its child's name was met, and no macro is in it twice.
Expanded == { d \in DOMAIN definitions : definitions[d].is_expanding }
Children(d) == { e \in Expanded : definitions[e].parent_expansion = d }

ExpansionOK ==
  slips = {} =>
    /\ current_expansion = 0 <=> Expanded = {}
    /\ current_expansion # 0 => current_expansion \in Expanded /\ Children(current_expansion) = {}
    /\ \A d \in Expanded \ {current_expansion} :
         \E e \in Expanded :
           /\ Children(d) = {e}
           /\ macro[definitions[d].list[definitions[d].expand_pos - 1]] = e
    /\ \A d \in DOMAIN definitions \ Expanded : definitions[d].parent_expansion = 0

\* A "#" that is the first token of a line of the source is taken for the
\* beginning of a directive: whatever comes before, up to the line's end,
\* includes, skipped groups and broken directives, its line is seen.
DirectivesOK ==
  slips = {} /\ pc = "run" /\ pp_token = "#" /\ first => Top.at = "line"

\* Groups are skipped as conditional inclusion wants it, across files too,
\* and whatever else happens to the lines.
Group(i) ==
  LET c == conditional_stack[i] IN
  CASE c.skip -> "ignored"
    [] ~ c.skip /\ (~ skip_mode \/ (i < Len(conditional_stack) /\ ~ conditional_stack[i + 1].skip)) -> "taken"
    [] OTHER -> IF c.condition \/ c.in_else THEN "spent" ELSE "pending"

Conditionals ==
  INSTANCE ConditionalGroups
  WITH groups <- [i \in DOMAIN conditional_stack |-> Group(i)], skipping <- skip_mode
Implements == Conditionals!Spec

\* Expansion ends: the preprocessor always comes back to reading its input.
Reads == []<>(pc \in {"done", "aborted"} \/ (pc = "next" /\ current_expansion = 0))
=============================================================================
