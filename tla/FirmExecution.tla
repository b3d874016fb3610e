--------------------------- MODULE FirmExecution ---------------------------
(***************************************************************************)
(* A function body is translated to a graph, and both are executed side by *)
(* side: the body as C says, the graph block by block.  What is not seen   *)
(* of an execution happens in both at once; a call returns the same value  *)
(* in both.                                                                *)
(***************************************************************************)
EXTENDS FirmConstruction, TLC

C99 == INSTANCE CExecution

CONSTANTS Bodies,     \* the bodies of functions: a sequence
          Labels      \* the labels whose address is taken

VARIABLES
  fn,           \* the number of the body
  graph,        \* what ast2firm makes of it
  source,       \* where its execution is
  here, index,  \* the operation that is executed in the graph
  before,       \* the block before
  env           \* the values of nodes

vars == <<fn, graph, source, here, index, before, env>>

Init ==
  /\ fn \in DOMAIN Bodies
  /\ graph = create_function(Bodies[fn], Labels)
  /\ source = C99!SourceStart(Bodies[fn])
  /\ here = 1 /\ index = 1 /\ before = Null /\ env = << >>

(***************************************************************************)
(* The execution of the graph.                                             *)
(***************************************************************************)
Ops    == graph.ops[here]
AtEnd  == index > Len(Ops)
Op     == Ops[index]
Successors(how) == { e[3] : e \in { x \in graph.edges : x[1] = here /\ x[2] = how } }

\* A switch goes to the default case if there is no other.
Way ==
  CASE AtEnd           -> Jmp
    [] Op[1] = "cond"   -> IF env[Op[2]] # 0 THEN TrueProj ELSE FalseProj
    [] Op[1] = "switch" -> IF Successors(Proj(env[Op[2]])) # {} THEN Proj(env[Op[2]])
                          ELSE Proj(Op[3])
    [] Op[1] = "goto"   -> IndirectJump(env[Op[2]])

Leaves == AtEnd \/ Op[1] \in {"cond", "switch", "goto"}

GraphEvent ==
  CASE Leaves -> IF Successors(Way) = {} THEN <<"stuck", 0>> ELSE << >>
    [] Op[1] \in {"call", "noreturn"} -> <<Op[1], Op[2]>>
    [] Op[1] = "return" -> <<"return", env[Op[2]]>>
    [] Op[1] = "end"    -> <<"end", 0>>
    [] OTHER            -> << >>

Define(v) == env' = (<<here, index>> :> v) @@ env

\* The value of an operation.
Computed ==
  CASE Op[1] = "const" -> Op[2]
    [] Op[1] = "not"   -> 1 - Truth(env[Op[2]])
    [] Op[1] = "phi"   -> env[IF before = Op[2][1] THEN Op[2][2] ELSE Op[3][2]]
    [] Op[1] = "phi of constants" -> IF before = Op[2] THEN 1 ELSE 0

GraphStep ==
  CASE GraphEvent # << >> -> UNCHANGED <<here, index, before, env>>
    [] Leaves -> /\ here' \in Successors(Way)
                 /\ index' = 1 /\ before' = here /\ UNCHANGED env
    [] OTHER  -> /\ Define(Computed)
                 /\ index' = index + 1 /\ UNCHANGED <<here, before>>

(***************************************************************************)
(* The steps of both.                                                      *)
(***************************************************************************)
SourceEvent == C99!SourceEvent(source)

Move ==
  /\ SourceEvent = << >> \/ GraphEvent = << >>
  /\ source' = IF SourceEvent = << >> THEN C99!SourceStep(Bodies[fn], source)
                                      ELSE source
  /\ GraphStep /\ UNCHANGED <<fn, graph>>

Return ==
  /\ SourceEvent # << >> /\ SourceEvent[1] = "call" /\ GraphEvent = SourceEvent
  /\ \E v \in C99!Results(source) :
       /\ source' = C99!Returned(source, v)
       /\ Define(v)
  /\ index' = index + 1 /\ UNCHANGED <<fn, graph, here, before>>

Ended ==
  /\ SourceEvent # << >> /\ SourceEvent[1] \in {"noreturn", "return", "end"}
  /\ GraphEvent = SourceEvent
  /\ UNCHANGED vars

Next == Move \/ Return \/ Ended

Spec == Init /\ [][Next]_vars /\ WF_vars(Move)

(***************************************************************************)
(* Properties                                                              *)
(***************************************************************************)
\* The generated code does what the program says: the same calls in the same
\* order, with the branches that their results demand, and it ends in the same
\* way with the same value.
SameEvents ==
  SourceEvent # << >> /\ GraphEvent # << >> => SourceEvent = GraphEvent

\* Neither loops for ever where the other goes on.
NoneWaits ==
  /\ (GraphEvent # << >>) ~> (SourceEvent # << >>)
  /\ (SourceEvent # << >>) ~> (GraphEvent # << >>)

\* No operation is built where there is no block, no jump is added to a block
\* that is complete, and in the end every block is; every jump has a target, and
\* what is executed is in the graph.
WellBuilt ==
  /\ graph.failed = {}
  /\ graph.mature = DOMAIN graph.ops \ {1}
  /\ \A e \in graph.edges : e[1] \in DOMAIN graph.ops /\ e[3] \in graph.mature
  /\ here \in DOMAIN graph.ops /\ index \in 1 .. Len(Ops) + 1

\* "assert(pn <= end_pn)" (case_label_to_firm)
RangeAsserted == "range" \notin graph.failed
=============================================================================
