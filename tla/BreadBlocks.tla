----------------------------- MODULE BreadBlocks -----------------------------
(***************************************************************************)
(* Blocks, loops and calls of a compiled BreadLang program: the calls that *)
(* the generated code makes to the runtime's scopes (BreadScopes), next to *)
(* the lexical scopes that the semantic analysis checked the program with  *)
(* (src/codegen/codegen_stmt.c, codegen_expr.c, codegen_semantic.c, and    *)
(* the function prologue in src/backends/llvm_backend_codegen.c).          *)
(*                                                                         *)
(* The semantic analysis knows for every name which declaration it means.  *)
(* The generated code finds a variable by its name at run time, except for *)
(* the locals of a function, which it keeps in one flat list of slots.     *)
(* An action is a statement that the semantic analysis accepts; all        *)
(* variables are of type Int.                                              *)
(***************************************************************************)
EXTENDS BreadScopes

CONSTANTS
  MaxBlocks,  \* bound: blocks, loops and calls open at a time
  MaxIter     \* bound: iterations of a for loop

ASSUME BlocksAssumption == MaxBlocks \in Nat /\ MaxBlocks < MaxScopes /\ MaxIter \in Nat

\* The variables are integers, and no scope can have too many of them.
ASSUME IntegersAssumption ==
  /\ Values \subseteq [type : {"Int"}, halves : Int]
  /\ Cardinality(Names) <= MaxVars

VARIABLES
  blocks,  \* what is open, outermost first; the first one is the program
  plain    \* so far the program has had no for loop and no call

allVars == <<scopes, aborted, blocks, plain>>

-----------------------------------------------------------------------------
(* What is open.  vars is the lexical scope of a block.  base is the depth *)
(* of the runtime's scopes to return to, or 0 for a block of a function,   *)
(* which pushes no scope.  slots are the locals of a call (CgFunction's    *)
(* scope).  A for loop has its variable and the iterations done and left.  *)

Block(kind, vars_, base) ==
  [kind |-> kind, vars |-> vars_, base |-> base, slots |-> <<>>,
   loopVar |-> NoValue, done |-> 0, left |-> 0]

Top == Last(blocks)

\* The block that the running function, or the program, consists of.
Frame      == Max({1} \cup {b \in DOMAIN blocks : blocks[b].kind = "call"})
InFunction == Frame > 1
Slots      == blocks[Frame].slots

\* The block that declares what n means here, or 0.
Declaring(n) ==
  LET own == {b \in Frame .. Len(blocks) : n \in DOMAIN blocks[b].vars}
  IN  IF own # {} THEN Max(own)
      ELSE IF n \in DOMAIN blocks[1].vars THEN 1 ELSE 0

Meaning(n) == blocks[Declaring(n)].vars[n]

\* What generated code reads for n.
Read(n) ==
  IF InFunction /\ n \in DOMAIN Slots THEN Slots[n]
  ELSE IF Visible(scopes, n) THEN Variable(scopes, n).value
  ELSE NoValue

Means(bs, b, n, v)  == [bs EXCEPT ![b].vars = Bind(@, n, v)]
InSlot(bs, n, v)    == [bs EXCEPT ![Frame].slots = Bind(@, n, v)]
Open(block)         == Len(blocks) <= MaxBlocks /\ blocks' = Append(blocks, block)

Iteration(i) == Number("Int", 2 * i)

\* declare_loop_variable and assign_loop_variable.
WithLoopVariable(sc, n) ==
  IF Visible(sc, n) THEN sc ELSE Declared(sc, n, "Int", FALSE, Iteration(0))

-----------------------------------------------------------------------------
(* Declarations and assignments.                                           *)

\* A declaration outside of functions.
Let(n, v) ==
  /\ ~aborted /\ ~InFunction
  /\ n \notin DOMAIN Top.vars
  /\ blocks' = Means(blocks, Len(blocks), n, v)
  /\ Declare(n, "Int", FALSE, v)

\* An assignment outside of functions.
Set(n, v) ==
  /\ ~aborted /\ ~InFunction
  /\ Declaring(n) # 0
  /\ blocks' = Means(blocks, Declaring(n), n, v)
  /\ Assign(n, v)

\* A declaration in a function makes a slot, and a variable of the runtime if
\* there is none of that name.
LocalLet(n, v) ==
  /\ ~aborted /\ InFunction
  /\ n \notin DOMAIN Top.vars
  /\ blocks' = InSlot(Means(blocks, Len(blocks), n, v), n, v)
  /\ Become(IF Visible(scopes, n) THEN scopes ELSE Declared(scopes, n, "Int", FALSE, v))

\* An assignment in a function goes to the slot of that name, which it makes if
\* there is none.
LocalSet(n, v) ==
  /\ ~aborted /\ InFunction
  /\ Declaring(n) # 0
  /\ blocks' = InSlot(Means(blocks, Declaring(n), n, v), n, v)
  /\ UNCHANGED <<scopes, aborted>>

\* A compound assignment (+=) in a function.
LocalUpdate(n, v) ==
  /\ ~aborted /\ InFunction
  /\ Declaring(n) # 0
  /\ IF n \in DOMAIN Slots
     THEN /\ blocks' = InSlot(Means(blocks, Declaring(n), n, v), n, v)
          /\ UNCHANGED <<scopes, aborted>>
     ELSE /\ blocks' = Means(blocks, Declaring(n), n, v)
          /\ Assign(n, v)

-----------------------------------------------------------------------------
(* Blocks, loops and calls.                                                *)

\* A branch of an if, or an iteration of a while loop.
Enter(kind) ==
  /\ ~aborted
  /\ Open(Block(kind, <<>>, IF InFunction THEN 0 ELSE Len(scopes)))
  /\ IF InFunction THEN UNCHANGED <<scopes, aborted>> ELSE Push

\* The first iteration of a for loop over 0 .. n - 1; a loop over nothing only
\* declares its variable.
EnterFor(n, iterations) ==
  LET declared == WithLoopVariable(scopes, n)
      inside   == IF InFunction THEN declared ELSE Pushed(declared)
      base     == IF InFunction THEN 0 ELSE Len(scopes)
      vars_    == Bind(<<>>, n, Iteration(0))
  IN  /\ ~aborted
      /\ IF iterations = 0
         THEN Become(declared) /\ UNCHANGED blocks
         ELSE /\ Open([Block("for", vars_, base) EXCEPT !.loopVar = n, !.left = iterations - 1])
              /\ Become(Assigned(inside, n, Iteration(0)))

\* Slip: the callee runs in a scope of its caller.
CallUnscoped ==
  /\ ~aborted
  /\ Open(Block("call", <<>>, Len(scopes)))
  /\ UNCHANGED <<scopes, aborted>>

\* A call evaluates no argument here; the callee's prologue pushes a scope.
Call ==
  /\ ~aborted
  /\ Open(Block("call", <<>>, Len(scopes)))
  /\ Push

\* The scopes once block b is left.
Without(b) == IF blocks[b].base = 0 THEN scopes ELSE PoppedTo(scopes, blocks[b].base)

\* Slip: the scopes of the iteration stay.
ContinueInside(b) ==
  LET loop == blocks[b]
      next == Iteration(loop.done + 1)
  IN  IF loop.left = 0
      THEN UNCHANGED <<scopes, aborted>> /\ blocks' = SubSeq(blocks, 1, b - 1)
      ELSE /\ Become(Assigned(IF loop.base = 0 THEN scopes ELSE Pushed(scopes), loop.loopVar, next))
           /\ blocks' = Append(SubSeq(blocks, 1, b - 1),
                               [loop EXCEPT !.vars = Bind(<<>>, loop.loopVar, next),
                                            !.done = @ + 1, !.left = @ - 1])

\* The end of an iteration of block b, from any block inside it: a for loop goes
\* on with its next iteration.
Continue(b) ==
  LET loop == blocks[b]
      next == Iteration(loop.done + 1)
      sc   == Without(b)
  IN  IF loop.left = 0
      THEN Become(sc) /\ blocks' = SubSeq(blocks, 1, b - 1)
      ELSE /\ Become(Assigned(IF loop.base = 0 THEN sc ELSE Pushed(sc), loop.loopVar, next))
           /\ blocks' = Append(SubSeq(blocks, 1, b - 1),
                               [loop EXCEPT !.vars = Bind(<<>>, loop.loopVar, next),
                                            !.done = @ + 1, !.left = @ - 1])

\* The last statement of the innermost block has been run.
EndBlock ==
  /\ ~aborted
  /\ Top.kind \in {"if", "while", "for"}
  /\ Continue(Len(blocks))

\* The innermost loop of the running function or program.
Loops == {b \in Frame .. Len(blocks) : blocks[b].kind \in {"while", "for"}}

ContinueStmt ==
  /\ ~aborted
  /\ Loops # {}
  /\ Continue(Max(Loops))

\* Slip: break jumps out of the loop without popping to its base depth.
BreakUnpopped ==
  /\ ~aborted
  /\ Loops # {}
  /\ blocks' = SubSeq(blocks, 1, Max(Loops) - 1)
  /\ UNCHANGED <<scopes, aborted>>

BreakStmt ==
  /\ ~aborted
  /\ Loops # {}
  /\ Become(Without(Max(Loops)))
  /\ blocks' = SubSeq(blocks, 1, Max(Loops) - 1)

\* return, from any depth of the function, or the end of its body.
ReturnStmt ==
  /\ ~aborted
  /\ InFunction
  /\ Become(Without(Frame))
  /\ blocks' = SubSeq(blocks, 1, Frame - 1)

-----------------------------------------------------------------------------
ProgramInit ==
  /\ Init
  /\ blocks = <<Block("program", <<>>, 0)>>
  /\ plain = TRUE

Assignments == \E n \in Names, v \in Values : Let(n, v) \/ Set(n, v)
Branches    == Enter("if") \/ Enter("while") \/ EndBlock \/ ContinueStmt \/ BreakStmt
ForLoops    == \E n \in Names, i \in 0 .. MaxIter : EnterFor(n, i)
Calls       == Call \/ ReturnStmt \/ \E n \in Names, v \in Values : LocalLet(n, v)
LocalWrites == \E n \in Names, v \in Values : LocalSet(n, v) \/ LocalUpdate(n, v)

PlainStatement == (Assignments \/ Branches) /\ UNCHANGED plain

Statement == PlainStatement \/ ((ForLoops \/ Calls \/ LocalWrites) /\ plain' = FALSE)

ProgramSpec == ProgramInit /\ [][Statement]_allVars

\* Programs without calls.
LoopSpec == ProgramInit /\ [][PlainStatement \/ (ForLoops /\ plain' = FALSE)]_allVars

-----------------------------------------------------------------------------
(* Properties.                                                             *)

\* The blocks that pushed a scope of the runtime are the scopes it has, and each
\* remembers the depth it was entered with: no break, continue or return, out
\* of however many blocks, leaves a scope behind or pops one too many.  A leak
\* here ends in "Scope stack overflow".
DepthBalanced ==
  LET pushed == {b \in DOMAIN blocks : blocks[b].base > 0}
  IN  ~aborted =>
        /\ Len(scopes) = 1 + Cardinality(pushed)
        /\ \A b \in pushed :
             blocks[b].base = Cardinality({c \in pushed : c <= b})

\* From its first statement to its return, a call neither declares a variable in a
\* scope of its caller nor takes one away, and its return leaves those scopes.
CallerKeepsScopes ==
  [][InFunction /\ ~aborted' =>
       LET base == blocks[Frame].base
       IN  /\ Len(scopes') >= base
           /\ \A s \in 1 .. base : DOMAIN scopes'[s] = DOMAIN scopes[s]
           /\ Len(blocks') < Frame => Len(scopes') = base]_allVars

\* Generated code reads for every name the variable that the semantic analysis
\* meant ("Variables are block-scoped", docs/variables-constants.md:32).
LexicalReads ==
  ~aborted => \A n \in Names : Declaring(n) # 0 => Read(n) = Meaning(n)

\* As long as a program has no for loop and calls no function, finding variables
\* by name in the runtime's scopes is lexical scoping, through any nesting of
\* branches and while loops and any way out of them; and what the semantic
\* analysis lets it declare, the runtime does not stop it for.
PlainProgramsAreLexical == plain => ~aborted /\ LexicalReads
=============================================================================
