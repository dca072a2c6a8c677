------------------------- MODULE BreadModules_proofs -------------------------
(***************************************************************************)
(* Proofs about BreadModules, for any files, however many modules there    *)
(* are and however they import each other.  What makes DependenciesFirst   *)
(* inductive is the shape of the stack: each call is the import that the   *)
(* call below it has stopped at.  What makes OneOwner inductive is that    *)
(* the rebuilt program and the freed statements are, between them, what    *)
(* the program and the included modules have been walked over.             *)
(***************************************************************************)
EXTENDS BreadModules, WellFoundedInduction, TLAPS

Frames == [of : Modules, at : Nat \ {0}]

StateOK ==
  /\ body \in [Modules -> Bodies \cup {Unreadable}]
  /\ program \in Programs
  /\ at \in 1 .. (Len(program) + 1)
  /\ returned \in BOOLEAN
  /\ stack \in Seq(Frames) /\ Len(stack) <= MaxDepth
  /\ preprocessed \subseteq loaded /\ included \subseteq preprocessed
  /\ loaded \subseteq {m \in Modules : body[m] # Unreadable}
  /\ phase \in {"running", "done", "failed", "crashed"}

NamesOK ==
  /\ vars \subseteq Names /\ funcs \subseteq Names
  /\ exports \in [Modules -> SUBSET (vars \cup funcs)]
  /\ default \in [Modules -> Names \cup {None}]
  /\ \A m \in Modules : default[m] \in exports[m] \cup {None}

\* The imports before place n of module m are in P.
Before(m, n, P) ==
  \A j \in 1 .. (n - 1) : IsImport(body[m][j]) => body[m][j].of \in P

\* The statement that frame f has come to is an import of m.
WaitsFor(f, m) ==
  /\ f.at <= Len(body[f.of])
  /\ IsImport(body[f.of][f.at])
  /\ body[f.of][f.at].of = m

\* Call i of stack st, where the modules in L are loaded and those in P are
\* preprocessed; unless it is the last, it waits for the next.
CallOK(st, i, L, P) ==
  /\ st[i].of \in L
  /\ st[i].at <= Len(body[st[i].of]) + 1
  /\ Before(st[i].of, st[i].at, P)
  /\ i < Len(st) => WaitsFor(st[i], st[i + 1].of)

CallsOK(st, L, P) == \A i \in 1 .. Len(st) : CallOK(st, i, L, P)

StackOK == CallsOK(stack, loaded, preprocessed)

\* The program stands at the import that the first call preprocesses, and still
\* stands there when it has returned.
ProgramOK ==
  /\ returned \/ stack # <<>> => at <= Len(program) /\ IsImport(program[at])
  /\ returned => stack = <<>> /\ program[at].of \in preprocessed
  /\ stack # <<>> => program[at].of = stack[1].of

PreprocessedOK == \A m \in preprocessed : Imports(m) \subseteq preprocessed

IInv == StateOK /\ NamesOK /\ StackOK /\ ProgramOK /\ PreprocessedOK

-----------------------------------------------------------------------------
(* Lemmas on files and stacks.                                             *)

\* A module in the registry has a list of statements, and imports are of modules.
LEMMA FileFacts ==
  ASSUME StateOK, NEW m \in loaded
  PROVE  /\ m \in Modules /\ body[m] # Unreadable
         /\ body[m] \in Seq(Statements)
  BY FilesAssumption DEF StateOK

LEMMA ProgramFacts ==
  ASSUME StateOK
  PROVE  program \in Seq(Statements)
  BY FilesAssumption DEF StateOK

LEMMA ImportFacts ==
  ASSUME NEW s \in Statements, IsImport(s)
  PROVE  s.of \in Modules
  BY DEF Statements, IsImport

\* What Advanced, Front and Append do to the calls of a stack.
LEMMA AdvancedFacts ==
  ASSUME NEW st \in Seq(Frames), st # <<>>
  PROVE  /\ Advanced(st) \in Seq(Frames)
         /\ Len(Advanced(st)) = Len(st)
         /\ \A i \in 1 .. (Len(st) - 1) : Advanced(st)[i] = st[i]
         /\ Advanced(st)[Len(st)].of = st[Len(st)].of
         /\ Advanced(st)[Len(st)].at = st[Len(st)].at + 1
  <1>1. Len(st) \in DOMAIN st /\ st[Len(st)] \in Frames
    OBVIOUS
  <1>2. [st[Len(st)] EXCEPT !.at = @ + 1] \in Frames
    BY <1>1 DEF Frames
  <1>3. [st[Len(st)] EXCEPT !.at = @ + 1].of = st[Len(st)].of
    BY <1>1 DEF Frames
  <1>4. [st[Len(st)] EXCEPT !.at = @ + 1].at = st[Len(st)].at + 1
    BY <1>1 DEF Frames
  <1>5. Advanced(st) = [st EXCEPT ![Len(st)] = [st[Len(st)] EXCEPT !.at = @ + 1]]
    BY DEF Advanced
  <1>6. Advanced(st) \in Seq(Frames) /\ Len(Advanced(st)) = Len(st)
    BY <1>1, <1>2, <1>5
  <1>7. Advanced(st)[Len(st)] = [st[Len(st)] EXCEPT !.at = @ + 1]
    BY <1>1, <1>5
  <1>8. \A i \in 1 .. (Len(st) - 1) : Advanced(st)[i] = st[i]
    BY <1>1, <1>5
  <1> QED
    BY <1>3, <1>4, <1>6, <1>7, <1>8

LEMMA FrontFacts ==
  ASSUME NEW st \in Seq(Frames), st # <<>>
  PROVE  /\ Front(st) \in Seq(Frames)
         /\ Len(Front(st)) = Len(st) - 1
         /\ \A i \in 1 .. (Len(st) - 1) : Front(st)[i] = st[i]
  <1>1. Len(st) \in Nat \ {0}
    OBVIOUS
  <1>2. Front(st) = [i \in 1 .. (Len(st) - 1) |-> st[i]]
    BY <1>1 DEF Front
  <1> QED
    BY <1>1, <1>2

LEMMA TopFacts ==
  ASSUME StateOK, stack # <<>>
  PROVE  /\ Len(stack) \in 1 .. MaxDepth
         /\ Top = stack[Len(stack)] /\ Top \in Frames
         /\ Top.of = stack[Len(stack)].of /\ Top.at = stack[Len(stack)].at
         /\ Top.at \in Nat \ {0}
  <1>1. stack \in Seq(Frames) /\ Len(stack) <= MaxDepth
    BY DEF StateOK
  <1>2. Len(stack) \in 1 .. MaxDepth
    BY <1>1, DepthAssumption
  <1>3. Top = stack[Len(stack)]
    BY DEF Top, Last
  <1>4. Top \in Frames
    BY <1>1, <1>2, <1>3
  <1> QED
    BY <1>2, <1>3, <1>4 DEF Frames

-----------------------------------------------------------------------------
(* What the steps do to a stack that is in order.                          *)

LEMMA CallsGrow ==
  ASSUME NEW st, NEW L, NEW P, CallsOK(st, L, P),
         NEW L2, NEW P2, L \subseteq L2, P \subseteq P2
  PROVE  CallsOK(st, L2, P2)
  BY DEF CallsOK, CallOK, Before

\* The last call steps over a statement; if it is an import, its module has been
\* preprocessed.
LEMMA CallsAdvance ==
  ASSUME NEW L, NEW P, NEW st \in Seq(Frames), st # <<>>, CallsOK(st, L, P),
         LET f == st[Len(st)]
         IN  /\ Len(body[f.of]) \in Nat
             /\ f.at <= Len(body[f.of])
             /\ IsImport(body[f.of][f.at]) => body[f.of][f.at].of \in P
  PROVE  CallsOK(Advanced(st), L, P)
  <1> DEFINE n == Len(st)
             a == Advanced(st)
  <1>1. n \in Nat \ {0} /\ st[n] \in Frames
    OBVIOUS
  <1>2. /\ Len(a) = n /\ \A i \in 1 .. (n - 1) : a[i] = st[i]
        /\ a[n].of = st[n].of /\ a[n].at = st[n].at + 1
    BY AdvancedFacts
  <1> HIDE DEF a
  <1>3. st[n].at \in Nat \ {0}
    BY <1>1 DEF Frames
  <1>4. CallOK(a, n, L, P)
    <2>1. st[n].of \in L /\ Before(st[n].of, st[n].at, P)
      BY <1>1 DEF CallsOK, CallOK
    <2>2. Before(st[n].of, st[n].at + 1, P)
      <3>1. SUFFICES ASSUME NEW j \in 1 .. st[n].at, IsImport(body[st[n].of][j])
                     PROVE  body[st[n].of][j].of \in P
        BY <1>3 DEF Before
      <3>2. CASE j = st[n].at
        BY <3>1, <3>2
      <3>3. CASE j # st[n].at
        <4>1. j \in 1 .. (st[n].at - 1)
          BY <1>3, <3>3
        <4> QED
          BY <2>1, <3>1, <4>1 DEF Before
      <3> QED
        BY <3>2, <3>3
    <2>3. st[n].at + 1 <= Len(body[st[n].of]) + 1
      BY <1>3
    <2> QED
      BY <1>1, <1>2, <2>1, <2>2, <2>3 DEF CallOK
  <1>5. ASSUME NEW i \in 1 .. (n - 1)
        PROVE  CallOK(a, i, L, P)
    <2>1. CallOK(st, i, L, P) /\ i < n
      BY <1>1 DEF CallsOK
    <2>2. a[i] = st[i] /\ a[i + 1].of = st[i + 1].of
      BY <1>1, <1>2
    <2> QED
      BY <1>2, <2>1, <2>2 DEF CallOK
  <1> QED
    BY <1>1, <1>2, <1>4, <1>5 DEF CallsOK, a

\* The last call returns; the one before it still waits for the module.
LEMMA CallsReturn ==
  ASSUME NEW L, NEW P, NEW st \in Seq(Frames), Len(st) > 1, CallsOK(st, L, P)
  PROVE  /\ CallsOK(Front(st), L, P)
         /\ WaitsFor(Front(st)[Len(st) - 1], st[Len(st)].of)
  <1> DEFINE n == Len(st)
             a == Front(st)
  <1>1. n \in Nat /\ n > 1
    OBVIOUS
  <1>2. Len(a) = n - 1 /\ \A i \in 1 .. (n - 1) : a[i] = st[i]
    BY FrontFacts
  <1> HIDE DEF a
  <1>3. ASSUME NEW i \in 1 .. (n - 1)
        PROVE  CallOK(a, i, L, P) /\ WaitsFor(a[i], st[i + 1].of)
    <2>1. CallOK(st, i, L, P) /\ i < n
      BY <1>1 DEF CallsOK
    <2>2. a[i] = st[i] /\ (i < n - 1 => a[i + 1] = st[i + 1])
      BY <1>1, <1>2
    <2> QED
      BY <1>2, <2>1, <2>2 DEF CallOK
  <1> QED
    BY <1>1, <1>2, <1>3 DEF CallsOK, a

\* A call of module m is added, for which the last call waits.
LEMMA CallsPush ==
  ASSUME NEW L, NEW P, NEW st \in Seq(Frames), NEW m \in L, CallsOK(st, L, P),
         Len(body[m]) \in Nat,
         st # <<>> => WaitsFor(st[Len(st)], m)
  PROVE  CallsOK(Append(st, [of |-> m, at |-> 1]), L, P)
  <1> DEFINE n == Len(st)
             a == Append(st, [of |-> m, at |-> 1])
  <1>1. n \in Nat /\ Len(a) = n + 1 /\ a[n + 1] = [of |-> m, at |-> 1]
    OBVIOUS
  <1>2. \A i \in 1 .. n : a[i] = st[i]
    OBVIOUS
  <1> HIDE DEF a
  <1>3. CallOK(a, n + 1, L, P)
    BY <1>1 DEF CallOK, Before
  <1>4. ASSUME NEW i \in 1 .. n
        PROVE  CallOK(a, i, L, P)
    <2>1. CallOK(st, i, L, P) /\ st # <<>>
      BY <1>1 DEF CallsOK
    <2>2. a[i] = st[i] /\ a[i + 1].of = IF i = n THEN m ELSE st[i + 1].of
      BY <1>1, <1>2
    <2> QED
      BY <1>1, <2>1, <2>2 DEF CallOK
  <1> QED
    BY <1>1, <1>3, <1>4 DEF CallsOK, a

\* The files do not change, so that what is said of the new stack may be read
\* with the old ones.
LEMMA StackNext ==
  ASSUME body' = body, CallsOK(stack', loaded', preprocessed')
  PROVE  StackOK'
  BY DEF StackOK, CallsOK, CallOK, Before, WaitsFor

-----------------------------------------------------------------------------
(* The initial states.                                                     *)

LEMMA InitOK ==
  ASSUME Init
  PROVE  IInv
<1>1. program \in Seq(Statements)
  BY FilesAssumption DEF Init
<1>2. StateOK
  <2>1. stack \in Seq(Frames) /\ Len(stack) <= MaxDepth
    BY DepthAssumption DEF Init
  <2>2. at \in 1 .. (Len(program) + 1)
    BY <1>1 DEF Init
  <2> QED
    BY <2>1, <2>2 DEF Init, StateOK
<1>3. NamesOK
  BY DEF Init, NamesOK
<1>4. StackOK /\ ProgramOK /\ PreprocessedOK
  BY DEF Init, StackOK, CallsOK, ProgramOK, PreprocessedOK
<1> QED
  BY <1>2, <1>3, <1>4 DEF IInv

-----------------------------------------------------------------------------
(* Each action keeps the invariant.                                        *)

\* A failing import or export changes nothing but phase.
LEMMA FailOK ==
  ASSUME IInv, Fail
  PROVE  IInv'
<1>1. /\ StateOK' /\ NamesOK'
  BY DEF IInv, StateOK, NamesOK, Fail, files, names, lists
<1>2. StackOK'
  BY DEF IInv, StackOK, CallsOK, CallOK, Before, WaitsFor, Fail, files
<1>3. ProgramOK' /\ PreprocessedOK'
  BY DEF IInv, ProgramOK, PreprocessedOK, Imports, Fail, files
<1> QED
  BY <1>1, <1>2, <1>3 DEF IInv

\* The first imports of the stack's calls do not change as long as the first call
\* stays, nor does what modules import.
LEMMA ProgramNext ==
  ASSUME ProgramOK, stack # <<>>, stack' # <<>>, stack'[1].of = stack[1].of,
         UNCHANGED <<program, at, returned>>
  PROVE  ProgramOK'
  BY DEF ProgramOK

LEMMA PreprocessedNext ==
  ASSUME PreprocessedOK, UNCHANGED <<body, preprocessed>>
  PROVE  PreprocessedOK'
  BY DEF PreprocessedOK, Imports

\* The last call steps over a statement that is no import, or is one of a module
\* that has been preprocessed.
LEMMA StepOver ==
  ASSUME IInv, AtStatement, UNCHANGED <<body, program, at, returned, preprocessed>>,
         stack' = Advanced(stack), loaded \subseteq loaded',
         IsImport(Statement) => Statement.of \in preprocessed
  PROVE  /\ StackOK' /\ ProgramOK' /\ PreprocessedOK'
         /\ stack' \in Seq(Frames) /\ Len(stack') = Len(stack)
<1>1. stack \in Seq(Frames) /\ stack # <<>> /\ StateOK
  BY DEF IInv, StateOK, AtStatement
<1>2. Len(stack) \in Nat \ {0}
  BY <1>1
<1>3. /\ stack' \in Seq(Frames) /\ Len(stack') = Len(stack)
      /\ \A i \in 1 .. (Len(stack) - 1) : stack'[i] = stack[i]
      /\ stack'[Len(stack)].of = stack[Len(stack)].of
  BY <1>1, AdvancedFacts
<1>4. CallsOK(stack, loaded, preprocessed)
  BY DEF IInv, StackOK
<1>5. Top = stack[Len(stack)]
  BY DEF Top, Last
<1>6. Top.of \in loaded
  BY <1>2, <1>4, <1>5 DEF CallsOK, CallOK
<1>7. Len(body[Top.of]) \in Nat
  BY <1>1, <1>6, FileFacts
<1>8. CallsOK(stack', loaded, preprocessed)
  BY <1>1, <1>4, <1>5, <1>7, CallsAdvance DEF AtStatement, Statement
<1>9. CallsOK(stack', loaded', preprocessed')
  BY <1>8, CallsGrow
<1>10. stack'[1].of = stack[1].of /\ stack' # <<>>
  BY <1>2, <1>3
<1> QED
  BY <1>1, <1>3, <1>9, <1>10, StackNext, ProgramNext, PreprocessedNext DEF IInv

\* What a call or its statement leaves alone of the state.
LEMMA StateNext ==
  ASSUME StateOK, UNCHANGED <<body, program, at, preprocessed, included>>,
         returned' \in BOOLEAN,
         loaded \subseteq loaded', loaded' \subseteq {m \in Modules : body[m] # Unreadable},
         stack' \in Seq(Frames), Len(stack') <= MaxDepth,
         phase' \in {"running", "done", "failed", "crashed"}
  PROVE  StateOK'
  BY DEF StateOK

\* The call in ImportInModule and ImportInProgram: it overflows the stack, or the
\* module's statements come next.
LEMMA CallOfImport ==
  ASSUME IInv, NEW m \in Modules, Call(m), Compiles(m), phase = "running",
         loaded' = loaded \cup {m},
         UNCHANGED <<body, program, at, returned, preprocessed, included>>,
         ~returned, at <= Len(program), IsImport(program[at]),
         stack = <<>> => program[at].of = m,
         stack # <<>> => WaitsFor(stack[Len(stack)], m)
  PROVE  StateOK' /\ StackOK' /\ ProgramOK' /\ PreprocessedOK'
<1> DEFINE added == Append(stack, [of |-> m, at |-> 1])
<1>1. StateOK /\ stack \in Seq(Frames) /\ Len(stack) \in Nat /\ Len(stack) <= MaxDepth
  BY DEF IInv, StateOK
<1>2. loaded' \subseteq {x \in Modules : body[x] # Unreadable}
  BY <1>1 DEF StateOK, Compiles
<1>3. CallsOK(stack, loaded', preprocessed')
  BY CallsGrow DEF IInv, StackOK
<1>4. PreprocessedOK'
  BY PreprocessedNext DEF IInv
<1>5. CASE phase' = "crashed" /\ stack' = stack
  <2>1. StateOK'
    BY <1>1, <1>2, <1>5, StateNext DEF StateOK
  <2>2. StackOK'
    BY <1>3, <1>5, StackNext
  <2>3. ProgramOK'
    BY <1>5 DEF IInv, ProgramOK
  <2> QED
    BY <1>4, <2>1, <2>2, <2>3
<1>6. CASE Len(stack) # MaxDepth /\ stack' = added /\ phase' = phase
  <2>1. [of |-> m, at |-> 1] \in Frames
    BY DEF Frames
  <2>2. /\ added \in Seq(Frames) /\ Len(added) = Len(stack) + 1
        /\ added[1] = IF stack = <<>> THEN [of |-> m, at |-> 1] ELSE stack[1]
    BY <1>1, <2>1
  <2>3. Len(added) <= MaxDepth
    BY <1>1, <1>6, <2>2, DepthAssumption
  <2>4. StateOK'
    BY <1>1, <1>2, <1>6, <2>2, <2>3, StateNext DEF StateOK
  <2>5. body[m] \in Seq(Statements)
    BY FilesAssumption, <1>1 DEF StateOK, Compiles
  <2>6. CallsOK(added, loaded', preprocessed')
    BY <1>1, <1>3, <2>5, CallsPush
  <2>7. StackOK'
    BY <1>6, <2>6, StackNext
  <2>8. ProgramOK'
    <3>1. added # <<>>
      BY <1>1
    <3>2. added[1].of = IF stack = <<>> THEN m ELSE stack[1].of
      BY <2>2
    <3> HIDE DEF added
    <3> QED
      BY <1>6, <3>1, <3>2 DEF IInv, ProgramOK
  <2> QED
    BY <1>4, <2>4, <2>7, <2>8
<1> QED
  BY <1>5, <1>6 DEF Call

\* The statement that the last call has come to.
LEMMA StatementFacts ==
  ASSUME IInv, AtStatement
  PROVE  Statement \in Statements /\ Top.of \in Modules
<1>1. StateOK /\ stack # <<>>
  BY DEF IInv, AtStatement
<1>2. /\ Len(stack) \in Nat \ {0} /\ Top = stack[Len(stack)]
      /\ Top.of = stack[Len(stack)].of /\ Top.at \in Nat \ {0}
  BY <1>1, TopFacts
<1>3. Top.of \in loaded
  BY <1>2 DEF IInv, StackOK, CallsOK, CallOK
<1>4. body[Top.of] \in Seq(Statements) /\ Top.of \in Modules
  BY <1>1, <1>3, FileFacts
<1>5. Top.at \in 1 .. Len(body[Top.of])
  BY <1>2, <1>4 DEF AtStatement
<1> QED
  BY <1>4, <1>5 DEF Statement

LEMMA ImportInModuleOK ==
  ASSUME IInv, ImportInModule
  PROVE  IInv'
<1> DEFINE s == Statement
<1>1. /\ StateOK /\ AtStatement /\ stack # <<>> /\ IsImport(s)
      /\ phase = "running"
  BY DEF ImportInModule, IInv, AtStatement
<1>2. /\ Len(stack) \in Nat \ {0} /\ Top = stack[Len(stack)]
      /\ Top.of = stack[Len(stack)].of /\ Top.at \in Nat \ {0}
  BY <1>1, TopFacts
<1>5. s.of \in Modules
  BY <1>1, StatementFacts, ImportFacts
<1>6. WaitsFor(stack[Len(stack)], s.of)
  BY <1>1, <1>2 DEF WaitsFor, AtStatement, Statement
<1>7. ~returned /\ at <= Len(program) /\ IsImport(program[at])
  BY <1>1 DEF IInv, ProgramOK
<1>8. CASE Fail
  BY <1>8, FailOK
<1>9. CASE ~Fail
  <2>1. /\ Compiles(s.of) /\ loaded' = loaded \cup {s.of}
        /\ UNCHANGED <<body, program, at, returned, preprocessed, included>>
        /\ UNCHANGED <<exports, default, vars, funcs>>
    BY <1>9 DEF ImportInModule, Load, files, lists
  <2>2. NamesOK'
    BY <2>1 DEF IInv, NamesOK
  <2>3. CASE Call(s.of)
    <3>1. StateOK' /\ StackOK' /\ ProgramOK' /\ PreprocessedOK'
      BY <1>1, <1>5, <1>6, <1>7, <2>1, <2>3, CallOfImport
    <3> QED
      BY <2>2, <3>1 DEF IInv
  <2>4. CASE s.of \in preprocessed /\ stack' = Advanced(stack) /\ phase' = phase
    <3>1. /\ StackOK' /\ ProgramOK' /\ PreprocessedOK'
          /\ stack' \in Seq(Frames) /\ Len(stack') = Len(stack)
      BY <1>1, <2>1, <2>4, StepOver
    <3>2. loaded' \subseteq {m \in Modules : body[m] # Unreadable}
      BY <1>1, <1>5, <2>1 DEF StateOK, Compiles
    <3>3. StateOK'
      BY <1>1, <2>1, <2>4, <3>1, <3>2, StateNext DEF StateOK
    <3> QED
      BY <2>2, <3>1, <3>3 DEF IInv
  <2> QED
    BY <1>9, <2>3, <2>4 DEF ImportInModule
<1> QED
  BY <1>8, <1>9

\* An export or a declaration steps over its statement, with names that are in
\* order.
LEMMA DeclaredOK ==
  ASSUME IInv, AtStatement, ~IsImport(Statement), NamesOK',
         stack' = Advanced(stack), phase' = phase,
         UNCHANGED <<body, program, at, returned, loaded, preprocessed, included>>
  PROVE  IInv'
<1>1. StateOK /\ Len(stack) <= MaxDepth
  BY DEF IInv, StateOK
<1>2. /\ StackOK' /\ ProgramOK' /\ PreprocessedOK'
      /\ stack' \in Seq(Frames) /\ Len(stack') = Len(stack)
  BY StepOver
<1>3. StateOK'
  BY <1>1, <1>2, StateNext DEF StateOK
<1> QED
  BY <1>2, <1>3 DEF IInv

LEMMA ExportInModuleOK ==
  ASSUME IInv, ExportInModule
  PROVE  IInv'
<1>1. AtStatement /\ Statement.kind = "export"
  BY DEF ExportInModule
<1>2. ~IsImport(Statement)
  BY <1>1 DEF IsImport
<1>3. Statement.name \in Names /\ Top.of \in Modules
  BY <1>1, StatementFacts DEF Statements
<1>4. CASE Fail
  BY <1>4, FailOK
<1>5. CASE ~Fail
  <2>1. /\ Statement.name \in vars \cup funcs
        /\ exports' = [exports EXCEPT ![Top.of] = @ \cup {Statement.name}]
        /\ default' = IF Statement.default THEN [default EXCEPT ![Top.of] = Statement.name]
                                           ELSE default
        /\ UNCHANGED <<vars, funcs>>
    BY <1>5 DEF ExportInModule, CanExport
  <2>2. NamesOK'
    <3>1. /\ exports' \in [Modules -> SUBSET (vars \cup funcs)]
          /\ default' \in [Modules -> Names \cup {None}]
      BY <1>3, <2>1 DEF IInv, NamesOK
    <3>2. ASSUME NEW m \in Modules
          PROVE  default'[m] \in exports'[m] \cup {None}
      BY <1>3, <2>1 DEF IInv, NamesOK
    <3> QED
      BY <2>1, <3>1, <3>2 DEF IInv, NamesOK
  <2>3. /\ stack' = Advanced(stack) /\ phase' = phase
        /\ UNCHANGED <<body, program, at, returned, loaded, preprocessed, included>>
    BY <1>5 DEF ExportInModule, files, lists
  <2> QED
    BY <1>1, <1>2, <2>2, <2>3, DeclaredOK
<1> QED
  BY <1>4, <1>5

LEMMA DeclareInModuleOK ==
  ASSUME IInv, DeclareInModule
  PROVE  IInv'
<1>1. AtStatement /\ Statement.kind \in {"func", "var", "other"}
  BY DEF DeclareInModule
<1>2. ~IsImport(Statement)
  BY <1>1 DEF IsImport
<1>3. CASE Fail
  BY <1>3, FailOK
<1>4. CASE ~Fail
  <2>1. /\ funcs' = IF Statement.kind = "func" THEN funcs \cup {Statement.name} ELSE funcs
        /\ vars'  = IF Statement.kind = "var" THEN vars \cup {Statement.name} ELSE vars
        /\ UNCHANGED <<exports, default>>
    BY <1>4 DEF DeclareInModule
  <2>2. Statement.kind \in {"func", "var"} => Statement.name \in Names
    BY <1>1, StatementFacts DEF Statements
  <2>3. /\ vars \subseteq vars' /\ vars' \subseteq Names
        /\ funcs \subseteq funcs' /\ funcs' \subseteq Names
    BY <2>1, <2>2 DEF IInv, NamesOK
  <2>4. NamesOK'
    BY <2>1, <2>3 DEF IInv, NamesOK
  <2>5. /\ stack' = Advanced(stack) /\ phase' = phase
        /\ UNCHANGED <<body, program, at, returned, loaded, preprocessed, included>>
    BY <1>4 DEF DeclareInModule, files, lists
  <2> QED
    BY <1>1, <1>2, <2>4, <2>5, DeclaredOK
<1> QED
  BY <1>3, <1>4

LEMMA ReturnOK ==
  ASSUME IInv, Return
  PROVE  IInv'
<1> DEFINE n == Len(stack)
           m == stack[n].of
           P == preprocessed \cup {m}
<1>1. /\ StateOK /\ stack # <<>> /\ stack \in Seq(Frames)
      /\ UNCHANGED <<body, program, at, loaded, included, phase>>
  BY DEF IInv, StateOK, Return, files, lists
<1>2. /\ n \in Nat \ {0} /\ n <= MaxDepth /\ Top.of = m /\ Top.at = stack[n].at
      /\ stack[n].at \in Nat \ {0}
  BY <1>1, TopFacts, DepthAssumption
<1>3. CallOK(stack, n, loaded, preprocessed) /\ CallsOK(stack, loaded, preprocessed)
  BY <1>2 DEF IInv, StackOK, CallsOK
<1>4. m \in loaded
  BY <1>3 DEF CallOK
<1>5. m \in Modules /\ body[m] # Unreadable /\ body[m] \in Seq(Statements)
  BY <1>1, <1>4, FileFacts
<1>6. stack[n].at = Len(body[m]) + 1
  BY <1>2, <1>3, <1>5 DEF CallOK, Return
<1>7. Imports(m) \subseteq preprocessed
  <2>1. Before(m, Len(body[m]) + 1, preprocessed)
    BY <1>3, <1>6 DEF CallOK
  <2>2. \A j \in 1 .. Len(body[m]) : IsImport(body[m][j]) => body[m][j].of \in preprocessed
    BY <1>5, <2>1 DEF Before
  <2> QED
    BY <1>5, <2>2 DEF Imports, ToSet
<1>8. preprocessed' = P
  BY <1>2 DEF Return
<1>9. PreprocessedOK'
  BY <1>1, <1>7, <1>8 DEF IInv, PreprocessedOK, Imports
<1>10. NamesOK'
  BY DEF IInv, NamesOK, Return, names
<1>11. at <= Len(program) /\ IsImport(program[at]) /\ program[at].of = stack[1].of
  BY <1>1 DEF IInv, ProgramOK
<1>12. CASE n = 1
  <2>1. stack' = <<>> /\ returned' = TRUE
    BY <1>12 DEF Return
  <2>2. StateOK'
    BY <1>1, <1>4, <1>8, <2>1, DepthAssumption DEF StateOK
  <2>3. StackOK'
    BY <2>1 DEF StackOK, CallsOK
  <2>4. ProgramOK'
    BY <1>1, <1>8, <1>11, <1>12, <2>1 DEF ProgramOK
  <2> QED
    BY <1>9, <1>10, <2>2, <2>3, <2>4 DEF IInv
<1>13. CASE n # 1
  <2> DEFINE below == Front(stack)
  <2>1. stack' = Advanced(below) /\ returned' = FALSE
    BY <1>13 DEF Return
  <2>2. /\ below \in Seq(Frames) /\ Len(below) = n - 1
        /\ \A i \in 1 .. (n - 1) : below[i] = stack[i]
    BY <1>1, FrontFacts
  <2>3. CallsOK(below, loaded, preprocessed) /\ WaitsFor(below[n - 1], m)
    <3>1. \A k \in Nat \ {0} : k # 1 => k > 1
      OBVIOUS
    <3>2. Len(stack) > 1
      BY <1>2, <1>13, <3>1
    <3> QED
      BY <1>1, <1>3, <3>2, CallsReturn
  <2> HIDE DEF below
  <2>4. CallsOK(below, loaded, P)
    BY <2>3, CallsGrow
  <2>5. Len(body[below[n - 1].of]) \in Nat
    <3>1. below[n - 1].of \in loaded
      BY <1>2, <1>13, <2>2, <2>3 DEF CallsOK, CallOK
    <3> QED
      BY <1>1, <3>1, FileFacts
  <2>6. below # <<>>
    BY <1>2, <1>13, <2>2
  <2>7. CallsOK(Advanced(below), loaded, P)
    BY <2>2, <2>3, <2>4, <2>5, <2>6, CallsAdvance DEF WaitsFor
  <2>8. StackOK'
    BY <1>1, <1>8, <2>1, <2>7, StackNext
  <2>9. /\ stack' \in Seq(Frames) /\ Len(stack') = n - 1
        /\ stack'[1].of = stack[1].of
    <3>1. /\ stack' \in Seq(Frames) /\ Len(stack') = Len(below)
          /\ \A i \in 1 .. (Len(below) - 1) : stack'[i] = below[i]
          /\ stack'[Len(below)].of = below[Len(below)].of
      BY <2>1, <2>2, <2>6, AdvancedFacts
    <3>2. stack'[1].of = below[1].of
      BY <1>2, <1>13, <2>2, <3>1
    <3>3. below[1] = stack[1]
      BY <1>2, <1>13, <2>2
    <3> QED
      BY <2>2, <3>1, <3>2, <3>3
  <2>10. StateOK'
    <3>1. stack' \in Seq(Frames) /\ Len(stack') <= MaxDepth
      BY <1>2, <2>9, DepthAssumption
    <3> QED
      BY <1>1, <1>4, <1>8, <2>1, <3>1 DEF StateOK
  <2>11. ProgramOK'
    BY <1>1, <1>2, <1>11, <1>13, <2>1, <2>9 DEF ProgramOK
  <2> QED
    BY <1>9, <1>10, <2>8, <2>10, <2>11 DEF IInv
<1> QED
  BY <1>12, <1>13

LEMMA ImportInProgramOK ==
  ASSUME IInv, ImportInProgram
  PROVE  IInv'
<1> DEFINE m == program[at].of
<1>1. /\ StateOK /\ phase = "running" /\ stack = <<>> /\ at <= Len(program)
      /\ ~returned /\ IsImport(program[at])
  BY DEF IInv, ImportInProgram, AtProgram
<1>2. m \in Modules
  <2>1. program[at] \in Statements
    BY <1>1, ProgramFacts DEF StateOK
  <2> QED
    BY <1>1, <2>1, ImportFacts
<1>3. CASE Fail
  BY <1>3, FailOK
<1>4. CASE ~Fail
  <2>1. /\ Compiles(m) /\ loaded' = loaded \cup {m}
        /\ UNCHANGED <<body, program, at, preprocessed, included>>
        /\ UNCHANGED names
    BY <1>4 DEF ImportInProgram, Load, files, lists
  <2>2. NamesOK'
    BY <2>1 DEF IInv, NamesOK, names
  <2>3. CASE Call(m) /\ UNCHANGED returned
    <3>1. StateOK' /\ StackOK' /\ ProgramOK' /\ PreprocessedOK'
      BY <1>1, <1>2, <2>1, <2>3, CallOfImport
    <3> QED
      BY <2>2, <3>1 DEF IInv
  <2>4. CASE m \in preprocessed /\ returned' = TRUE /\ UNCHANGED <<stack, phase>>
    <3>1. loaded' \subseteq {x \in Modules : body[x] # Unreadable}
      BY <1>1, <1>2, <2>1 DEF StateOK, Compiles
    <3>2. StateOK'
      BY <1>1, <2>1, <2>4, <3>1, StateNext DEF StateOK
    <3>3. StackOK'
      BY <1>1, <2>4 DEF StackOK, CallsOK
    <3>4. ProgramOK'
      BY <1>1, <2>1, <2>4 DEF ProgramOK
    <3>5. PreprocessedOK'
      BY <2>1, PreprocessedNext DEF IInv
    <3> QED
      BY <2>2, <3>2, <3>3, <3>4, <3>5 DEF IInv
  <2> QED
    BY <1>4, <2>3, <2>4 DEF ImportInProgram
<1> QED
  BY <1>3, <1>4

\* The program goes on to its next statement.
LEMMA ProgramAdvanceOK ==
  ASSUME IInv, stack = <<>>, at <= Len(program), at' = at + 1, returned' = FALSE,
         included' \subseteq preprocessed,
         UNCHANGED <<body, program, stack, loaded, preprocessed, names, phase>>
  PROVE  IInv'
<1>1. StateOK' /\ NamesOK'
  <2>1. at' \in 1 .. (Len(program) + 1)
    BY ProgramFacts DEF IInv, StateOK
  <2> QED
    BY <2>1 DEF IInv, StateOK, NamesOK, names
<1>2. StackOK' /\ ProgramOK'
  BY DEF StackOK, CallsOK, ProgramOK
<1>3. PreprocessedOK'
  BY PreprocessedNext DEF IInv
<1> QED
  BY <1>1, <1>2, <1>3 DEF IInv

LEMMA IncludeOK ==
  ASSUME IInv, Include
  PROVE  IInv'
<1>1. /\ stack = <<>> /\ at <= Len(program)
      /\ program[at].of \in preprocessed /\ included \subseteq preprocessed
  BY DEF IInv, StateOK, ProgramOK, Include, AtProgram
<1>2. CASE Fail
  BY <1>2, FailOK
<1>3. CASE ~Fail
  BY <1>1, <1>3, ProgramAdvanceOK DEF Include, files
<1> QED
  BY <1>2, <1>3

LEMMA MoveOK ==
  ASSUME IInv, Move
  PROVE  IInv'
<1>1. stack = <<>> /\ at <= Len(program) /\ included \subseteq preprocessed
  BY DEF IInv, StateOK, Move, AtProgram
<1>2. ~returned
  BY DEF IInv, ProgramOK, Move
<1> QED
  BY <1>1, <1>2, ProgramAdvanceOK DEF Move, files, IInv, StateOK

LEMMA FinishOK ==
  ASSUME IInv, Finish
  PROVE  IInv'
<1>1. StateOK' /\ NamesOK'
  BY DEF IInv, StateOK, NamesOK, Finish, files, names, lists
<1>2. StackOK' /\ ProgramOK' /\ PreprocessedOK'
  BY DEF IInv, StackOK, CallsOK, ProgramOK, PreprocessedOK, Imports, Finish, files
<1> QED
  BY <1>1, <1>2 DEF IInv

LEMMA StutterOK ==
  ASSUME IInv, UNCHANGED all
  PROVE  IInv'
<1>1. StateOK' /\ NamesOK'
  BY DEF IInv, StateOK, NamesOK, all, files, names, lists
<1>2. StackOK' /\ ProgramOK' /\ PreprocessedOK'
  BY DEF IInv, StackOK, CallsOK, CallOK, Before, WaitsFor, ProgramOK, PreprocessedOK,
         Imports, all, files
<1> QED
  BY <1>1, <1>2 DEF IInv

LEMMA StepOK == IInv /\ [Next]_all => IInv'
<1> SUFFICES ASSUME IInv, [Next]_all
             PROVE  IInv'
  OBVIOUS
<1> QED
  BY ImportInModuleOK, ExportInModuleOK, DeclareInModuleOK, ReturnOK, ImportInProgramOK,
     IncludeOK, MoveOK, FinishOK, StutterOK DEF Next

-----------------------------------------------------------------------------
(* The statements of a list that are compiled.                             *)

LEMMA LeastIs ==
  ASSUME NEW S \in SUBSET Nat, S # {}
  PROVE  \E m \in S : \A s \in S : m <= s
<1> DEFINE Less == {ss \in Nat \X Nat : ss[1] < ss[2]}
<1>1. IsWellFoundedOn(Less, Nat)
  BY NatLessThanWellFounded DEF OpToRel
<1>2. PICK m \in S : \A s \in S : ~ (<<s, m>> \in Less)
  <2> HIDE DEF Less
  <2> QED
    BY <1>1, WFMin
<1>3. ASSUME NEW s \in S
      PROVE  m <= s
  <2>1. ~ (s < m) /\ s \in Nat /\ m \in Nat
    BY <1>2
  <2> QED
    BY <2>1
<1> QED
  BY <1>3

\* The places of those among the first n statements, for each n.
Gathers(g, owner, list, n) ==
  g = [k \in 0 .. n |->
         IF k = 0 THEN <<>>
         ELSE IF Kept(list[k]) THEN Append(g[k - 1], <<owner, k>>) ELSE g[k - 1]]

LEMMA GathersFurther ==
  ASSUME NEW owner, NEW list, NEW n \in Nat, NEW g, Gathers(g, owner, list, n)
  PROVE  \E f : Gathers(f, owner, list, n + 1)
<1> DEFINE Next1(s, k) == IF Kept(list[k]) THEN Append(s, <<owner, k>>) ELSE s
           f == [k \in 0 .. (n + 1) |-> IF k = n + 1 THEN Next1(g[n], k) ELSE g[k]]
           h == [k \in 0 .. (n + 1) |-> IF k = 0 THEN <<>> ELSE Next1(f[k - 1], k)]
<1>1. \A k \in 0 .. n : g[k] = IF k = 0 THEN <<>> ELSE Next1(g[k - 1], k)
  BY DEF Gathers
<1>2. f[0] = <<>>
  <2>1. g[0] = <<>>
    <3> HIDE DEF Next1
    <3>1. 0 \in 0 .. n
      OBVIOUS
    <3> QED
      BY <1>1, <3>1
  <2>2. f[0] = g[0]
    OBVIOUS
  <2> HIDE DEF f
  <2> QED
    BY <2>1, <2>2
<1>3. \A k \in 1 .. (n + 1) : f[k - 1] = g[k - 1]
  OBVIOUS
<1>4. \A k \in 1 .. (n + 1) : f[k] = Next1(g[k - 1], k)
  <2> HIDE DEF Next1
  <2>1. \A k \in 1 .. n : f[k] = g[k] /\ g[k] = Next1(g[k - 1], k)
    BY <1>1
  <2>2. f[n + 1] = Next1(g[n], n + 1)
    OBVIOUS
  <2> HIDE DEF f
  <2> QED
    BY <2>1, <2>2
<1>5. \A k \in 0 .. (n + 1) : f[k] = h[k]
  <2> HIDE DEF Next1, f
  <2> QED
    BY <1>2, <1>3, <1>4
<1>6. f = h
  <2>1. DOMAIN f = DOMAIN h /\ f = [k \in DOMAIN f |-> f[k]] /\ h = [k \in DOMAIN h |-> h[k]] /\ DOMAIN f = 0 .. (n + 1)
    OBVIOUS
  <2> HIDE DEF f, h
  <2> QED
    BY <1>5, <2>1
<1>7. Gathers(f, owner, list, n + 1)
  BY <1>6 DEF Gathers
<1> QED
  BY <1>7

LEMMA GathersExists ==
  ASSUME NEW owner, NEW list, NEW n \in Nat
  PROVE  \E g : Gathers(g, owner, list, n)
<1> DEFINE Bad == {k \in Nat : ~ \E g : Gathers(g, owner, list, k)}
<1>1. ASSUME Bad # {}
      PROVE  FALSE
  <2>1. PICK b \in Bad : \A x \in Bad : b <= x
    <3>1. Bad \in SUBSET Nat
      OBVIOUS
    <3> HIDE DEF Bad
    <3> QED
      BY <1>1, <3>1, LeastIs
  <2>2. b \in Nat /\ ~ \E g : Gathers(g, owner, list, b)
    BY <2>1
  <2>3. CASE b = 0
    <3> DEFINE g == [k \in 0 .. 0 |-> <<>>]
    <3>1. Gathers(g, owner, list, 0)
      BY DEF Gathers
    <3> QED
      BY <2>2, <2>3, <3>1
  <2>4. CASE b # 0
    <3>1. b - 1 \in Nat /\ ~ (b <= b - 1) /\ (b - 1) + 1 = b
      BY <2>2, <2>4
    <3>2. b - 1 \notin Bad
      BY <2>1, <3>1
    <3>3. PICK g : Gathers(g, owner, list, b - 1)
      BY <3>1, <3>2
    <3> QED
      BY <2>2, <3>1, <3>3, GathersFurther
  <2> QED
    BY <2>3, <2>4
<1> QED
  BY <1>1

\* Sequence s has the places of the compiled ones among n statements, each once.
HasKept(s, owner, list, n) ==
  /\ s \in Seq({owner} \X (1 .. n))
  /\ \A i \in 1 .. n : Kept(list[i]) <=> \E k \in 1 .. Len(s) : s[k] = <<owner, i>>
  /\ \A j, k \in 1 .. Len(s) : s[j] = s[k] => j = k

LEMMA KeptNext ==
  ASSUME NEW owner, NEW list, NEW n \in Nat, NEW s, HasKept(s, owner, list, n)
  PROVE  HasKept(IF Kept(list[n + 1]) THEN Append(s, <<owner, n + 1>>) ELSE s, owner, list, n + 1)
<1>1. s \in Seq({owner} \X (1 .. n)) /\ Len(s) \in Nat
  BY DEF HasKept
<1>2. \A k \in 1 .. Len(s) : s[k] \in {owner} \X (1 .. n)
  BY <1>1
<1>3. {owner} \X (1 .. n) \subseteq {owner} \X (1 .. (n + 1))
  OBVIOUS
<1>4. s \in Seq({owner} \X (1 .. (n + 1)))
  BY <1>1, <1>2, <1>3
<1>5. \A k \in 1 .. Len(s) : s[k] # <<owner, n + 1>>
  BY <1>2
<1>6. CASE ~Kept(list[n + 1])
  <2>1. ASSUME NEW i \in 1 .. (n + 1)
        PROVE  Kept(list[i]) <=> \E k \in 1 .. Len(s) : s[k] = <<owner, i>>
    <3>1. CASE i = n + 1
      BY <1>5, <1>6, <3>1
    <3>2. CASE i # n + 1
      <4>1. i \in 1 .. n
        BY <3>2
      <4> QED
        BY <4>1 DEF HasKept
    <3> QED
      BY <3>1, <3>2
  <2> QED
    BY <1>4, <1>6, <2>1 DEF HasKept
<1>7. CASE Kept(list[n + 1])
  <2> DEFINE p == <<owner, n + 1>>
             u == Append(s, p)
  <2>1. p \in {owner} \X (1 .. (n + 1))
    OBVIOUS
  <2>2. \A k \in 1 .. Len(s) : s[k] # p
    BY <1>5
  <2>3. \A i \in 1 .. n : p # <<owner, i>>
    OBVIOUS
  <2> HIDE DEF p
  <2>4. /\ u \in Seq({owner} \X (1 .. (n + 1))) /\ Len(u) = Len(s) + 1 /\ u[Len(s) + 1] = p
        /\ \A k \in 1 .. Len(s) : u[k] = s[k]
    BY <1>1, <1>4, <2>1
  <2> HIDE DEF u
  <2>5. \A k \in 1 .. Len(u) : k \in 1 .. Len(s) \/ (k = Len(s) + 1 /\ u[k] = p)
    BY <1>1, <2>4
  <2>6. \A k \in 1 .. Len(s) : k \in 1 .. Len(u) /\ u[k] = s[k]
    BY <1>1, <2>4
  <2>7. ASSUME NEW i \in 1 .. (n + 1)
        PROVE  Kept(list[i]) <=> \E k \in 1 .. Len(u) : u[k] = <<owner, i>>
    <3>1. CASE i = n + 1
      <4>1. u[Len(s) + 1] = <<owner, i>> /\ Len(s) + 1 \in 1 .. Len(u)
        BY <1>1, <2>4, <3>1 DEF p
      <4> QED
        BY <1>7, <3>1, <4>1
    <3>2. CASE i # n + 1
      <4>1. i \in 1 .. n
        BY <3>2
      <4>2. (\E k \in 1 .. Len(u) : u[k] = <<owner, i>>) <=> (\E k \in 1 .. Len(s) : s[k] = <<owner, i>>)
        BY <2>3, <2>5, <2>6, <4>1
      <4> QED
        BY <4>1, <4>2 DEF HasKept
    <3> QED
      BY <3>1, <3>2
  <2>8. \A j, k \in 1 .. Len(u) : u[j] = u[k] => j = k
    <3>1. \A j, k \in 1 .. Len(s) : s[j] = s[k] => j = k
      BY DEF HasKept
    <3> QED
      BY <2>2, <2>5, <2>6, <3>1
  <2>9. HasKept(u, owner, list, n + 1)
    BY <2>4, <2>7, <2>8 DEF HasKept
  <2> QED
    BY <1>7, <2>9 DEF u, p
<1> QED
  BY <1>6, <1>7

\* splice_module_into_program moves every statement that is neither an import nor
\* an export, once.
LEMMA KeptPlacesOK ==
  ASSUME NEW owner, NEW list, Len(list) \in Nat
  PROVE  HasKept(KeptPlaces(owner, list), owner, list, Len(list))
<1> DEFINE len == Len(list)
           g   == CHOOSE g : Gathers(g, owner, list, len)
           Bad == {k \in 0 .. len : ~HasKept(g[k], owner, list, k)}
<1>1. Gathers(g, owner, list, len)
  BY GathersExists
<1>2. KeptPlaces(owner, list) = g[len]
  BY DEF KeptPlaces, Gathers
<1> HIDE DEF g
<1>3. \A k \in 0 .. len : g[k] = IF k = 0 THEN <<>>
                                 ELSE IF Kept(list[k]) THEN Append(g[k - 1], <<owner, k>>) ELSE g[k - 1]
  BY <1>1 DEF Gathers
<1>4. len \in Nat
  OBVIOUS
<1> HIDE DEF len
<1>5. ASSUME Bad # {}
      PROVE  FALSE
  <2>1. PICK b \in Bad : \A x \in Bad : b <= x
    <3>1. Bad \in SUBSET Nat
      BY <1>4
    <3> HIDE DEF Bad
    <3> QED
      BY <1>5, <3>1, LeastIs
  <2>2. b \in 0 .. len /\ ~HasKept(g[b], owner, list, b)
    BY <2>1
  <2>3. CASE b = 0
    <3>1. g[b] = <<>>
      BY <1>3, <1>4, <2>3
    <3> QED
      BY <2>2, <2>3, <3>1 DEF HasKept
  <2>4. CASE b # 0
    <3>1. b - 1 \in 0 .. len /\ ~ (b <= b - 1) /\ (b - 1) + 1 = b /\ b - 1 \in Nat
      BY <1>4, <2>2, <2>4
    <3>2. HasKept(g[b - 1], owner, list, b - 1)
      BY <2>1, <3>1
    <3>3. HasKept(IF Kept(list[b]) THEN Append(g[b - 1], <<owner, b>>) ELSE g[b - 1], owner, list, b)
      BY <3>1, <3>2, KeptNext
    <3> QED
      BY <1>3, <2>2, <2>4, <3>3
  <2> QED
    BY <2>3, <2>4
<1>6. HasKept(g[len], owner, list, len)
  BY <1>4, <1>5
<1> QED
  BY <1>2, <1>6 DEF len

-----------------------------------------------------------------------------
(* Who owns a statement.                                                   *)

Parsed  == ({Main} \cup Modules) \X Nat
Aliases == {"alias"} \X Modules \X (Names \cup {None})
Items   == Parsed \cup Aliases

\* No statement is in a list twice.
Distinct(o) == \A i, j \in 1 .. Len(o) : o[i] = o[j] /\ o[i][1] # "alias" => i = j

\* The statements that have left their list when the program is at place n and
\* the modules in I are included.
Gone(n, I) == ({Main} \X (1 .. (n - 1))) \cup UNION {{m} \X (1 .. Len(body[m])) : m \in I}

\* Every alias in list o stands after the statements of its module.
AliasesAfter(o) ==
  \A i \in 1 .. Len(o) :
    o[i][1] = "alias" => \A p \in ToSet(Spliced(o[i][2])) : \E k \in 1 .. i : o[k] = p

\* The statements in list o and the freed ones f are, between them and each once,
\* those that have left their list.
ListsAre(o, f, n, I) ==
  /\ o \in Seq(Items) /\ f \in SUBSET Parsed
  /\ ToSet(o) \cap f = {} /\ Distinct(o)
  /\ (ToSet(o) \cup f) \cap Parsed = Gone(n, I)
  /\ \A m \in I : ToSet(Spliced(m)) \subseteq ToSet(o)
  /\ AliasesAfter(o)

ListsOK == ListsAre(out, freed, at, included)

\* The files do not change.
LEMMA ListsNext ==
  ASSUME body' = body, ListsAre(out', freed', at', included')
  PROVE  ListsOK'
  BY DEF ListsOK, ListsAre, Gone, AliasesAfter, Spliced

LEMMA ItemsAre ==
  /\ \A p \in Parsed : p[1] # "alias"
  /\ \A p \in Aliases : p[1] = "alias"
<1>1. Main # "alias" /\ "alias" \notin Modules
  BY OwnersAssumption DEF Main
<1> QED
  BY <1>1 DEF Parsed, Aliases

\* A list grows.
LEMMA ConcatIs ==
  ASSUME NEW Q, NEW s \in Seq(Q), NEW t \in Seq(Q)
  PROVE  /\ s \o t \in Seq(Q) /\ Len(s \o t) = Len(s) + Len(t) /\ Len(s) \in Nat /\ Len(t) \in Nat
         /\ \A i \in 1 .. Len(s) : (s \o t)[i] = s[i]
         /\ \A i \in 1 .. Len(t) : (s \o t)[Len(s) + i] = t[i]
         /\ \A i \in 1 .. Len(s \o t) :
              \/ i \in 1 .. Len(s) /\ (s \o t)[i] = s[i]
              \/ i - Len(s) \in 1 .. Len(t) /\ (s \o t)[i] = t[i - Len(s)]
  OBVIOUS

LEMMA ConcatSet ==
  ASSUME NEW Q, NEW s \in Seq(Q), NEW t \in Seq(Q)
  PROVE  ToSet(s \o t) = ToSet(s) \cup ToSet(t)
<1> DEFINE u == s \o t
<1>1. /\ u \in Seq(Q) /\ Len(u) = Len(s) + Len(t) /\ Len(s) \in Nat /\ Len(t) \in Nat
      /\ \A i \in 1 .. Len(s) : u[i] = s[i]
      /\ \A i \in 1 .. Len(t) : u[Len(s) + i] = t[i]
      /\ \A i \in 1 .. Len(u) :
           \/ i \in 1 .. Len(s) /\ u[i] = s[i]
           \/ i - Len(s) \in 1 .. Len(t) /\ u[i] = t[i - Len(s)]
  BY ConcatIs
<1> HIDE DEF u
<1>2. DOMAIN u = 1 .. Len(u) /\ DOMAIN s = 1 .. Len(s) /\ DOMAIN t = 1 .. Len(t)
  BY <1>1
<1>3. ToSet(u) \subseteq ToSet(s) \cup ToSet(t)
  BY <1>1, <1>2 DEF ToSet
<1>4. ToSet(s) \subseteq ToSet(u)
  <2>1. \A i \in 1 .. Len(s) : i \in 1 .. Len(u)
    BY <1>1
  <2> QED
    BY <1>1, <1>2, <2>1 DEF ToSet
<1>5. ToSet(t) \subseteq ToSet(u)
  <2>1. ASSUME NEW i \in 1 .. Len(t)
        PROVE  t[i] \in ToSet(u)
    <3>1. Len(s) + i \in 1 .. Len(u) /\ u[Len(s) + i] = t[i]
      BY <1>1
    <3> QED
      BY <1>2, <3>1 DEF ToSet
  <2> QED
    BY <1>2, <2>1 DEF ToSet
<1> QED
  BY <1>3, <1>4, <1>5 DEF u

\* Statements that are in neither list yet may be added to them.
LEMMA Settles ==
  ASSUME NEW o \in Seq(Items), NEW f \in SUBSET Parsed, ToSet(o) \cap f = {}, Distinct(o),
         NEW add \in Seq(Items), NEW gone \in SUBSET Parsed, ToSet(add) \cap gone = {}, Distinct(add),
         \A p \in Parsed : p \in ToSet(add) \cup gone => p \notin ToSet(o) \cup f
  PROVE  /\ o \o add \in Seq(Items) /\ f \cup gone \in SUBSET Parsed
         /\ ToSet(o \o add) \cap (f \cup gone) = {}
         /\ Distinct(o \o add)
<1> DEFINE u == o \o add
<1>1. /\ u \in Seq(Items) /\ Len(u) = Len(o) + Len(add) /\ Len(o) \in Nat /\ Len(add) \in Nat
      /\ \A i \in 1 .. Len(u) :
           \/ i \in 1 .. Len(o) /\ u[i] = o[i]
           \/ i - Len(o) \in 1 .. Len(add) /\ u[i] = add[i - Len(o)]
  BY ConcatIs
<1>2. ToSet(u) = ToSet(o) \cup ToSet(add)
  BY ConcatSet
<1> HIDE DEF u
<1>3. ToSet(u) \cap (f \cup gone) = {}
  BY <1>2
<1>4. \A i \in 1 .. Len(o) : o[i] \in ToSet(o)
  BY DEF ToSet
<1>5. \A i \in 1 .. Len(add) : add[i] \in ToSet(add) /\ (add[i][1] # "alias" => add[i] \in Parsed)
  <2>1. \A i \in 1 .. Len(add) : add[i] \in ToSet(add) /\ add[i] \in Items
    BY DEF ToSet
  <2> QED
    BY <2>1, ItemsAre DEF Items
<1>6. ASSUME NEW i \in 1 .. Len(u), NEW j \in 1 .. Len(u), u[i] = u[j], u[i][1] # "alias"
      PROVE  i = j
  <2>1. CASE i \in 1 .. Len(o) /\ u[i] = o[i] /\ j \in 1 .. Len(o) /\ u[j] = o[j]
    BY <1>6, <2>1 DEF Distinct
  <2>2. CASE i - Len(o) \in 1 .. Len(add) /\ u[i] = add[i - Len(o)] /\ j - Len(o) \in 1 .. Len(add) /\ u[j] = add[j - Len(o)]
    <3>1. i - Len(o) = j - Len(o)
      BY <1>6, <2>2 DEF Distinct
    <3> QED
      BY <1>1, <3>1
  <2>3. CASE i \in 1 .. Len(o) /\ u[i] = o[i] /\ j - Len(o) \in 1 .. Len(add) /\ u[j] = add[j - Len(o)]
    BY <1>4, <1>5, <1>6, <2>3
  <2>4. CASE i - Len(o) \in 1 .. Len(add) /\ u[i] = add[i - Len(o)] /\ j \in 1 .. Len(o) /\ u[j] = o[j]
    BY <1>4, <1>5, <1>6, <2>4
  <2> QED
    BY <1>1, <2>1, <2>2, <2>3, <2>4
<1>7. Distinct(u)
  BY <1>6 DEF Distinct
<1> QED
  BY <1>1, <1>3, <1>7 DEF u

\* An alias may be added once its module's statements are there.
LEMMA AliasesGrow ==
  ASSUME NEW o \in Seq(Items), NEW add \in Seq(Items), AliasesAfter(o),
         \A i \in 1 .. Len(add) : add[i][1] = "alias" => ToSet(Spliced(add[i][2])) \subseteq ToSet(o)
  PROVE  AliasesAfter(o \o add)
<1> DEFINE u == o \o add
<1>1. /\ Len(u) = Len(o) + Len(add) /\ Len(o) \in Nat /\ Len(add) \in Nat
      /\ \A i \in 1 .. Len(o) : u[i] = o[i]
      /\ \A i \in 1 .. Len(u) :
           \/ i \in 1 .. Len(o) /\ u[i] = o[i]
           \/ i - Len(o) \in 1 .. Len(add) /\ u[i] = add[i - Len(o)]
  BY ConcatIs
<1> HIDE DEF u
<1>2. ASSUME NEW i \in 1 .. Len(u), u[i][1] = "alias", NEW p \in ToSet(Spliced(u[i][2]))
      PROVE  \E k \in 1 .. i : u[k] = p
  <2>1. CASE i \in 1 .. Len(o) /\ u[i] = o[i]
    <3>1. PICK k \in 1 .. i : o[k] = p
      BY <1>2, <2>1 DEF AliasesAfter
    <3>2. u[k] = o[k]
      BY <1>1, <2>1
    <3> QED
      BY <3>1, <3>2
  <2>2. CASE i - Len(o) \in 1 .. Len(add) /\ u[i] = add[i - Len(o)]
    <3>1. p \in ToSet(o)
      BY <1>2, <2>2
    <3>2. PICK k \in 1 .. Len(o) : o[k] = p
      BY <3>1 DEF ToSet
    <3>3. k \in 1 .. i /\ u[k] = p
      BY <1>1, <2>2, <3>2
    <3> QED
      BY <3>3
  <2> QED
    BY <1>1, <2>1, <2>2
<1>3. AliasesAfter(u)
  BY <1>2 DEF AliasesAfter
<1> QED
  BY <1>3 DEF u

\* The statements of a module: those that are spliced in, and those that are freed.
LEMMA SplicedOK ==
  ASSUME StateOK, NEW m \in loaded
  PROVE  /\ m \in Modules
         /\ Spliced(m) \in Seq(Items) /\ Distinct(Spliced(m))
         /\ ToSet(Places(m, body[m])) = {m} \X (1 .. Len(body[m]))
         /\ ToSet(Spliced(m)) \cap Dropped(m) = {}
         /\ ToSet(Spliced(m)) \cup Dropped(m) = {m} \X (1 .. Len(body[m]))
         /\ {m} \X (1 .. Len(body[m])) \subseteq Parsed
<1> DEFINE n == Len(body[m])
           s == Spliced(m)
           all_ == {m} \X (1 .. n)
<1>1. m \in Modules /\ body[m] \in Seq(Statements) /\ n \in Nat /\ DOMAIN body[m] = 1 .. n
  BY FileFacts
<1>2. HasKept(s, m, body[m], n)
  BY <1>1, KeptPlacesOK DEF Spliced
<1> HIDE DEF s
<1>3. s \in Seq(all_) /\ \A j, k \in 1 .. Len(s) : s[j] = s[k] => j = k
  BY <1>2 DEF HasKept
<1>4. all_ \subseteq Parsed /\ Parsed \subseteq Items
  BY <1>1 DEF Parsed, Items
<1>5. ToSet(Places(m, body[m])) = all_
  <2>1. ToSet(Places(m, body[m])) = {<<m, i>> : i \in 1 .. n}
    BY <1>1 DEF Places, ToSet
  <2> QED
    BY <2>1
<1> HIDE DEF all_, n
<1>6. s \in Seq(Items)
  BY <1>3, <1>4
<1>7. ToSet(s) \subseteq all_
  BY <1>3 DEF ToSet
<1>8. Distinct(s)
  BY <1>3 DEF Distinct
<1>9. Dropped(m) = all_ \ ToSet(s)
  BY <1>5 DEF Dropped, s
<1> QED
  BY <1>1, <1>4, <1>5, <1>6, <1>7, <1>8, <1>9 DEF s, all_, n

\* No statement has left its list when the program starts.
LEMMA ListsInit ==
  ASSUME Init
  PROVE  ListsOK
<1>1. out = <<>> /\ freed = {} /\ at = 1 /\ included = {}
  BY DEF Init
<1>2. out \in Seq(Items) /\ Len(out) = 0 /\ ToSet(out) = {}
  BY <1>1 DEF ToSet
<1>3. Gone(1, {}) = {}
  BY DEF Gone
<1> QED
  BY <1>1, <1>2, <1>3 DEF ListsOK, ListsAre, Distinct, AliasesAfter

\* The statement that the program has come to is still in its list.
LEMMA StatementHere ==
  ASSUME StateOK, at <= Len(program)
  PROVE  /\ <<Main, at>> \in Parsed /\ <<Main, at>> \notin Gone(at, included)
         /\ Gone(at + 1, included) = Gone(at, included) \cup {<<Main, at>>}
         /\ \A m \in Modules :
              /\ m \notin included => ({m} \X (1 .. Len(body[m]))) \cap Gone(at + 1, included) = {}
              /\ Gone(at + 1, included \cup {m}) = Gone(at + 1, included) \cup ({m} \X (1 .. Len(body[m])))
<1>1. at \in Nat \ {0} /\ Main \notin Modules /\ included \subseteq Modules
  BY ProgramFacts, OwnersAssumption DEF StateOK
<1>2. <<Main, at>> \in Parsed
  BY <1>1 DEF Parsed
<1>3. <<Main, at>> \notin Gone(at, included)
  BY <1>1 DEF Gone
<1>4. Gone(at + 1, included) = Gone(at, included) \cup {<<Main, at>>}
  <2>1. 1 .. ((at + 1) - 1) = (1 .. (at - 1)) \cup {at}
    BY <1>1
  <2> QED
    BY <2>1 DEF Gone
<1>5. ASSUME NEW m \in Modules
      PROVE  /\ m \notin included => ({m} \X (1 .. Len(body[m]))) \cap Gone(at + 1, included) = {}
             /\ Gone(at + 1, included \cup {m}) = Gone(at + 1, included) \cup ({m} \X (1 .. Len(body[m])))
  BY <1>1 DEF Gone
<1> QED
  BY <1>2, <1>3, <1>4, <1>5

\* What is added to the list or freed leaves the list it was parsed into.
LEMMA ListsGrow ==
  ASSUME NEW o, NEW f, NEW n, NEW I, ListsAre(o, f, n, I), NEW n2, NEW I2,
         NEW add \in Seq(Items), NEW gone \in SUBSET Parsed, ToSet(add) \cap gone = {}, Distinct(add),
         \A p \in Parsed : p \in ToSet(add) \cup gone => p \notin Gone(n, I),
         Gone(n2, I2) = Gone(n, I) \cup ((ToSet(add) \cup gone) \cap Parsed),
         \A m \in I2 : m \in I \/ ToSet(Spliced(m)) \subseteq ToSet(o) \cup ToSet(add),
         \A i \in 1 .. Len(add) : add[i][1] = "alias" => ToSet(Spliced(add[i][2])) \subseteq ToSet(o)
  PROVE  ListsAre(o \o add, f \cup gone, n2, I2)
<1>1. /\ o \in Seq(Items) /\ f \in SUBSET Parsed /\ ToSet(o) \cap f = {} /\ Distinct(o)
      /\ AliasesAfter(o)
  BY DEF ListsAre
<1>2. (ToSet(o) \cup f) \cap Parsed = Gone(n, I) /\ \A m \in I : ToSet(Spliced(m)) \subseteq ToSet(o)
  BY DEF ListsAre
<1>3. \A p \in Parsed : p \in ToSet(add) \cup gone => p \notin ToSet(o) \cup f
  BY <1>2
<1>4. /\ o \o add \in Seq(Items) /\ f \cup gone \in SUBSET Parsed
      /\ ToSet(o \o add) \cap (f \cup gone) = {} /\ Distinct(o \o add)
  BY <1>1, <1>3, Settles
<1>5. AliasesAfter(o \o add)
  BY <1>1, AliasesGrow
<1>6. ToSet(o \o add) = ToSet(o) \cup ToSet(add)
  BY <1>1, ConcatSet
<1>7. (ToSet(o \o add) \cup (f \cup gone)) \cap Parsed = Gone(n2, I2)
  BY <1>2, <1>6
<1>8. \A m \in I2 : ToSet(Spliced(m)) \subseteq ToSet(o \o add)
  BY <1>2, <1>6
<1> QED
  BY <1>4, <1>5, <1>7, <1>8 DEF ListsAre

\* A statement of the program is moved or freed.
LEMMA MoveLists ==
  ASSUME IInv, ListsOK, Move
  PROVE  ListsOK'
<1> DEFINE p    == <<Main, at>>
           add  == IF Kept(program[at]) THEN <<p>> ELSE <<>>
           gone == IF Kept(program[at]) THEN {} ELSE {p}
<1>1. StateOK /\ at <= Len(program) /\ at' = at + 1 /\ body' = body /\ included' = included
  BY DEF IInv, Move, AtProgram, files
<1>2. ListsAre(out, freed, at, included)
  BY DEF ListsOK
<1>3. p \in Parsed /\ p \notin Gone(at, included) /\ Gone(at + 1, included) = Gone(at, included) \cup {p}
  BY <1>1, StatementHere
<1>4. out \in Seq(Items) /\ p \in Items
  BY <1>2, <1>3 DEF ListsAre, Items
<1> HIDE DEF p
<1>5. /\ add \in Seq(Items) /\ gone \in SUBSET Parsed /\ ToSet(add) \cup gone = {p}
      /\ ToSet(add) \cap gone = {} /\ Distinct(add)
      /\ \A i \in 1 .. Len(add) : add[i] = p
  BY <1>3, <1>4 DEF ToSet, Distinct
<1>6. out' = out \o add /\ freed' = freed \cup gone
  <2>1. CASE Kept(program[at])
    <3>1. out' = Append(out, p) /\ freed' = freed
      BY <2>1 DEF Move, p
    <3>2. Append(out, p) = out \o <<p>>
      BY <1>4
    <3> QED
      BY <2>1, <3>1, <3>2
  <2>2. CASE ~Kept(program[at])
    <3>1. out' = out /\ freed' = freed \cup {p}
      BY <2>2 DEF Move, p
    <3>2. out \o <<>> = out
      BY <1>4
    <3> QED
      BY <2>2, <3>1, <3>2
  <2> QED
    BY <2>1, <2>2
<1> HIDE DEF add, gone
<1>7. \A q \in Parsed : q \in ToSet(add) \cup gone => q \notin Gone(at, included)
  BY <1>3, <1>5
<1>8. Gone(at + 1, included) = Gone(at, included) \cup ((ToSet(add) \cup gone) \cap Parsed)
  BY <1>3, <1>5
<1>9. \A i \in 1 .. Len(add) : add[i][1] # "alias"
  BY <1>3, <1>5, ItemsAre
<1>10. ListsAre(out \o add, freed \cup gone, at + 1, included)
  BY <1>2, <1>5, <1>7, <1>8, <1>9, ListsGrow
<1>11. ListsAre(out', freed', at', included')
  BY <1>1, <1>6, <1>10
<1> QED
  BY <1>1, <1>11, ListsNext

\* The alias of an import stands for its module, and is the only thing added.
LEMMA AliasOK ==
  ASSUME IInv, NEW s \in Statements, IsImport(s)
  PROVE  /\ AliasFor(s) \in Seq(Aliases) /\ Distinct(AliasFor(s))
         /\ \A i \in 1 .. Len(AliasFor(s)) : AliasFor(s)[i][1] = "alias" /\ AliasFor(s)[i][2] = s.of
<1> DEFINE p == AliasDecl(s.of, default[s.of])
<1>1. s.of \in Modules /\ default[s.of] \in Names \cup {None}
  BY ImportFacts DEF IInv, NamesOK
<1>2. p \in Aliases /\ p[1] = "alias" /\ p[2] = s.of
  BY <1>1 DEF AliasDecl, Aliases
<1>3. AliasFor(s) = <<p>> \/ AliasFor(s) = <<>>
  BY DEF AliasFor
<1> HIDE DEF p
<1>4. CASE AliasFor(s) = <<p>>
  BY <1>2, <1>4 DEF Distinct
<1>5. CASE AliasFor(s) = <<>>
  BY <1>5 DEF Distinct
<1> QED
  BY <1>3, <1>4, <1>5

\* The statements of a module leave their list when it is spliced in for the first
\* time, and its import is freed.
LEMMA SpliceLists ==
  ASSUME IInv, ListsOK, at <= Len(program), NEW m \in preprocessed,
         NEW moved, moved = IF m \notin included THEN Spliced(m) ELSE <<>>,
         NEW gone, gone = IF m \notin included THEN Dropped(m) ELSE {}
  PROVE  /\ ListsAre(out \o moved, freed \cup ({<<Main, at>>} \cup gone), at + 1, included \cup {m})
         /\ out \in Seq(Items) /\ moved \in Seq(Items)
<1> DEFINE p   == <<Main, at>>
           its == {m} \X (1 .. Len(body[m]))
           all_ == {p} \cup gone
           past == Gone(at, included)
           next == Gone(at + 1, included \cup {m})
<1>1. StateOK /\ m \in loaded
  BY DEF IInv, StateOK
<1>2. ListsAre(out, freed, at, included)
  BY DEF ListsOK
<1>3. out \in Seq(Items)
  BY <1>2 DEF ListsAre
<1>4. /\ m \in Modules /\ Spliced(m) \in Seq(Items) /\ Distinct(Spliced(m))
      /\ ToSet(Spliced(m)) \cap Dropped(m) = {} /\ ToSet(Spliced(m)) \cup Dropped(m) = its
      /\ its \subseteq Parsed
  BY <1>1, SplicedOK
<1>5. /\ p \in Parsed /\ p \notin past /\ Gone(at + 1, included) = past \cup {p}
      /\ m \notin included => its \cap Gone(at + 1, included) = {}
      /\ next = Gone(at + 1, included) \cup its
  BY <1>1, <1>4, StatementHere
<1>6. m \in included => its \subseteq past
  BY DEF Gone
<1> HIDE DEF p, its, past, next
<1>7. moved \in Seq(Items) /\ Distinct(moved)
  <2>1. <<>> \in Seq(Items) /\ Distinct(<<>>)
    BY DEF Distinct
  <2> QED
    BY <1>4, <2>1
<1>8. /\ ToSet(moved) \cap gone = {} /\ ToSet(moved) \cup gone \subseteq its
      /\ m \notin included => ToSet(moved) \cup gone = its
      /\ m \in included => ToSet(moved) = {} /\ gone = {}
  <2>1. ToSet(<<>>) = {}
    BY DEF ToSet
  <2> QED
    BY <1>4, <2>1
<1>9. p \notin its
  BY <1>4, OwnersAssumption DEF p, its, Main
<1>10. all_ \in SUBSET Parsed /\ ToSet(moved) \cap all_ = {}
  BY <1>4, <1>5, <1>8, <1>9
<1>11. \A q \in Parsed : q \in ToSet(moved) \cup all_ => q \notin past
  BY <1>5, <1>8
<1>12. next = past \cup ((ToSet(moved) \cup all_) \cap Parsed)
  <2>1. CASE m \in included
    <3>1. ToSet(moved) \cup all_ = {p} /\ its \subseteq past
      BY <1>6, <1>8, <2>1
    <3> QED
      BY <1>5, <3>1
  <2>2. CASE m \notin included
    <3>1. (ToSet(moved) \cup all_) \cap Parsed = its \cup {p}
      BY <1>4, <1>5, <1>8, <2>2
    <3> QED
      BY <1>5, <3>1
  <2> QED
    BY <2>1, <2>2
<1>13. \A x \in included \cup {m} : x \in included \/ ToSet(Spliced(x)) \subseteq ToSet(out) \cup ToSet(moved)
  OBVIOUS
<1>14. \A i \in 1 .. Len(moved) : moved[i][1] # "alias"
  <2>1. \A i \in 1 .. Len(moved) : moved[i] \in ToSet(moved)
    BY <1>7 DEF ToSet
  <2> QED
    BY <1>4, <1>8, <2>1, ItemsAre
<1> HIDE DEF all_
<1>15. ListsAre(out \o moved, freed \cup all_, at + 1, included \cup {m})
  BY <1>2, <1>7, <1>10, <1>11, <1>12, <1>13, <1>14, ListsGrow DEF past, next
<1> QED
  BY <1>3, <1>7, <1>15 DEF all_, p

\* An import of the program: the module is spliced in, and its alias declared.
LEMMA IncludeLists ==
  ASSUME IInv, ListsOK, Include, ~Fail
  PROVE  ListsOK'
<1> DEFINE s     == program[at]
           m     == s.of
           moved == IF m \notin included THEN Spliced(m) ELSE <<>>
           gone  == IF m \notin included THEN Dropped(m) ELSE {}
           add   == AliasFor(s)
           o     == out \o moved
           f     == freed \cup ({<<Main, at>>} \cup gone)
<1>1. /\ at <= Len(program) /\ IsImport(s) /\ m \in preprocessed /\ at \in 1 .. Len(program)
      /\ s \in Statements
  <2>1. at <= Len(program) /\ IsImport(s) /\ m \in preprocessed /\ program \in Seq(Statements)
        /\ at \in 1 .. (Len(program) + 1)
    BY ProgramFacts DEF IInv, ProgramOK, Include, AtProgram, StateOK
  <2>2. at \in 1 .. Len(program)
    BY <2>1
  <2> QED
    BY <2>1, <2>2
<1>2. /\ out' = (out \o moved) \o add /\ freed' = freed \cup {<<Main, at>>} \cup gone
      /\ included' = included \cup {m} /\ at' = at + 1 /\ body' = body
  <2>1. /\ out' = out \o moved \o add /\ freed' = freed \cup {<<Main, at>>} \cup gone
        /\ included' = included \cup {m} /\ at' = at + 1 /\ body' = body
    BY DEF Include, files
  <2> QED
    BY <2>1
<1>3. /\ add \in Seq(Aliases) /\ Distinct(add)
      /\ \A i \in 1 .. Len(add) : add[i][1] = "alias" /\ add[i][2] = m
  BY <1>1, AliasOK
<1> HIDE DEF m, add
<1>4. ListsAre(o, f, at + 1, included \cup {m})
  BY <1>1, SpliceLists
<1> HIDE DEF moved, gone, o, f
<1>5. freed' = f \cup {} /\ out' = o \o add
  BY <1>2 DEF o, f
<1>6. add \in Seq(Items) /\ {} \in SUBSET Parsed
  BY <1>3 DEF Items
<1>7. ToSet(add) \subseteq Aliases
  BY <1>3 DEF ToSet
<1>8. ToSet(add) \cap Parsed = {}
  BY <1>7, ItemsAre
<1>9. ToSet(Spliced(m)) \subseteq ToSet(o)
  BY <1>4 DEF ListsAre
<1> DEFINE none == {}
           I    == included \cup {m}
           n    == at + 1
<1> HIDE DEF I, n
<1>10. /\ ListsAre(o, f, n, I) /\ none \in SUBSET Parsed /\ ToSet(add) \cap none = {}
       /\ \A q \in Parsed : q \in ToSet(add) \cup none => q \notin Gone(n, I)
       /\ Gone(n, I) = Gone(n, I) \cup ((ToSet(add) \cup none) \cap Parsed)
       /\ \A x \in I : x \in I \/ ToSet(Spliced(x)) \subseteq ToSet(o) \cup ToSet(add)
       /\ \A i \in 1 .. Len(add) : add[i][1] = "alias" => ToSet(Spliced(add[i][2])) \subseteq ToSet(o)
  BY <1>3, <1>4, <1>8, <1>9 DEF I, n
<1> HIDE DEF none
<1>11. ListsAre(o \o add, f \cup none, n, I)
  BY <1>3, <1>6, <1>10, ListsGrow
<1>12. ListsAre(out', freed', at', included')
  BY <1>2, <1>5, <1>11 DEF none, I, n
<1> QED
  BY <1>2, <1>12, ListsNext

\* No other step touches the lists.
LEMMA ListsStep ==
  ASSUME IInv, ListsOK, [Next]_all
  PROVE  ListsOK'
<1>1. CASE UNCHANGED <<body, out, freed, at, included>>
  <2>1. ListsAre(out', freed', at', included')
    BY <1>1 DEF ListsOK
  <2> QED
    BY <1>1, <2>1, ListsNext
<1>2. CASE Fail \/ Finish \/ UNCHANGED all
  BY <1>1, <1>2 DEF Fail, Finish, all, files, lists
<1>3. CASE ImportInModule \/ ExportInModule \/ DeclareInModule \/ Return
  BY <1>1, <1>2, <1>3 DEF ImportInModule, ExportInModule, DeclareInModule, Return, files, lists
<1>4. CASE ImportInProgram
  BY <1>1, <1>2, <1>4 DEF ImportInProgram, files, lists
<1>5. CASE Include
  BY <1>2, <1>5, IncludeLists
<1>6. CASE Move
  BY <1>6, MoveLists
<1> QED
  BY <1>2, <1>3, <1>4, <1>5, <1>6 DEF Next

-----------------------------------------------------------------------------
(* Theorems.                                                               *)

\* The inductive invariant holds of every behaviour.
THEOREM Inductive == Spec => []IInv
<1>1. Init => IInv
  BY InitOK
<1>2. IInv /\ [Next]_all => IInv'
  BY StepOK
<1> QED
  BY <1>1, <1>2, PTL DEF Spec

\* Every variable keeps its type: in particular, a module is preprocessed only
\* after it was loaded, included only after it was preprocessed, and exports only
\* what some module has declared.
THEOREM TypeCorrect == Spec => []TypeOK
<1>1. IInv => TypeOK
  <2> SUFFICES ASSUME IInv
               PROVE  TypeOK
    OBVIOUS
  <2>1. /\ stack \in Seq(Frames) /\ StateOK
    BY DEF IInv, StateOK
  <2>2. ASSUME NEW f \in ToSet(stack)
        PROVE  f.of \in loaded /\ f.at \in 1 .. (Len(body[f.of]) + 1)
    <3>1. PICK i \in 1 .. Len(stack) : f = stack[i]
      BY <2>1, <2>2 DEF ToSet
    <3>2. f.of \in loaded /\ f.at <= Len(body[f.of]) + 1
      BY <3>1 DEF IInv, StackOK, CallsOK, CallOK
    <3>3. f.at \in Nat \ {0}
      <4>1. f \in Frames
        BY <2>1, <3>1
      <4> QED
        BY <4>1 DEF Frames
    <3>4. Len(body[f.of]) \in Nat
      BY <2>1, <3>2, FileFacts
    <3> QED
      BY <3>2, <3>3, <3>4
  <2> QED
    BY <2>2 DEF IInv, StateOK, NamesOK, TypeOK
<1> QED
  BY <1>1, Inductive, PTL

\* However modules import each other, none is taken for preprocessed before
\* everything it imports has been, and a call never steps over an import whose
\* module has not been (module_preprocess_module, module_preprocess_stmt_list).
THEOREM DependenciesFirstHolds == Spec => []DependenciesFirst
<1>1. IInv => DependenciesFirst
  <2> SUFFICES ASSUME IInv
               PROVE  DependenciesFirst
    OBVIOUS
  <2>1. stack \in Seq(Frames)
    BY DEF IInv, StateOK
  <2>2. ASSUME NEW f \in ToSet(stack), NEW j \in 1 .. (f.at - 1), IsImport(body[f.of][j])
        PROVE  body[f.of][j].of \in preprocessed
    <3>1. PICK i \in 1 .. Len(stack) : f = stack[i]
      BY <2>1 DEF ToSet
    <3> QED
      BY <2>2, <3>1 DEF IInv, StackOK, CallsOK, CallOK, Before
  <2> QED
    BY <2>2 DEF IInv, PreprocessedOK, DependenciesFirst
<1> QED
  BY <1>1, Inductive, PTL

\* The lists of the program and of the modules stay in order.
THEOREM ListsHold == Spec => []ListsOK
<1>1. Init => ListsOK
  BY ListsInit
<1>2. IInv /\ ListsOK /\ [Next]_all => ListsOK'
  BY ListsStep
<1> QED
  BY <1>1, <1>2, Inductive, PTL DEF Spec

\* Whatever is imported, in which order and how often, every statement stays in its
\* list, moves to the program once, or is freed once (splice_module_into_program,
\* module_preprocess_program).
THEOREM OneOwnerHolds == Spec => []OneOwner
<1>1. IInv /\ ListsOK => OneOwner
  <2> SUFFICES ASSUME IInv, ListsOK
               PROVE  OneOwner
    OBVIOUS
  <2> DEFINE Settled(owner) == {p \in ToSet(out) \cup freed : p[1] = owner}
  <2>1. /\ out \in Seq(Items) /\ freed \in SUBSET Parsed /\ ToSet(out) \cap freed = {} /\ Distinct(out)
        /\ (ToSet(out) \cup freed) \cap Parsed = Gone(at, included)
    BY DEF ListsOK, ListsAre
  <2>2. StateOK /\ at \in Nat /\ included \subseteq Modules /\ included \subseteq loaded
    BY ProgramFacts DEF IInv, StateOK
  <2>3. \A i, j \in DOMAIN out : out[i] = out[j] /\ out[i][1] # "alias" => i = j
    <3>1. DOMAIN out = 1 .. Len(out)
      BY <2>1
    <3> QED
      BY <2>1, <3>1 DEF Distinct
  <2>4. \A p \in ToSet(out) \cup freed : p \in Parsed \/ p[1] = "alias"
    <3>1. ToSet(out) \subseteq Items
      BY <2>1 DEF ToSet
    <3> QED
      BY <2>1, <3>1, ItemsAre DEF Items
  <2>5. ASSUME NEW owner \in {Main} \cup Modules
        PROVE  Settled(owner) = {p \in Gone(at, included) : p[1] = owner}
    <3>1. owner # "alias"
      BY OwnersAssumption DEF Main
    <3> QED
      BY <2>1, <2>4, <3>1
  <2>6. Settled(Main) = {<<Main, i>> : i \in 1 .. (at - 1)}
    <3>1. Main \notin included
      BY <2>2, OwnersAssumption
    <3>2. {p \in Gone(at, included) : p[1] = Main} = {<<Main, i>> : i \in 1 .. (at - 1)}
      BY <3>1 DEF Gone
    <3> QED
      BY <2>5, <3>2
  <2>7. ASSUME NEW m \in Modules
        PROVE  Settled(m) = IF m \in included THEN ToSet(Places(m, body[m])) ELSE {}
    <3>1. m # Main
      BY OwnersAssumption
    <3>2. CASE m \in included
      <4>1. ToSet(Places(m, body[m])) = {m} \X (1 .. Len(body[m]))
        BY <2>2, <3>2, SplicedOK
      <4>2. {p \in Gone(at, included) : p[1] = m} = {m} \X (1 .. Len(body[m]))
        BY <3>1, <3>2 DEF Gone
      <4> QED
        BY <2>5, <3>2, <4>1, <4>2
    <3>3. CASE m \notin included
      <4>1. {p \in Gone(at, included) : p[1] = m} = {}
        BY <3>1, <3>3 DEF Gone
      <4> QED
        BY <2>5, <3>3, <4>1
    <3> QED
      BY <3>2, <3>3
  <2> QED
    BY <2>1, <2>3, <2>6, <2>7 DEF OneOwner
<1> QED
  BY <1>1, Inductive, ListsHold, PTL

\* An alias never stands before the statements of its module, so the default export
\* it reads has been set (module_preprocess_program).
THEOREM AliasAfterModuleHolds == Spec => []AliasAfterModule
<1>1. ListsOK => AliasAfterModule
  <2> SUFFICES ASSUME ListsOK, NEW i \in DOMAIN out, out[i][1] = "alias",
                      NEW p \in ToSet(Spliced(out[i][2]))
               PROVE  p \in ToSet(SubSeq(out, 1, i))
    BY DEF AliasAfterModule
  <2>1. out \in Seq(Items) /\ i \in 1 .. Len(out) /\ Len(out) \in Nat
    BY DEF ListsOK, ListsAre
  <2>2. PICK k \in 1 .. i : out[k] = p
    BY <2>1 DEF ListsOK, ListsAre, AliasesAfter
  <2>3. SubSeq(out, 1, i) \in Seq(Items) /\ Len(SubSeq(out, 1, i)) = i /\ SubSeq(out, 1, i)[k] = out[k]
    BY <2>1
  <2>4. k \in DOMAIN SubSeq(out, 1, i)
    BY <2>1, <2>3
  <2> QED
    BY <2>2, <2>3, <2>4 DEF ToSet
<1> QED
  BY <1>1, ListsHold, PTL
=============================================================================
