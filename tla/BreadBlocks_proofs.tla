-------------------------- MODULE BreadBlocks_proofs --------------------------
(***************************************************************************)
(* Proofs about BreadBlocks, for any names, values, nesting and number of  *)
(* iterations: what is open agrees with the runtime's scopes, and in       *)
(* programs of branches and while loops it is lexical scoping.             *)
(***************************************************************************)
EXTENDS BreadBlocks, BreadScopes_proofs, SequenceTheorems

-----------------------------------------------------------------------------
(* The invariant.                                                          *)

IntValue == [type : {"Int"}, halves : Int]
IntVar   == [type : {"Int"}, const : {FALSE}, value : IntValue]

\* Some of the names, bound.
Bound(V) == UNION {[D -> V] : D \in SUBSET Names}
IntScope == Bound(IntVar)
Bindings == Bound(IntValue)

Blocks == [kind : {"program", "if", "while", "for", "call"}, vars : Bindings, base : Nat,
           slots : Bindings, loopVar : Names \cup {NoValue}, done : Nat, left : Nat]

\* The program is outside of all other blocks; a block pushed a scope if it is a
\* call or in no call; a loop that has iterations left has a variable.
Shape(bs) ==
  /\ bs \in Seq(Blocks)
  /\ bs # <<>>
  /\ bs[1].kind = "program" /\ bs[1].base = 0
  /\ \A b \in 2 .. Len(bs) :
       /\ bs[b].kind # "program"
       /\ bs[b].base > 0 <=> (bs[b].kind = "call" \/ \A c \in 2 .. (b - 1) : bs[c].kind # "call")
       /\ bs[b].left > 0 => bs[b].loopVar \in Names

Pushing(bs) == {b \in DOMAIN bs : bs[b].base > 0}

\* Each block that pushed a scope remembers how many there were.
Depths(bs, n) ==
  /\ n = 1 + Cardinality(Pushing(bs))
  /\ \A b \in Pushing(bs) : bs[b].base = Cardinality({c \in Pushing(bs) : c <= b})

BlocksInv ==
  /\ scopes \in Seq(IntScope)
  /\ aborted \in BOOLEAN
  /\ Shape(blocks)
  /\ ~aborted => Depths(blocks, Len(scopes))

\* In a plain program there is a scope for each block, with the same variables.
Lexical(sc, bs) ==
  /\ Len(sc) = Len(bs)
  /\ Len(bs) <= MaxBlocks + 1
  /\ \A b \in 1 .. Len(bs) :
       /\ bs[b].kind \in {"program", "if", "while"}
       /\ bs[b].base = b - 1
       /\ bs[b].left = 0
       /\ DOMAIN sc[b] = DOMAIN bs[b].vars
       /\ \A n \in DOMAIN sc[b] : sc[b][n].value = bs[b].vars[n]

LexicalInv == plain => ~aborted /\ Lexical(scopes, blocks)

-----------------------------------------------------------------------------
(* Variables of the runtime's scopes.                                      *)

\* What a variable of the program holds is an integer.
IntOf(v) == [type |-> "Int", const |-> FALSE, value |-> v]

LEMMA IntValueOK ==
  ASSUME NEW v \in Values
  PROVE  v \in IntValue
  BY IntegersAssumption DEF IntValue

LEMMA IterationOK ==
  ASSUME NEW i \in Nat
  PROVE  Iteration(i) \in IntValue
  BY DEF Iteration, Number, IntValue

LEMMA StoredInt ==
  ASSUME NEW x \in IntVar, NEW v \in IntValue
  PROVE  Stored(x, v) = IntOf(v) /\ IntOf(v) \in IntVar
<1>1. x.type = "Int" /\ v.type = "Int" /\ x = [type |-> "Int", const |-> FALSE, value |-> x.value]
  BY DEF IntVar, IntValue
<1>2. Accepts(x.type, v) /\ Coerced(x.type, v) = v
  BY <1>1 DEF Accepts, Coerced, Numeric
<1>3. Stored(x, v) = [x EXCEPT !.type = v.type, !.value = v]
  BY <1>2 DEF Stored
<1> QED
  BY <1>1, <1>3 DEF IntOf, IntVar

\* bread_var_decl makes the same variable of a value and of none.
LEMMA InitialInt ==
  ASSUME NEW v \in IntValue, v \in Values \/ v = Iteration(0)
  PROVE  LET zero == [type |-> "Int", const |-> FALSE, value |-> Zero("Int")]
         IN  (IF v = NoValue THEN zero ELSE Stored(zero, v)) = IntOf(v)
<1> DEFINE zero == [type |-> "Int", const |-> FALSE, value |-> Zero("Int")]
<1>1. Zero("Int") = Iteration(0)
  BY DEF Zero, Iteration, Numeric
<1>2. zero \in IntVar /\ zero = IntOf(Iteration(0))
  BY <1>1, IterationOK DEF IntVar, IntOf
<1> HIDE DEF zero
<1>3. v = NoValue => zero = IntOf(v)
  BY <1>2, ScopesAssumption
<1>4. Stored(zero, v) = IntOf(v)
  BY <1>2, StoredInt
<1>5. (IF v = NoValue THEN zero ELSE Stored(zero, v)) = IntOf(v)
  BY <1>3, <1>4
<1> QED
  BY <1>5 DEF zero

\* A name bound in a scope, or in what the semantic analysis knows of one.
LEMMA BindOK ==
  ASSUME NEW V, NEW f \in Bound(V), NEW n \in Names, NEW x \in V
  PROVE  Bind(f, n, x) \in Bound(V)
<1>1. PICK D \in SUBSET Names : f \in [D -> V]
  BY DEF Bound
<1>2. Bind(f, n, x) \in [D \cup {n} -> V] /\ D \cup {n} \in SUBSET Names
  BY <1>1 DEF Bind
<1> QED
  BY <1>1, <1>2 DEF Bound

LEMMA EmptyOK ==
  ASSUME NEW V
  PROVE  <<>> \in Bound(V) /\ DOMAIN <<>> = {}
<1>1. <<>> \in [{} -> V] /\ DOMAIN <<>> = {}
  OBVIOUS
<1> QED
  BY <1>1 DEF Bound

-----------------------------------------------------------------------------
(* The runtime's scopes.                                                   *)

\* bread_var_decl adds to the innermost scope.
LEMMA DeclaredInt ==
  ASSUME NEW sc \in Seq(IntScope), sc # <<>>, NEW n \in Names, NEW v \in IntValue,
         v \in Values \/ v = Iteration(0)
  PROVE  LET new == Declared(sc, n, "Int", FALSE, v)
             k == Len(sc)
         IN  /\ new \in Seq(IntScope) /\ Len(new) = k
             /\ DOMAIN new[k] = DOMAIN sc[k] \cup {n}
             /\ new[k][n] = IntOf(v)
             /\ \A m \in DOMAIN sc[k] : m # n => new[k][m] = sc[k][m]
             /\ \A s \in 1 .. (k - 1) : new[s] = sc[s]
<1> DEFINE k == Len(sc)
           zero == [type |-> "Int", const |-> FALSE, value |-> Zero("Int")]
           f == Bind(sc[k], n, IntOf(v))
           new == Declared(sc, n, "Int", FALSE, v)
<1>1. (IF v = NoValue THEN zero ELSE Stored(zero, v)) = IntOf(v)
  BY InitialInt
<1>2. new = [sc EXCEPT ![k] = Bind(@, n, IF v = NoValue THEN zero ELSE Stored(zero, v))]
  BY DEF Declared
<1>3. new = [sc EXCEPT ![k] = f]
  BY <1>1, <1>2
<1>4. k \in 1 .. Len(sc) /\ Len(sc) \in Nat /\ DOMAIN sc = 1 .. Len(sc) /\ sc[k] \in IntScope
  OBVIOUS
<1>5. IntOf(v) \in IntVar
  BY DEF IntOf, IntVar
<1> HIDE DEF k, new, zero
<1>6. /\ f \in IntScope
      /\ DOMAIN f = DOMAIN sc[k] \cup {n}
      /\ f[n] = IntOf(v)
      /\ \A m \in DOMAIN sc[k] : m # n => f[m] = sc[k][m]
  <2>1. f \in IntScope
    BY <1>4, <1>5, BindOK DEF IntScope
  <2> QED
    BY <2>1 DEF Bind
<1> HIDE DEF f
<1>7. /\ new \in Seq(IntScope) /\ Len(new) = Len(sc) /\ new[k] = f
      /\ \A s \in 1 .. Len(sc) : s # k => new[s] = sc[s]
  BY <1>3, <1>4, <1>6
<1>8. \A s \in 1 .. (k - 1) : new[s] = sc[s]
  BY <1>4, <1>7
<1>9. DOMAIN new[k] = DOMAIN sc[k] \cup {n} /\ new[k][n] = IntOf(v)
  BY <1>6, <1>7
<1>10. \A m \in DOMAIN sc[k] : m # n => new[k][m] = sc[k][m]
  BY <1>6, <1>7
<1> QED
  BY <1>7, <1>8, <1>9, <1>10 DEF new, k

\* bread_var_assign changes the innermost variable of the name, if there is one.
LEMMA AssignedInt ==
  ASSUME NEW sc \in Seq(IntScope), NEW n \in Names, NEW v \in IntValue
  PROVE  LET new == Assigned(sc, n, v)
             k == Innermost(sc, n)
         IN  /\ new \in Seq(IntScope) /\ Len(new) = Len(sc)
             /\ \A s \in 1 .. Len(sc) : DOMAIN new[s] = DOMAIN sc[s]
             /\ k # 0 => new[k][n] = IntOf(v)
             /\ \A s \in 1 .. Len(sc) : \A m \in DOMAIN sc[s] : s # k \/ m # n => new[s][m] = sc[s][m]
<1> DEFINE k == Innermost(sc, n)
           f == [sc[k] EXCEPT ![n] = Stored(@, v)]
           new == Assigned(sc, n, v)
<1>1. new = [sc EXCEPT ![k] = f]
  BY DEF Assigned
<1>2. k \in 0 .. Len(sc) /\ (k # 0 => n \in DOMAIN sc[k]) /\ Len(sc) \in Nat
  BY InnermostOK
<1>3. CASE k = 0
  <2>1. new = sc
    BY <1>1, <1>3
  <2> HIDE DEF new, k, f
  <2> QED
    BY <1>3, <2>1 DEF new, k
<1>4. CASE k # 0
  <2>1. k \in 1 .. Len(sc) /\ sc[k] \in IntScope /\ n \in DOMAIN sc[k]
    BY <1>2, <1>4
  <2>2. PICK D \in SUBSET Names : sc[k] \in [D -> IntVar]
    BY <2>1 DEF IntScope, Bound
  <2>3. Stored(sc[k][n], v) = IntOf(v) /\ IntOf(v) \in IntVar
    BY <2>1, <2>2, StoredInt
  <2>4. f = [sc[k] EXCEPT ![n] = IntOf(v)]
    BY <2>3
  <2> HIDE DEF f, k, new
  <2>5. /\ f \in [D -> IntVar] /\ DOMAIN f = DOMAIN sc[k] /\ f[n] = IntOf(v)
        /\ \A m \in DOMAIN sc[k] : m # n => f[m] = sc[k][m]
    BY <2>1, <2>2, <2>3, <2>4
  <2>6. f \in IntScope
    BY <2>5 DEF IntScope, Bound
  <2>7. /\ new \in Seq(IntScope) /\ Len(new) = Len(sc) /\ new[k] = f
        /\ \A s \in 1 .. Len(sc) : s # k => new[s] = sc[s]
    BY <1>1, <2>1, <2>6
  <2>8. \A s \in 1 .. Len(sc) : DOMAIN new[s] = DOMAIN sc[s]
    BY <2>5, <2>7
  <2>9. \A s \in 1 .. Len(sc) : \A m \in DOMAIN sc[s] : s # k \/ m # n => new[s][m] = sc[s][m]
    BY <2>5, <2>7
  <2> QED
    BY <2>5, <2>7, <2>8, <2>9 DEF new, k
<1> QED
  BY <1>3, <1>4

\* push_scope.
LEMMA PushedInt ==
  ASSUME NEW sc \in Seq(IntScope)
  PROVE  /\ Pushed(sc) \in Seq(IntScope) /\ Len(Pushed(sc)) = Len(sc) + 1
         /\ DOMAIN Pushed(sc)[Len(sc) + 1] = {}
         /\ \A s \in 1 .. Len(sc) : Pushed(sc)[s] = sc[s]
<1> DEFINE empty == <<>>
<1>1. empty \in IntScope /\ DOMAIN empty = {}
  BY EmptyOK DEF IntScope
<1>2. Pushed(sc) = Append(sc, empty)
  BY DEF Pushed
<1> HIDE DEF empty
<1> QED
  BY <1>1, <1>2

\* pop_to_scope_depth.
LEMMA PoppedInt ==
  ASSUME NEW sc \in Seq(IntScope), NEW depth \in 0 .. Len(sc)
  PROVE  /\ PoppedTo(sc, depth) \in Seq(IntScope) /\ Len(PoppedTo(sc, depth)) = depth
         /\ \A s \in 1 .. depth : PoppedTo(sc, depth)[s] = sc[s]
  BY DEF PoppedTo

\* A for loop declares its variable if no scope has one of that name.
LEMMA WithLoopVariableInt ==
  ASSUME NEW sc \in Seq(IntScope), sc # <<>>, NEW n \in Names
  PROVE  LET new == WithLoopVariable(sc, n)
         IN  /\ new \in Seq(IntScope) /\ Len(new) = Len(sc)
             /\ \A s \in 1 .. (Len(sc) - 1) : new[s] = sc[s]
<1>1. Iteration(0) \in IntValue
  BY IterationOK
<1>2. CASE Visible(sc, n)
  BY <1>2 DEF WithLoopVariable
<1>3. CASE ~Visible(sc, n)
  BY <1>1, <1>3, DeclaredInt DEF WithLoopVariable
<1> QED
  BY <1>2, <1>3

-----------------------------------------------------------------------------
(* What is open.                                                           *)

\* The running function is the innermost call.
LEMMA FrameOK ==
  ASSUME Shape(blocks)
  PROVE  /\ Frame \in 1 .. Len(blocks) /\ Len(blocks) \in Nat
         /\ InFunction => blocks[Frame].kind = "call"
         /\ \A b \in (Frame + 1) .. Len(blocks) : blocks[b].kind # "call"
<1> DEFINE S == {1} \cup {b \in DOMAIN blocks : blocks[b].kind = "call"}
<1>1. Len(blocks) \in Nat /\ Len(blocks) >= 1 /\ DOMAIN blocks = 1 .. Len(blocks)
  BY DEF Shape
<1>2. S \in SUBSET (0 .. Len(blocks)) /\ S # {}
  BY <1>1
<1>3. Frame = Max(S)
  BY DEF Frame
<1>4. Max(S) \in S /\ \A s \in S : Max(S) >= s
  <2> HIDE DEF S
  <2> QED
    BY <1>1, <1>2, MaxIs
<1>5. Frame \in 1 .. Len(blocks) /\ (Frame = 1 \/ blocks[Frame].kind = "call")
  BY <1>1, <1>3, <1>4
<1>6. \A b \in 1 .. Len(blocks) : blocks[b].kind = "call" => b <= Frame
  <2>1. \A b \in 1 .. Len(blocks) : blocks[b].kind = "call" => b \in S
    BY <1>1
  <2> HIDE DEF S
  <2> QED
    BY <1>1, <1>2, <1>3, <1>4, <2>1
<1>7. \A b \in (Frame + 1) .. Len(blocks) : blocks[b].kind # "call"
  BY <1>1, <1>5, <1>6
<1> QED
  BY <1>1, <1>5, <1>7 DEF InFunction

\* Only a call pushes a scope in a function; outside of functions every block
\* does.
LEMMA BasesOK ==
  ASSUME Shape(blocks)
  PROVE  /\ InFunction => blocks[Frame].base > 0
         /\ InFunction => \A b \in (Frame + 1) .. Len(blocks) : blocks[b].base = 0
         /\ ~InFunction => \A b \in 2 .. Len(blocks) : blocks[b].base > 0
<1>1. /\ Frame \in 1 .. Len(blocks) /\ Len(blocks) \in Nat
      /\ InFunction => blocks[Frame].kind = "call"
      /\ \A b \in (Frame + 1) .. Len(blocks) : blocks[b].kind # "call"
  BY FrameOK
<1>2. \A b \in 1 .. Len(blocks) : blocks[b].base \in Nat
  <2>1. \A b \in 1 .. Len(blocks) : blocks[b] \in Blocks
    BY DEF Shape
  <2> QED
    BY <2>1 DEF Blocks
<1>3. \A b \in 2 .. Len(blocks) :
        blocks[b].base > 0 <=> (blocks[b].kind = "call" \/ \A c \in 2 .. (b - 1) : blocks[c].kind # "call")
  BY DEF Shape
<1>4. CASE InFunction
  <2>1. Frame \in 2 .. Len(blocks)
    BY <1>1, <1>4 DEF InFunction
  <2>2. ASSUME NEW b \in (Frame + 1) .. Len(blocks)
        PROVE  blocks[b].base = 0
    <3>1. b \in 2 .. Len(blocks) /\ Frame \in 2 .. (b - 1)
      BY <2>1, <2>2
    <3>2. ~(blocks[b].base > 0)
      BY <1>1, <1>3, <1>4, <2>2, <3>1
    <3>3. blocks[b].base \in Nat
      BY <1>2, <3>1
    <3> QED
      BY <3>2, <3>3
  <2> QED
    BY <1>1, <1>3, <1>4, <2>1, <2>2
<1>5. CASE ~InFunction
  <2>1. Frame = 1
    BY <1>1, <1>5 DEF InFunction
  <2> QED
    BY <1>1, <1>3, <1>5, <2>1
<1> QED
  BY <1>4, <1>5

\* Pushing(bs) and parts of it have a size.
LEMMA PushingFinite ==
  ASSUME NEW bs \in Seq(Blocks), NEW b
  PROVE  /\ IsFiniteSet(Pushing(bs)) /\ Cardinality(Pushing(bs)) \in Nat
         /\ LET C == {c \in Pushing(bs) : c <= b}
            IN  IsFiniteSet(C) /\ Cardinality(C) \in Nat /\ Cardinality(C) <= Cardinality(Pushing(bs))
<1> DEFINE C == {c \in Pushing(bs) : c <= b}
<1>1. Len(bs) \in Nat /\ Pushing(bs) \subseteq 1 .. Len(bs)
  BY DEF Pushing
<1>2. IsFiniteSet(1 .. Len(bs))
  BY <1>1, FS_Interval
<1>3. IsFiniteSet(Pushing(bs))
  BY <1>1, <1>2, FS_Subset
<1>4. C \subseteq Pushing(bs)
  OBVIOUS
<1> HIDE DEF C
<1>5. IsFiniteSet(C) /\ Cardinality(C) <= Cardinality(Pushing(bs))
  BY <1>3, <1>4, FS_Subset
<1> QED
  BY <1>3, <1>5, FS_CardinalityType DEF C

\* A change of what the blocks know of names changes nothing else.
LEMMA Renamed ==
  ASSUME NEW bs, Shape(bs), NEW new \in Seq(Blocks), Len(new) = Len(bs),
         \A b \in 1 .. Len(bs) : /\ new[b].kind = bs[b].kind /\ new[b].base = bs[b].base
                                 /\ new[b].left = bs[b].left /\ new[b].loopVar = bs[b].loopVar
  PROVE  Shape(new) /\ \A n : Depths(bs, n) => Depths(new, n)
<1>1. DOMAIN bs = 1 .. Len(bs) /\ DOMAIN new = 1 .. Len(bs) /\ Len(bs) \in Nat /\ Len(bs) >= 1
  BY DEF Shape
<1>2. Pushing(new) = Pushing(bs)
  BY <1>1 DEF Pushing
<1>3. \A b \in Pushing(bs) : new[b].base = bs[b].base
  BY <1>1 DEF Pushing
<1>4. \A n : Depths(bs, n) => Depths(new, n)
  BY <1>2, <1>3 DEF Depths
<1>5. new # <<>> /\ new[1].kind = "program" /\ new[1].base = 0
  BY <1>1 DEF Shape
<1>6. ASSUME NEW b \in 2 .. Len(new)
      PROVE  /\ new[b].kind # "program"
             /\ new[b].base > 0 <=> (new[b].kind = "call" \/ \A c \in 2 .. (b - 1) : new[c].kind # "call")
             /\ new[b].left > 0 => new[b].loopVar \in Names
  <2>1. b \in 1 .. Len(bs) /\ b \in 2 .. Len(bs) /\ \A c \in 2 .. (b - 1) : c \in 1 .. Len(bs)
    BY <1>1
  <2> QED
    BY <2>1, SMTT(40) DEF Shape
<1> QED
  BY <1>4, <1>5, <1>6 DEF Shape

\* A block is entered.
LEMMA Entered ==
  ASSUME NEW bs, Shape(bs), NEW block \in Blocks, block.kind # "program",
         block.base > 0 <=> (block.kind = "call" \/ \A c \in 2 .. Len(bs) : bs[c].kind # "call"),
         block.left > 0 => block.loopVar \in Names
  PROVE  LET new == Append(bs, block)
         IN  /\ Shape(new)
             /\ \A n \in Nat : Depths(bs, n) /\ block.base = n => Depths(new, n + 1)
             /\ \A n \in Nat : Depths(bs, n) /\ block.base = 0 => Depths(new, n)
<1> DEFINE new == Append(bs, block)
           k == Len(bs) + 1
<1>1. bs \in Seq(Blocks) /\ Len(bs) \in Nat /\ Len(bs) >= 1
  BY DEF Shape
<1>2. /\ new \in Seq(Blocks) /\ Len(new) = k /\ new[k] = block
      /\ \A b \in 1 .. Len(bs) : new[b] = bs[b]
  BY <1>1
<1> HIDE DEF new
<1>3. Shape(new)
  <2>1. new # <<>> /\ new[1].kind = "program" /\ new[1].base = 0
    BY <1>1, <1>2 DEF Shape
  <2>2. ASSUME NEW b \in 2 .. Len(new)
        PROVE  /\ new[b].kind # "program"
               /\ new[b].base > 0 <=> (new[b].kind = "call" \/ \A c \in 2 .. (b - 1) : new[c].kind # "call")
               /\ new[b].left > 0 => new[b].loopVar \in Names
    <3>1. CASE b = k
      BY <1>1, <1>2, <3>1
    <3>2. CASE b # k
      <4>1. b \in 2 .. Len(bs) /\ b \in 1 .. Len(bs) /\ \A c \in 2 .. (b - 1) : c \in 1 .. Len(bs)
        BY <1>1, <1>2, <3>2
      <4> QED
        BY <1>2, <4>1 DEF Shape
    <3> QED
      BY <3>1, <3>2
  <2> QED
    BY <1>2, <2>1, <2>2 DEF Shape
<1>4. DOMAIN new = 1 .. k /\ DOMAIN bs = 1 .. Len(bs)
  BY <1>1, <1>2
<1>5. \A b \in Pushing(bs) : /\ b \in 1 .. Len(bs) /\ new[b] = bs[b]
                             /\ {c \in Pushing(new) : c <= b} = {c \in Pushing(bs) : c <= b}
  BY <1>1, <1>2, <1>4 DEF Pushing
<1>6. ASSUME NEW n \in Nat, Depths(bs, n), block.base = 0
      PROVE  Depths(new, n)
  <2>1. Pushing(new) = Pushing(bs)
    BY <1>1, <1>2, <1>4, <1>6 DEF Pushing
  <2> QED
    BY <1>5, <1>6, <2>1 DEF Depths
<1>7. ASSUME NEW n \in Nat, Depths(bs, n), block.base = n
      PROVE  Depths(new, n + 1)
  <2>1. IsFiniteSet(Pushing(bs)) /\ Cardinality(Pushing(bs)) \in Nat
    BY <1>1, PushingFinite
  <2>2. n = 1 + Cardinality(Pushing(bs)) /\ n > 0
    BY <1>7, <2>1 DEF Depths
  <2>3. Pushing(new) = Pushing(bs) \cup {k} /\ k \notin Pushing(bs)
    BY <1>1, <1>2, <1>4, <1>7, <2>2 DEF Pushing
  <2>4. Cardinality(Pushing(new)) = n
    <3> HIDE DEF k
    <3>1. Cardinality(Pushing(bs) \cup {k}) = Cardinality(Pushing(bs)) + 1
      BY <2>1, <2>3, FS_AddElement
    <3> QED
      BY <2>1, <2>2, <2>3, <3>1
  <2>5. {c \in Pushing(new) : c <= k} = Pushing(new)
    BY <1>1, <1>4 DEF Pushing
  <2>6. \A b \in Pushing(new) : new[b].base = Cardinality({c \in Pushing(new) : c <= b})
    BY <1>2, <1>5, <1>7, <2>3, <2>4, <2>5 DEF Depths
  <2>7. n + 1 = 1 + Cardinality(Pushing(new))
    BY <2>4
  <2> QED
    BY <2>6, <2>7 DEF Depths
<1> QED
  BY <1>3, <1>6, <1>7 DEF new

\* A block, and those inside it, are left.
LEMMA Left ==
  ASSUME NEW bs, Shape(bs), NEW b \in 2 .. Len(bs)
  PROVE  LET new == SubSeq(bs, 1, b - 1)
         IN  /\ Shape(new) /\ Len(new) = b - 1 /\ \A c \in 1 .. (b - 1) : new[c] = bs[c]
             /\ \A n \in Nat : Depths(bs, n) /\ bs[b].base > 0 =>
                              bs[b].base \in 1 .. n /\ Depths(new, bs[b].base)
             /\ \A n \in Nat : Depths(bs, n) /\ (\A c \in b .. Len(bs) : bs[c].base = 0) => Depths(new, n)
<1> DEFINE new == SubSeq(bs, 1, b - 1)
<1>1. bs \in Seq(Blocks) /\ Len(bs) \in Nat /\ Len(bs) >= 1 /\ b - 1 \in 1 .. Len(bs)
  BY DEF Shape
<1>2. new \in Seq(Blocks) /\ Len(new) = b - 1 /\ \A c \in 1 .. (b - 1) : new[c] = bs[c]
  BY <1>1
<1> HIDE DEF new
<1>3. Shape(new)
  <2>1. new # <<>> /\ new[1].kind = "program" /\ new[1].base = 0
    BY <1>1, <1>2 DEF Shape
  <2>2. ASSUME NEW d \in 2 .. Len(new)
        PROVE  /\ new[d].kind # "program"
               /\ new[d].base > 0 <=> (new[d].kind = "call" \/ \A c \in 2 .. (d - 1) : new[c].kind # "call")
               /\ new[d].left > 0 => new[d].loopVar \in Names
    <3>1. d \in 2 .. Len(bs) /\ d \in 1 .. (b - 1) /\ \A c \in 2 .. (d - 1) : c \in 1 .. (b - 1)
      BY <1>1, <1>2
    <3> QED
      BY <1>2, <3>1 DEF Shape
  <2> QED
    BY <1>2, <2>1, <2>2 DEF Shape
<1>4. DOMAIN new = 1 .. (b - 1) /\ DOMAIN bs = 1 .. Len(bs)
  BY <1>1, <1>2
<1>5. Pushing(new) = {c \in Pushing(bs) : c < b}
  BY <1>1, <1>2, <1>4 DEF Pushing
<1>6. \A d \in Pushing(new) : /\ d \in Pushing(bs) /\ new[d] = bs[d]
                              /\ {c \in Pushing(new) : c <= d} = {c \in Pushing(bs) : c <= d}
  BY <1>1, <1>2, <1>4, <1>5 DEF Pushing
<1>7. ASSUME NEW n \in Nat, Depths(bs, n), \A c \in b .. Len(bs) : bs[c].base = 0
      PROVE  Depths(new, n)
  <2>1. Pushing(new) = Pushing(bs)
    BY <1>1, <1>4, <1>5, <1>7 DEF Pushing
  <2> QED
    BY <1>6, <1>7, <2>1 DEF Depths
<1>8. ASSUME NEW n \in Nat, Depths(bs, n), bs[b].base > 0
      PROVE  bs[b].base \in 1 .. n /\ Depths(new, bs[b].base)
  <2> DEFINE C == {c \in Pushing(bs) : c <= b}
  <2>1. b \in Pushing(bs)
    BY <1>1, <1>8 DEF Pushing
  <2>2. bs[b].base = Cardinality(C) /\ n = 1 + Cardinality(Pushing(bs))
    BY <1>8, <2>1 DEF Depths
  <2>3. /\ IsFiniteSet(C) /\ Cardinality(C) \in Nat /\ Cardinality(C) <= Cardinality(Pushing(bs))
        /\ Cardinality(Pushing(bs)) \in Nat
    BY <1>1, PushingFinite
  <2>4. Pushing(new) = C \ {b} /\ b \in C
    BY <1>1, <1>5, <2>1 DEF Pushing
  <2> HIDE DEF C
  <2>5. Cardinality(Pushing(new)) = Cardinality(C) - 1
    BY <2>3, <2>4, FS_RemoveElement
  <2>6. bs[b].base \in 1 .. n
    BY <1>8, <2>2, <2>3
  <2>7. \A d \in Pushing(new) : new[d].base = Cardinality({c \in Pushing(new) : c <= d})
    BY <1>6, <1>8 DEF Depths
  <2> QED
    BY <2>2, <2>3, <2>5, <2>6, <2>7, SMTT(40) DEF Depths
<1> QED
  BY <1>2, <1>3, <1>7, <1>8 DEF new

\* What the semantic analysis knows of a name changes.
LEMMA MeansOK ==
  ASSUME NEW bs, Shape(bs), NEW b \in 1 .. Len(bs), NEW n \in Names, NEW v \in IntValue
  PROVE  LET new == Means(bs, b, n, v)
         IN  /\ Shape(new) /\ Len(new) = Len(bs) /\ \A m : Depths(bs, m) => Depths(new, m)
             /\ new[b] = [bs[b] EXCEPT !.vars = Bind(@, n, v)]
             /\ \A c \in 1 .. Len(bs) : c # b => new[c] = bs[c]
<1> DEFINE x == [bs[b] EXCEPT !.vars = Bind(@, n, v)]
           new == Means(bs, b, n, v)
<1>1. bs \in Seq(Blocks) /\ bs[b] \in Blocks
  BY DEF Shape
<1>2. new = [bs EXCEPT ![b] = x]
  BY DEF Means
<1>3. bs[b].vars \in Bindings
  BY <1>1 DEF Blocks
<1>4. Bind(bs[b].vars, n, v) \in Bindings
  BY <1>3, BindOK DEF Bindings
<1>5. /\ x \in Blocks /\ x.kind = bs[b].kind /\ x.base = bs[b].base
      /\ x.left = bs[b].left /\ x.loopVar = bs[b].loopVar
  BY <1>1, <1>4 DEF Blocks
<1> HIDE DEF x, new
<1>6. new \in Seq(Blocks) /\ Len(new) = Len(bs) /\ new[b] = x /\ \A c \in 1 .. Len(bs) : c # b => new[c] = bs[c]
  BY <1>1, <1>2, <1>5
<1>7. \A c \in 1 .. Len(bs) : /\ new[c].kind = bs[c].kind /\ new[c].base = bs[c].base
                              /\ new[c].left = bs[c].left /\ new[c].loopVar = bs[c].loopVar
  BY <1>5, <1>6
<1>8. Shape(new) /\ \A m : Depths(bs, m) => Depths(new, m)
  BY <1>6, <1>7, Renamed
<1> QED
  BY <1>6, <1>8 DEF new, x

\* A local of the running function changes.
LEMMA InSlotOK ==
  ASSUME NEW bs, Shape(bs), Frame \in 1 .. Len(bs), NEW n \in Names, NEW v \in IntValue
  PROVE  LET new == InSlot(bs, n, v)
         IN  Shape(new) /\ Len(new) = Len(bs) /\ \A m : Depths(bs, m) => Depths(new, m)
<1> DEFINE b == Frame
           x == [bs[b] EXCEPT !.slots = Bind(@, n, v)]
           new == InSlot(bs, n, v)
<1>1. bs \in Seq(Blocks) /\ bs[b] \in Blocks /\ b \in 1 .. Len(bs)
  BY DEF Shape
<1>2. new = [bs EXCEPT ![b] = x]
  BY DEF InSlot
<1>3. bs[b].slots \in Bindings
  BY <1>1 DEF Blocks
<1>4. Bind(bs[b].slots, n, v) \in Bindings
  BY <1>3, BindOK DEF Bindings
<1>5. /\ x \in Blocks /\ x.kind = bs[b].kind /\ x.base = bs[b].base
      /\ x.left = bs[b].left /\ x.loopVar = bs[b].loopVar
  BY <1>1, <1>4 DEF Blocks
<1> HIDE DEF x, b, new
<1>6. new \in Seq(Blocks) /\ Len(new) = Len(bs) /\ new[b] = x /\ \A c \in 1 .. Len(bs) : c # b => new[c] = bs[c]
  BY <1>1, <1>2, <1>5
<1>7. \A c \in 1 .. Len(bs) : /\ new[c].kind = bs[c].kind /\ new[c].base = bs[c].base
                              /\ new[c].left = bs[c].left /\ new[c].loopVar = bs[c].loopVar
  BY <1>5, <1>6
<1>8. Shape(new) /\ \A m : Depths(bs, m) => Depths(new, m)
  BY <1>6, <1>7, Renamed
<1> QED
  BY <1>6, <1>8 DEF new

\* A name that means something means a variable of an open block.
LEMMA DeclaringOK ==
  ASSUME Shape(blocks), NEW n
  PROVE  /\ Declaring(n) \in 0 .. Len(blocks) /\ Len(blocks) \in Nat
         /\ Declaring(n) # 0 => n \in DOMAIN blocks[Declaring(n)].vars
<1> DEFINE own == {b \in Frame .. Len(blocks) : n \in DOMAIN blocks[b].vars}
<1>1. Frame \in 1 .. Len(blocks) /\ Len(blocks) \in Nat
  BY FrameOK
<1>2. own \in SUBSET (0 .. Len(blocks))
  BY <1>1
<1>3. own # {} => Max(own) \in own
  <2> HIDE DEF own
  <2> QED
    BY <1>1, <1>2, MaxIs
<1>4. Declaring(n) = IF own # {} THEN Max(own) ELSE IF n \in DOMAIN blocks[1].vars THEN 1 ELSE 0
  BY DEF Declaring
<1> QED
  BY <1>1, <1>3, <1>4

-----------------------------------------------------------------------------
(* Statements.  Each keeps the invariant, and the scopes of the caller.    *)

\* What CallerKeepsScopes says of a step.
CallerKept ==
  InFunction /\ ~aborted' =>
    LET base == blocks[Frame].base
    IN  /\ Len(scopes') >= base
        /\ \A s \in 1 .. base : DOMAIN scopes'[s] = DOMAIN scopes[s]
        /\ Len(blocks') < Frame => Len(scopes') = base

Balanced == BlocksInv' /\ CallerKept

\* A function runs in the one scope that its call pushed.
LEMMA FrameDepth ==
  ASSUME BlocksInv, ~aborted, InFunction
  PROVE  blocks[Frame].base \in Nat \ {0} /\ Len(scopes) = blocks[Frame].base + 1
<1>1. Shape(blocks) /\ Depths(blocks, Len(scopes)) /\ blocks \in Seq(Blocks)
  BY DEF BlocksInv, Shape
<1>2. Frame \in 1 .. Len(blocks) /\ Len(blocks) \in Nat
  BY <1>1, FrameOK
<1>3. blocks[Frame].base > 0 /\ \A b \in (Frame + 1) .. Len(blocks) : blocks[b].base = 0
  BY <1>1, BasesOK
<1>4. Frame \in Pushing(blocks) /\ {c \in Pushing(blocks) : c <= Frame} = Pushing(blocks)
  BY <1>1, <1>2, <1>3 DEF Pushing
<1>5. blocks[Frame].base = Cardinality(Pushing(blocks)) /\ Len(scopes) = 1 + Cardinality(Pushing(blocks))
  BY <1>1, <1>4 DEF Depths
<1>6. Cardinality(Pushing(blocks)) \in Nat
  BY <1>1, PushingFinite
<1> QED
  BY <1>3, <1>5, <1>6

\* A step that keeps the running function's scope keeps those of its caller.
LEMMA ScopeKept ==
  ASSUME BlocksInv, ~aborted, Len(scopes') \in Nat, Len(scopes') >= Len(scopes),
         \A s \in 1 .. (Len(scopes) - 1) : DOMAIN scopes'[s] = DOMAIN scopes[s],
         Len(blocks') \in Nat, InFunction => Len(blocks') >= Frame
  PROVE  CallerKept
<1> SUFFICES ASSUME InFunction
             PROVE  LET base == blocks[Frame].base
                    IN  /\ Len(scopes') >= base
                        /\ \A s \in 1 .. base : DOMAIN scopes'[s] = DOMAIN scopes[s]
                        /\ ~(Len(blocks') < Frame)
  BY DEF CallerKept
<1>1. blocks[Frame].base \in Nat \ {0} /\ Len(scopes) = blocks[Frame].base + 1
  BY FrameDepth
<1>2. Frame \in Nat
  BY FrameOK DEF BlocksInv
<1> QED
  BY <1>1, <1>2

\* The runtime's scopes and what is open change together.
LEMMA BecomeOK ==
  ASSUME BlocksInv, NEW sc \in Seq(IntScope), Become(sc), Shape(blocks'), Depths(blocks', Len(sc))
  PROVE  BlocksInv'
  BY DEF BlocksInv, Become

\* A fatal error.
LEMMA FatalOK ==
  ASSUME BlocksInv, Abort, Shape(blocks')
  PROVE  Balanced
  BY DEF BlocksInv, Abort, Balanced, CallerKept

\* There is always a scope.
LEMMA SomeScope ==
  ASSUME BlocksInv, ~aborted
  PROVE  /\ scopes \in Seq(IntScope) /\ Len(scopes) \in Nat \ {0} /\ scopes # <<>>
         /\ Shape(blocks) /\ Depths(blocks, Len(scopes)) /\ blocks \in Seq(Blocks)
<1>1. /\ scopes \in Seq(IntScope) /\ Shape(blocks) /\ Depths(blocks, Len(scopes)) /\ blocks \in Seq(Blocks)
  BY DEF BlocksInv, Shape
<1>2. Len(scopes) = 1 + Cardinality(Pushing(blocks)) /\ Cardinality(Pushing(blocks)) \in Nat
  BY <1>1, PushingFinite DEF Depths
<1> QED
  BY <1>1, <1>2

\* No variable of a program is a constant, so an assignment is never refused.
LEMMA AssignedStep ==
  ASSUME BlocksInv, ~aborted, NEW n \in Names, NEW v \in Values, Assign(n, v)
  PROVE  Become(Assigned(scopes, n, v)) /\ Visible(scopes, n)
<1>1. scopes \in Seq(IntScope)
  BY SomeScope
<1>2. Visible(scopes, n)
  BY DEF Assign
<1>3. Innermost(scopes, n) \in 1 .. Len(scopes) /\ n \in DOMAIN scopes[Innermost(scopes, n)]
  BY <1>1, <1>2, InnermostOK DEF Visible
<1>4. scopes[Innermost(scopes, n)] \in Bound(IntVar)
  BY <1>1, <1>3 DEF IntScope
<1>5. ~Variable(scopes, n).const
  BY <1>3, <1>4 DEF Bound, IntVar, Variable
<1> QED
  BY <1>2, <1>5 DEF Assign

\* A declaration outside of functions.
LEMMA LetOK ==
  ASSUME BlocksInv, NEW n \in Names, NEW v \in Values, Let(n, v)
  PROVE  Balanced
<1>1. /\ ~aborted /\ ~InFunction /\ blocks' = Means(blocks, Len(blocks), n, v)
      /\ Declare(n, "Int", FALSE, v)
  BY DEF Let
<1>2. /\ scopes \in Seq(IntScope) /\ scopes # <<>> /\ Shape(blocks) /\ Depths(blocks, Len(scopes))
      /\ Len(blocks) \in 1 .. Len(blocks)
  BY <1>1, SomeScope, SMTT(40) DEF Shape
<1>3. v \in IntValue
  BY IntValueOK
<1>4. Shape(blocks') /\ Depths(blocks', Len(scopes))
  BY <1>1, <1>2, <1>3, MeansOK
<1>5. CASE CanDeclare(scopes, n)
  <2>1. Become(Declared(scopes, n, "Int", FALSE, v))
    BY <1>1, <1>5 DEF Declare
  <2>2. /\ Declared(scopes, n, "Int", FALSE, v) \in Seq(IntScope)
        /\ Len(Declared(scopes, n, "Int", FALSE, v)) = Len(scopes)
    BY <1>2, <1>3, DeclaredInt
  <2>3. BlocksInv'
    BY <1>4, <2>1, <2>2, BecomeOK
  <2> QED
    BY <1>1, <2>3 DEF Balanced, CallerKept
<1>6. CASE ~CanDeclare(scopes, n)
  BY <1>1, <1>4, <1>6, FatalOK DEF Declare
<1> QED
  BY <1>5, <1>6

\* An assignment outside of functions.
LEMMA SetOK ==
  ASSUME BlocksInv, NEW n \in Names, NEW v \in Values, Set(n, v)
  PROVE  Balanced
<1>1. /\ ~aborted /\ ~InFunction /\ Declaring(n) # 0 /\ blocks' = Means(blocks, Declaring(n), n, v)
      /\ Assign(n, v)
  BY DEF Set
<1>2. scopes \in Seq(IntScope) /\ Shape(blocks) /\ Depths(blocks, Len(scopes))
  BY <1>1, SomeScope
<1>3. v \in IntValue
  BY IntValueOK
<1>4. Declaring(n) \in 1 .. Len(blocks)
  BY <1>1, <1>2, DeclaringOK
<1>5. Shape(blocks') /\ Depths(blocks', Len(scopes))
  BY <1>1, <1>2, <1>3, <1>4, MeansOK
<1>6. Assigned(scopes, n, v) \in Seq(IntScope) /\ Len(Assigned(scopes, n, v)) = Len(scopes)
  BY <1>2, <1>3, AssignedInt
<1>7. BlocksInv'
  BY <1>1, <1>5, <1>6, AssignedStep, BecomeOK
<1> QED
  BY <1>1, <1>7 DEF Balanced, CallerKept

\* The locals of a function, which are slots.
LEMMA LocalLetOK ==
  ASSUME BlocksInv, NEW n \in Names, NEW v \in Values, LocalLet(n, v)
  PROVE  Balanced
<1> DEFINE bs == Means(blocks, Len(blocks), n, v)
           sc == IF Visible(scopes, n) THEN scopes ELSE Declared(scopes, n, "Int", FALSE, v)
<1>1. ~aborted /\ InFunction /\ blocks' = InSlot(bs, n, v) /\ Become(sc)
  BY DEF LocalLet
<1>2. /\ scopes \in Seq(IntScope) /\ scopes # <<>> /\ Shape(blocks) /\ Depths(blocks, Len(scopes))
      /\ Len(blocks) \in 1 .. Len(blocks) /\ Len(blocks) \in Nat /\ Len(scopes) \in Nat
  BY <1>1, SomeScope DEF Shape
<1>3. v \in IntValue
  BY IntValueOK
<1>4. Frame \in 1 .. Len(blocks)
  BY <1>2, FrameOK
<1>5. Shape(bs) /\ Depths(bs, Len(scopes)) /\ Len(bs) = Len(blocks)
  BY <1>2, <1>3, MeansOK, ZenonT(60)
<1>6. /\ sc \in Seq(IntScope) /\ Len(sc) = Len(scopes)
      /\ \A s \in 1 .. (Len(scopes) - 1) : DOMAIN sc[s] = DOMAIN scopes[s]
  <2> DEFINE declared == Declared(scopes, n, "Int", FALSE, v)
  <2>1. /\ declared \in Seq(IntScope) /\ Len(declared) = Len(scopes)
        /\ \A s \in 1 .. (Len(scopes) - 1) : declared[s] = scopes[s]
    BY <1>2, <1>3, DeclaredInt
  <2> HIDE DEF declared
  <2>2. sc = scopes \/ sc = declared
    BY DEF declared
  <2> HIDE DEF sc
  <2> QED
    BY <1>2, <2>1, <2>2
<1> HIDE DEF bs, sc
<1>7. Shape(blocks') /\ Depths(blocks', Len(scopes)) /\ Len(blocks') = Len(blocks)
  BY <1>1, <1>3, <1>4, <1>5, InSlotOK
<1>8. BlocksInv'
  BY <1>1, <1>6, <1>7, BecomeOK
<1>9. scopes' = sc
  BY <1>1 DEF Become
<1>10. CallerKept
  BY <1>1, <1>2, <1>4, <1>6, <1>7, <1>9, ScopeKept
<1> QED
  BY <1>8, <1>10 DEF Balanced

LEMMA LocalSetOK ==
  ASSUME BlocksInv, NEW n \in Names, NEW v \in Values, LocalSet(n, v)
  PROVE  Balanced
<1> DEFINE bs == Means(blocks, Declaring(n), n, v)
<1>1. /\ ~aborted /\ InFunction /\ Declaring(n) # 0 /\ blocks' = InSlot(bs, n, v)
      /\ UNCHANGED <<scopes, aborted>>
  BY DEF LocalSet
<1>2. /\ scopes \in Seq(IntScope) /\ Shape(blocks) /\ Depths(blocks, Len(scopes))
      /\ Len(scopes) \in Nat
  BY <1>1, SomeScope
<1>3. v \in IntValue
  BY IntValueOK
<1>4. Frame \in 1 .. Len(blocks) /\ Len(blocks) \in Nat /\ Declaring(n) \in 1 .. Len(blocks)
  BY <1>1, <1>2, FrameOK, DeclaringOK
<1>5. Shape(bs) /\ Depths(bs, Len(scopes)) /\ Len(bs) = Len(blocks)
  <2>1. bs = Means(blocks, Declaring(n), n, v)
    OBVIOUS
  <2> HIDE DEF bs
  <2> QED
    BY <1>2, <1>3, <1>4, <2>1, MeansOK, ZenonT(60)
<1> HIDE DEF bs
<1>6. Shape(blocks') /\ Depths(blocks', Len(scopes)) /\ Len(blocks') = Len(blocks)
  BY <1>1, <1>3, <1>4, <1>5, InSlotOK
<1>7. BlocksInv'
  BY <1>1, <1>6 DEF BlocksInv
<1>8. CallerKept
  BY <1>1, <1>2, <1>4, <1>6, ScopeKept
<1> QED
  BY <1>7, <1>8 DEF Balanced

LEMMA LocalUpdateOK ==
  ASSUME BlocksInv, NEW n \in Names, NEW v \in Values, LocalUpdate(n, v)
  PROVE  Balanced
<1>1. ~aborted /\ InFunction /\ Declaring(n) # 0
  BY DEF LocalUpdate
<1>2. CASE n \in DOMAIN Slots
  BY <1>1, <1>2, LocalSetOK DEF LocalUpdate, LocalSet
<1>3. CASE n \notin DOMAIN Slots
  <2>1. blocks' = Means(blocks, Declaring(n), n, v) /\ Assign(n, v)
    BY <1>3 DEF LocalUpdate
  <2>2. /\ scopes \in Seq(IntScope) /\ Shape(blocks) /\ Depths(blocks, Len(scopes))
        /\ Len(scopes) \in Nat
    BY <1>1, SomeScope
  <2>3. v \in IntValue
    BY IntValueOK
  <2>4. Frame \in 1 .. Len(blocks) /\ Len(blocks) \in Nat /\ Declaring(n) \in 1 .. Len(blocks)
    BY <1>1, <2>2, FrameOK, DeclaringOK
  <2>5. Shape(blocks') /\ Depths(blocks', Len(scopes)) /\ Len(blocks') = Len(blocks)
    BY <2>1, <2>2, <2>3, <2>4, MeansOK, ZenonT(60)
  <2>6. Become(Assigned(scopes, n, v))
    BY <1>1, <2>1, AssignedStep
  <2>7. /\ Assigned(scopes, n, v) \in Seq(IntScope) /\ Len(Assigned(scopes, n, v)) = Len(scopes)
        /\ \A s \in 1 .. Len(scopes) : DOMAIN Assigned(scopes, n, v)[s] = DOMAIN scopes[s]
    BY <2>2, <2>3, AssignedInt
  <2>8. BlocksInv'
    BY <2>5, <2>6, <2>7, BecomeOK
  <2>9. scopes' = Assigned(scopes, n, v)
    BY <2>6 DEF Become
  <2>10. CallerKept
    BY <1>1, <2>2, <2>4, <2>5, <2>7, <2>9, ScopeKept
  <2> QED
    BY <2>8, <2>10 DEF Balanced
<1> QED
  BY <1>2, <1>3

\* A block that has just been entered.
LEMMA BlockOK ==
  ASSUME NEW kind \in {"if", "while", "for", "call", "program"}, NEW vars_ \in Bindings, NEW base \in Nat
  PROVE  LET block == Block(kind, vars_, base)
         IN  /\ block \in Blocks /\ block.kind = kind /\ block.base = base
             /\ block.left = 0 /\ block.vars = vars_
<1> DEFINE empty == <<>>
<1>1. empty \in Bindings
  BY EmptyOK DEF Bindings
<1>2. Block(kind, vars_, base) =
        [kind |-> kind, vars |-> vars_, base |-> base, slots |-> empty,
         loopVar |-> NoValue, done |-> 0, left |-> 0]
  BY DEF Block
<1> HIDE DEF empty
<1> QED
  BY <1>1, <1>2 DEF Blocks

\* A block is entered with a scope of its own, or is in a function.
LEMMA PushBlockOK ==
  ASSUME BlocksInv, ~aborted, NEW kind \in {"if", "while", "call"},
         kind # "call" => ~InFunction,
         blocks' = Append(blocks, Block(kind, <<>>, Len(scopes))), Push
  PROVE  Balanced
<1>1. /\ scopes \in Seq(IntScope) /\ Shape(blocks) /\ Depths(blocks, Len(scopes))
      /\ blocks \in Seq(Blocks) /\ Len(scopes) \in Nat \ {0}
  BY SomeScope
<1>2. Frame \in 1 .. Len(blocks) /\ Len(blocks) \in Nat /\ \A b \in (Frame + 1) .. Len(blocks) : blocks[b].kind # "call"
  BY <1>1, FrameOK
<1> DEFINE empty == <<>>
           block == Block(kind, empty, Len(scopes))
<1>3. empty \in Bindings
  BY EmptyOK DEF Bindings
<1>4. blocks' = Append(blocks, block)
  OBVIOUS
<1> HIDE DEF empty
<1>5. block \in Blocks /\ block.kind = kind /\ block.base = Len(scopes) /\ block.left = 0
  BY <1>1, <1>3, BlockOK
<1> HIDE DEF block
<1>6. kind # "call" => \A c \in 2 .. Len(blocks) : blocks[c].kind # "call"
  BY <1>2 DEF InFunction
<1>7. Shape(blocks') /\ Depths(blocks', Len(scopes) + 1)
  BY <1>1, <1>4, <1>5, <1>6, Entered
<1>8. Len(blocks') = Len(blocks) + 1
  BY <1>1, <1>4
<1>9. CASE CanPush(scopes)
  <2>1. Become(Pushed(scopes))
    BY <1>9 DEF Push
  <2>2. /\ Pushed(scopes) \in Seq(IntScope) /\ Len(Pushed(scopes)) = Len(scopes) + 1
        /\ \A s \in 1 .. Len(scopes) : Pushed(scopes)[s] = scopes[s]
    BY <1>1, PushedInt
  <2>3. BlocksInv'
    BY <1>7, <2>1, <2>2, BecomeOK
  <2>4. scopes' = Pushed(scopes)
    BY <2>1 DEF Become
  <2>5. /\ Len(scopes') \in Nat /\ Len(scopes') >= Len(scopes)
        /\ \A s \in 1 .. (Len(scopes) - 1) : DOMAIN scopes'[s] = DOMAIN scopes[s]
    BY <1>1, <2>2, <2>4, SMTT(40)
  <2>6. CallerKept
    BY <1>2, <1>8, <2>5, ScopeKept
  <2> QED
    BY <2>3, <2>6 DEF Balanced
<1>10. CASE ~CanPush(scopes)
  BY <1>7, <1>10, FatalOK DEF Push
<1> QED
  BY <1>9, <1>10

LEMMA EnterOK ==
  ASSUME BlocksInv, NEW kind \in {"if", "while"}, Enter(kind)
  PROVE  Balanced
<1>1. ~aborted
  BY DEF Enter
<1>2. CASE ~InFunction
  BY <1>1, <1>2, PushBlockOK DEF Enter, Open
<1>3. CASE InFunction
  <2>1. /\ scopes \in Seq(IntScope) /\ Shape(blocks) /\ Depths(blocks, Len(scopes))
        /\ blocks \in Seq(Blocks) /\ Len(scopes) \in Nat \ {0}
    BY <1>1, SomeScope
  <2>2. Frame \in 2 .. Len(blocks) /\ Len(blocks) \in Nat /\ blocks[Frame].kind = "call"
    BY <1>3, <2>1, FrameOK DEF InFunction
  <2> DEFINE empty == <<>>
             block == Block(kind, empty, 0)
  <2>3. empty \in Bindings
    BY EmptyOK DEF Bindings
  <2>4. blocks' = Append(blocks, block) /\ UNCHANGED <<scopes, aborted>>
    BY <1>3 DEF Enter, Open
  <2> HIDE DEF empty
  <2>5. block \in Blocks /\ block.kind = kind /\ block.base = 0 /\ block.left = 0
    BY <2>3, BlockOK
  <2> HIDE DEF block
  <2>6. Shape(blocks') /\ Depths(blocks', Len(scopes))
    BY <2>1, <2>2, <2>4, <2>5, Entered
  <2>7. Len(blocks') = Len(blocks) + 1
    BY <2>1, <2>4
  <2>8. BlocksInv'
    BY <2>4, <2>6 DEF BlocksInv
  <2>9. CallerKept
    BY <1>1, <2>1, <2>2, <2>4, <2>7, ScopeKept
  <2> QED
    BY <2>8, <2>9 DEF Balanced
<1> QED
  BY <1>2, <1>3

LEMMA CallOK ==
  ASSUME BlocksInv, Call
  PROVE  Balanced
  BY PushBlockOK DEF Call, Open

\* A for loop is entered.
LEMMA EnterForOK ==
  ASSUME BlocksInv, NEW n \in Names, NEW i \in 0 .. MaxIter, EnterFor(n, i)
  PROVE  Balanced
<1> DEFINE declared == WithLoopVariable(scopes, n)
           inside   == IF InFunction THEN declared ELSE Pushed(declared)
           base     == IF InFunction THEN 0 ELSE Len(scopes)
           vars_    == Bind(<<>>, n, Iteration(0))
           block    == [Block("for", vars_, base) EXCEPT !.loopVar = n, !.left = i - 1]
           sc       == Assigned(inside, n, Iteration(0))
<1>1. /\ ~aborted
      /\ i = 0 => Become(declared) /\ UNCHANGED blocks
      /\ i # 0 => blocks' = Append(blocks, block) /\ Become(sc)
  BY DEF EnterFor, Open
<1>2. /\ scopes \in Seq(IntScope) /\ scopes # <<>> /\ Shape(blocks) /\ Depths(blocks, Len(scopes))
      /\ blocks \in Seq(Blocks) /\ Len(scopes) \in Nat \ {0}
  BY <1>1, SomeScope
<1>3. /\ Frame \in 1 .. Len(blocks) /\ Len(blocks) \in Nat
      /\ InFunction => Frame \in 2 .. Len(blocks) /\ blocks[Frame].kind = "call"
      /\ ~InFunction => \A c \in 2 .. Len(blocks) : blocks[c].kind # "call"
  BY <1>2, FrameOK DEF InFunction
<1>4. Iteration(0) \in IntValue
  BY IterationOK
<1>5. /\ declared \in Seq(IntScope) /\ Len(declared) = Len(scopes)
      /\ \A s \in 1 .. (Len(scopes) - 1) : declared[s] = scopes[s]
  BY <1>2, WithLoopVariableInt
<1>6. vars_ \in Bindings
  <2> DEFINE empty == <<>>
  <2>1. empty \in Bound(IntValue)
    BY EmptyOK
  <2>2. vars_ = Bind(empty, n, Iteration(0))
    OBVIOUS
  <2> HIDE DEF empty, vars_
  <2> QED
    BY <1>4, <2>1, <2>2, BindOK DEF Bindings
<1>7. i # 0 => block \in Blocks /\ block.kind = "for" /\ block.base = base /\ block.loopVar = n
  <2> DEFINE fresh == Block("for", vars_, base)
  <2>1. base \in Nat /\ (i # 0 => i - 1 \in Nat)
    BY <1>2, BlocksAssumption
  <2> HIDE DEF vars_, base
  <2>2. fresh \in Blocks /\ fresh.kind = "for" /\ fresh.base = base
    BY <1>6, <2>1, BlockOK
  <2> HIDE DEF fresh
  <2>3. block = [fresh EXCEPT !.loopVar = n, !.left = i - 1]
    BY DEF fresh
  <2> QED
    BY <2>1, <2>2, <2>3 DEF Blocks
<1> HIDE DEF declared, vars_, block
<1>8. CASE i = 0
  <2>1. BlocksInv'
    BY <1>1, <1>2, <1>5, <1>8, BecomeOK
  <2>2. scopes' = declared
    BY <1>1, <1>8 DEF Become
  <2>3. CallerKept
    BY <1>1, <1>2, <1>3, <1>5, <1>8, <2>2, ScopeKept
  <2> QED
    BY <2>1, <2>3 DEF Balanced
<1>9. CASE i # 0
  <2>1. /\ inside \in Seq(IntScope) /\ Len(inside) = Len(scopes) + (IF InFunction THEN 0 ELSE 1)
        /\ \A s \in 1 .. (Len(scopes) - 1) : inside[s] = scopes[s]
    BY <1>2, <1>5, PushedInt
  <2> HIDE DEF inside
  <2>2. /\ sc \in Seq(IntScope) /\ Len(sc) = Len(inside)
        /\ \A s \in 1 .. Len(inside) : DOMAIN sc[s] = DOMAIN inside[s]
    BY <1>4, <2>1, AssignedInt
  <2> HIDE DEF sc
  <2>3. Shape(blocks') /\ Depths(blocks', Len(sc))
    <3>1. /\ blocks' = Append(blocks, block) /\ block \in Blocks /\ block.kind = "for"
          /\ block.base = base /\ block.loopVar \in Names
      BY <1>1, <1>7, <1>9
    <3>2. CASE InFunction
      <4>1. block.base = 0 /\ Len(sc) = Len(scopes)
        BY <1>2, <2>1, <2>2, <3>1, <3>2
      <4> QED
        BY <1>2, <1>3, <3>1, <3>2, <4>1, Entered
    <3>3. CASE ~InFunction
      <4>1. block.base = Len(scopes) /\ Len(sc) = Len(scopes) + 1
        BY <1>2, <2>1, <2>2, <3>1, <3>3
      <4> QED
        BY <1>2, <1>3, <3>1, <3>3, <4>1, Entered
    <3> QED
      BY <3>2, <3>3
  <2>4. Len(blocks') = Len(blocks) + 1
    BY <1>1, <1>2, <1>9
  <2>5. BlocksInv'
    BY <1>1, <1>9, <2>2, <2>3, BecomeOK
  <2>6. scopes' = sc
    BY <1>1, <1>9 DEF Become
  <2>7. Len(inside) \in Nat /\ Len(inside) >= Len(scopes)
    BY <1>2, <2>1
  <2>8. /\ Len(scopes') \in Nat /\ Len(scopes') >= Len(scopes)
        /\ \A s \in 1 .. (Len(scopes) - 1) : DOMAIN scopes'[s] = DOMAIN scopes[s]
    <3>1. ASSUME NEW s \in 1 .. (Len(scopes) - 1)
          PROVE  DOMAIN sc[s] = DOMAIN scopes[s]
      <4>1. s \in 1 .. Len(inside)
        BY <1>2, <2>7
      <4>2. DOMAIN sc[s] = DOMAIN inside[s]
        BY <2>2, <4>1
      <4> QED
        BY <2>1, <4>2
    <3> QED
      BY <1>2, <2>2, <2>6, <2>7, <3>1
  <2>9. CallerKept
    BY <1>1, <1>3, <2>4, <2>8, ScopeKept
  <2> QED
    BY <2>5, <2>9 DEF Balanced
<1> QED
  BY <1>8, <1>9

\* The scopes once a block is left, with all that was entered inside it: out of any
\* number of branches of a function, whose scope stays, or back to the depth
\* that the block was entered with.
LEMMA WithoutOK ==
  ASSUME BlocksInv, ~aborted, NEW b \in 2 .. Len(blocks), InFunction => b >= Frame
  PROVE  LET sc  == Without(b)
             cut == SubSeq(blocks, 1, b - 1)
         IN  /\ sc \in Seq(IntScope) /\ Shape(cut) /\ Len(cut) = b - 1 /\ Depths(cut, Len(sc))
             /\ \A c \in 1 .. (b - 1) : cut[c] = blocks[c]
             /\ IF blocks[b].base = 0 THEN sc = scopes
                ELSE /\ blocks[b].base \in 1 .. Len(scopes) /\ Len(sc) = blocks[b].base
                     /\ \A s \in 1 .. Len(sc) : sc[s] = scopes[s]
<1> DEFINE sc  == Without(b)
           cut == SubSeq(blocks, 1, b - 1)
<1>1. /\ scopes \in Seq(IntScope) /\ Shape(blocks) /\ Depths(blocks, Len(scopes))
      /\ blocks \in Seq(Blocks) /\ Len(scopes) \in Nat \ {0} /\ Len(blocks) \in Nat
  BY SomeScope
<1>2. /\ Shape(cut) /\ Len(cut) = b - 1 /\ \A c \in 1 .. (b - 1) : cut[c] = blocks[c]
      /\ blocks[b].base > 0 =>
           blocks[b].base \in 1 .. Len(scopes) /\ Depths(cut, blocks[b].base)
      /\ (\A c \in b .. Len(blocks) : blocks[c].base = 0) => Depths(cut, Len(scopes))
  BY <1>1, Left
<1> HIDE DEF cut
<1>3. blocks[b].base \in Nat
  <2>1. blocks[b] \in Blocks
    BY <1>1
  <2> QED
    BY <2>1 DEF Blocks
<1>4. CASE blocks[b].base = 0
  <2>1. InFunction /\ b > Frame /\ Frame \in Nat
    BY <1>1, <1>4, BasesOK, FrameOK
  <2>2. \A c \in b .. Len(blocks) : blocks[c].base = 0
    BY <1>1, <2>1, BasesOK
  <2>3. sc = scopes
    BY <1>4 DEF Without
  <2> HIDE DEF sc
  <2> QED
    BY <1>1, <1>2, <1>4, <2>2, <2>3 DEF sc, cut
<1>5. CASE blocks[b].base # 0
  <2>1. blocks[b].base \in 1 .. Len(scopes) /\ Depths(cut, blocks[b].base)
    BY <1>2, <1>3, <1>5
  <2>2. sc = PoppedTo(scopes, blocks[b].base)
    BY <1>5 DEF Without
  <2>3. blocks[b].base \in 0 .. Len(scopes)
    BY <2>1
  <2> HIDE DEF sc
  <2>4. /\ sc \in Seq(IntScope) /\ Len(sc) = blocks[b].base
        /\ \A s \in 1 .. Len(sc) : sc[s] = scopes[s]
    BY <1>1, <2>2, <2>3, PoppedInt
  <2> QED
    BY <1>2, <1>5, <2>1, <2>4 DEF sc, cut
<1> QED
  BY <1>4, <1>5

\* break, out of a loop that the running function or the program is in.
LEMMA CutOK ==
  ASSUME BlocksInv, ~aborted, NEW b \in 2 .. Len(blocks), InFunction => b > Frame,
         Become(Without(b)), blocks' = SubSeq(blocks, 1, b - 1)
  PROVE  Balanced
<1> DEFINE sc == Without(b)
<1>1. InFunction => b >= Frame
  BY FrameOK DEF BlocksInv
<1>2. /\ sc \in Seq(IntScope) /\ Shape(blocks') /\ Len(blocks') = b - 1 /\ Depths(blocks', Len(sc))
      /\ blocks[b].base = 0 => sc = scopes
  BY <1>1, WithoutOK
<1>3. Become(sc)
  OBVIOUS
<1> HIDE DEF sc
<1>4. BlocksInv'
  BY <1>2, <1>3, BecomeOK
<1>5. scopes' = sc
  BY <1>3 DEF Become
<1>6. Shape(blocks) /\ Len(scopes) \in Nat
  BY SomeScope
<1>7. Frame \in 1 .. Len(blocks) /\ Len(blocks) \in Nat
  BY <1>6, FrameOK
<1>8. CASE InFunction
  <2>1. blocks[b].base = 0
    BY <1>6, <1>7, <1>8, BasesOK
  <2> QED
    BY <1>2, <1>4, <1>5, <1>6, <1>7, <1>8, <2>1, ScopeKept DEF Balanced
<1>9. CASE ~InFunction
  BY <1>4, <1>9 DEF Balanced, CallerKept
<1> QED
  BY <1>8, <1>9

\* The end of an iteration of a block of the running function or the program.
LEMMA ContinueOK ==
  ASSUME BlocksInv, ~aborted, NEW b \in 2 .. Len(blocks), InFunction => b > Frame, Continue(b)
  PROVE  Balanced
<1> DEFINE sc    == Without(b)
           cut   == SubSeq(blocks, 1, b - 1)
           loop  == blocks[b]
           next  == Iteration(loop.done + 1)
           again == [loop EXCEPT !.vars = Bind(<<>>, loop.loopVar, next), !.done = @ + 1, !.left = @ - 1]
           sc2   == IF loop.base = 0 THEN sc ELSE Pushed(sc)
           sc3   == Assigned(sc2, loop.loopVar, next)
<1>1. CASE loop.left = 0
  BY <1>1, CutOK DEF Continue
<1>2. CASE loop.left # 0
  <2>1. Become(sc3) /\ blocks' = Append(cut, again)
    BY <1>2 DEF Continue
  <2>2. /\ Shape(blocks) /\ blocks \in Seq(Blocks) /\ Len(scopes) \in Nat
        /\ Frame \in 1 .. Len(blocks) /\ Len(blocks) \in Nat
    BY SomeScope, FrameOK
  <2>3. loop \in Blocks
    BY <2>2
  <2>4. /\ loop.left \in Nat \ {0} /\ loop.done \in Nat /\ loop.base \in Nat
    BY <1>2, <2>3 DEF Blocks
  <2>5. /\ loop.kind # "program" /\ loop.loopVar \in Names
        /\ loop.base > 0 <=> (loop.kind = "call" \/ \A c \in 2 .. (b - 1) : blocks[c].kind # "call")
    BY <2>2, <2>4 DEF Shape
  <2>6. next \in IntValue
    BY <2>4, IterationOK
  <2>7. Bind(<<>>, loop.loopVar, next) \in Bindings
    <3> DEFINE empty == <<>>
    <3>1. empty \in Bound(IntValue)
      BY EmptyOK
    <3> HIDE DEF empty, loop, next
    <3>2. Bind(empty, loop.loopVar, next) \in Bindings
      BY <2>5, <2>6, <3>1, BindOK DEF Bindings
    <3> QED
      BY <3>2 DEF empty
  <2>8. /\ again \in Blocks /\ again.kind = loop.kind /\ again.base = loop.base
        /\ again.loopVar = loop.loopVar
    <3> DEFINE x == Bind(<<>>, loop.loopVar, next)
               d == loop.done + 1
               l == loop.left - 1
    <3>1. x \in Bindings /\ d \in Nat /\ l \in Nat
      BY <2>4, <2>7
    <3>2. again = [loop EXCEPT !.vars = x, !.done = d, !.left = l]
      OBVIOUS
    <3> HIDE DEF x, d, l, loop, again
    <3> QED
      BY <2>3, <3>1, <3>2 DEF Blocks
  <2>9. InFunction => b >= Frame
    BY <2>2
  <2>10. /\ sc \in Seq(IntScope) /\ Shape(cut) /\ Len(cut) = b - 1 /\ Depths(cut, Len(sc))
         /\ \A c \in 1 .. (b - 1) : cut[c] = blocks[c]
         /\ loop.base = 0 => sc = scopes
         /\ loop.base # 0 => Len(sc) = loop.base
    BY <2>9, WithoutOK
  <2> HIDE DEF sc, cut, again
  <2>11. \A c \in 2 .. (b - 1) : cut[c].kind = blocks[c].kind
    BY <2>2, <2>10
  <2>12. sc2 \in Seq(IntScope) /\ Len(sc2) = Len(sc) + (IF loop.base = 0 THEN 0 ELSE 1) /\ Len(sc) \in Nat
    BY <2>10, PushedInt
  <2>13. loop.base = 0 => sc2 = scopes
    BY <2>10
  <2> HIDE DEF sc2
  <2>14. /\ sc3 \in Seq(IntScope) /\ Len(sc3) = Len(sc2)
         /\ \A s \in 1 .. Len(sc2) : DOMAIN sc3[s] = DOMAIN sc2[s]
    BY <2>5, <2>6, <2>12, AssignedInt
  <2> HIDE DEF sc3, loop
  <2>15. Shape(blocks') /\ Depths(blocks', Len(sc3))
    <3>1. again.base > 0 <=> (again.kind = "call" \/ \A c \in 2 .. Len(cut) : cut[c].kind # "call")
      BY <2>5, <2>8, <2>10, <2>11
    <3>2. CASE loop.base = 0
      BY <2>1, <2>5, <2>8, <2>10, <2>12, <2>14, <3>1, <3>2, Entered
    <3>3. CASE loop.base # 0
      BY <2>1, <2>5, <2>8, <2>10, <2>12, <2>14, <3>1, <3>3, Entered
    <3> QED
      BY <3>2, <3>3
  <2>16. BlocksInv'
    BY <2>1, <2>14, <2>15, BecomeOK
  <2>17. Len(blocks') = b /\ scopes' = sc3
    BY <2>1, <2>2, <2>10 DEF Become, Shape
  <2>18. CASE InFunction
    <3>1. loop.base = 0
      BY <2>2, <2>18, BasesOK DEF loop
    <3>2. sc2 = scopes
      BY <2>13, <3>1
    <3> QED
      BY <2>2, <2>14, <2>16, <2>17, <2>18, <3>2, ScopeKept DEF Balanced
  <2>19. CASE ~InFunction
    BY <2>16, <2>19 DEF Balanced, CallerKept
  <2> QED
    BY <2>18, <2>19
<1> QED
  BY <1>1, <1>2

\* The last statement of a block.
LEMMA EndBlockOK ==
  ASSUME BlocksInv, EndBlock
  PROVE  Balanced
<1>1. ~aborted /\ Continue(Len(blocks)) /\ blocks[Len(blocks)].kind \in {"if", "while", "for"}
  BY DEF EndBlock, Top, Last
<1>2. /\ Shape(blocks) /\ Len(blocks) \in Nat /\ Len(blocks) >= 1 /\ blocks[1].kind = "program"
      /\ Frame \in 1 .. Len(blocks) /\ (InFunction => blocks[Frame].kind = "call")
  BY <1>1, SomeScope, FrameOK DEF Shape
<1>3. Len(blocks) \in 2 .. Len(blocks) /\ (InFunction => Len(blocks) > Frame)
  BY <1>1, <1>2
<1> QED
  BY <1>1, <1>3, ContinueOK

\* The innermost loop of the running function is in it.
LEMMA LoopsOK ==
  ASSUME Shape(blocks), Loops # {}
  PROVE  /\ Max(Loops) \in 2 .. Len(blocks) /\ (InFunction => Max(Loops) > Frame)
         /\ blocks[Max(Loops)].kind \in {"while", "for"}
<1>1. /\ Len(blocks) \in Nat /\ blocks[1].kind = "program"
      /\ Frame \in 1 .. Len(blocks) /\ (InFunction => blocks[Frame].kind = "call")
  BY FrameOK DEF Shape
<1>2. Loops \in SUBSET (0 .. Len(blocks))
  BY <1>1 DEF Loops
<1>3. Max(Loops) \in Loops
  BY <1>1, <1>2, MaxIs
<1>4. Max(Loops) \in Frame .. Len(blocks) /\ blocks[Max(Loops)].kind \in {"while", "for"}
  BY <1>3 DEF Loops
<1> QED
  BY <1>1, <1>4

LEMMA ContinueStmtOK ==
  ASSUME BlocksInv, ContinueStmt
  PROVE  Balanced
<1>1. ~aborted /\ Loops # {} /\ Continue(Max(Loops)) /\ Shape(blocks)
  BY DEF ContinueStmt, BlocksInv
<1>2. Max(Loops) \in 2 .. Len(blocks) /\ (InFunction => Max(Loops) > Frame)
  BY <1>1, LoopsOK
<1> QED
  BY <1>1, <1>2, ContinueOK

LEMMA BreakStmtOK ==
  ASSUME BlocksInv, BreakStmt
  PROVE  Balanced
<1>1. /\ ~aborted /\ Loops # {} /\ Shape(blocks)
      /\ Become(Without(Max(Loops))) /\ blocks' = SubSeq(blocks, 1, Max(Loops) - 1)
  BY DEF BreakStmt, BlocksInv
<1>2. Max(Loops) \in 2 .. Len(blocks) /\ (InFunction => Max(Loops) > Frame)
  BY <1>1, LoopsOK
<1> QED
  BY <1>1, <1>2, CutOK

\* return pops back to the scopes of the caller.
LEMMA ReturnStmtOK ==
  ASSUME BlocksInv, ReturnStmt
  PROVE  Balanced
<1>1. ~aborted /\ InFunction /\ Become(Without(Frame)) /\ blocks' = SubSeq(blocks, 1, Frame - 1)
  BY DEF ReturnStmt
<1>2. Shape(blocks) /\ Frame \in 2 .. Len(blocks) /\ Len(blocks) \in Nat /\ Len(scopes) \in Nat
  BY <1>1, SomeScope, FrameOK DEF InFunction
<1>3. blocks[Frame].base \in Nat \ {0}
  BY <1>1, FrameDepth
<1> DEFINE sc == Without(Frame)
<1>4. /\ sc \in Seq(IntScope) /\ Shape(blocks') /\ Len(blocks') = Frame - 1 /\ Depths(blocks', Len(sc))
      /\ Len(sc) = blocks[Frame].base
      /\ \A s \in 1 .. Len(sc) : sc[s] = scopes[s]
  BY <1>1, <1>2, <1>3, WithoutOK
<1>5. Become(sc)
  BY <1>1
<1> HIDE DEF sc
<1>6. BlocksInv'
  BY <1>4, <1>5, BecomeOK
<1>7. scopes' = sc
  BY <1>5 DEF Become
<1>8. CallerKept
  BY <1>2, <1>3, <1>4, <1>7 DEF CallerKept
<1> QED
  BY <1>6, <1>8 DEF Balanced

\* Every statement.
LEMMA StatementOK ==
  ASSUME BlocksInv, [Statement]_allVars
  PROVE  Balanced
<1>1. CASE Assignments
  BY <1>1, LetOK, SetOK DEF Assignments
<1>2. CASE Branches
  BY <1>2, EnterOK, EndBlockOK, ContinueStmtOK, BreakStmtOK DEF Branches
<1>3. CASE ForLoops
  BY <1>3, EnterForOK DEF ForLoops
<1>4. CASE Calls
  BY <1>4, CallOK, ReturnStmtOK, LocalLetOK DEF Calls
<1>5. CASE LocalWrites
  BY <1>5, LocalSetOK, LocalUpdateOK DEF LocalWrites
<1>6. CASE UNCHANGED allVars
  <2>1. BlocksInv'
    BY <1>6 DEF allVars, BlocksInv
  <2>2. CallerKept
    <3>1. CASE aborted
      BY <1>6, <3>1 DEF allVars, CallerKept
    <3>2. CASE ~aborted
      <4>1. Shape(blocks) /\ Len(scopes) \in Nat
        BY <3>2, SomeScope
      <4>2. Frame \in 1 .. Len(blocks) /\ Len(blocks) \in Nat
        BY <4>1, FrameOK
      <4> QED
        BY <1>6, <3>2, <4>1, <4>2, ScopeKept DEF allVars
    <3> QED
      BY <3>1, <3>2
  <2> QED
    BY <2>1, <2>2 DEF Balanced
<1> QED
  BY <1>1, <1>2, <1>3, <1>4, <1>5, <1>6 DEF Statement, PlainStatement

\* A program starts in its outermost block, with one scope.
LEMMA ProgramInitOK == ProgramInit => BlocksInv
<1> SUFFICES ASSUME ProgramInit PROVE BlocksInv
  OBVIOUS
<1> DEFINE empty == <<>>
           program == Block("program", empty, 0)
<1>1. empty \in IntScope /\ empty \in Bindings
  BY EmptyOK DEF IntScope, Bindings
<1>2. scopes = <<empty>> /\ aborted = FALSE /\ blocks = <<program>>
  BY DEF ProgramInit, Init
<1> HIDE DEF empty
<1>3. program \in Blocks /\ program.kind = "program" /\ program.base = 0
  BY <1>1, BlockOK
<1> HIDE DEF program
<1>4. blocks \in Seq(Blocks) /\ blocks # <<>> /\ Len(blocks) = 1 /\ blocks[1] = program
  BY <1>2, <1>3
<1>5. Shape(blocks)
  BY <1>3, <1>4 DEF Shape
<1>6. Pushing(blocks) = {}
  BY <1>3, <1>4 DEF Pushing
<1>7. Depths(blocks, 1)
  BY <1>6, FS_EmptySet DEF Depths
<1>8. scopes \in Seq(IntScope) /\ Len(scopes) = 1
  BY <1>1, <1>2
<1> QED
  BY <1>2, <1>5, <1>7, <1>8 DEF BlocksInv

-----------------------------------------------------------------------------
(* Programs of branches and while loops.                                   *)

\* They run no function.
LEMMA NoFrame ==
  ASSUME Shape(blocks), Lexical(scopes, blocks)
  PROVE  Frame = 1 /\ ~InFunction
<1>1. Frame \in 1 .. Len(blocks) /\ Len(blocks) \in Nat /\ (InFunction => blocks[Frame].kind = "call")
  BY FrameOK
<1>2. blocks[Frame].kind # "call"
  BY <1>1 DEF Lexical
<1> QED
  BY <1>1, <1>2 DEF InFunction

\* The innermost variable of a name is the one that the semantic analysis means.
LEMMA SameMeaning ==
  ASSUME BlocksInv, ~aborted, Lexical(scopes, blocks), NEW n
  PROVE  Declaring(n) = Innermost(scopes, n)
<1> DEFINE own == {b \in Frame .. Len(blocks) : n \in DOMAIN blocks[b].vars}
           i == Innermost(scopes, n)
           d == Declaring(n)
<1>1. /\ scopes \in Seq(IntScope) /\ Shape(blocks) /\ Len(scopes) = Len(blocks) /\ Len(blocks) \in Nat \ {0}
      /\ Frame = 1
      /\ \A b \in 1 .. Len(blocks) : DOMAIN scopes[b] = DOMAIN blocks[b].vars
  BY SomeScope, NoFrame DEF Lexical
<1>2. /\ i \in 0 .. Len(blocks)
      /\ i # 0 => n \in DOMAIN scopes[i]
      /\ \A b \in 1 .. Len(blocks) : n \in DOMAIN scopes[b] => b <= i
  BY <1>1, InnermostOK
<1>3. own \in SUBSET (0 .. Len(blocks)) /\ own = {b \in 1 .. Len(blocks) : n \in DOMAIN blocks[b].vars}
  BY <1>1
<1>4. own # {} => Max(own) \in own /\ \A b \in own : Max(own) >= b
  <2> HIDE DEF own
  <2> QED
    BY <1>1, <1>3, MaxIs
<1>5. d = IF own # {} THEN Max(own) ELSE IF n \in DOMAIN blocks[1].vars THEN 1 ELSE 0
  BY DEF Declaring
<1> HIDE DEF i, d, own
<1>6. CASE own = {}
  <2>1. \A b \in 1 .. Len(blocks) : n \notin DOMAIN blocks[b].vars
    BY <1>3, <1>6
  <2>2. d = 0
    BY <1>1, <1>5, <1>6, <2>1
  <2>3. i = 0
    BY <1>1, <1>2, <2>1
  <2> QED
    BY <2>2, <2>3 DEF d, i
<1>7. CASE own # {}
  <2>1. d \in own /\ \A b \in own : d >= b
    BY <1>4, <1>5, <1>7
  <2>2. d \in 1 .. Len(blocks) /\ d <= i
    BY <1>1, <1>2, <1>3, <2>1
  <2>3. i \in 1 .. Len(blocks) /\ i \in own
    BY <1>1, <1>2, <1>3, <2>2
  <2>4. d >= i
    BY <2>1, <2>3
  <2> QED
    BY <2>2, <2>3, <2>4 DEF d, i
<1> QED
  BY <1>6, <1>7

\* A scope that lacks a name has room for it.
LEMMA RoomOK ==
  ASSUME NEW D \in SUBSET Names, NEW n \in Names, n \notin D
  PROVE  Cardinality(D) < MaxVars
<1>1. IsFiniteSet(Names) /\ Cardinality(Names) <= MaxVars /\ MaxVars \in Nat
  BY ScopesAssumption, IntegersAssumption
<1>2. /\ IsFiniteSet(Names \ {n}) /\ Cardinality(Names \ {n}) = Cardinality(Names) - 1
  BY <1>1, FS_RemoveElement
<1>3. D \subseteq Names \ {n}
  OBVIOUS
<1>4. Cardinality(D) <= Cardinality(Names \ {n}) /\ Cardinality(D) \in Nat /\ Cardinality(Names) \in Nat
  BY <1>1, <1>2, <1>3, FS_Subset, FS_CardinalityType
<1> QED
  BY <1>1, <1>2, <1>4

\* A declaration.
LEMMA LexicalLet ==
  ASSUME BlocksInv, ~aborted, Lexical(scopes, blocks), NEW n \in Names, NEW v \in Values, Let(n, v)
  PROVE  ~aborted' /\ Lexical(scopes', blocks')
<1> DEFINE k == Len(blocks)
           sc == Declared(scopes, n, "Int", FALSE, v)
           bs == Means(blocks, k, n, v)
<1>1. /\ scopes \in Seq(IntScope) /\ scopes # <<>> /\ Shape(blocks)
      /\ k \in Nat \ {0} /\ k \in 1 .. k /\ Len(scopes) = k /\ k <= MaxBlocks + 1
  BY SomeScope DEF Lexical
<1>2. n \notin DOMAIN blocks[k].vars /\ blocks' = bs /\ Declare(n, "Int", FALSE, v)
  BY DEF Let, Top, Last
<1>3. DOMAIN scopes[k] = DOMAIN blocks[k].vars /\ scopes[k] \in IntScope
  BY <1>1 DEF Lexical
<1>4. DOMAIN scopes[k] \in SUBSET Names
  BY <1>3 DEF IntScope, Bound
<1>5. CanDeclare(scopes, n)
  BY <1>1, <1>2, <1>3, <1>4, RoomOK DEF CanDeclare, Last
<1>6. scopes' = sc /\ ~aborted'
  BY <1>2, <1>5 DEF Declare, Become
<1>7. v \in IntValue
  BY IntValueOK
<1>8. /\ sc \in Seq(IntScope) /\ Len(sc) = k
      /\ DOMAIN sc[k] = DOMAIN scopes[k] \cup {n}
      /\ sc[k][n] = IntOf(v)
      /\ \A m \in DOMAIN scopes[k] : m # n => sc[k][m] = scopes[k][m]
      /\ \A s \in 1 .. (k - 1) : sc[s] = scopes[s]
  <2>1. Len(scopes) = k
    BY <1>1
  <2> HIDE DEF k
  <2>2. /\ sc \in Seq(IntScope) /\ Len(sc) = Len(scopes)
        /\ DOMAIN sc[Len(scopes)] = DOMAIN scopes[Len(scopes)] \cup {n}
        /\ sc[Len(scopes)][n] = IntOf(v)
        /\ \A m \in DOMAIN scopes[Len(scopes)] : m # n => sc[Len(scopes)][m] = scopes[Len(scopes)][m]
        /\ \A s \in 1 .. (Len(scopes) - 1) : sc[s] = scopes[s]
    BY <1>1, <1>7, DeclaredInt
  <2> HIDE DEF sc
  <2> QED
    BY <2>1, <2>2
<1>9. /\ Len(bs) = k /\ bs[k] = [blocks[k] EXCEPT !.vars = Bind(@, n, v)]
      /\ \A c \in 1 .. k : c # k => bs[c] = blocks[c]
  BY <1>1, <1>7, MeansOK
<1>10. blocks[k] \in Blocks
  BY <1>1 DEF Shape
<1>11. /\ bs[k].kind = blocks[k].kind /\ bs[k].base = blocks[k].base /\ bs[k].left = blocks[k].left
       /\ bs[k].vars = Bind(blocks[k].vars, n, v)
  BY <1>9, <1>10 DEF Blocks
<1> HIDE DEF sc, bs, k
<1>12. \A m \in DOMAIN scopes[k] : scopes[k][m].value = blocks[k].vars[m]
  BY <1>1 DEF Lexical, k
<1>13. DOMAIN sc[k] = DOMAIN bs[k].vars /\ \A m \in DOMAIN sc[k] : sc[k][m].value = bs[k].vars[m]
  BY <1>2, <1>3, <1>8, <1>11, <1>12 DEF Bind, IntOf
<1>14. \A b \in 1 .. k :
         /\ bs[b].kind \in {"program", "if", "while"}
         /\ bs[b].base = b - 1
         /\ bs[b].left = 0
         /\ DOMAIN sc[b] = DOMAIN bs[b].vars
         /\ \A m \in DOMAIN sc[b] : sc[b][m].value = bs[b].vars[m]
  <2> SUFFICES ASSUME NEW b \in 1 .. k
               PROVE  /\ bs[b].kind \in {"program", "if", "while"}
                      /\ bs[b].base = b - 1
                      /\ bs[b].left = 0
                      /\ DOMAIN sc[b] = DOMAIN bs[b].vars
                      /\ \A m \in DOMAIN sc[b] : sc[b][m].value = bs[b].vars[m]
    OBVIOUS
  <2>1. CASE b = k
    BY <1>1, <1>11, <1>13, <2>1 DEF Lexical, k
  <2>2. CASE b # k
    <3>1. sc[b] = scopes[b] /\ bs[b] = blocks[b]
      BY <1>1, <1>8, <1>9, <2>2
    <3> QED
      BY <3>1 DEF Lexical, k
  <2> QED
    BY <2>1, <2>2
<1> QED
  BY <1>1, <1>2, <1>6, <1>8, <1>9, <1>14 DEF Lexical

\* An assignment finds the variable that the semantic analysis means.
LEMMA LexicalSet ==
  ASSUME BlocksInv, ~aborted, Lexical(scopes, blocks), NEW n \in Names, NEW v \in Values, Set(n, v)
  PROVE  ~aborted' /\ Lexical(scopes', blocks')
<1> DEFINE k == Declaring(n)
           sc == Assigned(scopes, n, v)
           bs == Means(blocks, k, n, v)
<1>1. /\ scopes \in Seq(IntScope) /\ Shape(blocks) /\ Len(blocks) \in Nat
      /\ Len(scopes) = Len(blocks) /\ Len(blocks) <= MaxBlocks + 1
  BY SomeScope DEF Lexical
<1>2. k # 0 /\ blocks' = bs /\ Assign(n, v)
  BY DEF Set
<1>3. k \in 1 .. Len(blocks) /\ n \in DOMAIN blocks[k].vars
  BY <1>1, <1>2, DeclaringOK
<1>4. k = Innermost(scopes, n)
  BY SameMeaning
<1>5. scopes' = sc /\ ~aborted'
  BY <1>2, AssignedStep DEF Become
<1>6. v \in IntValue
  BY IntValueOK
<1>7. /\ Len(sc) = Len(scopes)
      /\ \A s \in 1 .. Len(scopes) : DOMAIN sc[s] = DOMAIN scopes[s]
      /\ Innermost(scopes, n) # 0 => sc[Innermost(scopes, n)][n] = IntOf(v)
      /\ \A s \in 1 .. Len(scopes) : \A m \in DOMAIN scopes[s] :
           s # Innermost(scopes, n) \/ m # n => sc[s][m] = scopes[s][m]
  BY <1>1, <1>6, AssignedInt
<1>8. bs = Means(blocks, k, n, v) /\ blocks[k] \in Blocks
  BY <1>1, <1>3 DEF Shape
<1> HIDE DEF sc, bs, k
<1>9. /\ Len(bs) = Len(blocks) /\ bs[k] = [blocks[k] EXCEPT !.vars = Bind(@, n, v)]
      /\ \A c \in 1 .. Len(blocks) : c # k => bs[c] = blocks[c]
  BY <1>1, <1>3, <1>6, <1>8, MeansOK
<1>10. /\ bs[k].kind = blocks[k].kind /\ bs[k].base = blocks[k].base /\ bs[k].left = blocks[k].left
       /\ bs[k].vars = Bind(blocks[k].vars, n, v)
  BY <1>8, <1>9 DEF Blocks
<1>11. \A b \in 1 .. Len(blocks) :
         /\ bs[b].kind \in {"program", "if", "while"}
         /\ bs[b].base = b - 1
         /\ bs[b].left = 0
         /\ DOMAIN sc[b] = DOMAIN bs[b].vars
         /\ \A m \in DOMAIN sc[b] : sc[b][m].value = bs[b].vars[m]
  <2> SUFFICES ASSUME NEW b \in 1 .. Len(blocks)
               PROVE  /\ bs[b].kind \in {"program", "if", "while"}
                      /\ bs[b].base = b - 1
                      /\ bs[b].left = 0
                      /\ DOMAIN sc[b] = DOMAIN bs[b].vars
                      /\ \A m \in DOMAIN sc[b] : sc[b][m].value = bs[b].vars[m]
    OBVIOUS
  <2>1. /\ DOMAIN scopes[b] = DOMAIN blocks[b].vars
        /\ \A m \in DOMAIN scopes[b] : scopes[b][m].value = blocks[b].vars[m]
        /\ blocks[b].kind \in {"program", "if", "while"} /\ blocks[b].base = b - 1 /\ blocks[b].left = 0
    BY DEF Lexical
  <2>2. DOMAIN sc[b] = DOMAIN scopes[b]
    BY <1>1, <1>7
  <2>3. CASE b = k
    <3>1. sc[b][n] = IntOf(v) /\ \A m \in DOMAIN scopes[b] : m # n => sc[b][m] = scopes[b][m]
      BY <1>1, <1>2, <1>4, <1>7, <2>3
    <3>2. n \in DOMAIN blocks[b].vars /\ bs[b].vars = Bind(blocks[b].vars, n, v)
      BY <1>3, <1>10, <2>3
    <3>3. DOMAIN sc[b] = DOMAIN bs[b].vars /\ \A m \in DOMAIN sc[b] : sc[b][m].value = bs[b].vars[m]
      BY <2>1, <2>2, <3>1, <3>2 DEF Bind, IntOf
    <3> QED
      BY <1>10, <2>1, <2>3, <3>3
  <2>4. CASE b # k
    <3>1. bs[b] = blocks[b]
      BY <1>9, <2>4
    <3>2. \A m \in DOMAIN scopes[b] : sc[b][m] = scopes[b][m]
      BY <1>1, <1>4, <1>7, <2>4
    <3> QED
      BY <2>1, <2>2, <3>1, <3>2
  <2> QED
    BY <2>3, <2>4
<1> QED
  BY <1>1, <1>2, <1>5, <1>7, <1>9, <1>11 DEF Lexical

\* A branch, or an iteration of a while loop, has a scope, and there is room for it.
LEMMA LexicalEnter ==
  ASSUME BlocksInv, ~aborted, Lexical(scopes, blocks), NEW kind \in {"if", "while"}, Enter(kind)
  PROVE  ~aborted' /\ Lexical(scopes', blocks')
<1> DEFINE empty == <<>>
           block == Block(kind, empty, Len(scopes))
           k     == Len(blocks)
<1>1. /\ scopes \in Seq(IntScope) /\ Shape(blocks) /\ blocks \in Seq(Blocks) /\ k \in Nat
      /\ Len(scopes) = k
  BY SomeScope DEF Lexical
<1>2. k <= MaxBlocks /\ blocks' = Append(blocks, block) /\ Push
  BY NoFrame, SomeScope DEF Enter, Open
<1>3. CanPush(scopes)
  BY <1>1, <1>2, BlocksAssumption, ScopesAssumption DEF CanPush
<1>4. scopes' = Pushed(scopes) /\ ~aborted'
  BY <1>2, <1>3 DEF Push, Become
<1>5. /\ Len(scopes') = k + 1 /\ DOMAIN scopes'[k + 1] = {} /\ \A s \in 1 .. k : scopes'[s] = scopes[s]
  BY <1>1, <1>4, PushedInt
<1>6. empty \in Bindings /\ DOMAIN empty = {}
  BY EmptyOK DEF Bindings
<1> HIDE DEF empty
<1>7. /\ block \in Blocks /\ block.kind = kind /\ block.base = k /\ block.left = 0 /\ block.vars = empty
  BY <1>1, <1>6, BlockOK
<1> HIDE DEF block
<1>8. Len(blocks') = k + 1 /\ blocks'[k + 1] = block /\ \A b \in 1 .. k : blocks'[b] = blocks[b]
  BY <1>1, <1>2, <1>7
<1> HIDE DEF k
<1>9. ASSUME NEW b \in 1 .. (k + 1)
      PROVE  /\ blocks'[b].kind \in {"program", "if", "while"}
             /\ blocks'[b].base = b - 1
             /\ blocks'[b].left = 0
             /\ DOMAIN scopes'[b] = DOMAIN blocks'[b].vars
             /\ \A n \in DOMAIN scopes'[b] : scopes'[b][n].value = blocks'[b].vars[n]
  <2>1. CASE b = k + 1
    <3>1. blocks'[b] = block /\ DOMAIN scopes'[b] = {} /\ b - 1 = k
      BY <1>1, <1>5, <1>8, <2>1
    <3>2. block.kind \in {"program", "if", "while"} /\ DOMAIN block.vars = {}
      BY <1>6, <1>7
    <3> QED
      BY <1>7, <3>1, <3>2
  <2>2. CASE b # k + 1
    <3>1. b \in 1 .. k /\ scopes'[b] = scopes[b] /\ blocks'[b] = blocks[b]
      BY <1>1, <1>5, <1>8, <2>2
    <3> QED
      BY <3>1 DEF Lexical, k
  <2> QED
    BY <2>1, <2>2
<1>10. k + 1 <= MaxBlocks + 1
  BY <1>1, <1>2, BlocksAssumption
<1> QED
  BY <1>4, <1>5, <1>8, <1>9, <1>10 DEF Lexical

\* A block is left.
LEMMA LexicalLeave ==
  ASSUME BlocksInv, ~aborted, Lexical(scopes, blocks), NEW b \in 2 .. Len(blocks),
         Become(Without(b)), blocks' = SubSeq(blocks, 1, b - 1)
  PROVE  ~aborted' /\ Lexical(scopes', blocks')
<1>1. /\ scopes \in Seq(IntScope) /\ Shape(blocks) /\ blocks \in Seq(Blocks) /\ Len(blocks) \in Nat
      /\ Len(scopes) = Len(blocks) /\ Len(blocks) <= MaxBlocks + 1
      /\ blocks[b].base = b - 1
  BY SomeScope DEF Lexical
<1>2. scopes' = PoppedTo(scopes, b - 1) /\ ~aborted'
  BY <1>1 DEF Without, Become
<1>3. b - 1 \in 0 .. Len(scopes)
  BY <1>1
<1>4. Len(scopes') = b - 1 /\ \A s \in 1 .. (b - 1) : scopes'[s] = scopes[s]
  BY <1>1, <1>2, <1>3, PoppedInt
<1>5. Len(blocks') = b - 1 /\ \A c \in 1 .. (b - 1) : blocks'[c] = blocks[c]
  BY <1>1
<1>6. \A c \in 1 .. (b - 1) : c \in 1 .. Len(blocks)
  BY <1>1
<1>7. b - 1 <= MaxBlocks + 1
  BY <1>1, BlocksAssumption
<1> QED
  BY <1>2, <1>4, <1>5, <1>6, <1>7 DEF Lexical

LEMMA LexicalStep ==
  ASSUME BlocksInv, LexicalInv, [Statement]_allVars
  PROVE  LexicalInv'
<1> SUFFICES ASSUME plain'
             PROVE  ~aborted' /\ Lexical(scopes', blocks')
  BY DEF LexicalInv
<1>1. CASE UNCHANGED allVars
  BY <1>1 DEF allVars, LexicalInv
<1>2. CASE PlainStatement
  <2>1. plain /\ ~aborted /\ Lexical(scopes, blocks) /\ Shape(blocks) /\ Len(blocks) \in Nat
    BY <1>2, SomeScope DEF PlainStatement, LexicalInv
  <2>2. ASSUME NEW b \in 2 .. Len(blocks), Continue(b)
        PROVE  ~aborted' /\ Lexical(scopes', blocks')
    <3>1. blocks[b].left = 0
      BY <2>1 DEF Lexical
    <3>2. Become(Without(b)) /\ blocks' = SubSeq(blocks, 1, b - 1)
      BY <2>2, <3>1 DEF Continue
    <3> QED
      BY <2>1, <3>2, LexicalLeave
  <2>3. CASE \E n \in Names, v \in Values : Let(n, v) \/ Set(n, v)
    BY <2>1, <2>3, LexicalLet, LexicalSet
  <2>4. CASE Enter("if") \/ Enter("while")
    BY <2>1, <2>4, LexicalEnter
  <2>5. CASE EndBlock
    <3>1. Continue(Len(blocks)) /\ blocks[Len(blocks)].kind \in {"if", "while", "for"}
      BY <2>5 DEF EndBlock, Top, Last
    <3>2. Len(blocks) \in 2 .. Len(blocks)
      BY <2>1, <3>1 DEF Shape
    <3> QED
      BY <2>2, <3>1, <3>2
  <2>6. CASE ContinueStmt
    BY <2>1, <2>2, <2>6, LoopsOK DEF ContinueStmt
  <2>7. CASE BreakStmt
    BY <2>1, <2>7, LoopsOK, LexicalLeave DEF BreakStmt
  <2> QED
    BY <1>2, <2>3, <2>4, <2>5, <2>6, <2>7 DEF PlainStatement, Assignments, Branches
<1> QED
  BY <1>1, <1>2 DEF Statement

LEMMA LexicalInit == ProgramInit => LexicalInv
<1> SUFFICES ASSUME ProgramInit PROVE LexicalInv
  OBVIOUS
<1> DEFINE empty == <<>>
           program == Block("program", empty, 0)
<1>1. empty \in Bindings /\ DOMAIN empty = {}
  BY EmptyOK DEF Bindings
<1>2. scopes = <<empty>> /\ ~aborted /\ blocks = <<program>>
  BY DEF ProgramInit, Init
<1> HIDE DEF empty
<1>3. program.kind = "program" /\ program.base = 0 /\ program.left = 0 /\ program.vars = empty
  BY <1>1, BlockOK
<1> HIDE DEF program
<1>4. /\ Len(blocks) = 1 /\ Len(scopes) = 1 /\ blocks[1] = program /\ scopes[1] = empty
  BY <1>2
<1> QED
  BY <1>1, <1>2, <1>3, <1>4, BlocksAssumption DEF Lexical, LexicalInv

-----------------------------------------------------------------------------
(* Theorems.                                                               *)

\* What is open agrees with the runtime's scopes in every reachable state.
THEOREM BlocksInvHolds == ProgramSpec => []BlocksInv
<1>1. BlocksInv /\ [Statement]_allVars => BlocksInv'
  BY StatementOK DEF Balanced
<1> QED
  BY ProgramInitOK, <1>1, PTL DEF ProgramSpec

\* No way out of any number of blocks leaves a scope behind or pops one too many.
THEOREM DepthBalancedHolds == ProgramSpec => []DepthBalanced
<1>1. BlocksInv => DepthBalanced
  BY DEF BlocksInv, Depths, Pushing, DepthBalanced
<1> QED
  BY BlocksInvHolds, <1>1, PTL

\* A call neither declares a variable in a scope of its caller nor takes one away,
\* and its return leaves those scopes.
THEOREM CallerKeepsScopesHolds == ProgramSpec => CallerKeepsScopes
<1> DEFINE Keeps == InFunction /\ ~aborted' =>
                      LET base == blocks[Frame].base
                      IN  /\ Len(scopes') >= base
                          /\ \A s \in 1 .. base : DOMAIN scopes'[s] = DOMAIN scopes[s]
                          /\ Len(blocks') < Frame => Len(scopes') = base
<1>1. ASSUME BlocksInv, [Statement]_allVars
      PROVE  Keeps
  BY <1>1, StatementOK DEF Balanced, CallerKept
<1>2. BlocksInv /\ [Statement]_allVars => [Keeps]_allVars
  BY <1>1
<1> QED
  BY BlocksInvHolds, <1>2, PTL DEF ProgramSpec, CallerKeepsScopes

\* In a program of branches and while loops a name that is found in the runtime's
\* scopes is the one that the semantic analysis meant, and no declaration and no
\* block is refused.
THEOREM PlainProgramsAreLexicalHolds == ProgramSpec => []PlainProgramsAreLexical
<1>1. BlocksInv /\ LexicalInv /\ [Statement]_allVars => LexicalInv'
  BY LexicalStep
<1>2. BlocksInv /\ LexicalInv => PlainProgramsAreLexical
  <2> SUFFICES ASSUME BlocksInv, LexicalInv, plain, NEW n \in Names, Declaring(n) # 0
               PROVE  ~aborted /\ Read(n) = Meaning(n)
    BY DEF PlainProgramsAreLexical, LexicalReads, LexicalInv
  <2>1. ~aborted /\ Lexical(scopes, blocks) /\ Shape(blocks)
    BY DEF LexicalInv, BlocksInv
  <2> DEFINE k == Declaring(n)
  <2>2. k \in 1 .. Len(blocks) /\ n \in DOMAIN blocks[k].vars
    BY <2>1, DeclaringOK
  <2>3. k = Innermost(scopes, n) /\ ~InFunction
    BY <2>1, SameMeaning, NoFrame
  <2> HIDE DEF k
  <2>4. DOMAIN scopes[k] = DOMAIN blocks[k].vars /\ \A m \in DOMAIN scopes[k] : scopes[k][m].value = blocks[k].vars[m]
    BY <2>1, <2>2 DEF Lexical
  <2>5. scopes[k][n].value = blocks[k].vars[n]
    BY <2>2, <2>4
  <2>6. Visible(scopes, n) /\ Variable(scopes, n) = scopes[k][n] /\ Meaning(n) = blocks[k].vars[n]
    BY <2>2, <2>3 DEF Visible, Variable, Meaning, k
  <2> QED
    BY <2>1, <2>3, <2>5, <2>6 DEF Read
<1> QED
  BY BlocksInvHolds, LexicalInit, <1>1, <1>2, PTL DEF ProgramSpec
=============================================================================
