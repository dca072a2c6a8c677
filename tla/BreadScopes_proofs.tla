-------------------------- MODULE BreadScopes_proofs --------------------------
(***************************************************************************)
(* Proofs about BreadScopes, for any names, types and values and any       *)
(* limits on scopes and variables.  A call either closes scopes, opens     *)
(* one, adds a variable to the innermost one or changes one variable;      *)
(* there is one lemma for each of these.                                   *)
(***************************************************************************)
EXTENDS BreadScopes, FiniteSetTheorems, WellFoundedInduction, TLAPS

\* The types a variable may take on, and what it may hold then.
HeldTypes == Types \cup Numeric \cup {"Optional"} \cup {v.type : v \in Values}
Held      == {Zero(t) : t \in HeldTypes} \cup {Coerced(t, v) : t \in HeldTypes, v \in Values}
Vars      == [type : HeldTypes, const : BOOLEAN, value : Held]
Scope     == UNION {[D -> Vars] : D \in SUBSET Names}

ScopeOK(f) == /\ f \in Scope
              /\ Cardinality(DOMAIN f) <= MaxVars
              /\ \A n \in DOMAIN f : f[n].value.type = f[n].type

StackOK(sc) == /\ sc \in Seq(Scope)
               /\ Len(sc) <= MaxScopes
               /\ \A s \in DOMAIN sc : ScopeOK(sc[s])

IInv == StackOK(scopes) /\ aborted \in BOOLEAN

-----------------------------------------------------------------------------
(* Variables.                                                              *)

LEMMA ZeroOK ==
  ASSUME NEW t \in HeldTypes
  PROVE  Zero(t) \in Held /\ Zero(t).type = t
  BY DEF Zero, Held, Nil, Number, Optional, Object, Numeric

LEMMA CoercedOK ==
  ASSUME NEW t \in HeldTypes, NEW v \in Values, Accepts(t, v)
  PROVE  /\ Coerced(t, v) \in Held /\ Coerced(t, v).type \in HeldTypes
         /\ \/ Coerced(t, v).type = t
            \/ t = "Nil"
            \/ t = "Struct" /\ Coerced(t, v).type = "Class"
<1>1. Coerced(t, v) \in Held
  BY DEF Held
<1>2. v.type \in HeldTypes
  BY DEF HeldTypes
<1>3. CASE t \in Numeric \ {v.type}
  BY <1>1, <1>3 DEF Coerced, Number
<1>4. CASE t \notin Numeric \ {v.type} /\ t = "Optional" /\ v.type # "Optional"
  BY <1>1, <1>4 DEF Coerced, Optional
<1>5. CASE t \notin Numeric \ {v.type} /\ ~(t = "Optional" /\ v.type # "Optional")
  <2>1. Coerced(t, v) = v
    BY <1>5 DEF Coerced
  <2> QED
    BY <1>1, <1>2, <1>5, <2>1 DEF Accepts
<1> QED
  BY <1>3, <1>4, <1>5

\* What coerce_and_assign leaves in a variable.
LEMMA StoredOK ==
  ASSUME NEW x \in Vars, x.value.type = x.type, NEW v \in Values
  PROVE  /\ Stored(x, v) \in Vars
         /\ Stored(x, v).value.type = Stored(x, v).type
         /\ Stored(x, v).const = x.const
         /\ \/ Stored(x, v).type = x.type
            \/ x.type = "Nil"
            \/ x.type = "Struct" /\ Stored(x, v).type = "Class"
<1>1. CASE ~ Accepts(x.type, v)
  BY <1>1 DEF Stored
<1>2. CASE Accepts(x.type, v)
  <2> DEFINE held == Coerced(x.type, v)
  <2>1. x.type \in HeldTypes
    BY DEF Vars
  <2>2. /\ held \in Held /\ held.type \in HeldTypes
        /\ held.type = x.type \/ x.type = "Nil" \/ (x.type = "Struct" /\ held.type = "Class")
    BY <1>2, <2>1, CoercedOK
  <2>3. Stored(x, v) = [x EXCEPT !.type = held.type, !.value = held]
    BY <1>2 DEF Stored
  <2> HIDE DEF held
  <2> QED
    BY <2>2, <2>3 DEF Vars
<1> QED
  BY <1>1, <1>2

LEMMA MaxIs ==
  ASSUME NEW n \in Nat, NEW S \in SUBSET (0 .. n), S # {}
  PROVE  Max(S) \in S /\ \A s \in S : Max(S) >= s
<1> DEFINE More == {ss \in Nat \X Nat : ss[1] < ss[2]}
           Left == {n - s : s \in S}
<1>1. Left \subseteq Nat /\ Left # {}
  OBVIOUS
<1>2. IsWellFoundedOn(More, Nat)
  BY NatLessThanWellFounded DEF OpToRel
<1>3. PICK b \in Left : \A other \in Left : ~ (<<other, b>> \in More)
  <2> HIDE DEF More, Left
  <2> QED
    BY <1>1, <1>2, WFMin
<1>4. PICK m \in S : b = n - m
  BY <1>3
<1>5. ASSUME NEW s \in S
      PROVE  m >= s
  <2>1. n - s \in Left /\ n - s \in Nat /\ b \in Nat
    BY <1>1, <1>3
  <2>2. ~ (n - s < b)
    BY <1>3, <2>1
  <2> QED
    BY <1>4, <2>2
<1> QED
  BY <1>5 DEF Max

\* The search for a name ends with the innermost scope that has it, or with none.
LEMMA InnermostOK ==
  ASSUME NEW Elements, NEW sc \in Seq(Elements), NEW n
  PROVE  /\ Innermost(sc, n) \in 0 .. Len(sc)
         /\ Innermost(sc, n) # 0 => n \in DOMAIN sc[Innermost(sc, n)]
         /\ \A s \in DOMAIN sc : n \in DOMAIN sc[s] => s <= Innermost(sc, n)
<1> DEFINE S == {0} \cup {s \in DOMAIN sc : n \in DOMAIN sc[s]}
<1>1. S \in SUBSET (0 .. Len(sc)) /\ S # {} /\ Len(sc) \in Nat
  OBVIOUS
<1>2. Innermost(sc, n) = Max(S)
  BY DEF Innermost
<1>3. Max(S) \in S /\ \A s \in S : Max(S) >= s
  <2> HIDE DEF S
  <2> QED
    BY <1>1, MaxIs
<1> QED
  BY <1>1, <1>2, <1>3

-----------------------------------------------------------------------------
(* What a call does to the stack.                                          *)

\* A variable of the stack is one.
LEMMA VariableOK ==
  ASSUME NEW sc, StackOK(sc), NEW s \in DOMAIN sc, NEW n \in DOMAIN sc[s]
  PROVE  sc[s][n] \in Vars /\ sc[s][n].value.type = sc[s][n].type /\ n \in Names
  BY DEF StackOK, ScopeOK, Scope

\* Closing scopes.
LEMMA PoppedOK ==
  ASSUME NEW sc, StackOK(sc), NEW depth \in 0 .. Len(sc)
  PROVE  /\ StackOK(PoppedTo(sc, depth))
         /\ Len(PoppedTo(sc, depth)) = depth
         /\ \A s \in DOMAIN PoppedTo(sc, depth) : s \in DOMAIN sc /\ PoppedTo(sc, depth)[s] = sc[s]
<1> DEFINE p == PoppedTo(sc, depth)
<1>1. sc \in Seq(Scope) /\ Len(sc) <= MaxScopes
  BY DEF StackOK
<1>2. p \in Seq(Scope) /\ Len(p) = depth /\ \A s \in DOMAIN p : s \in DOMAIN sc /\ p[s] = sc[s]
  BY <1>1 DEF PoppedTo
<1>3. depth <= MaxScopes
  BY <1>1, ScopesAssumption
<1> HIDE DEF p
<1>4. \A s \in DOMAIN p : ScopeOK(p[s])
  BY <1>2 DEF StackOK
<1>5. StackOK(p)
  BY <1>2, <1>3, <1>4 DEF StackOK
<1> QED
  BY <1>2, <1>5 DEF p

\* Opening a scope.
LEMMA PushedOK ==
  ASSUME NEW sc, StackOK(sc), CanPush(sc)
  PROVE  /\ StackOK(Pushed(sc))
         /\ Len(Pushed(sc)) = Len(sc) + 1
         /\ \A s \in DOMAIN sc : s \in DOMAIN Pushed(sc) /\ Pushed(sc)[s] = sc[s]
<1>1. ScopeOK(<<>>)
  <2>1. <<>> \in [{} -> Vars] /\ DOMAIN <<>> = {}
    OBVIOUS
  <2>2. Cardinality(DOMAIN <<>>) = 0
    BY <2>1, FS_EmptySet
  <2> QED
    BY <2>1, <2>2, ScopesAssumption DEF ScopeOK, Scope
<1>2. sc \in Seq(Scope) /\ Len(sc) < MaxScopes /\ \A s \in DOMAIN sc : ScopeOK(sc[s])
  BY DEF StackOK, CanPush
<1>3. <<>> \in Scope
  BY <1>1 DEF ScopeOK
<1> DEFINE p == Pushed(sc)
<1>4. /\ p \in Seq(Scope) /\ Len(p) = Len(sc) + 1 /\ p[Len(sc) + 1] = <<>>
      /\ \A s \in DOMAIN sc : s \in DOMAIN p /\ p[s] = sc[s]
      /\ \A s \in DOMAIN p : s \in DOMAIN sc \/ s = Len(sc) + 1
  BY <1>2, <1>3 DEF Pushed
<1>5. Len(p) <= MaxScopes
  BY <1>2, <1>4, ScopesAssumption
<1> HIDE DEF p
<1>6. \A s \in DOMAIN p : ScopeOK(p[s])
  BY <1>1, <1>2, <1>4
<1> QED
  BY <1>4, <1>5, <1>6 DEF StackOK, p

\* Putting another scope in the place of one.
LEMMA ReplacedOK ==
  ASSUME NEW sc, StackOK(sc), NEW s \in DOMAIN sc, NEW f, ScopeOK(f)
  PROVE  /\ StackOK([sc EXCEPT ![s] = f])
         /\ Len([sc EXCEPT ![s] = f]) = Len(sc)
         /\ DOMAIN [sc EXCEPT ![s] = f] = DOMAIN sc
         /\ [sc EXCEPT ![s] = f][s] = f
         /\ \A t \in DOMAIN sc : t # s => [sc EXCEPT ![s] = f][t] = sc[t]
<1>1. sc \in Seq(Scope) /\ Len(sc) <= MaxScopes /\ f \in Scope
  BY DEF StackOK, ScopeOK
<1> DEFINE p == [sc EXCEPT ![s] = f]
<1>2. p \in Seq(Scope) /\ Len(p) = Len(sc) /\ DOMAIN p = DOMAIN sc /\ p[s] = f /\ \A t \in DOMAIN sc : t # s => p[t] = sc[t]
  BY <1>1
<1> HIDE DEF p
<1>3. \A t \in DOMAIN p : ScopeOK(p[t])
  BY <1>2 DEF StackOK
<1> QED
  BY <1>1, <1>2, <1>3 DEF StackOK, p

\* A new variable in a scope.
LEMMA BoundOK ==
  ASSUME NEW f, ScopeOK(f), NEW n \in Names, n \notin DOMAIN f, Cardinality(DOMAIN f) < MaxVars,
         NEW x \in Vars, x.value.type = x.type
  PROVE  /\ ScopeOK(Bind(f, n, x))
         /\ DOMAIN Bind(f, n, x) = DOMAIN f \cup {n}
         /\ \A m \in DOMAIN f : Bind(f, n, x)[m] = f[m]
<1> DEFINE g == Bind(f, n, x)
<1>1. PICK D \in SUBSET Names : f \in [D -> Vars]
  BY DEF ScopeOK, Scope
<1>2. D = DOMAIN f
  BY <1>1
<1>3. g \in [D \cup {n} -> Vars] /\ g[n] = x /\ \A m \in D : g[m] = f[m]
  BY <1>1, <1>2 DEF Bind
<1>4. IsFiniteSet(D)
  BY <1>1, ScopesAssumption, FS_Subset
<1>5. Cardinality(D \cup {n}) = Cardinality(D) + 1 /\ Cardinality(D) \in Nat
  BY <1>2, <1>4, FS_AddElement, FS_CardinalityType
<1>6. Cardinality(DOMAIN g) <= MaxVars
  BY <1>2, <1>3, <1>5, ScopesAssumption
<1> HIDE DEF g
<1>7. g \in Scope
  BY <1>1, <1>3 DEF Scope
<1>8. \A m \in DOMAIN g : g[m].value.type = g[m].type
  BY <1>2, <1>3 DEF ScopeOK
<1> QED
  BY <1>2, <1>3, <1>6, <1>7, <1>8 DEF ScopeOK, g

\* bread_var_decl.
LEMMA DeclaredOK ==
  ASSUME NEW sc, StackOK(sc), NEW n \in Names, NEW type \in Types, NEW const \in BOOLEAN,
         NEW v \in Values \cup {NoValue}, CanDeclare(sc, n)
  PROVE  LET new == Declared(sc, n, type, const, v)
         IN  /\ StackOK(new) /\ Len(new) = Len(sc) /\ DOMAIN new = DOMAIN sc
             /\ \A s \in DOMAIN sc, m \in Names : m \in DOMAIN sc[s] => m \in DOMAIN new[s] /\ new[s][m] = sc[s][m]
<1> DEFINE zero == [type |-> type, const |-> const, value |-> Zero(type)]
           x == IF v = NoValue THEN zero ELSE Stored(zero, v)
           k == Len(sc)
           f == Bind(sc[k], n, x)
           new == Declared(sc, n, type, const, v)
<1>1. zero \in Vars /\ zero.value.type = zero.type
  <2>1. type \in HeldTypes
    BY DEF HeldTypes
  <2> QED
    BY <2>1, ZeroOK DEF Vars
<1>2. x \in Vars /\ x.value.type = x.type
  <2> HIDE DEF zero
  <2> QED
    BY <1>1, StoredOK
<1>3. sc \in Seq(Scope) /\ k \in DOMAIN sc /\ Last(sc) = sc[k]
  BY DEF StackOK, CanDeclare, Last
<1>4. n \notin DOMAIN sc[k] /\ Cardinality(DOMAIN sc[k]) < MaxVars /\ ScopeOK(sc[k])
  BY <1>3 DEF CanDeclare, StackOK
<1>5. new = [sc EXCEPT ![k] = f]
  BY <1>3 DEF Declared
<1> HIDE DEF x, f, new
<1>6. ScopeOK(f) /\ DOMAIN f = DOMAIN sc[k] \cup {n} /\ \A m \in DOMAIN sc[k] : f[m] = sc[k][m]
  BY <1>2, <1>4, BoundOK DEF f
<1> HIDE DEF k
<1>7. /\ StackOK(new) /\ Len(new) = Len(sc) /\ DOMAIN new = DOMAIN sc
      /\ new[k] = f /\ \A t \in DOMAIN sc : t # k => new[t] = sc[t]
  <2>1. k \in DOMAIN sc /\ ScopeOK(f)
    BY <1>3, <1>6
  <2> QED
    BY <1>5, <2>1, ReplacedOK
<1>8. \A s \in DOMAIN sc, m \in Names : m \in DOMAIN sc[s] => m \in DOMAIN new[s] /\ new[s][m] = sc[s][m]
  BY <1>6, <1>7
<1> QED
  BY <1>7, <1>8 DEF new

\* bread_var_assign.
LEMMA AssignedOK ==
  ASSUME NEW sc, StackOK(sc), NEW n \in Names, NEW v \in Values, Visible(sc, n)
  PROVE  LET new == Assigned(sc, n, v)
             k == Innermost(sc, n)
         IN  /\ StackOK(new) /\ Len(new) = Len(sc) /\ DOMAIN new = DOMAIN sc
             /\ k \in DOMAIN sc /\ n \in DOMAIN sc[k] /\ new[k][n] = Stored(sc[k][n], v)
             /\ \A s \in DOMAIN sc : /\ DOMAIN new[s] = DOMAIN sc[s]
                                     /\ \A m \in DOMAIN sc[s] : s # k \/ m # n => new[s][m] = sc[s][m]
<1> DEFINE k == Innermost(sc, n)
           x == Stored(sc[k][n], v)
           f == [sc[k] EXCEPT ![n] = x]
           new == Assigned(sc, n, v)
<1>1. sc \in Seq(Scope)
  BY DEF StackOK
<1>2. k \in DOMAIN sc /\ n \in DOMAIN sc[k]
  BY <1>1, InnermostOK DEF Visible
<1>3. new = [sc EXCEPT ![k] = f]
  BY <1>1, <1>2 DEF Assigned
<1>4. x \in Vars /\ x.value.type = x.type
  BY <1>2, VariableOK, StoredOK
<1>5. ScopeOK(sc[k])
  BY <1>2 DEF StackOK
<1> HIDE DEF k, x, new
<1>6. PICK D \in SUBSET Names : sc[k] \in [D -> Vars]
  BY <1>5 DEF ScopeOK, Scope
<1>7. f \in [D -> Vars] /\ D = DOMAIN sc[k] /\ DOMAIN f = D /\ f[n] = x /\ \A m \in D : m # n => f[m] = sc[k][m]
  BY <1>2, <1>4, <1>6
<1> HIDE DEF f
<1>8. ScopeOK(f)
  BY <1>4, <1>5, <1>6, <1>7 DEF ScopeOK, Scope
<1>9. /\ StackOK(new) /\ Len(new) = Len(sc) /\ DOMAIN new = DOMAIN sc
      /\ new[k] = f /\ \A t \in DOMAIN sc : t # k => new[t] = sc[t]
  <2>1. k \in DOMAIN sc /\ ScopeOK(f)
    BY <1>2, <1>8
  <2> QED
    BY <1>3, <2>1, ReplacedOK
<1>10. \A s \in DOMAIN sc : /\ DOMAIN new[s] = DOMAIN sc[s]
                            /\ \A m \in DOMAIN sc[s] : s # k \/ m # n => new[s][m] = sc[s][m]
  BY <1>7, <1>9
<1>11. new[k][n] = x
  BY <1>7, <1>9
<1> QED
  BY <1>2, <1>9, <1>10, <1>11 DEF new, k, x

-----------------------------------------------------------------------------
(* Steps.                                                                  *)

\* No variable of a scope that stays open is lost or changed.
Kept(old, new) ==
  \A s \in DOMAIN old \cap DOMAIN new, n \in Names :
    n \in DOMAIN old[s] => n \in DOMAIN new[s] /\ new[s][n] = old[s][n]

\* A variable that is no constant is assigned.
Reassigned(old, new) ==
  \E n \in Names, v \in Values :
    Visible(old, n) /\ ~Variable(old, n).const /\ new = Assigned(old, n, v)

Allowed == IInv' /\ (Kept(scopes, scopes') \/ Reassigned(scopes, scopes'))

\* A fatal error leaves the stack as it is.
LEMMA AbortOK ==
  ASSUME IInv, Abort
  PROVE  Allowed
  BY DEF IInv, Abort, Allowed, Kept

\* push_scope.
LEMMA PushOK ==
  ASSUME IInv, Push
  PROVE  Allowed
<1>1. CASE CanPush(scopes)
  <2>1. scopes' = Pushed(scopes) /\ aborted' = aborted
    BY <1>1 DEF Push, Become
  <2>2. StackOK(scopes)
    BY DEF IInv
  <2> QED
    BY <1>1, <2>1, <2>2, PushedOK DEF IInv, Allowed, Kept
<1>2. CASE ~CanPush(scopes)
  BY <1>2, AbortOK DEF Push
<1> QED
  BY <1>1, <1>2

\* Whatever closes scopes only.
LEMMA ClosedOK ==
  ASSUME IInv, NEW depth \in 0 .. Len(scopes), Become(PoppedTo(scopes, depth))
  PROVE  Allowed
<1>1. scopes' = PoppedTo(scopes, depth) /\ aborted' = aborted /\ StackOK(scopes)
  BY DEF Become, IInv
<1> QED
  BY <1>1, PoppedOK DEF IInv, Allowed, Kept

\* pop_scope.
LEMMA PopOK ==
  ASSUME IInv, Pop
  PROVE  Allowed
<1>1. CASE CanPop(scopes)
  <2>1. Len(scopes) \in Nat
    BY DEF IInv, StackOK
  <2>2. Len(scopes) - 1 \in 0 .. Len(scopes)
    BY <1>1, <2>1 DEF CanPop
  <2> QED
    BY <1>1, <2>2, ClosedOK DEF Pop
<1>2. CASE ~CanPop(scopes)
  BY <1>2, AbortOK DEF Pop
<1> QED
  BY <1>1, <1>2

\* pop_to_scope_depth.
LEMMA PopToOK ==
  ASSUME IInv, NEW depth, PopTo(depth)
  PROVE  Allowed
<1>1. CASE depth \in 1 .. Len(scopes)
  <2>1. Len(scopes) \in Nat
    BY DEF IInv, StackOK
  <2>2. depth \in 0 .. Len(scopes)
    BY <1>1, <2>1
  <2> QED
    BY <1>1, <2>2, ClosedOK DEF PopTo
<1>2. CASE ~(depth \in 1 .. Len(scopes))
  BY <1>2, AbortOK DEF PopTo
<1> QED
  BY <1>1, <1>2

\* cleanup_variables.
LEMMA CleanupOK ==
  ASSUME IInv, CleanupVariables
  PROVE  Allowed
<1>1. scopes' = <<>> /\ aborted' = aborted
  BY DEF CleanupVariables, Become
<1>2. StackOK(<<>>)
  BY ScopesAssumption DEF StackOK
<1> QED
  BY <1>1, <1>2 DEF IInv, Allowed, Kept

\* bread_var_decl.
LEMMA DeclareOK ==
  ASSUME IInv, NEW n \in Names, NEW type \in Types, NEW const \in BOOLEAN,
         NEW v \in Values \cup {NoValue}, Declare(n, type, const, v)
  PROVE  Allowed
<1>1. CASE CanDeclare(scopes, n)
  <2>1. scopes' = Declared(scopes, n, type, const, v) /\ aborted' = aborted /\ StackOK(scopes)
    BY <1>1 DEF Declare, Become, IInv
  <2>2. StackOK(scopes') /\ DOMAIN scopes' = DOMAIN scopes
    BY <1>1, <2>1, DeclaredOK
  <2>3. Kept(scopes, scopes')
    BY <1>1, <2>1, DeclaredOK DEF Kept
  <2> QED
    BY <2>1, <2>2, <2>3 DEF IInv, Allowed
<1>2. CASE ~CanDeclare(scopes, n)
  BY <1>2, AbortOK DEF Declare
<1> QED
  BY <1>1, <1>2

\* bread_var_assign.
LEMMA AssignOK ==
  ASSUME IInv, NEW n \in Names, NEW v \in Values, Assign(n, v)
  PROVE  Allowed
<1>1. CASE Variable(scopes, n).const
  BY <1>1, AbortOK DEF Assign
<1>2. CASE ~Variable(scopes, n).const
  <2>1. scopes' = Assigned(scopes, n, v) /\ aborted' = aborted /\ StackOK(scopes) /\ Visible(scopes, n)
    BY <1>2 DEF Assign, Become, IInv
  <2>2. StackOK(scopes')
    BY <2>1, AssignedOK
  <2>3. Reassigned(scopes, scopes')
    BY <1>2, <2>1 DEF Reassigned
  <2> QED
    BY <2>1, <2>2, <2>3 DEF IInv, Allowed
<1> QED
  BY <1>1, <1>2

\* Every step keeps the invariant, and changes no variable or assigns one.
LEMMA StepOK ==
  ASSUME IInv, [Next]_vars
  PROVE  Allowed
<1>1. CASE Push
  BY <1>1, PushOK
<1>2. CASE Pop
  BY <1>2, PopOK
<1>3. CASE CleanupVariables
  BY <1>3, CleanupOK
<1>4. CASE \E depth \in 0 .. (MaxScopes + 1) : PopTo(depth)
  BY <1>4, PopToOK
<1>5. CASE \E n \in Names, type \in Types, const \in BOOLEAN, v \in Values \cup {NoValue} :
             Declare(n, type, const, v) \/ DeclareIfMissing(n, type, const, v)
  BY <1>5, DeclareOK DEF DeclareIfMissing
<1>6. CASE \E n \in Names, v \in Values : Assign(n, v)
  BY <1>6, AssignOK
<1>7. CASE UNCHANGED vars
  BY <1>7 DEF vars, IInv, Allowed, Kept
<1> QED
  BY <1>1, <1>2, <1>3, <1>4, <1>5, <1>6, <1>7 DEF Next

\* A program starts with one empty scope.
LEMMA InitOK == Init => IInv
<1> SUFFICES ASSUME Init PROVE IInv
  OBVIOUS
<1>1. CanPush(<<>>) /\ StackOK(<<>>)
  BY ScopesAssumption DEF StackOK, CanPush
<1>2. StackOK(Pushed(<<>>))
  BY <1>1, PushedOK
<1>3. Pushed(<<>>) = << <<>> >>
  BY DEF Pushed
<1> QED
  BY <1>2, <1>3 DEF Init, IInv

-----------------------------------------------------------------------------
(* Theorems.                                                               *)

\* The stack is well-formed in every reachable state: scopes and variables stay
\* within their limits, and every variable holds a value that its type allows.
THEOREM Inductive == Spec => []IInv
<1>1. IInv /\ [Next]_vars => IInv'
  BY StepOK DEF Allowed
<1> QED
  BY InitOK, <1>1, PTL DEF Spec

\* The type by which load, release and retain choose the member of the value
\* union is the type of what the variable holds, whatever was assigned.
THEOREM TypeCorrect == Spec => []TypeOK
<1>1. IInv => TypeOK
  <2> SUFFICES ASSUME IInv PROVE TypeOK
    OBVIOUS
  <2>1. StackOK(scopes) /\ aborted \in BOOLEAN
    BY DEF IInv
  <2>2. ASSUME NEW s \in DOMAIN scopes
        PROVE  /\ DOMAIN scopes[s] \subseteq Names
               /\ Cardinality(DOMAIN scopes[s]) <= MaxVars
               /\ \A n \in DOMAIN scopes[s] :
                    /\ scopes[s][n].const \in BOOLEAN
                    /\ scopes[s][n].value.type = scopes[s][n].type
    <3>1. ScopeOK(scopes[s])
      BY <2>1 DEF StackOK
    <3>2. ASSUME NEW n \in DOMAIN scopes[s]
          PROVE  scopes[s][n].const \in BOOLEAN /\ scopes[s][n].value.type = scopes[s][n].type
      BY <2>1, VariableOK DEF Vars
    <3> QED
      BY <3>1, <3>2 DEF ScopeOK, Scope
  <2> QED
    BY <2>1, <2>2 DEF TypeOK, StackOK
<1> QED
  BY Inductive, <1>1, PTL

\* Only an assignment changes a variable: the innermost one of its name, which
\* is no constant, to what coerce_and_assign makes of the value.
LEMMA ChangedOK ==
  ASSUME IInv, [Next]_vars
  PROVE  \/ Changed = {}
         \/ \E n \in Names, v \in Values :
              LET k == Innermost(scopes, n)
              IN  /\ Changed \subseteq {<<k, n>>} /\ Len(scopes') = Len(scopes)
                  /\ k \in DOMAIN scopes /\ n \in DOMAIN scopes[k]
                  /\ ~scopes[k][n].const /\ scopes'[k][n] = Stored(scopes[k][n], v)
<1>1. CASE Kept(scopes, scopes')
  BY <1>1 DEF Changed, Lasting, Kept
<1>2. CASE Reassigned(scopes, scopes')
  <2>1. PICK n \in Names, v \in Values : /\ Visible(scopes, n) /\ ~Variable(scopes, n).const
                                         /\ scopes' = Assigned(scopes, n, v)
    BY <1>2 DEF Reassigned
  <2> DEFINE k == Innermost(scopes, n)
  <2>2. /\ Len(scopes') = Len(scopes) /\ DOMAIN scopes' = DOMAIN scopes
        /\ k \in DOMAIN scopes /\ n \in DOMAIN scopes[k] /\ scopes'[k][n] = Stored(scopes[k][n], v)
        /\ \A s \in DOMAIN scopes :
             \A m \in DOMAIN scopes[s] : s # k \/ m # n => scopes'[s][m] = scopes[s][m]
    BY <2>1, AssignedOK DEF IInv
  <2>3. ~scopes[k][n].const
    BY <2>1 DEF Variable
  <2> HIDE DEF k
  <2>4. Changed \subseteq {<<k, n>>}
    BY <2>2 DEF Changed, Lasting
  <2> QED
    BY <2>2, <2>3, <2>4 DEF k
<1> QED
  BY <1>1, <1>2, StepOK DEF Allowed

\* A constant keeps its value as long as its scope is open, whatever is declared
\* and assigned further in.
THEOREM ConstantsFixedHolds == Spec => ConstantsFixed
<1>1. IInv /\ [Next]_vars => \A x \in Changed : ~scopes[x[1]][x[2]].const
  <2> SUFFICES ASSUME IInv, [Next]_vars PROVE \A x \in Changed : ~scopes[x[1]][x[2]].const
    OBVIOUS
  <2> QED
    BY ChangedOK
<1>2. IInv /\ [Next]_vars => [\A x \in Changed : ~scopes[x[1]][x[2]].const]_vars
  BY <1>1
<1> QED
  BY Inductive, <1>2, PTL DEF Spec, ConstantsFixed

\* A variable changes its type only away from none, or from a struct to a class
\* instance.
THEOREM TypesSettleHolds == Spec => TypesSettle
<1> DEFINE Settles == \A x \in Changed :
                        LET old == scopes[x[1]][x[2]].type
                            new == scopes'[x[1]][x[2]].type
                        IN  old # new => old = "Nil" \/ <<old, new>> = <<"Struct", "Class">>
<1>1. ASSUME IInv, [Next]_vars
      PROVE  Settles
  <2>1. CASE Changed = {}
    BY <2>1
  <2>2. ASSUME NEW n \in Names, NEW v \in Values, NEW k,
               Changed \subseteq {<<k, n>>}, k \in DOMAIN scopes, n \in DOMAIN scopes[k],
               scopes'[k][n] = Stored(scopes[k][n], v)
        PROVE  Settles
    <3>1. scopes[k][n] \in Vars /\ scopes[k][n].value.type = scopes[k][n].type
      BY <1>1, <2>2, VariableOK DEF IInv
    <3> DEFINE old == scopes[k][n].type
               new == scopes'[k][n].type
    <3>2. old = new \/ old = "Nil" \/ (old = "Struct" /\ new = "Class")
      BY <2>2, <3>1, StoredOK
    <3> QED
      BY <2>2, <3>2
  <2> QED
    BY <1>1, <2>1, <2>2, ChangedOK
<1>2. IInv /\ [Next]_vars => [Settles]_vars
  BY <1>1
<1> QED
  BY Inductive, <1>2, PTL DEF Spec, TypesSettle

\* A call changes at most one variable, the innermost of its name, and takes no
\* variable out of a scope that stays open.
THEOREM OneBindingChangesHolds == Spec => OneBindingChanges
<1> DEFINE One == /\ Cardinality(Changed) <= 1
                  /\ \A x \in Changed : x[1] = Innermost(scopes, x[2]) /\ Len(scopes') = Len(scopes)
                  /\ \A s \in DOMAIN scopes \cap DOMAIN scopes' : DOMAIN scopes[s] \subseteq DOMAIN scopes'[s]
<1>1. ASSUME IInv, [Next]_vars
      PROVE  One
  <2>1. \A s \in DOMAIN scopes \cap DOMAIN scopes' : DOMAIN scopes[s] \subseteq DOMAIN scopes'[s]
    <3>1. \A s \in DOMAIN scopes : DOMAIN scopes[s] \subseteq Names
      BY <1>1, VariableOK DEF IInv
    <3>2. CASE Kept(scopes, scopes')
      BY <3>1, <3>2 DEF Kept
    <3>3. CASE Reassigned(scopes, scopes')
      BY <1>1, <3>3, AssignedOK DEF IInv, Reassigned
    <3> QED
      BY <1>1, <3>2, <3>3, StepOK DEF Allowed
  <2>2. CASE Changed = {}
    BY <2>1, <2>2, FS_EmptySet
  <2>3. ASSUME NEW n \in Names, Changed \subseteq {<<Innermost(scopes, n), n>>}, Len(scopes') = Len(scopes)
        PROVE  One
    <3>1. Cardinality(Changed) <= 1
      <4> DEFINE S == {<<Innermost(scopes, n), n>>}
      <4>1. IsFiniteSet(S) /\ Cardinality(S) = 1
        BY FS_Singleton
      <4>2. Cardinality(Changed) <= Cardinality(S)
        BY <2>3, <4>1, FS_Subset
      <4> QED
        BY <4>1, <4>2
    <3> QED
      BY <2>1, <2>3, <3>1
  <2> QED
    BY <1>1, <2>2, <2>3, ChangedOK
<1>2. IInv /\ [Next]_vars => [One]_vars
  BY <1>1
<1> QED
  BY Inductive, <1>2, PTL DEF Spec, OneBindingChanges
=============================================================================
