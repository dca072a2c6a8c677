--------------------------- MODULE MCBreadModules ---------------------------
(* BreadModules with three modules, two names, and bodies and programs that  *)
(* give chains, diamonds, cycles, repeated and failing imports.              *)
EXTENDS BreadModules, TLC

CONSTANTS a, b, c, x, f

MCModules == {a, b, c}
MCNames   == {x, f}

Default == <<Var(x), Export(x, TRUE)>>

MCBodies ==
  {<<>>, <<Func(f), Export(f, FALSE)>>, <<Export(x, TRUE), Other>>,
   Default, Default \o <<Import(a, None)>>}
  \cup {<<Import(m, None)>> \o Default : m \in MCModules}
  \cup {<<Selective(m, {x})>> \o Default : m \in MCModules}
  \cup {<<Import(b, None), Import(c, None), Import(b, f)>> \o Default}

MCPrograms ==
  {<<Import(a, f), Other>>,
   <<Import(b, None), Import(a, f)>>,
   <<Import(a, x), Export(x, TRUE), Selective(b, {x}), Import(a, f)>>,
   <<Import(c, None), Other, Import(b, f), Import(a, None)>>}
=============================================================================
