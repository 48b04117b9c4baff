------------------------------ MODULE Language ------------------------------
(***************************************************************************)
(* The stack machine of collections/vm running one compiled expression     *)
(* over one ad, an instruction per step.  The expressions are laws: ones   *)
(* that relate operators and functions that the code implements apart, and *)
(* that should come out TRUE on every ad they are asked of; and probes of  *)
(* the machine itself, of which only the agreement with the tree walker is *)
(* asked.                                                                  *)
(***************************************************************************)
EXTENDS Program

CONSTANTS Laws    \* by name: expressions, ads, and whether they must be TRUE

VARIABLES law,    \* the law
          q,      \* the expression that runs
          ad,     \* the ad it runs over
          m       \* the machine

vars == <<law, q, ad, m>>

Code == CompileProgram(q)
Scope == Context(<<ad>>, <<>>)

Init ==
  /\ law \in DOMAIN Laws
  /\ q \in Laws[law].es
  /\ ad \in Laws[law].ads
  /\ m = Start
Run ==
  /\ ~Finished(Code, m)
  /\ m' = Step(Code, m, GivenBy(Code, Scope))
  /\ UNCHANGED <<law, q, ad>>
Next == Run
Spec == Init /\ [][Next]_vars

Done == Finished(Code, m)

-----------------------------------------------------------------------------
\* A compiled expression leaves one value, the one the tree walker computes,
\* with the short circuits, the skipped operands and the panics it has on the
\* way (vm.Run: "It produces the same value that classad evaluation of the
\* source expression would").
CompiledAgrees == Done => Len(m.stack) >= 1 /\ (Panicked(m) \/ Len(m.stack) = 1)
                          /\ ResultOf(m) = Eval(q, <<ad>>, <<>>)

\* Two rewrites of FoldConstants change a meaning, the ones that drop a coercion
\* or take a name for undefined: a logical operator with one boolean literal
\* that does not decide it from the left, and ?: after something that is not a
\* literal.  Folds holds of the expressions without them.
RECURSIVE Folds(_)
Folds(e) ==
  LET lit(i) == ExprValue(FoldConstants(e.a[i]))
      decides == lit(1) = VBool(e.op = "||")
  IN /\ e.k = "elvis" => IsLiteral(FoldConstants(e.a[1]))
     /\ e.k = "bin" /\ e.op \in {"&&", "||"} => decides \/ (IsBool(lit(1)) <=> IsBool(lit(2)))
     /\ \A i \in DOMAIN e.a : Folds(e.a[i])

Meaning(e) == Forced(Eval(e, <<ad>>, <<>>), Scope)
\* Folding an expression without those two does not change what it means on any
\* ad (FoldConstants, applied before a query is compiled).
FoldSound == Folds(q) => Cardinality({Meaning(e) : e \in {q, FoldConstants(q)}}) = 1

\* Every law is TRUE: quotient and remainder recompose, versions are ordered,
\* text is cut and put together again, lists and their texts agree, the
\* quantified comparisons are dual, the logic is De Morgan's on all values.
LawsHold == Done /\ Laws[law].holds => ResultOf(m) = VBool(TRUE)
=============================================================================
