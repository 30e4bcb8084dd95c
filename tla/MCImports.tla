----------------------------- MODULE MCImports -----------------------------
(***************************************************************************)
(* Three files: the root has up to two use lines before its declaration,   *)
(* the second up to two after it, the third one.  Every file mentions      *)
(* every name, plainly and under either namespace, and the other two       *)
(* declare the same name or different ones.                                *)
(***************************************************************************)
EXTENDS Imports

MCFiles == {"main", "lib", "util"}
Mentions == <<Ref(<< >>, <<"f">>), Ref(<< >>, <<"g">>), Ref(<< >>, <<"main">>),
              Ref(<<"m">>, <<"f">>), Ref(<<"m">>, <<"g">>),
              Ref(<<"n">>, <<"f">>), Ref(<<"n">>, <<"g">>)>>
Lines(others) == {UseLine(f, ns, FALSE) : f \in others, ns \in {"", "m", "n"}}
Few(ls) == {<< >>} \cup {<<l>> : l \in ls}
Some(ls) == Few(ls) \cup {<<k, l>> : k, l \in ls}

MCPrograms ==
  {[main |-> us \o <<DeclLine(<<"main">>, Mentions)>>,
    lib |-> <<DeclLine(<<"f">>, Mentions)>> \o vs,
    util |-> ws \o <<DeclLine(<<name>>, Mentions)>>] :
   us \in Some(Lines({"lib", "util"}) \cup {UseLine("lib", "m", TRUE)}),
   vs \in Some(Lines({"main", "util"})), ws \in Few(Lines({"main", "lib"})),
   name \in {"f", "g"}}
=============================================================================
