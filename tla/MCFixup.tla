------------------------------- MODULE MCFixup -------------------------------
(* Two programs that share a destination, and three libraries with any         *)
(* dependencies among them, cycles included.                                   *)
EXTENDS Fixup, TLC

MCDirs == {"provided_libs", "provided_lib_dirs", "dest", "prefix", "staging", "search", "root",
           "sysroot", "system", "app", "bin"}

Libs == {"a", "b", "c"}
Needed == {[l \in Libs \cup {"p", "q"} |->
              CASE l = "a" -> x [] l = "b" -> y [] l = "c" -> z [] l = "p" -> <<"a">> [] l = "q" -> <<"b">>] :
             x \in {<<"b">>, <<"b", "c">>}, y \in {<<>>, <<"c">>, <<"a">>}, z \in {<<>>, <<"a">>}}

Programs == {<<"app", "p">>, <<"bin", "q">>}

\* Where the libraries are: copied from one place or two, found on the machine, or missing.
Placements ==
  {{<<"search", "a">>, <<"search", "b">>, <<"staging", "c">>},
   {<<"search", "a">>, <<"search", "b">>},
   {<<"staging", "a">>, <<"search", "b">>, <<"system", "c">>, <<"root", "c">>},
   {<<"app", "a">>, <<"sysroot", "b">>, <<"provided_lib_dirs", "c">>, <<"search", "c">>},
   {<<"prefix", "a">>, <<"search", "b">>, <<"provided_libs", "c">>}}

Rpath(users) ==
  [l \in Libs \cup {"p", "q"} |-> IF l \in users THEN <<"$ORIGIN", "dest">> ELSE <<>>]

Site(os, cross, needed, users, runpath, parent, placed) ==
  [os |-> os, crosscompiling |-> cross, needed |-> needed, rpath |-> Rpath(users),
   has_runpath |-> [l \in Libs \cup {"p", "q"} |-> l = "p" /\ runpath],
   parent_rpath |-> parent, targets |-> <<<<"app", "p">>, <<"bin", "q">>>>,
   placed |-> placed \cup Programs]

\* The rpath of a leads to c and that of p to b; the second install comes to b with that of p alone.
OwnRpath ==
  [Site("UNIX", FALSE, [l \in Libs \cup {"p", "q"} |->
                          CASE l = "p" -> <<"a", "b">> [] l = "a" -> <<"b">> [] l = "b" -> <<"c">> [] OTHER -> <<>>],
        {}, FALSE, <<>>, {<<"staging", "a">>, <<"app", "b">>, <<"bin", "c">>, <<"staging", "c">>})
     EXCEPT !.rpath = [l \in Libs \cup {"p", "q"} |->
                         CASE l = "p" -> <<"app">> [] l = "a" -> <<"bin">> [] OTHER -> <<>>]]

\* An rpath leads to a directory of the build machine, where $ORIGIN leads on.
BuildRpath(user, dir, parent) ==
  {[Site("UNIX", FALSE, needed, {}, FALSE, parent, placed)
      EXCEPT !.rpath = [l \in Libs \cup {"p", "q"} |-> CASE l = user -> <<"$ORIGIN", dir>>
                                                       [] l = "c" -> <<"$ORIGIN">> [] OTHER -> <<>>]] :
     needed \in Needed, placed \in Placements \cup {{<<"search", l>> : l \in Libs}}}

\* Who has an rpath that leads to the destination; p may have a RUNPATH as well.
MCSites ==
  {Site("UNIX", FALSE, needed, users, FALSE, <<>>, placed) :
     needed \in Needed, users \in {{}, {"q"}, {"p", "q"}, {"q", "a"}}, placed \in Placements}
  \cup {Site("UNIX", TRUE, needed, {}, FALSE, <<>>, placed) :
           needed \in Needed, placed \in {p \in Placements : <<"root", "c">> \in p}}
  \cup {Site("UNIX", FALSE, needed, {"p", "q"}, TRUE, <<"app", "bin">>, placed) :
           needed \in Needed, placed \in Placements}
  \cup {OwnRpath}
  \cup BuildRpath("q", "search", <<>>) \cup BuildRpath("b", "staging", <<>>)
  \cup BuildRpath("a", "search", <<"root", "dest">>)
  \cup {Site("WIN32", FALSE, needed, {}, FALSE, <<>>, placed) : needed \in Needed, placed \in Placements}
=============================================================================
