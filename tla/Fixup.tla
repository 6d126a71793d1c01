-------------------------------- MODULE Fixup --------------------------------
(***************************************************************************)
(* The install script of FixupDependencies: for each target the libraries  *)
(* it needs are looked for in one place after another; what comes from a   *)
(* build machine is copied into the install tree and its own dependencies  *)
(* are fixed up in turn.  The script runs with each install, and the only  *)
(* state that survives it is the files it has copied.                      *)
(*                                                                         *)
(* A file is a directory and a library; what readelf and objdump say of it *)
(* depends on the library.                                                 *)
(***************************************************************************)
EXTENDS Integers, Sequences, FiniteSets

CONSTANTS
  Dirs,      \* directories
  Sites,     \* [os, crosscompiling, needed, rpath, has_runpath, parent_rpath,
             \*  targets, placed]: a project and the machine it is installed on
  Supplied,  \* libraries that a user may add to the search directories
  MaxRuns    \* installs that a user starts (bound)

VARIABLES
  site,      \* one of Sites, which stays as it is
  present,   \* the files there are
  turn,      \* the target at work, 0 between installs
  complete,  \* FIXUP_COMPLETE_TARGETS
  stack,     \* the calls of fixup_target under way: file, next dependency, _rpath
  runs, last,   \* installs started; how the last one ended
  cut        \* files whose dependencies a failed install left undone

vars == <<site, present, turn, complete, stack, runs, last, cut>>

\* Directories that the installed program cannot use: what is there must be copied.
BuildOnly == {"staging", "search", "root"}
Usable    == Dirs \ BuildOnly

ASSUME FixupAssumption ==
  /\ MaxRuns \in Nat
  /\ BuildOnly \cup {"provided_libs", "provided_lib_dirs", "dest", "prefix", "sysroot", "system"} \subseteq Dirs
  /\ \A s \in Sites :
       /\ s.os \in {"UNIX", "WIN32"}
       /\ s.needed \in [DOMAIN s.needed -> Seq(DOMAIN s.needed)]
       /\ s.rpath \in [DOMAIN s.needed -> Seq(Dirs \cup {"$ORIGIN"})]
       /\ s.parent_rpath \in Seq(Dirs)
       /\ s.placed \subseteq Dirs \X DOMAIN s.needed
       /\ s.targets \in Seq(s.placed \cap (Usable \X DOMAIN s.needed))
       /\ Supplied \subseteq DOMAIN s.needed

\* The libraries of the system that provided_libs names for everyone are left out.
Deps(file) == site.needed[file[2]]

\* On Windows a target is fixed up where it is.
Dest == IF site.os = "UNIX" THEN "dest" ELSE site.targets[turn][1]

\* $ORIGIN is the directory of the file.
read_rpath(file) ==
  LET dirs == site.rpath[file[2]]
  IN  [i \in DOMAIN dirs |-> IF dirs[i] = "$ORIGIN" THEN file[1] ELSE dirs[i]]

\* An object with a RUNPATH uses no rpath, and its RUNPATH is lost on the way.
Call(file, parent_rpath) ==
  [file |-> file, next |-> 1,
   rpath |-> IF site.has_runpath[file[2]] THEN <<>> ELSE read_rpath(file) \o parent_rpath]

-----------------------------------------------------------------------------
(* Where a dependency is looked for, in order, and what is done with it. *)

At(dir, action) == <<[dir |-> dir, do |-> action]>>
If(c, rows)     == IF c THEN rows ELSE <<>>

unix_search_NoDest(call) ==    \* mutant: what is in the destination is not looked for
  At("provided_libs", "leave") \o At("provided_lib_dirs", "leave")
  \o [i \in DOMAIN call.rpath |-> [dir |-> call.rpath[i], do |-> "descend"]]
  \o At("prefix", "leave") \o At("staging", "copy") \o At("search", "copy")
  \o If(site.crosscompiling, At("root", "copy"))
  \o At("sysroot", "leave") \o If(~site.crosscompiling, At("system", "leave"))

unix_search(call) ==
  At("provided_libs", "leave") \o At("provided_lib_dirs", "leave")
  \o [i \in DOMAIN call.rpath |-> [dir |-> call.rpath[i], do |-> "descend"]]
  \o At(Dest, "leave") \o At("prefix", "leave") \o At("staging", "copy") \o At("search", "copy")
  \o If(site.crosscompiling, At("root", "copy"))
  \o At("sysroot", "leave") \o If(~site.crosscompiling, At("system", "leave"))

\* Vendor libraries serve the target itself first, and its dependencies last.
win32_search(call) ==
  At("provided_libs", "leave")
  \o If(call.file[2] = site.targets[turn][2], At("provided_lib_dirs", "leave"))
  \o At(Dest, "leave") \o At("prefix", "copy") \o At("staging", "copy") \o At("sysroot", "copy")
  \o At("search", "copy") \o At("root", "copy") \o At("provided_lib_dirs", "leave")

search(call) == IF site.os = "UNIX" THEN unix_search(call) ELSE win32_search(call)

Hits(call, dep) == {i \in DOMAIN search(call) : <<search(call)[i].dir, dep>> \in present}
First(S)        == CHOOSE i \in S : \A j \in S : i <= j

-----------------------------------------------------------------------------
Init ==
  /\ site \in Sites /\ present = site.placed
  /\ turn = 0 /\ complete = {} /\ stack = <<>>
  /\ runs = 0 /\ last = "never" /\ cut = {}

\* What was below a frame of the stack stays undone.
Undone == {stack[k].file : k \in {j \in DOMAIN stack : stack[j].next <= Len(Deps(stack[j].file))}}

Stop ==
  /\ turn' = 0 /\ stack' = <<>> /\ last' = "failed" /\ cut' = cut \cup Undone
  /\ UNCHANGED <<site, present, complete, runs>>

\* One script per target; each empties FIXUP_COMPLETE_TARGETS.  Of the parent's rpath
\* only the first directory is passed on.
TargetCall(n) ==
  Call(site.targets[n], IF site.parent_rpath = <<>> THEN <<>> ELSE <<Head(site.parent_rpath)>>)

Begin(n) == turn' = n /\ complete' = {site.targets[n]} /\ stack' = <<TargetCall(n)>>

Install ==
  /\ turn = 0 /\ runs < MaxRuns /\ site.targets # <<>>
  /\ Begin(1) /\ runs' = runs + 1
  /\ UNCHANGED <<site, present, last, cut>>

Top == stack[Len(stack)]
Working == turn # 0 /\ stack # <<>> /\ Top.next <= Len(Deps(Top.file))
Dep == Deps(Top.file)[Top.next]
Hit == search(Top)[First(Hits(Top, Dep))]
Found(action) == Working /\ Hits(Top, Dep) # {} /\ Hit.do = action

Advanced == [stack EXCEPT ![Len(stack)].next = @ + 1]

Recurse_Unmarked(file) ==    \* mutant: the file is not put in the list
  IF file \in complete THEN stack' = Advanced /\ UNCHANGED complete
  ELSE stack' = Append(Advanced, Call(file, Top.rpath)) /\ UNCHANGED complete

Recurse_Again(file) ==    \* mutant: a file in the list is fixed up again, in place of its parent
  IF file \in complete THEN stack' = [stack EXCEPT ![Len(stack)] = Call(file, Top.rpath)] /\ UNCHANGED complete
  ELSE stack' = Append(Advanced, Call(file, Top.rpath)) /\ complete' = complete \cup {file}

\* fixup_target returns at once when the file is in the list.
Recurse(file) ==
  IF file \in complete THEN stack' = Advanced /\ UNCHANGED complete
  ELSE stack' = Append(Advanced, Call(file, Top.rpath)) /\ complete' = complete \cup {file}

Leave ==
  /\ Found("leave") /\ stack' = Advanced
  /\ UNCHANGED <<site, present, turn, complete, runs, last, cut>>

Descend ==
  /\ Found("descend") /\ Recurse(<<Hit.dir, Dep>>)
  /\ UNCHANGED <<site, present, turn, runs, last, cut>>

CopyRecurse_NoRecurse ==    \* mutant: the copy is not fixed up
  /\ Found("copy")
  /\ present' = present \cup {<<Dest, Dep>>} /\ stack' = Advanced
  /\ UNCHANGED <<site, turn, complete, runs, last, cut>>

CopyRecurse ==
  /\ Found("copy")
  /\ present' = present \cup {<<Dest, Dep>>}
  /\ Recurse(<<Dest, Dep>>)
  /\ UNCHANGED <<site, turn, runs, last, cut>>

\* A copy that fails is not noticed, but nothing can be read from it; the same end as
\* for a dependency that is nowhere.
Fatal ==
  /\ Working /\ (Hits(Top, Dep) # {} => Hit.do = "copy")
  /\ Stop

Return ==
  /\ turn # 0 /\ stack # <<>> /\ Top.next > Len(Deps(Top.file))
  /\ stack' = SubSeq(stack, 1, Len(stack) - 1)
  /\ cut' = cut \ {Top.file}
  /\ UNCHANGED <<site, present, turn, complete, runs, last>>

NextTarget ==
  /\ turn # 0 /\ stack = <<>>
  /\ IF turn < Len(site.targets)
       THEN Begin(turn + 1) /\ UNCHANGED last
       ELSE turn' = 0 /\ last' = "installed" /\ UNCHANGED <<complete, stack>>
  /\ UNCHANGED <<site, present, runs, cut>>

\* The user stops an install, or adds a library between two.
Interrupt == turn # 0 /\ stack # <<>> /\ Stop

Supply ==
  /\ turn = 0 /\ runs < MaxRuns
  /\ \E l \in Supplied : <<"search", l>> \notin present /\ present' = present \cup {<<"search", l>>}
  /\ last' = "never"
  /\ UNCHANGED <<site, turn, complete, stack, runs, cut>>

Step == Leave \/ Descend \/ CopyRecurse \/ Fatal \/ Return \/ NextTarget
Next == Install \/ Step \/ Interrupt \/ Supply

Spec     == Init /\ [][Next]_vars
FairSpec == Spec /\ WF_vars(Step)

-----------------------------------------------------------------------------
\* A program finds a library beside it, in the install tree or on its machine.
InPlace(file, dep) ==
  \E dir \in {f[1] : f \in present} \ BuildOnly :
    /\ <<dir, dep>> \in present
    /\ site.os = "WIN32" => dir \in {file[1], "provided_libs", "provided_lib_dirs"}

\* l needs m, through any number of others.
Reaches(l, m) ==
  \A S \in SUBSET DOMAIN site.needed :
    l \in S /\ (\A k \in S : \A i \in DOMAIN site.needed[k] : site.needed[k][i] \in S) => m \in S

\* The targets' rpath, or that of a library that needs l, names the directory.
UnderRpath(l, dir) ==
  \/ site.parent_rpath # <<>> /\ dir = Head(site.parent_rpath)
  \/ \E k \in DOMAIN site.needed :
       /\ ~site.has_runpath[k] /\ Reaches(k, l)
       /\ \E i \in DOMAIN site.rpath[k] : site.rpath[k][i] = dir

\* What an rpath finds on the build machine is not copied.
LeftInBuild(file, dep) ==
  site.os = "UNIX" /\ \E dir \in BuildOnly : <<dir, dep>> \in present /\ UnderRpath(file[2], dir)

Settled(file, dep) == InPlace(file, dep) \/ LeftInBuild(file, dep)

Copied == {f \in present \ site.placed : f[1] # "search"}
Fixed  == Copied \cup complete

Pending(file, i) == \E k \in DOMAIN stack : stack[k].file = file /\ stack[k].next <= i

TypeOK ==
  /\ turn \in 0 .. Len(site.targets) /\ runs \in 0 .. MaxRuns
  /\ last \in {"never", "failed", "installed"}
  /\ complete \subseteq present /\ cut \subseteq present
  /\ \A k \in DOMAIN stack : /\ stack[k].file \in complete
                             /\ stack[k].next \in 1 .. Len(Deps(stack[k].file)) + 1

\* Every file that the script copied or visited has all its dependencies where the
\* program finds them, but for those still to be done, those below a file that an earlier
\* install had not finished when it failed, and those that are in a directory of the build
\* machine to which an rpath leads.
GapsAreLeftByFailures ==
  \A f \in Fixed : \A i \in DOMAIN Deps(f) :
    Settled(f, Deps(f)[i]) \/ f \in cut \/ Pending(f, i)

\* What a target needs is looked for with the target's rpath: no library has an rpath of
\* its own, nor a RUNPATH that takes the target's away.
RpathIsInherited ==
  site.os = "UNIX" =>
    \A n \in DOMAIN site.targets, l \in DOMAIN site.needed : \A i \in DOMAIN site.needed[l], dir \in Dirs :
      Call(<<dir, site.needed[l][i]>>, TargetCall(n).rpath).rpath = TargetCall(n).rpath

\* Installing again after an install that succeeded copies nothing.  Without the first
\* condition it may: what a copied library's own rpath led to is not visited again below
\* the copy, and is looked for with another rpath when another library needs it.
SecondInstallIsQuiet == [][(RpathIsInherited /\ last = "installed") => ~CopyRecurse]_vars

\* Every install comes to its end, whatever cycles the dependencies have.
InstallsEnd == turn # 0 ~> turn = 0

\* What the script assumes of a library it finds at its destination: once an install
\* has succeeded, each copied library has its dependencies, where no rpath leads to them.
CopiedAreFixedUp ==
  (last = "installed" /\ turn = 0) =>
    \A f \in Copied : \A i \in DOMAIN Deps(f) : Settled(f, Deps(f)[i])
=============================================================================
