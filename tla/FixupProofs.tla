----------------------------- MODULE FixupProofs -----------------------------
(***************************************************************************)
(* For every graph of dependencies, cyclic or not, and every place where   *)
(* libraries are: what the install script has copied or visited lacks a    *)
(* dependency only while that is still to be done, or where an earlier     *)
(* install failed; and an install that repeats one that succeeded copies   *)
(* nothing, where no library has an rpath of its own.                      *)
(***************************************************************************)
EXTENDS Fixup, SequenceTheorems, WellFoundedInduction, TLAPS

Files == Dirs \X DOMAIN site.needed

\* Where the script finds library l or what it needs without copying it.
MayUse(l) == {dir \in Dirs : dir \in Usable \/ UnderRpath(l, dir)}

\* The calls of fixup_target; on Windows the file is in the directory of the target.
Calls ==
  {c \in [file : complete, next : Nat \ {0}, rpath : Seq(Dirs)] :
     /\ c.file[1] \in MayUse(c.file[2]) /\ c.rpath \in Seq(MayUse(c.file[2]))
     /\ c.next <= Len(Deps(c.file)) + 1
     /\ site.os = "WIN32" => c.file[1] = Dest}

\* Where something is left, the installed program finds it.
Rows ==
  {r \in [dir : Dirs, do : {"leave", "descend", "copy"}] :
     /\ r.do = "descend" => site.os = "UNIX"
     /\ r.do = "leave" =>
       /\ r.dir \in Usable
       /\ site.os = "WIN32" => r.dir \in {Dest, "provided_libs", "provided_lib_dirs"}}

Types ==
  /\ site \in Sites /\ runs \in 0 .. MaxRuns
  /\ turn \in 0 .. Len(site.targets)
  /\ last \in {"never", "failed", "installed"}
  /\ present \subseteq Files /\ site.placed \subseteq present
  /\ complete \subseteq present /\ cut \subseteq present
  /\ stack \in Seq(Calls)

Idle == turn = 0 => stack = <<>>

\* A call has settled the dependencies that it is past.
PastIsSettled ==
  \A k \in DOMAIN stack : \A i \in DOMAIN Deps(stack[k].file) :
    i < stack[k].next => Settled(stack[k].file, Deps(stack[k].file)[i])

IInv == Types /\ Idle /\ PastIsSettled /\ GapsAreLeftByFailures

-----------------------------------------------------------------------------
LEMMA SiteFacts ==
  ASSUME Types
  PROVE  /\ site.os \in {"UNIX", "WIN32"}
         /\ site.needed \in [DOMAIN site.needed -> Seq(DOMAIN site.needed)]
         /\ site.rpath \in [DOMAIN site.needed -> Seq(Dirs \cup {"$ORIGIN"})]
         /\ site.parent_rpath \in Seq(Dirs)
         /\ site.targets \in Seq(site.placed \cap (Usable \X DOMAIN site.needed))
         /\ Supplied \subseteq DOMAIN site.needed
         /\ {"provided_libs", "provided_lib_dirs", "dest", "prefix", "sysroot", "system"} \subseteq Usable
         /\ BuildOnly \subseteq Dirs
  BY FixupAssumption DEF Types, Usable, BuildOnly

LEMMA TargetFacts ==
  ASSUME Types, NEW n \in 1 .. Len(site.targets)
  PROVE  /\ site.targets[n] \in present /\ site.targets[n][1] \in Usable
         /\ site.targets[n] \in Files
  <1>1. site.targets[n] \in site.placed \cap (Usable \X DOMAIN site.needed)
    BY SiteFacts, ElementOfSeq
  <1> QED BY <1>1 DEF Types, Files

LEMMA DepsFacts ==
  ASSUME Types, NEW f \in Files
  PROVE  /\ Deps(f) \in Seq(DOMAIN site.needed)
         /\ \A i \in DOMAIN Deps(f) : Deps(f)[i] \in DOMAIN site.needed
         /\ DOMAIN Deps(f) = 1 .. Len(Deps(f)) /\ Len(Deps(f)) \in Nat
  <1>1. f[2] \in DOMAIN site.needed BY DEF Files
  <1>2. Deps(f) \in Seq(DOMAIN site.needed) BY <1>1, SiteFacts DEF Deps
  <1> QED BY <1>2, ElementOfSeq, LenProperties

LEMMA DestFacts ==
  ASSUME Types, turn # 0
  PROVE  Dest \in Usable
  <1>1. turn \in 1 .. Len(site.targets) BY DEF Types
  <1> QED BY <1>1, SiteFacts, TargetFacts DEF Dest

\* What leads to a library leads to those it needs.
LEMMA ReachesFacts ==
  ASSUME NEW l \in DOMAIN site.needed, NEW i \in DOMAIN site.needed[l]
  PROVE  /\ Reaches(l, l)
         /\ \A k : Reaches(k, l) => Reaches(k, site.needed[l][i])
  BY DEF Reaches

LEMMA MayUseFacts ==
  ASSUME Types, NEW f \in Files
  PROVE  /\ MayUse(f[2]) \subseteq Dirs /\ Usable \subseteq MayUse(f[2])
         /\ \A i \in DOMAIN Deps(f) : MayUse(f[2]) \subseteq MayUse(Deps(f)[i])
         /\ site.parent_rpath # <<>> => Head(site.parent_rpath) \in MayUse(f[2])
         /\ ~site.has_runpath[f[2]] =>
              \A i \in DOMAIN site.rpath[f[2]] :
                site.rpath[f[2]][i] \in Dirs => site.rpath[f[2]][i] \in MayUse(f[2])
  <1>1. f[2] \in DOMAIN site.needed BY DEF Files
  <1>2. MayUse(f[2]) \subseteq Dirs /\ Usable \subseteq MayUse(f[2]) BY DEF MayUse, Usable
  <1>3. ASSUME NEW i \in DOMAIN Deps(f), NEW dir, UnderRpath(f[2], dir)
        PROVE  UnderRpath(Deps(f)[i], dir)
    <2>1. \A k : Reaches(k, f[2]) => Reaches(k, Deps(f)[i]) BY <1>1, ReachesFacts DEF Deps
    <2> QED BY <1>3, <2>1 DEF UnderRpath
  <1>4. \A i \in DOMAIN Deps(f) : MayUse(f[2]) \subseteq MayUse(Deps(f)[i]) BY <1>3 DEF MayUse
  <1>5. site.parent_rpath # <<>> => Head(site.parent_rpath) \in MayUse(f[2])
    <2> SUFFICES ASSUME site.parent_rpath # <<>> PROVE Head(site.parent_rpath) \in MayUse(f[2]) OBVIOUS
    <2>1. Head(site.parent_rpath) \in Dirs BY SiteFacts, HeadTailProperties
    <2> QED BY <2>1 DEF MayUse, UnderRpath
  <1>6. ASSUME ~site.has_runpath[f[2]], NEW i \in DOMAIN site.rpath[f[2]], site.rpath[f[2]][i] \in Dirs
        PROVE  site.rpath[f[2]][i] \in MayUse(f[2])
    <2>1. Reaches(f[2], f[2]) BY <1>1 DEF Reaches
    <2> QED BY <1>1, <1>6, <2>1 DEF MayUse, UnderRpath
  <1> QED BY <1>2, <1>4, <1>5, <1>6

\* The rpath of a call: the file's own and what its caller looked through.
LEMMA RpathFacts ==
  ASSUME Types, NEW file \in Files, file[1] \in MayUse(file[2]),
         NEW above \in Seq(MayUse(file[2]))
  PROVE  /\ Call(file, above).rpath \in Seq(MayUse(file[2]))
         /\ Call(file, above).rpath \in Seq(Dirs)
  <1> DEFINE M    == MayUse(file[2])
             dirs == site.rpath[file[2]]
  <1>1. CASE ~site.has_runpath[file[2]]
    <2>1. dirs \in Seq(Dirs \cup {"$ORIGIN"}) BY SiteFacts DEF Files
    <2>2. DOMAIN dirs = 1 .. Len(dirs) /\ Len(dirs) \in Nat BY <2>1, LenProperties
    <2>3. \A i \in DOMAIN dirs : dirs[i] \in Dirs \cup {"$ORIGIN"} BY <2>1, <2>2, ElementOfSeq
    <2>4. \A i \in DOMAIN dirs : dirs[i] \in M \cup {"$ORIGIN"} BY <1>1, <2>3, MayUseFacts
    <2>5. read_rpath(file) \in [1 .. Len(dirs) -> M] BY <2>2, <2>4 DEF read_rpath
    <2>6. read_rpath(file) \in Seq(M) BY ONLY <2>2, <2>5
    <2>7. read_rpath(file) \o above \in Seq(M) BY <2>6, ConcatProperties
    <2>8. Call(file, above).rpath = read_rpath(file) \o above BY <1>1 DEF Call
    <2> QED BY <2>7, <2>8, MayUseFacts, SeqMonotonic
  <1>2. CASE site.has_runpath[file[2]]
    <2>1. Call(file, above).rpath = <<>> BY <1>2 DEF Call
    <2> QED BY <2>1, EmptySeq
  <1> QED BY <1>1, <1>2

-----------------------------------------------------------------------------
(* The rows of the search. *)

LEMMA RowFacts ==
  ASSUME Types, turn # 0
  PROVE  /\ \A d \in Usable : (site.os = "WIN32" => d \in {Dest, "provided_libs", "provided_lib_dirs"})
                                => At(d, "leave") \in Seq(Rows)
         /\ \A d \in Dirs : At(d, "copy") \in Seq(Rows)
         /\ <<>> \in Seq(Rows)
  BY DEF At, Rows, Usable

LEMMA UnixParts ==
  ASSUME Types, turn # 0, site.os = "UNIX", NEW call \in Calls
  PROVE  /\ [i \in DOMAIN call.rpath |-> [dir |-> call.rpath[i], do |-> "descend"]] \in Seq(Rows)
         /\ At("provided_libs", "leave") \in Seq(Rows) /\ At("provided_lib_dirs", "leave") \in Seq(Rows)
         /\ At(Dest, "leave") \in Seq(Rows) /\ At("prefix", "leave") \in Seq(Rows)
         /\ At("staging", "copy") \in Seq(Rows) /\ At("search", "copy") \in Seq(Rows)
         /\ If(site.crosscompiling, At("root", "copy")) \in Seq(Rows)
         /\ At("sysroot", "leave") \in Seq(Rows)
         /\ If(~site.crosscompiling, At("system", "leave")) \in Seq(Rows)
  <1> DEFINE below == [i \in DOMAIN call.rpath |-> [dir |-> call.rpath[i], do |-> "descend"]]
  <1>1. below \in Seq(Rows)
    <2>1. call.rpath \in Seq(Dirs) BY DEF Calls
    <2>2. \A i \in DOMAIN call.rpath : [dir |-> call.rpath[i], do |-> "descend"] \in Rows
      BY <2>1, ElementOfSeq, LenProperties DEF Rows
    <2>3. DOMAIN call.rpath = 1 .. Len(call.rpath) /\ Len(call.rpath) \in Nat
      BY <2>1, LenProperties
    <2>4. below \in [1 .. Len(call.rpath) -> Rows] BY <2>2, <2>3
    <2> QED BY ONLY <2>3, <2>4
  <1>2. /\ At("provided_libs", "leave") \in Seq(Rows) /\ At("provided_lib_dirs", "leave") \in Seq(Rows)
        /\ At(Dest, "leave") \in Seq(Rows) /\ At("prefix", "leave") \in Seq(Rows)
        /\ At("sysroot", "leave") \in Seq(Rows) /\ At("system", "leave") \in Seq(Rows)
    BY RowFacts, SiteFacts, DestFacts
  <1>3. /\ At("staging", "copy") \in Seq(Rows) /\ At("search", "copy") \in Seq(Rows)
        /\ At("root", "copy") \in Seq(Rows)
    BY RowFacts, SiteFacts DEF BuildOnly
  <1>4. /\ If(site.crosscompiling, At("root", "copy")) \in Seq(Rows)
        /\ If(~site.crosscompiling, At("system", "leave")) \in Seq(Rows)
    BY <1>2, <1>3, RowFacts DEF If
  <1> QED BY <1>1, <1>2, <1>3, <1>4

LEMMA UnixRows ==
  ASSUME Types, turn # 0, site.os = "UNIX", NEW call \in Calls
  PROVE  unix_search(call) \in Seq(Rows)
  BY UnixParts, ConcatProperties DEF unix_search

LEMMA WindowsParts ==
  ASSUME Types, turn # 0, site.os = "WIN32"
  PROVE  /\ At("provided_libs", "leave") \in Seq(Rows) /\ At("provided_lib_dirs", "leave") \in Seq(Rows)
         /\ At(Dest, "leave") \in Seq(Rows)
         /\ At("prefix", "copy") \in Seq(Rows) /\ At("staging", "copy") \in Seq(Rows)
         /\ At("sysroot", "copy") \in Seq(Rows) /\ At("search", "copy") \in Seq(Rows)
         /\ At("root", "copy") \in Seq(Rows)
  <1>1. /\ At("provided_libs", "leave") \in Seq(Rows) /\ At("provided_lib_dirs", "leave") \in Seq(Rows)
        /\ At(Dest, "leave") \in Seq(Rows)
    BY RowFacts, SiteFacts, DestFacts
  <1>2. /\ At("prefix", "copy") \in Seq(Rows) /\ At("staging", "copy") \in Seq(Rows)
        /\ At("sysroot", "copy") \in Seq(Rows) /\ At("search", "copy") \in Seq(Rows)
        /\ At("root", "copy") \in Seq(Rows)
    BY RowFacts, SiteFacts DEF BuildOnly, Usable
  <1> QED BY <1>1, <1>2

LEMMA WindowsRows ==
  ASSUME Types, turn # 0, site.os = "WIN32", NEW call \in Calls
  PROVE  win32_search(call) \in Seq(Rows)
  <1>1. If(call.file[2] = site.targets[turn][2], At("provided_lib_dirs", "leave")) \in Seq(Rows)
    BY WindowsParts, RowFacts DEF If
  <1> QED BY <1>1, WindowsParts, ConcatProperties DEF win32_search

\* A set of places of the search has a first one.
LEMMA FirstExists ==
  ASSUME NEW S \in SUBSET Nat, S # {}
  PROVE  First(S) \in S /\ \A y \in S : First(S) <= y
  <1>1. PICK x \in S : \A y \in S : <<y, x>> \notin OpToRel(<, Nat)
    BY NatLessThanWellFounded, WFMin, Zenon
  <1>2. \A y \in S : ~ (y < x)
    BY <1>1, Zenon DEF OpToRel
  <1>3. \A y \in S : x <= y BY <1>2
  <1> QED BY <1>3 DEF First

-----------------------------------------------------------------------------
(* What a search finds, by where the library is. *)

FirstIn(s, dep, r) ==
  \E i \in DOMAIN s : /\ s[i] = r /\ <<r.dir, dep>> \in present
                      /\ \A j \in DOMAIN s : j < i => <<s[j].dir, dep>> \notin present
Misses(s, dep) == \A i \in DOMAIN s : <<s[i].dir, dep>> \notin present

LEMMA SearchInTwo ==
  ASSUME NEW s \in Seq(Rows), NEW t \in Seq(Rows), NEW dep
  PROVE  /\ Misses(s \o t, dep) => Misses(s, dep) /\ Misses(t, dep)
         /\ \A r : FirstIn(s \o t, dep, r) => FirstIn(s, dep, r) \/ (Misses(s, dep) /\ FirstIn(t, dep, r))
  <1> DEFINE u == s \o t
  <1>1. PICK m \in Nat, n \in Nat : m = Len(s) /\ n = Len(t) OBVIOUS
  <1>2. DOMAIN s = 1 .. m /\ DOMAIN t = 1 .. n /\ DOMAIN u = 1 .. m + n
    BY <1>1, ConcatProperties, LenProperties
  <1>3. \A i \in 1 .. m : u[i] = s[i] BY <1>1, ConcatProperties
  <1>4. \A i \in 1 .. n : u[m + i] = t[i]
    <2> SUFFICES ASSUME NEW i \in 1 .. n PROVE u[m + i] = t[i] OBVIOUS
    <2>1. m + i \in 1 .. m + n /\ m + i > m /\ m + i - m = i OBVIOUS
    <2> QED BY <1>1, <2>1
  <1> HIDE DEF u
  <1>5. Misses(u, dep) => Misses(s, dep)
    BY <1>2, <1>3 DEF Misses
  <1>6. Misses(u, dep) => Misses(t, dep)
    <2> SUFFICES ASSUME Misses(u, dep), NEW i \in 1 .. n PROVE <<t[i].dir, dep>> \notin present
      BY <1>2 DEF Misses
    <2>1. m + i \in 1 .. m + n OBVIOUS
    <2> QED BY <1>2, <1>4, <2>1 DEF Misses
  <1>7. ASSUME NEW r, FirstIn(u, dep, r)
        PROVE  FirstIn(s, dep, r) \/ (Misses(s, dep) /\ FirstIn(t, dep, r))
    <2>1. PICK i \in 1 .. m + n : /\ u[i] = r /\ <<r.dir, dep>> \in present
                                  /\ \A j \in 1 .. m + n : j < i => <<u[j].dir, dep>> \notin present
      BY <1>2, <1>7 DEF FirstIn
    <2>2. CASE i <= m
      <3>1. i \in 1 .. m /\ s[i] = r BY <1>3, <2>1, <2>2
      <3>2. ASSUME NEW j \in 1 .. m, j < i PROVE <<s[j].dir, dep>> \notin present
        <4>1. j \in 1 .. m + n OBVIOUS
        <4> QED BY <1>3, <2>1, <3>2, <4>1
      <3> QED BY <1>2, <2>1, <3>1, <3>2 DEF FirstIn
    <2>3. CASE m < i
      <3>1. PICK k \in 1 .. n : i = m + k
        <4>1. i - m \in 1 .. n /\ i = m + (i - m) BY <2>3
        <4> QED BY <4>1
      <3>2. t[k] = r BY <1>4, <2>1, <3>1
      <3>3. ASSUME NEW j \in 1 .. n, j < k PROVE <<t[j].dir, dep>> \notin present
        <4>1. m + j \in 1 .. m + n /\ m + j < i BY <3>1, <3>3
        <4> QED BY <1>4, <2>1, <4>1
      <3>4. ASSUME NEW j \in 1 .. m PROVE <<s[j].dir, dep>> \notin present
        <4>1. j \in 1 .. m + n /\ j < i BY <2>3
        <4> QED BY <1>3, <2>1, <4>1
      <3> QED BY <1>2, <2>1, <3>2, <3>3, <3>4 DEF FirstIn, Misses
    <2> QED BY <2>2, <2>3
  <1> QED BY <1>5, <1>6, <1>7 DEF u

LEMMA SearchOfRow ==
  ASSUME NEW dir, NEW do, NEW dep
  PROVE  /\ Misses(At(dir, do), dep) => <<dir, dep>> \notin present
         /\ \A r : FirstIn(At(dir, do), dep, r) => r.do = do /\ r.dir = dir /\ <<dir, dep>> \in present
  <1> DEFINE s == At(dir, do)
  <1>1. DOMAIN s = {1} /\ s[1] = [dir |-> dir, do |-> do] BY DEF At
  <1>2. s[1].dir = dir /\ s[1].do = do BY <1>1
  <1> HIDE DEF s
  <1>3. Misses(s, dep) => <<dir, dep>> \notin present BY <1>1, <1>2 DEF Misses
  <1>4. ASSUME NEW r, FirstIn(s, dep, r) PROVE r.do = do /\ r.dir = dir /\ <<dir, dep>> \in present
    <2>1. r = s[1] /\ <<r.dir, dep>> \in present BY <1>1, <1>4 DEF FirstIn
    <2> QED BY <1>2, <2>1
  <1> QED BY <1>3, <1>4 DEF s

LEMMA SearchOfIf ==
  ASSUME NEW c, NEW s, NEW dep
  PROVE  /\ Misses(If(c, s), dep) => (c => Misses(s, dep))
         /\ \A r : FirstIn(If(c, s), dep, r) => c /\ FirstIn(s, dep, r)
  <1>1. CASE c BY <1>1 DEF If
  <1>2. CASE ~c
    <2>1. If(c, s) = <<>> BY <1>2 DEF If
    <2>2. DOMAIN <<>> = {} OBVIOUS
    <2>3. \A r : ~FirstIn(If(c, s), dep, r) BY <2>1, <2>2 DEF FirstIn
    <2> QED BY <1>2, <2>3
  <1> QED BY <1>1, <1>2

LEMMA SearchOfRpath ==
  ASSUME NEW rpath, NEW dep
  PROVE  LET rows == [i \in DOMAIN rpath |-> [dir |-> rpath[i], do |-> "descend"]]
         IN  /\ Misses(rows, dep) => ~ \E i \in DOMAIN rpath : <<rpath[i], dep>> \in present
             /\ \A r : FirstIn(rows, dep, r) =>
                  r.do = "descend" /\ \E i \in DOMAIN rpath : r.dir = rpath[i] /\ <<rpath[i], dep>> \in present
  <1> DEFINE rows == [i \in DOMAIN rpath |-> [dir |-> rpath[i], do |-> "descend"]]
  <1>1. DOMAIN rows = DOMAIN rpath /\ \A i \in DOMAIN rpath : rows[i].dir = rpath[i] /\ rows[i].do = "descend"
    OBVIOUS
  <1> HIDE DEF rows
  <1>2. Misses(rows, dep) => ~ \E i \in DOMAIN rpath : <<rpath[i], dep>> \in present
    BY <1>1 DEF Misses
  <1>3. ASSUME NEW r, FirstIn(rows, dep, r)
        PROVE  r.do = "descend" /\ \E i \in DOMAIN rpath : r.dir = rpath[i] /\ <<rpath[i], dep>> \in present
    <2>1. PICK i \in DOMAIN rows : rows[i] = r /\ <<r.dir, dep>> \in present BY <1>3 DEF FirstIn
    <2> QED BY <1>1, <2>1
  <1> QED BY <1>2, <1>3 DEF rows

Provided(dep)     == \E dir \in {"provided_libs", "provided_lib_dirs"} : <<dir, dep>> \in present
Below(rpath, dep) == \E i \in DOMAIN rpath : <<rpath[i], dep>> \in present
Installed(dep)    == <<"dest", dep>> \in present \/ <<"prefix", dep>> \in present
Copyable(dep)     == \/ <<"staging", dep>> \in present \/ <<"search", dep>> \in present
                     \/ site.crosscompiling /\ <<"root", dep>> \in present

LEMMA UnixOrder ==
  ASSUME Types, turn # 0, site.os = "UNIX", NEW call \in Calls, NEW dep, NEW r,
         FirstIn(unix_search(call), dep, r)
  PROVE  \/ Provided(dep) /\ r.do = "leave"
         \/ /\ ~Provided(dep) /\ Below(call.rpath, dep) /\ r.do = "descend"
            /\ \E i \in DOMAIN call.rpath : r.dir = call.rpath[i]
         \/ ~Provided(dep) /\ ~Below(call.rpath, dep) /\ Installed(dep) /\ r.do = "leave"
         \/ ~Provided(dep) /\ ~Below(call.rpath, dep) /\ ~Installed(dep) /\ Copyable(dep) /\ r.do = "copy"
         \/ ~Below(call.rpath, dep) /\ ~Copyable(dep) /\ r.do = "leave"
  <1> DEFINE p1 == At("provided_libs", "leave")
             p2 == At("provided_lib_dirs", "leave")
             p3 == [i \in DOMAIN call.rpath |-> [dir |-> call.rpath[i], do |-> "descend"]]
             p4 == At(Dest, "leave")
             p5 == At("prefix", "leave")
             p6 == At("staging", "copy")
             p7 == At("search", "copy")
             p8 == If(site.crosscompiling, At("root", "copy"))
             p9 == At("sysroot", "leave")
             p10 == If(~site.crosscompiling, At("system", "leave"))
  <1>1. /\ p1 \in Seq(Rows) /\ p2 \in Seq(Rows) /\ p3 \in Seq(Rows) /\ p4 \in Seq(Rows) /\ p5 \in Seq(Rows)
        /\ p6 \in Seq(Rows) /\ p7 \in Seq(Rows) /\ p8 \in Seq(Rows) /\ p9 \in Seq(Rows) /\ p10 \in Seq(Rows)
    BY UnixParts
  <1>2. unix_search(call) = p1 \o p2 \o p3 \o p4 \o p5 \o p6 \o p7 \o p8 \o p9 \o p10
    BY DEF unix_search
  <1>3. Dest = "dest" BY DEF Dest
  <1>4. /\ Misses(p1, dep) /\ Misses(p2, dep) => ~Provided(dep)
        /\ FirstIn(p1, dep, r) \/ FirstIn(p2, dep, r) => Provided(dep) /\ r.do = "leave"
    BY SearchOfRow DEF Provided
  <1>5. /\ Misses(p3, dep) => ~Below(call.rpath, dep)
        /\ FirstIn(p3, dep, r) => /\ Below(call.rpath, dep) /\ r.do = "descend"
                                  /\ \E i \in DOMAIN call.rpath : r.dir = call.rpath[i]
    <2> HIDE DEF p3
    <2>1. /\ Misses(p3, dep) => ~ \E i \in DOMAIN call.rpath : <<call.rpath[i], dep>> \in present
          /\ FirstIn(p3, dep, r) =>
               /\ r.do = "descend"
               /\ \E i \in DOMAIN call.rpath : r.dir = call.rpath[i] /\ <<call.rpath[i], dep>> \in present
      BY SearchOfRpath, Zenon DEF p3
    <2> QED BY <2>1, Zenon DEF Below
  <1>6. /\ Misses(p4, dep) /\ Misses(p5, dep) => ~Installed(dep)
        /\ FirstIn(p4, dep, r) \/ FirstIn(p5, dep, r) => Installed(dep) /\ r.do = "leave"
    BY <1>3, SearchOfRow DEF Installed
  <1>7. /\ Misses(p8, dep) => (site.crosscompiling => <<"root", dep>> \notin present)
        /\ FirstIn(p8, dep, r) => site.crosscompiling /\ <<"root", dep>> \in present /\ r.do = "copy"
    <2> DEFINE root == At("root", "copy")
    <2>1. /\ Misses(root, dep) => <<"root", dep>> \notin present
          /\ FirstIn(root, dep, r) => <<"root", dep>> \in present /\ r.do = "copy"
      BY SearchOfRow, Zenon
    <2> HIDE DEF root
    <2>2. /\ Misses(p8, dep) => (site.crosscompiling => Misses(root, dep))
          /\ FirstIn(p8, dep, r) => site.crosscompiling /\ FirstIn(root, dep, r)
      BY SearchOfIf, Zenon DEF root
    <2> QED BY <2>1, <2>2
  <1>8. /\ Misses(p6, dep) /\ Misses(p7, dep) /\ Misses(p8, dep) => ~Copyable(dep)
        /\ FirstIn(p6, dep, r) \/ FirstIn(p7, dep, r) \/ FirstIn(p8, dep, r) => Copyable(dep) /\ r.do = "copy"
    BY <1>7, SearchOfRow DEF Copyable
  <1>9. FirstIn(p9, dep, r) \/ FirstIn(p10, dep, r) => r.do = "leave"
    <2> DEFINE system == At("system", "leave")
    <2>1. /\ FirstIn(p9, dep, r) => r.do = "leave"
          /\ FirstIn(system, dep, r) => r.do = "leave"
      BY SearchOfRow, Zenon
    <2>2. FirstIn(p10, dep, r) => FirstIn(system, dep, r) BY SearchOfIf, Zenon
    <2> QED BY <2>1, <2>2
  <1> HIDE DEF p1, p2, p3, p4, p5, p6, p7, p8, p9, p10
  <1>10. PICK s2 \in Seq(Rows) : s2 = p1 \o p2 BY <1>1, ConcatProperties
  <1>11. PICK s3 \in Seq(Rows) : s3 = s2 \o p3 BY <1>1, ConcatProperties
  <1>12. PICK s4 \in Seq(Rows) : s4 = s3 \o p4 BY <1>1, ConcatProperties
  <1>13. PICK s5 \in Seq(Rows) : s5 = s4 \o p5 BY <1>1, ConcatProperties
  <1>14. PICK s6 \in Seq(Rows) : s6 = s5 \o p6 BY <1>1, ConcatProperties
  <1>15. PICK s7 \in Seq(Rows) : s7 = s6 \o p7 BY <1>1, ConcatProperties
  <1>16. PICK s8 \in Seq(Rows) : s8 = s7 \o p8 BY <1>1, ConcatProperties
  <1>17. PICK s9 \in Seq(Rows) : s9 = s8 \o p9 BY <1>1, ConcatProperties
  <1>18. FirstIn(s9 \o p10, dep, r) BY <1>2, <1>10, <1>11, <1>12, <1>13, <1>14, <1>15, <1>16, <1>17
  <1>19. /\ Misses(s2, dep) => Misses(p1, dep) /\ Misses(p2, dep)
         /\ Misses(s3, dep) => Misses(s2, dep) /\ Misses(p3, dep)
         /\ Misses(s4, dep) => Misses(s3, dep) /\ Misses(p4, dep)
         /\ Misses(s5, dep) => Misses(s4, dep) /\ Misses(p5, dep)
         /\ Misses(s6, dep) => Misses(s5, dep) /\ Misses(p6, dep)
         /\ Misses(s7, dep) => Misses(s6, dep) /\ Misses(p7, dep)
         /\ Misses(s8, dep) => Misses(s7, dep) /\ Misses(p8, dep)
         /\ Misses(s9, dep) => Misses(s8, dep) /\ Misses(p9, dep)
    BY <1>1, <1>10, <1>11, <1>12, <1>13, <1>14, <1>15, <1>16, <1>17, SearchInTwo, ZenonT(60)
  <1>20. /\ FirstIn(s2, dep, r) => FirstIn(p1, dep, r) \/ FirstIn(p2, dep, r)
         /\ FirstIn(s3, dep, r) => FirstIn(s2, dep, r) \/ (Misses(s2, dep) /\ FirstIn(p3, dep, r))
         /\ FirstIn(s4, dep, r) => FirstIn(s3, dep, r) \/ (Misses(s3, dep) /\ FirstIn(p4, dep, r))
         /\ FirstIn(s5, dep, r) => FirstIn(s4, dep, r) \/ (Misses(s4, dep) /\ FirstIn(p5, dep, r))
         /\ FirstIn(s6, dep, r) => FirstIn(s5, dep, r) \/ (Misses(s5, dep) /\ FirstIn(p6, dep, r))
         /\ FirstIn(s7, dep, r) => FirstIn(s6, dep, r) \/ (Misses(s6, dep) /\ FirstIn(p7, dep, r))
         /\ FirstIn(s8, dep, r) => FirstIn(s7, dep, r) \/ (Misses(s7, dep) /\ FirstIn(p8, dep, r))
         /\ FirstIn(s9, dep, r) => FirstIn(s8, dep, r) \/ (Misses(s8, dep) /\ FirstIn(p9, dep, r))
         /\ FirstIn(s9, dep, r) \/ (Misses(s9, dep) /\ FirstIn(p10, dep, r))
    BY <1>1, <1>10, <1>11, <1>12, <1>13, <1>14, <1>15, <1>16, <1>17, <1>18, SearchInTwo, ZenonT(60)
  <1> QED BY <1>4, <1>5, <1>6, <1>8, <1>9, <1>19, <1>20

LEMMA WindowsOrder ==
  ASSUME Types, turn # 0, site.os = "WIN32", NEW call \in Calls, call.file[2] = site.targets[turn][2],
         NEW dep, NEW r, FirstIn(win32_search(call), dep, r), r.do = "copy"
  PROVE  ~Provided(dep) /\ <<Dest, dep>> \notin present
  <1> DEFINE p1 == At("provided_libs", "leave")
             p2 == At("provided_lib_dirs", "leave")
             p3 == At(Dest, "leave")
             p4 == At("prefix", "copy")
             p5 == At("staging", "copy")
             p6 == At("sysroot", "copy")
             p7 == At("search", "copy")
             p8 == At("root", "copy")
             F(s) == FirstIn(s, dep, r) \/ Misses(s, dep)
  <1>1. /\ p1 \in Seq(Rows) /\ p2 \in Seq(Rows) /\ p3 \in Seq(Rows) /\ p4 \in Seq(Rows)
        /\ p5 \in Seq(Rows) /\ p6 \in Seq(Rows) /\ p7 \in Seq(Rows) /\ p8 \in Seq(Rows)
    BY WindowsParts
  <1>2. win32_search(call) = p1 \o p2 \o p3 \o p4 \o p5 \o p6 \o p7 \o p8 \o p2
    BY DEF win32_search, If
  <1>3. Misses(p1, dep) /\ Misses(p2, dep) /\ Misses(p3, dep) => ~Provided(dep) /\ <<Dest, dep>> \notin present
    BY SearchOfRow DEF Provided
  <1>4. ~FirstIn(p1, dep, r) /\ ~FirstIn(p2, dep, r) /\ ~FirstIn(p3, dep, r)
    BY SearchOfRow
  <1> HIDE DEF p1, p2, p3, p4, p5, p6, p7, p8
  <1>5. \A s, t \in Seq(Rows) : s \o t \in Seq(Rows) /\ (F(s \o t) => F(s))
    BY SearchInTwo, ConcatProperties, Zenon
  <1>6. PICK s2 \in Seq(Rows) : s2 = p1 \o p2 BY <1>1, <1>5
  <1>7. PICK s3 \in Seq(Rows) : s3 = s2 \o p3 BY <1>1, <1>5
  <1>8. PICK s4 \in Seq(Rows) : s4 = s3 \o p4 BY <1>1, <1>5
  <1>9. PICK s5 \in Seq(Rows) : s5 = s4 \o p5 BY <1>1, <1>5
  <1>10. PICK s6 \in Seq(Rows) : s6 = s5 \o p6 BY <1>1, <1>5
  <1>11. PICK s7 \in Seq(Rows) : s7 = s6 \o p7 BY <1>1, <1>5
  <1>12. PICK s8 \in Seq(Rows) : s8 = s7 \o p8 BY <1>1, <1>5
  <1>13. FirstIn(s8 \o p2, dep, r) BY <1>2, <1>6, <1>7, <1>8, <1>9, <1>10, <1>11, <1>12
  <1>14. F(s8 \o p2) BY <1>13
  <1>15. F(s3)
    <2> HIDE DEF F
    <2>1. F(s8) BY <1>1, <1>5, <1>14, Zenon
    <2>2. F(s7) BY <1>1, <1>5, <1>12, <2>1, Zenon
    <2>3. F(s6) BY <1>1, <1>5, <1>11, <2>2, Zenon
    <2>4. F(s5) BY <1>1, <1>5, <1>10, <2>3, Zenon
    <2>5. F(s4) BY <1>1, <1>5, <1>9, <2>4, Zenon
    <2> QED BY <1>1, <1>5, <1>8, <2>5, Zenon
  <1>16. ~FirstIn(s2, dep, r) BY <1>1, <1>4, <1>6, SearchInTwo, Zenon
  <1>17. ~FirstIn(s3, dep, r) BY <1>1, <1>4, <1>7, <1>16, SearchInTwo, Zenon
  <1>18. Misses(s2, dep) /\ Misses(p3, dep) BY <1>1, <1>7, <1>15, <1>17, SearchInTwo, Zenon
  <1>19. Misses(p1, dep) /\ Misses(p2, dep) BY <1>1, <1>6, <1>18, SearchInTwo, Zenon
  <1> QED BY <1>3, <1>18, <1>19

-----------------------------------------------------------------------------
(* The call at work and what it finds. *)

LEMMA TopFacts ==
  ASSUME Types, stack # <<>>
  PROVE  /\ Len(stack) \in Nat \ {0} /\ Len(stack) \in DOMAIN stack
         /\ DOMAIN stack = 1 .. Len(stack)
         /\ Top \in Calls /\ Top.file \in complete /\ Top.file \in Files
         /\ Top.next \in Nat \ {0} /\ Top.file[1] \in MayUse(Top.file[2])
         /\ Top.rpath \in Seq(MayUse(Top.file[2]))
  <1>1. /\ Len(stack) \in Nat \ {0} /\ Len(stack) \in DOMAIN stack
        /\ DOMAIN stack = 1 .. Len(stack)
    BY EmptySeq, LenProperties DEF Types
  <1>2. Top \in Calls BY <1>1, ElementOfSeq DEF Types, Top
  <1> QED BY <1>1, <1>2 DEF Calls, Types

LEMMA DepFacts ==
  ASSUME Types, Working
  PROVE  /\ Top.next \in DOMAIN Deps(Top.file) /\ Dep \in DOMAIN site.needed
  BY TopFacts, DepsFacts DEF Working, Dep

LEMMA HitFacts ==
  ASSUME Types, Working, Hits(Top, Dep) # {}
  PROVE  Hit \in Rows /\ <<Hit.dir, Dep>> \in present /\ <<Hit.dir, Dep>> \in Files
  <1>1. search(Top) \in Seq(Rows)
    BY TopFacts, UnixRows, WindowsRows, SiteFacts DEF search, Working
  <1>2. DOMAIN search(Top) = 1 .. Len(search(Top)) BY <1>1, LenProperties
  <1>3. Hits(Top, Dep) \in SUBSET Nat BY <1>1, <1>2, LenProperties DEF Hits
  <1>4. First(Hits(Top, Dep)) \in Hits(Top, Dep) BY <1>3, FirstExists
  <1>5. First(Hits(Top, Dep)) \in DOMAIN search(Top) /\ <<Hit.dir, Dep>> \in present
    BY <1>4 DEF Hits, Hit
  <1>6. Hit \in Rows BY <1>1, <1>2, <1>5, ElementOfSeq DEF Hit
  <1> QED BY <1>5, <1>6 DEF Types

LEMMA HitIsFirst ==
  ASSUME Types, Working, Hits(Top, Dep) # {}
  PROVE  FirstIn(search(Top), Dep, Hit)
  <1>1. search(Top) \in Seq(Rows)
    BY TopFacts, UnixRows, WindowsRows, SiteFacts DEF search, Working
  <1>2. DOMAIN search(Top) = 1 .. Len(search(Top)) /\ Hits(Top, Dep) \in SUBSET Nat
    BY <1>1, LenProperties DEF Hits
  <1>3. PICK i : i = First(Hits(Top, Dep)) /\ i \in Hits(Top, Dep) /\ \A j \in Hits(Top, Dep) : i <= j
    BY <1>2, FirstExists
  <1>4. i \in DOMAIN search(Top) /\ search(Top)[i] = Hit /\ <<Hit.dir, Dep>> \in present
    BY <1>3 DEF Hits, Hit
  <1>5. ASSUME NEW j \in DOMAIN search(Top), j < i
        PROVE  <<search(Top)[j].dir, Dep>> \notin present
    <2>1. i \in Nat /\ j \in Nat /\ ~(i <= j) BY <1>2, <1>3, <1>5
    <2> QED BY <1>3, <2>1 DEF Hits
  <1> QED BY <1>4, <1>5 DEF FirstIn

\* An rpath is that of a library that needs the one at work.
LEMMA DescendFacts ==
  ASSUME Types, Working, Hits(Top, Dep) # {}, Hit.do = "descend"
  PROVE  /\ site.os = "UNIX"
         /\ Hit.dir \in MayUse(Top.file[2]) /\ Hit.dir \in MayUse(Dep)
  <1>1. site.os = "UNIX" BY HitFacts DEF Rows
  <1>2. Top \in Calls /\ turn # 0 /\ Top.file \in Files /\ Top.rpath \in Seq(MayUse(Top.file[2]))
    BY TopFacts DEF Working
  <1>3. FirstIn(unix_search(Top), Dep, Hit) BY <1>1, HitIsFirst DEF search
  <1>4. \E i \in DOMAIN Top.rpath : Hit.dir = Top.rpath[i] BY <1>1, <1>2, <1>3, UnixOrder
  <1>5. Hit.dir \in MayUse(Top.file[2]) BY <1>2, <1>4, ElementOfSeq, LenProperties
  <1> QED BY <1>1, <1>2, <1>5, MayUseFacts, DepFacts DEF Dep

LEMMA SettledSame ==
  ASSUME present' = present, site' = site
  PROVE  \A f, d : Settled(f, d)' <=> Settled(f, d)
  <1>1. \A l, dir : UnderRpath(l, dir)' <=> UnderRpath(l, dir) BY DEF UnderRpath, Reaches
  <1> QED BY <1>1 DEF Settled, InPlace, LeftInBuild

\* Files are never removed, so that what is settled stays settled.
LEMMA SettledStays ==
  ASSUME present \subseteq present', site' = site, NEW f, NEW d, Settled(f, d)
  PROVE  Settled(f, d)'
  <1>1. \A l, dir : UnderRpath(l, dir)' <=> UnderRpath(l, dir) BY DEF UnderRpath, Reaches
  <1> QED BY <1>1 DEF Settled, InPlace, LeftInBuild

LEMMA HitSettles ==
  ASSUME Types, Working, Hits(Top, Dep) # {}, Hit.do # "copy"
  PROVE  Settled(Top.file, Dep)
  <1>1. Hit.dir \in Dirs /\ Hit.do \in {"leave", "descend"} BY HitFacts DEF Rows
  <1>2. Hit.dir \in {f[1] : f \in present} /\ <<Hit.dir, Dep>> \in present BY HitFacts
  <1>3. /\ Hit.dir \in Usable \/ (Hit.do = "descend" /\ UnderRpath(Top.file[2], Hit.dir))
        /\ site.os = "WIN32" => Hit.dir \in {Top.file[1], "provided_libs", "provided_lib_dirs"}
    <2>1. CASE Hit.do = "leave" BY <2>1, HitFacts, TopFacts DEF Rows, Calls, Working
    <2>2. CASE Hit.do = "descend" BY <2>2, DescendFacts DEF MayUse
    <2> QED BY <1>1, <2>1, <2>2
  <1>4. CASE Hit.dir \in Usable BY <1>2, <1>3, <1>4 DEF Settled, InPlace, Usable
  <1>5. CASE Hit.dir \notin Usable
    <2>1. Hit.dir \in BuildOnly /\ Hit.do = "descend" /\ UnderRpath(Top.file[2], Hit.dir)
      BY <1>1, <1>3, <1>5 DEF Usable
    <2>2. site.os = "UNIX" BY <2>1, DescendFacts
    <2> QED BY <1>2, <2>1, <2>2 DEF Settled, LeftInBuild
  <1> QED BY <1>4, <1>5

LEMMA CopySettles ==
  ASSUME Types, Working, site' = site, present' = present \cup {<<Dest, Dep>>},
         NEW f, f = Top.file, NEW d, d = Dep
  PROVE  Settled(f, d)'
  <1> DEFINE to == Dest
  <1>1. to \in Usable BY DestFacts DEF Working
  <1>2. site.os = "WIN32" => to = f[1] BY TopFacts DEF Calls, Working
  <1>3. <<to, d>> \in present' OBVIOUS
  <1> HIDE DEF to
  <1>4. to \in {g[1] : g \in present'} \ BuildOnly BY <1>1, <1>3 DEF Usable
  <1> QED BY <1>2, <1>3, <1>4 DEF Settled, InPlace

-----------------------------------------------------------------------------
(* The steps. *)

LEMMA Initial == Init => IInv
  <1> SUFFICES ASSUME Init PROVE IInv OBVIOUS
  <1>1. /\ site \in Sites /\ MaxRuns \in Nat
        /\ site.placed \subseteq Dirs \X DOMAIN site.needed
        /\ Len(site.targets) \in Nat
    BY FixupAssumption, LenProperties DEF Init
  <1>2. Types
    BY <1>1, EmptySeq DEF Init, Types, Files
  <1>3. Copied = {} BY DEF Init, Copied
  <1> QED BY <1>2, <1>3 DEF Init, IInv, Idle, PastIsSettled, GapsAreLeftByFailures, Fixed

\* The list of complete targets only grows while a target is at work.
LEMMA CallsStay ==
  ASSUME complete \subseteq complete', site' = site, turn' = turn
  PROVE  Calls \subseteq Calls'
  <1>1. \A l : MayUse(l)' = MayUse(l) BY DEF MayUse, UnderRpath, Reaches, Usable
  <1> QED BY <1>1 DEF Calls, Deps, Dest

LEMMA CallsSame ==
  ASSUME UNCHANGED <<site, turn, complete>>
  PROVE  Calls' = Calls
  <1>1. \A l : MayUse(l)' = MayUse(l) BY DEF MayUse, UnderRpath, Reaches, Usable
  <1> QED BY <1>1 DEF Calls, Deps, Dest

\* The next dependency is done: the top call goes on.
LEMMA AdvancedFacts ==
  ASSUME Types, Working
  PROVE  /\ Advanced \in Seq(Calls) /\ Len(Advanced) = Len(stack)
         /\ \A k \in 1 .. Len(stack) :
              /\ Advanced[k].file = stack[k].file /\ Advanced[k].rpath = stack[k].rpath
              /\ Advanced[k].next = IF k = Len(stack) THEN Top.next + 1 ELSE stack[k].next
  <1>1. Top \in Calls /\ DOMAIN stack = 1 .. Len(stack) /\ Len(stack) \in 1 .. Len(stack)
    BY TopFacts DEF Working
  <1>2. Top.next + 1 <= Len(Deps(Top.file)) + 1 /\ Top.next \in Nat
    BY TopFacts, DepsFacts DEF Working
  <1>3. [Top EXCEPT !.next = Top.next + 1] \in Calls BY <1>1, <1>2 DEF Calls
  <1>4. Advanced = [stack EXCEPT ![Len(stack)] = [Top EXCEPT !.next = Top.next + 1]]
    BY <1>1 DEF Advanced, Top
  <1>5. stack \in Seq(Calls) BY DEF Types
  <1>6. Advanced \in Seq(Calls) /\ Len(Advanced) = Len(stack)
    BY <1>3, <1>4, <1>5, <1>1, ExceptSeq
  <1>7. \A k \in 1 .. Len(stack) :
          Advanced[k] = IF k = Len(stack) THEN [Top EXCEPT !.next = Top.next + 1] ELSE stack[k]
    BY <1>4, <1>1
  <1>8. Top = stack[Len(stack)] BY DEF Top
  <1>9. Top \in [file : complete, next : Nat \ {0}, rpath : Seq(Dirs)]
    BY <1>1 DEF Calls
  <1>10. /\ [Top EXCEPT !.next = Top.next + 1].file = Top.file
         /\ [Top EXCEPT !.next = Top.next + 1].rpath = Top.rpath
         /\ [Top EXCEPT !.next = Top.next + 1].next = Top.next + 1
    BY <1>9
  <1>11. \A k \in 1 .. Len(stack) :
           /\ Advanced[k].file = stack[k].file /\ Advanced[k].rpath = stack[k].rpath
           /\ Advanced[k].next = IF k = Len(stack) THEN Top.next + 1 ELSE stack[k].next
    BY <1>7, <1>8, <1>10
  <1> QED BY <1>6, <1>11

\* A call of fixup_target: it returns at once, or is on the stack with everything to do.
LEMMA CallFacts ==
  ASSUME Types, Working, UNCHANGED <<site, turn>>,
         NEW file \in Files, file[1] \in MayUse(file[2]), site.os = "WIN32" => file[1] = Dest,
         file \in complete \/ file[2] = Dep,
         Recurse(file)
  PROVE  /\ complete' = complete \cup {file}
         /\ stack' \in Seq(Calls')
         /\ \A k \in 1 .. Len(stack) :
              /\ k \in DOMAIN stack' /\ stack'[k].file = stack[k].file /\ stack'[k].rpath = stack[k].rpath
              /\ stack'[k].next = IF k = Len(stack) THEN Top.next + 1 ELSE stack[k].next
         /\ \A k \in DOMAIN stack' \ (1 .. Len(stack)) :
              file \notin complete /\ stack'[k] = Call(file, Top.rpath) /\ stack'[k].file = file /\ stack'[k].next = 1
         /\ file \in complete \/ \E k \in DOMAIN stack' : stack'[k].file = file /\ stack'[k].next = 1
  <1>1. complete \subseteq complete' /\ complete' = complete \cup {file} BY DEF Recurse
  <1>2. Calls \subseteq Calls' BY <1>1, CallsStay
  <1>3. Len(stack) \in Nat \ {0} BY TopFacts DEF Working
  <1>4. CASE file \in complete
    <2>1. stack' = Advanced BY <1>4 DEF Recurse
    <2>2. stack' \in Seq(Calls') BY <2>1, <1>2, AdvancedFacts, SeqMonotonic
    <2>3. DOMAIN stack' = 1 .. Len(stack) BY <2>1, AdvancedFacts, LenProperties
    <2> QED BY <1>1, <1>4, <2>1, <2>2, <2>3, AdvancedFacts
  <1>5. CASE file \notin complete
    <2> DEFINE new == Call(file, Top.rpath)
    <2>1. stack' = Append(Advanced, new) BY <1>5 DEF Recurse
    <2>2. /\ new.file = file /\ new.next = 1
          /\ new = [file |-> new.file, next |-> new.next, rpath |-> new.rpath] BY DEF Call
    <2>3. new.rpath \in Seq(MayUse(file[2])) /\ new.rpath \in Seq(Dirs)
      <3>1. Top.rpath \in Seq(MayUse(Top.file[2])) /\ Top.file \in Files BY TopFacts DEF Working
      <3>2. MayUse(Top.file[2]) \subseteq MayUse(file[2]) BY <1>5, <3>1, MayUseFacts, DepFacts DEF Dep
      <3>3. Top.rpath \in Seq(MayUse(file[2])) BY <3>1, <3>2, SeqMonotonic
      <3> QED BY <3>3, RpathFacts
    <2>4. new \in Calls'
      <3>1. Len(Deps(file)) \in Nat BY DepsFacts
      <3>2. new \in [file : complete', next : Nat \ {0}, rpath : Seq(Dirs)] BY <1>1, <2>2, <2>3
      <3>3. /\ new.file[1] \in MayUse(new.file[2]) /\ new.rpath \in Seq(MayUse(new.file[2]))
            /\ site.os = "WIN32" => new.file[1] = Dest
        BY <2>2, <2>3
      <3>4. new.next <= Len(Deps(new.file)) + 1 BY <2>2, <3>1
      <3>5. \A l : MayUse(l)' = MayUse(l) BY DEF MayUse, UnderRpath, Reaches, Usable
      <3> HIDE DEF new
      <3> QED BY <3>2, <3>3, <3>4, <3>5 DEF Calls, Deps, Dest
    <2>5. Advanced \in Seq(Calls') BY <1>2, AdvancedFacts, SeqMonotonic
    <2> HIDE DEF new
    <2>6. /\ stack' \in Seq(Calls') /\ Len(stack') = Len(stack) + 1
          /\ \A k \in 1 .. Len(stack) : stack'[k] = Advanced[k]
          /\ stack'[Len(stack) + 1] = new
      BY <2>1, <2>4, <2>5, AdvancedFacts, AppendProperties
    <2>7. DOMAIN stack' = 1 .. Len(stack) + 1 BY <2>6, LenProperties
    <2>8. \A k \in 1 .. Len(stack) :
            /\ k \in DOMAIN stack' /\ stack'[k].file = stack[k].file /\ stack'[k].rpath = stack[k].rpath
            /\ stack'[k].next = IF k = Len(stack) THEN Top.next + 1 ELSE stack[k].next
      BY <1>3, <2>6, <2>7, AdvancedFacts
    <2>9. Len(stack) + 1 \in DOMAIN stack' /\ \A k \in DOMAIN stack' \ (1 .. Len(stack)) : stack'[k] = new
      BY <1>3, <2>6, <2>7
    <2> QED BY <1>1, <1>5, <2>2, <2>6, <2>8, <2>9 DEF new
  <1> QED BY <1>4, <1>5

\* The next dependency d of f is settled, and fixup_target called for a file.
LEMMA ForwardStep ==
  ASSUME IInv, Working, UNCHANGED <<site, turn, runs, last, cut>>,
         present \subseteq present', present' \subseteq Files,
         NEW file \in present', file[1] \in MayUse(file[2]), site.os = "WIN32" => file[1] = Dest,
         file \in complete \/ file[2] = Dep,
         Copied' \subseteq Copied \cup {file},
         NEW f, f = Top.file, NEW d, d = Dep, Settled(f, d)',
         Recurse(file)
  PROVE  IInv'
  <1>1. Types /\ file \in Files BY DEF IInv
  <1> DEFINE L == Len(stack)
             n == Top.next
  <1>2. /\ complete' = complete \cup {file}
        /\ stack' \in Seq(Calls')
        /\ \A k \in 1 .. L :
              /\ k \in DOMAIN stack' /\ stack'[k].file = stack[k].file
              /\ stack'[k].next = IF k = L THEN n + 1 ELSE stack[k].next
        /\ \A k \in DOMAIN stack' \ (1 .. L) : stack'[k].file = file /\ stack'[k].next = 1
        /\ file \in complete \/ \E k \in DOMAIN stack' : stack'[k].file = file /\ stack'[k].next = 1
    BY <1>1, CallFacts
  <1>3. /\ L \in 1 .. L /\ DOMAIN stack = 1 .. L /\ n \in Nat \ {0}
        /\ stack[L].file = f /\ stack[L].next = n /\ d = Deps(f)[n]
    BY <1>1, TopFacts DEF Working, Top, Dep
  <1>4. \A g \in Files : /\ Deps(g)' = Deps(g)
                         /\ DOMAIN Deps(g) = 1 .. Len(Deps(g)) /\ Len(Deps(g)) \in Nat
    BY <1>1, DepsFacts DEF Deps
  <1>5. \A k \in 1 .. L : stack[k].file \in Files /\ stack[k].next \in Nat
    <2>1. \A k \in 1 .. L : stack[k] \in Calls BY <1>1, ElementOfSeq DEF Types
    <2> QED BY <1>1, <2>1 DEF Calls, Types
  <1>6. Types'
    BY <1>1, <1>2 DEF Types, Files
  <1>7. Idle' BY DEF Idle, Working
  <1> HIDE DEF L, n
  <1>8. PastIsSettled'
    <2> SUFFICES ASSUME NEW k \in DOMAIN stack', NEW g, g = stack'[k].file,
                        NEW i \in DOMAIN Deps(g)', i < stack'[k].next
                 PROVE  Settled(g, Deps(g)[i])'
      BY DEF PastIsSettled
    <2>1. g \in Files BY <1>1, <1>2, <1>5
    <2>2. Deps(g)' = Deps(g) /\ i \in DOMAIN Deps(g) /\ i \in Nat \ {0} BY <2>1, <1>4
    <2>3. k \in 1 .. L BY <1>2, <2>2
    <2>4. CASE i < stack[k].next
      <3>1. Settled(g, Deps(g)[i])
        BY <2>2, <2>3, <2>4, <1>2, <1>3 DEF IInv, PastIsSettled
      <3>2. \A x, y : Settled(x, y) => Settled(x, y)' BY SettledStays
      <3> QED BY <3>1, <3>2, <2>2
    <2>5. CASE ~ (i < stack[k].next)
      <3>1. k = L /\ i = n BY <2>2, <2>3, <2>5, <1>2, <1>3, <1>5
      <3>2. g = f /\ Deps(g)[i] = d BY <3>1, <1>2, <1>3
      <3> QED BY <3>2, <2>2
    <2> QED BY <2>4, <2>5
  <1>9. GapsAreLeftByFailures'
    <2> SUFFICES ASSUME NEW g \in Fixed', NEW i \in DOMAIN Deps(g)'
                 PROVE  Settled(g, Deps(g)[i])' \/ g \in cut' \/ Pending(g, i)'
      BY DEF GapsAreLeftByFailures
    <2>1. g \in Files /\ (g \in Fixed \/ g = file)
      BY <1>2, <1>6, <1>1 DEF Fixed, Copied, Types, Files
    <2>2. Deps(g)' = Deps(g) /\ i \in DOMAIN Deps(g) /\ i \in Nat \ {0} BY <2>1, <1>4
    <2>3. CASE g \in Fixed
      <3>1. Settled(g, Deps(g)[i]) \/ g \in cut \/ Pending(g, i)
        BY <2>2, <2>3 DEF IInv, GapsAreLeftByFailures
      <3>2. CASE Settled(g, Deps(g)[i])
        <4>1. \A x, y : Settled(x, y) => Settled(x, y)' BY SettledStays
        <4> QED BY <4>1, <3>2, <2>2
      <3>3. CASE Pending(g, i)
        <4>1. PICK k \in 1 .. L : stack[k].file = g /\ stack[k].next <= i
          BY <3>3, <1>3 DEF Pending
        <4>2. CASE k = L /\ i = n BY <4>1, <4>2, <1>3, <2>2
        <4>3. CASE ~ (k = L /\ i = n)
          <5>1. stack'[k].file = g /\ stack'[k].next <= i /\ k \in DOMAIN stack'
            BY <4>1, <4>3, <1>2, <1>3, <1>5, <2>2
          <5> QED BY <5>1 DEF Pending
        <4> QED BY <4>2, <4>3
      <3> QED BY <3>1, <3>2, <3>3
    <2>4. CASE g \notin Fixed
      <3>1. g = file /\ file \notin complete BY <2>1, <2>4 DEF Fixed
      <3>2. PICK k \in DOMAIN stack' : stack'[k].file = g /\ stack'[k].next = 1 BY <3>1, <1>2
      <3> QED BY <3>2, <2>2 DEF Pending
    <2> QED BY <2>3, <2>4
  <1> QED BY <1>6, <1>7, <1>8, <1>9 DEF IInv

LEMMA LeaveStep == ASSUME IInv, Leave PROVE IInv'
  <1>1. Types /\ Working /\ Hits(Top, Dep) # {} /\ Hit.do # "copy"
    BY DEF IInv, Leave, Found
  <1>2. UNCHANGED <<site, present, turn, complete, runs, last, cut>> /\ stack' = Advanced BY DEF Leave
  <1> DEFINE f == Top.file
             d == Dep
  <1>3. Settled(f, d) BY <1>1, HitSettles
  <1>4. \A x, y : Settled(x, y) => Settled(x, y)' BY <1>2, SettledStays
  <1>5. f \in complete /\ f[1] \in MayUse(f[2]) /\ (site.os = "WIN32" => f[1] = Dest)
    BY <1>1, TopFacts DEF Calls, Working
  <1>6. Recurse(f) BY <1>2, <1>5 DEF Recurse
  <1>7. Copied' = Copied BY <1>2 DEF Copied
  <1>8. present \subseteq Files /\ f \in present' BY <1>1, <1>2, <1>5 DEF Types
  <1>9. \A x, y : x = f /\ y = d => Settled(x, y)' BY <1>3, <1>4
  <1> HIDE DEF f, d
  <1>10. \E x, y : x = Top.file /\ y = Dep /\ Settled(x, y)' BY <1>9 DEF f, d
  <1> QED BY <1>1, <1>2, <1>5, <1>6, <1>7, <1>8, <1>10, ForwardStep

LEMMA DescendStep == ASSUME IInv, Descend PROVE IInv'
  <1> DEFINE file == <<Hit.dir, Dep>>
             f == Top.file
             d == Dep
  <1>1. /\ Types /\ Working /\ Hits(Top, Dep) # {} /\ Hit.do = "descend"
        /\ UNCHANGED <<site, present, turn, runs, last, cut>> /\ Recurse(file)
    BY DEF IInv, Descend, Found
  <1>2. /\ file \in present /\ file[1] \in MayUse(file[2]) /\ file[2] = Dep
        /\ site.os # "WIN32"
    BY <1>1, HitFacts, DescendFacts
  <1>3. Settled(f, d) BY <1>1, HitSettles
  <1>4. \A x, y : Settled(x, y) => Settled(x, y)' BY <1>1, SettledStays
  <1>5. Copied' = Copied BY <1>1 DEF Copied
  <1>6. present \subseteq Files /\ file \in present' BY <1>1, <1>2 DEF Types
  <1>7. \A x, y : x = f /\ y = d => Settled(x, y)' BY <1>3, <1>4
  <1> HIDE DEF file, f, d
  <1>8. \E x, y : x = Top.file /\ y = Dep /\ Settled(x, y)' BY <1>7 DEF f, d
  <1> QED BY <1>1, <1>2, <1>5, <1>6, <1>8, ForwardStep

LEMMA CopyStep == ASSUME IInv, CopyRecurse PROVE IInv'
  <1> DEFINE file == <<Dest, Dep>>
  <1>1. /\ Types /\ Working
        /\ UNCHANGED <<site, turn, runs, last, cut>> /\ Recurse(file)
        /\ present' = present \cup {file}
    BY DEF IInv, CopyRecurse, Found
  <1>2. file \in Files /\ file[1] = Dest /\ file[2] = Dep /\ file[1] \in MayUse(file[2])
    <2>1. Dest \in Usable /\ file \in Files BY <1>1, DestFacts, DepFacts DEF Working, Files, Usable
    <2> QED BY <1>1, <2>1, MayUseFacts
  <1>3. Copied' \subseteq Copied \cup {file} BY <1>1 DEF Copied
  <1>4. present' \subseteq Files BY <1>1, <1>2 DEF Types
  <1>5. \A x, y : x = Top.file /\ y = Dep => Settled(x, y)' BY <1>1, CopySettles
  <1> HIDE DEF file
  <1>6. \E x, y : x = Top.file /\ y = Dep /\ Settled(x, y)' BY <1>5
  <1> QED BY <1>1, <1>2, <1>3, <1>4, <1>6, ForwardStep

\* A failed install leaves the gaps of the calls that were under way, and they are cut.
LEMMA StopStep == ASSUME IInv, Stop PROVE IInv'
  <1>1. /\ Types /\ UNCHANGED <<site, present, complete, runs>>
        /\ turn' = 0 /\ stack' = <<>> /\ last' = "failed" /\ cut' = cut \cup Undone
    BY DEF IInv, Stop
  <1>2. \A k \in DOMAIN stack : stack[k] \in Calls /\ stack[k].file \in complete /\ stack[k].next \in Nat
    BY <1>1, ElementOfSeq, LenProperties DEF Types, Calls
  <1>3. Undone \subseteq present BY <1>1, <1>2 DEF Undone, Types
  <1>4. Types'
    <2>1. Len(site.targets) \in Nat BY <1>1, SiteFacts, LenProperties
    <2> QED BY <1>1, <1>3, <2>1, EmptySeq DEF Types, Files
  <1>5. Idle' /\ PastIsSettled' BY <1>1 DEF Idle, PastIsSettled
  <1>6. GapsAreLeftByFailures'
    <2> SUFFICES ASSUME NEW g \in Fixed, NEW i \in DOMAIN Deps(g)
                 PROVE  Settled(g, Deps(g)[i]) \/ g \in cut'
      BY <1>1, SettledSame DEF GapsAreLeftByFailures, Fixed, Copied, Deps
    <2>1. Settled(g, Deps(g)[i]) \/ g \in cut \/ Pending(g, i) BY DEF IInv, GapsAreLeftByFailures
    <2>2. g \in Files BY <1>1 DEF Fixed, Copied, Types
    <2>3. i \in 1 .. Len(Deps(g)) /\ Len(Deps(g)) \in Nat BY <1>1, <2>2, DepsFacts
    <2>4. ASSUME Pending(g, i) PROVE g \in Undone
      <3>1. PICK k \in DOMAIN stack : stack[k].file = g /\ stack[k].next <= i BY <2>4 DEF Pending
      <3>2. stack[k].next <= Len(Deps(stack[k].file)) BY <3>1, <2>3, <1>2
      <3> QED BY <3>1, <3>2 DEF Undone
    <2> QED BY <1>1, <2>1, <2>4
  <1> QED BY <1>4, <1>5, <1>6 DEF IInv

\* A call that returns has settled everything, so that it may leave the cut files.
LEMMA ReturnStep == ASSUME IInv, Return PROVE IInv'
  <1>1. /\ Types /\ UNCHANGED <<site, present, turn, complete, runs, last>>
        /\ turn # 0 /\ stack # <<>> /\ Top.next > Len(Deps(Top.file))
        /\ stack' = SubSeq(stack, 1, Len(stack) - 1) /\ cut' = cut \ {Top.file}
    BY DEF IInv, Return
  <1>2. /\ Len(stack) \in Nat \ {0} /\ DOMAIN stack = 1 .. Len(stack)
        /\ \A k \in 1 .. Len(stack) : stack[k] \in Calls /\ stack[k].next \in Nat
    <2>1. stack \in Seq(Calls) /\ Len(stack) \in Nat \ {0} /\ DOMAIN stack = 1 .. Len(stack)
      BY <1>1, TopFacts DEF Types
    <2>2. \A k \in 1 .. Len(stack) : stack[k] \in Calls
      BY <2>1, ElementOfSeq
    <2> QED BY <2>1, <2>2 DEF Calls
  <1>3. /\ stack' \in Seq(Calls) /\ Len(stack') = Len(stack) - 1
        /\ \A k \in 1 .. Len(stack) - 1 : stack'[k] = stack[k]
    BY <1>1, <1>2, SubSeqProperties
  <1>4. DOMAIN stack' = 1 .. Len(stack) - 1 BY <1>3, LenProperties
  <1>5. Calls' = Calls BY <1>1, CallsSame
  <1>6. Types' BY <1>1, <1>3, <1>5 DEF Types, Files
  <1>7. Idle' BY <1>1 DEF Idle
  <1>8. PastIsSettled'
    <2> SUFFICES ASSUME NEW k \in 1 .. Len(stack) - 1,
                        NEW i \in DOMAIN Deps(stack[k].file), i < stack[k].next
                 PROVE  Settled(stack[k].file, Deps(stack[k].file)[i])
      <3>1. \A x, y : (Settled(x, y)' <=> Settled(x, y)) /\ Deps(x)' = Deps(x)
        BY <1>1, SettledSame DEF Deps
      <3> QED BY <1>3, <1>4, <3>1 DEF PastIsSettled
    <2> QED BY <1>2 DEF IInv, PastIsSettled
  <1>9. GapsAreLeftByFailures'
    <2> SUFFICES ASSUME NEW g \in Fixed, NEW i \in DOMAIN Deps(g)
                 PROVE  Settled(g, Deps(g)[i]) \/ g \in cut' \/ Pending(g, i)'
      BY <1>1, SettledSame DEF GapsAreLeftByFailures, Fixed, Copied, Deps
    <2>1. Settled(g, Deps(g)[i]) \/ g \in cut \/ Pending(g, i) BY DEF IInv, GapsAreLeftByFailures
    <2>2. g \in Files BY <1>1 DEF Fixed, Copied, Types
    <2>3. i \in 1 .. Len(Deps(g)) /\ Len(Deps(g)) \in Nat BY <1>1, <2>2, DepsFacts
    <2>4. CASE g = Top.file
      <3>1. i < Top.next /\ Top = stack[Len(stack)] BY <2>3, <2>4, <1>1, <1>2 DEF Top
      <3> QED BY <3>1, <2>4, <1>2 DEF IInv, PastIsSettled
    <2>5. CASE g # Top.file
      <3>1. ASSUME Pending(g, i) PROVE Pending(g, i)'
        <4>1. PICK k \in 1 .. Len(stack) : stack[k].file = g /\ stack[k].next <= i
          BY <3>1, <1>2 DEF Pending
        <4>2. k \in 1 .. Len(stack) - 1 BY <4>1, <2>5, <1>2 DEF Top
        <4> QED BY <4>1, <4>2, <1>3, <1>4 DEF Pending
      <3> QED BY <3>1, <2>1, <2>5, <1>1
    <2> QED BY <2>4, <2>5
  <1> QED BY <1>6, <1>7, <1>8, <1>9 DEF IInv

\* A target begins with everything to do, and the list of complete targets with it alone.
LEMMA BeginStep ==
  ASSUME IInv, stack = <<>>, NEW n \in 1 .. Len(site.targets), Begin(n),
         UNCHANGED <<site, present, cut>>, runs' \in 0 .. MaxRuns, last' = last
  PROVE  IInv'
  <1> DEFINE target       == site.targets[n]
             parent_rpath == IF site.parent_rpath = <<>> THEN <<>> ELSE <<Head(site.parent_rpath)>>
             call         == Call(target, parent_rpath)
  <1>1. Types /\ turn' = n /\ complete' = {target} /\ stack' = <<call>>
    BY DEF IInv, Begin, TargetCall
  <1>2. target \in present /\ target \in Files /\ target[1] \in MayUse(target[2])
    <2>1. target \in present /\ target[1] \in Usable /\ target \in Files BY <1>1, TargetFacts
    <2> QED BY <1>1, <2>1, MayUseFacts
  <1>3. parent_rpath \in Seq(MayUse(target[2]))
    <2>1. CASE site.parent_rpath = <<>> BY <2>1, EmptySeq
    <2>2. CASE site.parent_rpath # <<>> BY <1>1, <1>2, <2>2, MayUseFacts
    <2> QED BY <2>1, <2>2
  <1> HIDE DEF parent_rpath, target
  <1>4. call.rpath \in Seq(MayUse(target[2])) /\ call.rpath \in Seq(Dirs)
    BY <1>1, <1>2, <1>3, RpathFacts
  <1>5. /\ call.file = target /\ call.next = 1
        /\ call = [file |-> call.file, next |-> call.next, rpath |-> call.rpath]
    BY DEF Call
  <1>6. Len(Deps(target)) \in Nat BY <1>1, <1>2, DepsFacts
  <1> HIDE DEF call
  <1>7. site.os = "WIN32" => Dest' = target[1]
    BY <1>1, SiteFacts DEF Dest, target
  <1>8. call \in Calls'
    <2>1. call \in [file : complete', next : Nat \ {0}, rpath : Seq(Dirs)] BY <1>1, <1>4, <1>5
    <2>2. \A l : MayUse(l)' = MayUse(l) BY DEF MayUse, UnderRpath, Reaches, Usable
    <2> QED BY <2>1, <2>2, <1>2, <1>4, <1>5, <1>6, <1>7 DEF Calls, Deps
  <1>9. stack' \in Seq(Calls') /\ DOMAIN stack' = {1} /\ stack'[1] = call BY <1>1, <1>8
  <1>10. Types'
    <2>1. n \in 0 .. Len(site.targets) OBVIOUS
    <2> QED BY <1>1, <1>2, <1>9, <2>1 DEF Types, Files
  <1>11. Idle' BY <1>1 DEF Idle
  <1>12. PastIsSettled'
    <2>1. \A i \in DOMAIN Deps(target) : ~ (i < 1) BY <1>1, <1>2, DepsFacts
    <2> QED BY <2>1, <1>9, <1>5 DEF PastIsSettled, Deps
  <1>13. GapsAreLeftByFailures'
    <2> SUFFICES ASSUME NEW g \in Fixed', NEW i \in DOMAIN Deps(g)
                 PROVE  Settled(g, Deps(g)[i]) \/ g \in cut \/ Pending(g, i)'
      BY SettledSame DEF GapsAreLeftByFailures, Deps
    <2>1. g \in Fixed \/ g = target BY <1>1 DEF Fixed, Copied
    <2>2. CASE g \in Fixed
      <3>1. ~ Pending(g, i) BY DEF Pending
      <3> QED BY <2>2, <3>1 DEF IInv, GapsAreLeftByFailures
    <2>3. CASE g = target
      <3>1. 1 <= i BY <2>3, <1>1, <1>2, DepsFacts
      <3> QED BY <3>1, <2>3, <1>9, <1>5 DEF Pending
    <2> QED BY <2>1, <2>2, <2>3
  <1> QED BY <1>10, <1>11, <1>12, <1>13 DEF IInv

LEMMA InstallStep == ASSUME IInv, Install PROVE IInv'
  <1>1. Types /\ Idle /\ turn = 0 /\ stack = <<>> /\ Begin(1) /\ runs' = runs + 1 /\ runs < MaxRuns
        /\ UNCHANGED <<site, present, last, cut>> /\ site.targets # <<>>
    BY DEF IInv, Install, Idle
  <1>2. 1 \in 1 .. Len(site.targets) BY <1>1, SiteFacts, EmptySeq, LenProperties
  <1>3. runs' \in 0 .. MaxRuns BY <1>1, FixupAssumption DEF Types
  <1> QED BY <1>1, <1>2, <1>3, BeginStep

LEMMA GapsStay ==
  ASSUME GapsAreLeftByFailures, UNCHANGED <<site, present, complete, stack, cut>>
  PROVE  GapsAreLeftByFailures'
  <1>1. Fixed' = Fixed BY DEF Fixed, Copied
  <1>2. /\ \A x, y : (Settled(x, y)' <=> Settled(x, y)) /\ (Pending(x, y)' <=> Pending(x, y))
        /\ \A x : Deps(x)' = Deps(x)
    BY SettledSame DEF Pending, Deps
  <1> QED BY <1>1, <1>2 DEF GapsAreLeftByFailures

LEMMA NextTargetStep == ASSUME IInv, NextTarget PROVE IInv'
  <1>1. Types /\ turn # 0 /\ stack = <<>> /\ UNCHANGED <<site, present, runs, cut>>
    BY DEF IInv, NextTarget
  <1>2. Len(site.targets) \in Nat BY <1>1, SiteFacts, LenProperties
  <1>3. CASE turn < Len(site.targets)
    <2>1. Begin(turn + 1) /\ last' = last BY <1>3 DEF NextTarget
    <2>2. turn + 1 \in 1 .. Len(site.targets) /\ runs' \in 0 .. MaxRuns BY <1>1, <1>2, <1>3 DEF Types
    <2> QED BY <1>1, <2>1, <2>2, BeginStep
  <1>4. CASE ~ (turn < Len(site.targets))
    <2>1. turn' = 0 /\ last' = "installed" /\ UNCHANGED <<complete, stack>> BY <1>4 DEF NextTarget
    <2>2. Types' BY <1>1, <1>2, <2>1, EmptySeq DEF Types, Files
    <2>3. Idle' /\ PastIsSettled' BY <1>1, <2>1 DEF Idle, PastIsSettled
    <2>4. GapsAreLeftByFailures'
      BY <1>1, <2>1, GapsStay DEF IInv
    <2> QED BY <2>2, <2>3, <2>4 DEF IInv
  <1> QED BY <1>3, <1>4

LEMMA SupplyStep == ASSUME IInv, Supply PROVE IInv'
  <1>1. PICK l \in Supplied : present' = present \cup {<<"search", l>>} BY DEF Supply
  <1>2. /\ Types /\ turn = 0 /\ stack = <<>> /\ last' = "never"
        /\ UNCHANGED <<site, turn, complete, stack, runs, cut>>
    BY DEF IInv, Supply, Idle
  <1>3. <<"search", l>> \in Files BY <1>2, SiteFacts DEF Files, BuildOnly
  <1>4. Calls' = Calls BY <1>2, CallsSame
  <1>5. Types' BY <1>1, <1>2, <1>3, <1>4 DEF Types, Files
  <1>6. Idle' /\ PastIsSettled' BY <1>2 DEF Idle, PastIsSettled
  <1>7. GapsAreLeftByFailures'
    <2>1. Fixed' = Fixed BY <1>1, <1>2 DEF Fixed, Copied
    <2>2. \A x, y : Settled(x, y) => Settled(x, y)' BY <1>1, <1>2, SettledStays
    <2>3. \A g, i : Pending(g, i)' = Pending(g, i) BY <1>2 DEF Pending
    <2>4. \A g : Deps(g)' = Deps(g) BY <1>2 DEF Deps
    <2> SUFFICES ASSUME NEW g \in Fixed', NEW i \in DOMAIN Deps(g)'
                 PROVE  Settled(g, Deps(g)[i])' \/ g \in cut' \/ Pending(g, i)'
      BY DEF GapsAreLeftByFailures
    <2>5. Settled(g, Deps(g)[i]) \/ g \in cut \/ Pending(g, i)
      BY <2>1, <2>4 DEF IInv, GapsAreLeftByFailures
    <2> QED BY <1>2, <2>2, <2>3, <2>4, <2>5
  <1> QED BY <1>5, <1>6, <1>7 DEF IInv

LEMMA StutterStep == ASSUME IInv, UNCHANGED vars PROVE IInv'
  <1>1. Calls' = Calls BY CallsSame DEF vars
  <1>2. Types' BY <1>1 DEF IInv, vars, Types, Files
  <1>3. Idle' BY DEF IInv, vars, Idle
  <1>4. PastIsSettled'
    <2>1. \A x, y : Settled(x, y)' <=> Settled(x, y) BY SettledSame DEF vars
    <2> QED BY <2>1 DEF IInv, vars, PastIsSettled, Deps
  <1>5. GapsAreLeftByFailures'
    BY GapsStay DEF IInv, vars
  <1> QED BY <1>2, <1>3, <1>4, <1>5 DEF IInv

-----------------------------------------------------------------------------
\* The inductive invariant of the install script.
THEOREM Inductive == Spec => []IInv
  <1>1. IInv /\ [Next]_vars => IInv'
    <2> SUFFICES ASSUME IInv, [Next]_vars PROVE IInv' OBVIOUS
    <2>1. CASE Install BY <2>1, InstallStep
    <2>2. CASE Leave BY <2>2, LeaveStep
    <2>3. CASE Descend BY <2>3, DescendStep
    <2>4. CASE CopyRecurse BY <2>4, CopyStep
    <2>5. CASE Fatal BY <2>5, StopStep DEF Fatal
    <2>6. CASE Return BY <2>6, ReturnStep
    <2>7. CASE NextTarget BY <2>7, NextTargetStep
    <2>8. CASE Interrupt BY <2>8, StopStep DEF Interrupt
    <2>9. CASE Supply BY <2>9, SupplyStep
    <2>10. CASE UNCHANGED vars BY <2>10, StutterStep
    <2> QED
      BY <2>1, <2>2, <2>3, <2>4, <2>5, <2>6, <2>7, <2>8, <2>9, <2>10 DEF Next, Step
  <1> QED BY Initial, <1>1, PTL DEF Spec

\* Whatever the graph of dependencies: a copied or visited file lacks a dependency only
\* while the script has it to do or where an earlier install failed below it.
THEOREM GapsAreConfined == Spec => []GapsAreLeftByFailures
  <1>1. IInv => GapsAreLeftByFailures BY DEF IInv
  <1> QED BY Inductive, <1>1, PTL

\* Every file at work exists, and no call is past the end of its dependencies.
THEOREM TypeCorrect == Spec => []TypeOK
  <1>1. IInv => TypeOK
    <2> SUFFICES ASSUME IInv PROVE TypeOK OBVIOUS
    <2>1. Types BY DEF IInv
    <2>2. \A k \in DOMAIN stack :
            /\ stack[k].file \in complete
            /\ stack[k].next \in 1 .. Len(Deps(stack[k].file)) + 1
      <3> SUFFICES ASSUME NEW k \in DOMAIN stack
                   PROVE  /\ stack[k].file \in complete
                          /\ stack[k].next \in 1 .. Len(Deps(stack[k].file)) + 1
        OBVIOUS
      <3>1. stack[k] \in Calls BY <2>1, ElementOfSeq, LenProperties DEF Types
      <3>2. stack[k].file \in Files BY <2>1, <3>1 DEF Calls, Types
      <3> QED BY <2>1, <3>1, <3>2, DepsFacts DEF Calls
    <2> QED BY <2>1, <2>2 DEF Types, TypeOK
  <1> QED BY Inductive, <1>1, PTL

-----------------------------------------------------------------------------
(* An install that is repeated.  When the script of a target has ended, every *)
(* dependency it looked for is at hand: what is found without copying, and    *)
(* below an rpath has been visited too.  Copies for other targets cannot      *)
(* change that.                                                               *)

AtHand(n, dep, W) ==
  IF site.os = "UNIX"
    THEN \/ Provided(dep)
         \/ Below(TargetCall(n).rpath, dep) /\ dep \in W
         \/ ~Below(TargetCall(n).rpath, dep) /\ (Installed(dep) \/ ~Copyable(dep))
    ELSE Provided(dep) \/ <<site.targets[n][1], dep>> \in present

\* W are libraries whose dependencies are at hand for target n.
Covers(W, n) == \A l \in W : \A i \in DOMAIN site.needed[l] : AtHand(n, site.needed[l][i], W)

\* On Windows only the target itself is visited by every install.
Walks(f) == site.os = "UNIX" \/ f[2] = site.targets[turn][2]
Walked   == {f[2] : f \in {g \in complete : Walks(g)}}

AtWork ==
  turn # 0 => /\ site.targets[turn] \in complete
              /\ site.os = "UNIX" => \A k \in DOMAIN stack : stack[k].rpath = TargetCall(turn).rpath

WalkedAreAtHand ==
  turn # 0 => \A f \in complete : Walks(f) =>
    \A i \in DOMAIN Deps(f) : Pending(f, i) \/ AtHand(turn, Deps(f)[i], Walked)

DoneAreCovered ==
  \A n \in 1 .. Len(site.targets) :
    last = "installed" \/ n < turn => \E W : Covers(W, n) /\ site.targets[n][2] \in W

RepeatIsCovered ==
  last = "installed" /\ turn # 0 =>
    /\ \E W : Covers(W, turn) /\ \A f \in complete : f[2] \in W
    /\ \A f \in complete : Walks(f)

Quiet == RpathIsInherited => AtWork /\ WalkedAreAtHand /\ DoneAreCovered /\ RepeatIsCovered

LEMMA AtHandGrows ==
  ASSUME NEW W, NEW V, W \subseteq V, NEW n, NEW dep, AtHand(n, dep, W)
  PROVE  AtHand(n, dep, V)
  BY DEF AtHand

LEMMA AtHandSame ==
  ASSUME UNCHANGED <<site, present>>
  PROVE  /\ \A n, dep, W : AtHand(n, dep, W)' = AtHand(n, dep, W)
         /\ \A n, W : Covers(W, n)' = Covers(W, n)
         /\ \A n : TargetCall(n)' = TargetCall(n)
         /\ RpathIsInherited' = RpathIsInherited
  <1>1. \A n : TargetCall(n)' = TargetCall(n) BY DEF TargetCall, Call, read_rpath
  <1>2. \A n, dep, W : AtHand(n, dep, W)' = AtHand(n, dep, W)
    <2>1. \A rpath, dep : /\ Provided(dep)' = Provided(dep) /\ Installed(dep)' = Installed(dep)
                          /\ Copyable(dep)' = Copyable(dep) /\ Below(rpath, dep)' = Below(rpath, dep)
      BY DEF Provided, Below, Installed, Copyable
    <2> QED BY <1>1, <2>1 DEF AtHand
  <1>3. \A n, W : Covers(W, n)' = Covers(W, n) BY <1>2 DEF Covers
  <1>4. RpathIsInherited' = RpathIsInherited
    <2>1. \A file, rpath : Call(file, rpath)' = Call(file, rpath) BY DEF Call, read_rpath
    <2> QED BY <1>1, <2>1 DEF RpathIsInherited
  <1> QED BY <1>1, <1>2, <1>3, <1>4

\* What a call finds, in terms of where the libraries are.
LEMMA FoundOnUnix ==
  ASSUME Types, Working, Hits(Top, Dep) # {}, site.os = "UNIX", AtWork
  PROVE  LET rpath == TargetCall(turn).rpath
         IN \/ Provided(Dep) /\ Hit.do = "leave"
            \/ ~Provided(Dep) /\ Below(rpath, Dep) /\ Hit.do = "descend"
            \/ ~Provided(Dep) /\ ~Below(rpath, Dep) /\ Installed(Dep) /\ Hit.do = "leave"
            \/ ~Provided(Dep) /\ ~Below(rpath, Dep) /\ ~Installed(Dep) /\ Copyable(Dep) /\ Hit.do = "copy"
            \/ ~Below(rpath, Dep) /\ ~Copyable(Dep) /\ Hit.do = "leave"
  <1>1. FirstIn(unix_search(Top), Dep, Hit) BY HitIsFirst DEF search
  <1>2. turn # 0 /\ Top \in Calls /\ Top.rpath = TargetCall(turn).rpath
    BY TopFacts DEF Working, AtWork, Top
  <1> QED BY <1>1, <1>2, UnixOrder

LEMMA CopyKeepsAtHand ==
  ASSUME Types, AtWork, CopyRecurse, NEW n, NEW dep, NEW W, AtHand(n, dep, W)
  PROVE  AtHand(n, dep, W)'
  <1>1. /\ Working /\ Hits(Top, Dep) # {} /\ Hit.do = "copy" /\ site' = site
        /\ present' = present \cup {<<Dest, Dep>>}
    BY DEF CopyRecurse, Found
  <1>2. TargetCall(n)' = TargetCall(n) BY <1>1 DEF TargetCall, Call, read_rpath
  <1>3. PICK x, to : x = Dep /\ to = Dest OBVIOUS
  <1>4. /\ Provided(dep) => Provided(dep)'
        /\ Below(TargetCall(n).rpath, dep) => Below(TargetCall(n).rpath, dep)'
        /\ <<site.targets[n][1], dep>> \in present => <<site.targets[n][1], dep>> \in present'
    BY <1>1, <1>2 DEF Provided, Below
  <1>5. CASE site.os # "UNIX"
    BY <1>1, <1>4, <1>5 DEF AtHand
  <1>6. CASE site.os = "UNIX"
    <2>1. ~Provided(x) /\ ~Installed(x) /\ Copyable(x)
      BY <1>1, <1>3, <1>6, FoundOnUnix
    <2>2. CASE dep = x
      <3>1. Below(TargetCall(n).rpath, dep) /\ dep \in W BY <1>6, <2>1, <2>2 DEF AtHand
      <3> QED BY <1>1, <1>4, <1>6, <3>1 DEF AtHand
    <2>3. CASE dep # x
      <3>1. \A dir : <<dir, dep>> \in present' <=> <<dir, dep>> \in present BY <1>1, <1>3, <2>3
      <3>2. /\ Provided(dep)' = Provided(dep) /\ Installed(dep)' = Installed(dep)
            /\ Copyable(dep)' = Copyable(dep)
            /\ Below(TargetCall(n).rpath, dep)' = Below(TargetCall(n).rpath, dep)
        BY <1>1, <1>2, <3>1 DEF Provided, Installed, Copyable, Below
      <3> QED BY <1>1, <1>6, <3>2 DEF AtHand
    <2> QED BY <2>2, <2>3
  <1> QED BY <1>5, <1>6

\* The next dependency d of f is at hand, and fixup_target called for a file.
LEMMA ForwardQuiet ==
  ASSUME IInv, AtWork, WalkedAreAtHand, DoneAreCovered, RepeatIsCovered, RpathIsInherited,
         Working, UNCHANGED <<site, turn, last>>,
         NEW file \in Files, file[1] \in MayUse(file[2]), site.os = "WIN32" => file[1] = Dest,
         NEW d, d = Dep, file \in complete \/ file[2] = d,
         \A n, dep, W : AtHand(n, dep, W) => AtHand(n, dep, W)',
         Walks(Top.file) => \A W : complete' = complete \cup {file} /\ W = Walked' => AtHand(turn, d, W)',
         last = "installed" /\ file \notin complete =>
           site.os = "UNIX" /\ \A W : AtHand(turn, d, W) => d \in W,
         Recurse(file)
  PROVE  AtWork' /\ WalkedAreAtHand' /\ DoneAreCovered' /\ RepeatIsCovered'
  <1> DEFINE L == Len(stack)
             n == Top.next
  <1>1. /\ Types /\ turn # 0 /\ turn \in 1 .. Len(site.targets)
    BY DEF IInv, Working, Types
  <1>2. /\ complete' = complete \cup {file}
        /\ \A k \in 1 .. L :
              /\ k \in DOMAIN stack' /\ stack'[k].file = stack[k].file /\ stack'[k].rpath = stack[k].rpath
              /\ stack'[k].next = IF k = L THEN n + 1 ELSE stack[k].next
        /\ \A k \in DOMAIN stack' \ (1 .. L) :
              file \notin complete /\ stack'[k] = Call(file, Top.rpath) /\ stack'[k].file = file /\ stack'[k].next = 1
        /\ file \in complete \/ \E k \in DOMAIN stack' : stack'[k].file = file /\ stack'[k].next = 1
    BY <1>1, CallFacts
  <1>3. /\ L \in 1 .. L /\ DOMAIN stack = 1 .. L /\ n \in Nat \ {0} /\ n \in DOMAIN Deps(Top.file)
        /\ stack[L].file = Top.file /\ stack[L].next = n /\ stack[L].rpath = Top.rpath
        /\ d = Deps(Top.file)[n] /\ Top.file \in complete /\ Top.file \in Files
    BY <1>1, TopFacts, DepFacts DEF Working, Top, Dep
  <1>4. \A m : TargetCall(m)' = TargetCall(m) BY DEF TargetCall, Call, read_rpath
  <1>5. \A m, W : Covers(W, m) => Covers(W, m)' BY DEF Covers
  <1>6. \A g : Walks(g)' = Walks(g) /\ Deps(g)' = Deps(g) BY DEF Walks, Deps
  <1>7. \A k \in 1 .. L : stack[k].next \in Nat
    <2>1. \A k \in 1 .. L : stack[k] \in Calls BY <1>1, <1>3, ElementOfSeq DEF Types
    <2> QED BY <2>1 DEF Calls
  <1> HIDE DEF L, n
  <1>8. AtWork'
    <2>1. site.targets[turn] \in complete' BY <1>1, <1>2 DEF AtWork
    <2>2. ASSUME site.os = "UNIX", NEW k \in DOMAIN stack' PROVE stack'[k].rpath = TargetCall(turn).rpath
      <3>1. Top.rpath = TargetCall(turn).rpath BY <1>1, <1>3, <2>2 DEF AtWork
      <3>2. CASE k \in 1 .. L BY <1>1, <1>2, <1>3, <2>2, <3>2 DEF AtWork
      <3>3. CASE k \notin 1 .. L
        <4>1. file \notin complete /\ stack'[k] = Call(file, Top.rpath) BY <1>2, <3>3
        <4>2. PICK dir \in Dirs : file = <<dir, d>>
          BY <4>1 DEF Files
        <4>3. turn \in DOMAIN site.targets /\ Top.file[2] \in DOMAIN site.needed
              /\ n \in DOMAIN site.needed[Top.file[2]] /\ d = site.needed[Top.file[2]][n]
          BY <1>1, <1>3, SiteFacts, LenProperties DEF Files, Deps
        <4>4. Call(<<dir, d>>, TargetCall(turn).rpath).rpath = TargetCall(turn).rpath
          BY <2>2, <4>3 DEF RpathIsInherited
        <4> QED BY <3>1, <4>1, <4>2, <4>4
      <3> QED BY <3>2, <3>3
    <2> QED BY <1>1, <1>4, <2>1, <2>2 DEF AtWork
  <1>9. WalkedAreAtHand'
    <2>1. PICK W, V : W = Walked /\ V = Walked' OBVIOUS
    <2>2. W \subseteq V BY <1>2, <1>6, <2>1 DEF Walked
    <2>3. \A m, dep : AtHand(m, dep, W) => AtHand(m, dep, V)' BY <2>2, AtHandGrows
    <2>4. Walks(Top.file) => AtHand(turn, d, V)' BY <1>2, <2>1
    <2> SUFFICES ASSUME NEW g \in complete', Walks(g), NEW i \in DOMAIN Deps(g)
                 PROVE  Pending(g, i)' \/ AtHand(turn, Deps(g)[i], V)'
      BY <1>6, <2>1 DEF WalkedAreAtHand
    <2>5. i \in Nat \ {0}
      <3>1. g \in Files BY <1>1, <1>2 DEF Types
      <3> QED BY <1>1, <3>1, DepsFacts
    <2>6. CASE g \in complete
      <3>1. Pending(g, i) \/ AtHand(turn, Deps(g)[i], W) BY <1>1, <2>1, <2>6 DEF WalkedAreAtHand
      <3>2. CASE Pending(g, i)
        <4>1. PICK k \in 1 .. L : stack[k].file = g /\ stack[k].next <= i
          BY <1>3, <3>2 DEF Pending
        <4>2. CASE k = L /\ i = n BY <1>3, <1>6, <2>4, <4>1, <4>2
        <4>3. CASE ~ (k = L /\ i = n)
          <5>1. stack'[k].file = g /\ stack'[k].next <= i /\ k \in DOMAIN stack'
            BY <1>2, <1>3, <1>7, <2>5, <4>1, <4>3
          <5> QED BY <5>1 DEF Pending
        <4> QED BY <4>2, <4>3
      <3>3. CASE AtHand(turn, Deps(g)[i], W)
        <4>1. PICK m, x : m = turn /\ x = Deps(g)[i] OBVIOUS
        <4>2. AtHand(m, x, V)' BY <2>3, <3>3, <4>1
        <4> QED BY <1>6, <4>1, <4>2
      <3> QED BY <3>1, <3>2, <3>3
    <2>7. CASE g \notin complete
      <3>1. PICK k \in DOMAIN stack' : stack'[k].file = g /\ stack'[k].next = 1 BY <1>2, <2>7
      <3> QED BY <2>5, <3>1 DEF Pending
    <2> QED BY <2>6, <2>7
  <1>10. DoneAreCovered' BY <1>5 DEF DoneAreCovered
  <1>11. RepeatIsCovered'
    <2> SUFFICES ASSUME last = "installed"
                 PROVE  /\ \E W : Covers(W, turn)' /\ \A g \in complete' : g[2] \in W
                        /\ \A g \in complete' : Walks(g)
      BY <1>6 DEF RepeatIsCovered
    <2>1. PICK W : Covers(W, turn) /\ \A g \in complete : g[2] \in W BY <1>1 DEF RepeatIsCovered
    <2>2. Covers(W, turn)' BY <1>5, <2>1
    <2>3. file[2] \in W
      <3>1. AtHand(turn, d, W) BY <1>3, <2>1 DEF Covers, Deps
      <3> QED BY <2>1, <3>1
    <2>4. \A g \in complete' : Walks(g)
      BY <1>1, <1>2 DEF RepeatIsCovered, Walks
    <2> QED BY <1>2, <2>1, <2>2, <2>3, <2>4
  <1> QED BY <1>8, <1>9, <1>10, <1>11

LEMMA LeaveQuiet ==
  ASSUME IInv, AtWork, WalkedAreAtHand, DoneAreCovered, RepeatIsCovered, RpathIsInherited, Leave
  PROVE  AtWork' /\ WalkedAreAtHand' /\ DoneAreCovered' /\ RepeatIsCovered'
  <1>1. /\ Types /\ Working /\ turn # 0 /\ Hits(Top, Dep) # {} /\ Hit.do = "leave"
        /\ UNCHANGED <<site, present, turn, complete, runs, last, cut>> /\ stack' = Advanced
    BY DEF IInv, Leave, Found, Working
  <1>2. PICK file, d : file = Top.file /\ d = Dep OBVIOUS
  <1>3. /\ file \in complete /\ file \in Files /\ file[1] \in MayUse(file[2])
        /\ site.os = "WIN32" => file[1] = Dest
    BY <1>1, <1>2, TopFacts DEF Working, Calls
  <1>4. Recurse(file) BY <1>1, <1>3 DEF Recurse
  <1>5. \A n, dep, W : AtHand(n, dep, W) => AtHand(n, dep, W)' BY <1>1, AtHandSame
  <1>6. \A W : AtHand(turn, d, W)
    <2>1. CASE site.os = "UNIX" BY <1>1, <1>2, <2>1, FoundOnUnix DEF AtHand
    <2>2. CASE site.os # "UNIX"
      <3>1. site.os = "WIN32" BY <1>1, <2>2, SiteFacts
      <3>2. /\ <<Hit.dir, d>> \in present
            /\ Hit.dir \in {site.targets[turn][1], "provided_libs", "provided_lib_dirs"}
        BY <1>1, <1>2, <3>1, HitFacts DEF Rows, Dest
      <3> QED BY <2>2, <3>2 DEF AtHand, Provided
    <2> QED BY <2>1, <2>2
  <1>7. \A W : AtHand(turn, d, W)'
    <2>1. PICK m : m = turn OBVIOUS
    <2>2. \A W : AtHand(m, d, W)' BY <1>5, <1>6, <2>1
    <2> QED BY <1>1, <2>1, <2>2
  <1> QED BY <1>1, <1>2, <1>3, <1>4, <1>5, <1>7, ForwardQuiet

LEMMA DescendQuiet ==
  ASSUME IInv, AtWork, WalkedAreAtHand, DoneAreCovered, RepeatIsCovered, RpathIsInherited, Descend
  PROVE  AtWork' /\ WalkedAreAtHand' /\ DoneAreCovered' /\ RepeatIsCovered'
  <1>1. PICK file, d : file = <<Hit.dir, Dep>> /\ d = Dep OBVIOUS
  <1>2. /\ Types /\ Working /\ turn # 0 /\ Hits(Top, Dep) # {} /\ Hit.do = "descend"
        /\ UNCHANGED <<site, present, turn, runs, last, cut>> /\ Recurse(file)
    BY <1>1 DEF IInv, Descend, Found, Working
  <1>3. file \in Files /\ file[1] \in MayUse(file[2]) /\ file[2] = d /\ site.os = "UNIX"
    BY <1>1, <1>2, HitFacts, DescendFacts
  <1>4. \A n, dep, W : AtHand(n, dep, W) => AtHand(n, dep, W)' BY <1>2, AtHandSame
  <1>5. ~Provided(d) /\ Below(TargetCall(turn).rpath, d)
    BY <1>1, <1>2, <1>3, FoundOnUnix
  <1>6. \A W : AtHand(turn, d, W) <=> d \in W BY <1>3, <1>5 DEF AtHand
  <1>7. ASSUME NEW W, complete' = complete \cup {file}, W = Walked'
        PROVE  AtHand(turn, d, W)'
    <2>1. Walks(file)' BY <1>2, <1>3 DEF Walks
    <2>2. d \in W BY <1>3, <1>7, <2>1 DEF Walked
    <2>3. PICK m : m = turn OBVIOUS
    <2>4. AtHand(m, d, W)' BY <1>4, <1>6, <2>2, <2>3
    <2> QED BY <1>2, <2>3, <2>4
  <1> QED BY <1>1, <1>2, <1>3, <1>4, <1>6, <1>7, ForwardQuiet

LEMMA RepeatCopiesNothing ==
  ASSUME IInv, AtWork, RepeatIsCovered, last = "installed", CopyRecurse
  PROVE  FALSE
  <1>1. Types /\ Working /\ turn # 0 /\ Hits(Top, Dep) # {} /\ Hit.do = "copy"
    BY DEF IInv, CopyRecurse, Found, Working
  <1>2. PICK W : Covers(W, turn) /\ \A f \in complete : f[2] \in W BY <1>1 DEF RepeatIsCovered
  <1>3. AtHand(turn, Dep, W)
    <2>1. Top.file \in complete /\ Top.next \in DOMAIN Deps(Top.file)
      BY <1>1, TopFacts, DepFacts DEF Working
    <2> QED BY <1>2, <2>1 DEF Covers, Deps, Dep
  <1>4. CASE site.os = "UNIX" BY <1>1, <1>3, <1>4, FoundOnUnix DEF AtHand
  <1>5. CASE site.os # "UNIX"
    <2>1. site.os = "WIN32" BY <1>1, <1>5, SiteFacts
    <2>2. Top \in Calls /\ Top.file \in complete BY <1>1, TopFacts DEF Working
    <2>3. Top.file[2] = site.targets[turn][2] BY <1>1, <1>5, <2>2 DEF RepeatIsCovered, Walks
    <2>4. FirstIn(win32_search(Top), Dep, Hit) BY <1>1, <1>5, HitIsFirst DEF search
    <2>5. ~Provided(Dep) /\ <<Dest, Dep>> \notin present BY <1>1, <2>1, <2>2, <2>3, <2>4, WindowsOrder
    <2>6. Dest = site.targets[turn][1] BY <2>1 DEF Dest
    <2> QED BY <1>3, <1>5, <2>5, <2>6 DEF AtHand
  <1> QED BY <1>4, <1>5

LEMMA CopyQuiet ==
  ASSUME IInv, AtWork, WalkedAreAtHand, DoneAreCovered, RepeatIsCovered, RpathIsInherited, CopyRecurse
  PROVE  AtWork' /\ WalkedAreAtHand' /\ DoneAreCovered' /\ RepeatIsCovered'
  <1>1. PICK file, d : file = <<Dest, Dep>> /\ d = Dep OBVIOUS
  <1>2. /\ Types /\ Working /\ turn # 0
        /\ UNCHANGED <<site, turn, runs, last, cut>> /\ Recurse(file)
        /\ present' = present \cup {file}
    BY <1>1 DEF IInv, CopyRecurse, Found, Working
  <1>3. file \in Files /\ file[1] \in MayUse(file[2]) /\ file[1] = Dest /\ file[2] = d
    <2>1. Dest \in Usable /\ file \in Files BY <1>1, <1>2, DestFacts, DepFacts DEF Files, Usable
    <2> QED BY <1>1, <1>2, <2>1, MayUseFacts
  <1>4. \A n, dep, W : AtHand(n, dep, W) => AtHand(n, dep, W)' BY <1>2, CopyKeepsAtHand
  <1>5. last # "installed" BY RepeatCopiesNothing
  <1>6. ASSUME NEW W, complete' = complete \cup {file}, W = Walked'
        PROVE  AtHand(turn, d, W)'
    <2>1. CASE site.os = "UNIX"
      <3>1. Walks(file)' BY <1>2, <2>1 DEF Walks
      <3>2. d \in W BY <1>3, <1>6, <3>1 DEF Walked
      <3>3. Installed(d)'
        <4>1. file = <<"dest", d>> BY <1>1, <2>1 DEF Dest
        <4> QED BY <1>2, <4>1 DEF Installed
      <3> QED BY <1>2, <2>1, <3>2, <3>3 DEF AtHand
    <2>2. CASE site.os # "UNIX"
      <3>1. file = <<site.targets[turn][1], d>> BY <1>1, <2>2 DEF Dest
      <3> QED BY <1>2, <2>2, <3>1 DEF AtHand
    <2> QED BY <2>1, <2>2
  <1> QED BY <1>1, <1>2, <1>3, <1>4, <1>5, <1>6, ForwardQuiet

\* A call that returns has nothing left to do.
LEMMA ReturnQuiet ==
  ASSUME IInv, AtWork, WalkedAreAtHand, DoneAreCovered, RepeatIsCovered, Return
  PROVE  AtWork' /\ WalkedAreAtHand' /\ DoneAreCovered' /\ RepeatIsCovered'
  <1>1. /\ Types /\ UNCHANGED <<site, present, turn, complete, runs, last>>
        /\ turn # 0 /\ stack # <<>> /\ Top.next > Len(Deps(Top.file))
        /\ stack' = SubSeq(stack, 1, Len(stack) - 1)
    BY DEF IInv, Return
  <1>2. Len(stack) \in Nat \ {0} /\ DOMAIN stack = 1 .. Len(stack) /\ stack \in Seq(Calls)
    BY <1>1, TopFacts DEF Types
  <1>3. stack' \in Seq(Calls) /\ Len(stack') = Len(stack) - 1 /\ \A k \in 1 .. Len(stack) - 1 : stack'[k] = stack[k]
    BY <1>1, <1>2, SubSeqProperties
  <1>4. DOMAIN stack' = 1 .. Len(stack) - 1 BY <1>3, LenProperties
  <1>5. /\ \A n, dep, W : AtHand(n, dep, W)' = AtHand(n, dep, W)
        /\ \A n, W : Covers(W, n)' = Covers(W, n)
        /\ \A n : TargetCall(n)' = TargetCall(n)
    BY <1>1, AtHandSame
  <1>6. \A g : Walks(g)' = Walks(g) /\ Deps(g)' = Deps(g) BY <1>1 DEF Walks, Deps
  <1>7. Walked' = Walked BY <1>1, <1>6 DEF Walked
  <1>8. AtWork'
    <2>1. \A k \in DOMAIN stack' : k \in DOMAIN stack /\ stack'[k] = stack[k] BY <1>2, <1>3, <1>4
    <2> QED BY <1>1, <1>5, <2>1 DEF AtWork
  <1>9. WalkedAreAtHand'
    <2>1. PICK W : W = Walked OBVIOUS
    <2> SUFFICES ASSUME NEW g \in complete, Walks(g), NEW i \in DOMAIN Deps(g)
                 PROVE  Pending(g, i)' \/ AtHand(turn, Deps(g)[i], W)'
      BY <1>1, <1>6, <1>7, <2>1 DEF WalkedAreAtHand
    <2>2. i \in 1 .. Len(Deps(g)) /\ Len(Deps(g)) \in Nat
      <3>1. g \in Files BY <1>1 DEF Types
      <3> QED BY <1>1, <3>1, DepsFacts
    <2>3. CASE AtHand(turn, Deps(g)[i], W)
      <3>1. PICK m, x : m = turn /\ x = Deps(g)[i] OBVIOUS
      <3>2. AtHand(m, x, W)' BY <1>5, <2>3, <3>1
      <3> QED BY <1>1, <1>6, <3>1, <3>2
    <2>4. CASE Pending(g, i)
      <3>1. PICK k \in 1 .. Len(stack) : stack[k].file = g /\ stack[k].next <= i BY <1>2, <2>4 DEF Pending
      <3>2. k # Len(stack)
        <4>1. \A j \in 1 .. Len(stack) : stack[j] \in Calls BY <1>2, ElementOfSeq
        <4>2. stack[k].next \in Nat BY <4>1 DEF Calls
        <4> QED BY <1>1, <2>2, <3>1, <4>2 DEF Top
      <3>3. k \in DOMAIN stack' /\ stack'[k] = stack[k]
        <4>1. \A n \in Nat : \A j \in 1 .. n : j # n => j \in 1 .. n - 1 OBVIOUS
        <4>2. k \in 1 .. Len(stack) - 1 BY <1>2, <3>2, <4>1
        <4> QED BY <1>3, <1>4, <4>2
      <3> QED BY <3>1, <3>3 DEF Pending
    <2> QED BY <1>1, <2>1, <2>3, <2>4 DEF WalkedAreAtHand
  <1>10. DoneAreCovered' BY <1>1, <1>5 DEF DoneAreCovered
  <1>11. RepeatIsCovered' BY <1>1, <1>5, <1>6 DEF RepeatIsCovered
  <1> QED BY <1>8, <1>9, <1>10, <1>11

LEMMA BeginQuiet ==
  ASSUME Types, NEW n \in 1 .. Len(site.targets), Begin(n), UNCHANGED <<site, present, last>>,
         \A m \in 1 .. Len(site.targets) :
           last = "installed" \/ m < n => \E W : Covers(W, m) /\ site.targets[m][2] \in W
  PROVE  AtWork' /\ WalkedAreAtHand' /\ DoneAreCovered' /\ RepeatIsCovered'
  <1>1. turn' = n /\ complete' = {site.targets[n]} /\ stack' = <<TargetCall(n)>> /\ n # 0
    BY DEF Begin
  <1>2. PICK target, call : target = site.targets[n] /\ call = TargetCall(n) OBVIOUS
  <1>3. DOMAIN stack' = {1} /\ stack'[1] = call BY <1>1, <1>2
  <1>4. call.file = target /\ call.next = 1 BY <1>2 DEF TargetCall, Call
  <1>5. /\ \A m, W : Covers(W, m)' = Covers(W, m)
        /\ \A m : TargetCall(m)' = TargetCall(m)
    BY AtHandSame
  <1>6. Walks(target)' BY <1>1, <1>2 DEF Walks
  <1>7. AtWork'
    <2>1. TargetCall(turn)' = call
      <3>1. PICK m : m = n OBVIOUS
      <3>2. TargetCall(m)' = call BY <1>2, <1>5, <3>1
      <3> QED BY <1>1, <3>1, <3>2
    <2> QED BY <1>1, <1>2, <1>3, <2>1 DEF AtWork
  <1>8. WalkedAreAtHand'
    <2> SUFFICES ASSUME NEW i \in DOMAIN Deps(target)' PROVE Pending(target, i)'
      BY <1>1, <1>2 DEF WalkedAreAtHand
    <2>1. i \in Nat \ {0}
      <3>1. target \in Files BY <1>2, TargetFacts
      <3>2. Deps(target)' = Deps(target) BY DEF Deps
      <3> QED BY <3>1, <3>2, DepsFacts
    <2> QED BY <1>3, <1>4, <2>1 DEF Pending
  <1>9. DoneAreCovered' BY <1>1, <1>5 DEF DoneAreCovered
  <1>10. RepeatIsCovered'
    <2> SUFFICES ASSUME last = "installed"
                 PROVE  \E W : Covers(W, n)' /\ target \in {f \in complete' : f[2] \in W}
      BY <1>1, <1>2, <1>6 DEF RepeatIsCovered
    <2>1. PICK W : Covers(W, n) /\ target[2] \in W BY <1>2
    <2> QED BY <1>1, <1>2, <1>5, <2>1
  <1> QED BY <1>7, <1>8, <1>9, <1>10

\* The script of a target is over: what it visited has everything at hand.
LEMMA TargetIsCovered ==
  ASSUME AtWork, WalkedAreAtHand, turn # 0, stack = <<>>
  PROVE  \E W : Covers(W, turn) /\ site.targets[turn][2] \in W
  <1>1. Covers(Walked, turn)
    <2> SUFFICES ASSUME NEW f \in complete, Walks(f), NEW i \in DOMAIN Deps(f)
                 PROVE  AtHand(turn, Deps(f)[i], Walked)
      BY DEF Covers, Walked, Deps
    <2>1. ~Pending(f, i) BY DEF Pending
    <2> QED BY <2>1 DEF WalkedAreAtHand
  <1>2. site.targets[turn][2] \in Walked BY DEF AtWork, Walked, Walks
  <1> QED BY <1>1, <1>2

LEMMA QuietStep ==
  ASSUME IInv, Quiet, [Next]_vars
  PROVE  Quiet'
  <1>1. Types /\ site' = site
    BY DEF IInv, Next, Step, vars, Install, Leave, Descend, CopyRecurse, Fatal, Stop, Return, NextTarget,
           Interrupt, Supply
  <1>2. RpathIsInherited' = RpathIsInherited
    <2>1. \A file, rpath : Call(file, rpath)' = Call(file, rpath) BY <1>1 DEF Call, read_rpath
    <2>2. \A n : TargetCall(n)' = TargetCall(n) BY <1>1, <2>1 DEF TargetCall
    <2> QED BY <1>1, <2>1, <2>2 DEF RpathIsInherited
  <1> SUFFICES ASSUME RpathIsInherited PROVE AtWork' /\ WalkedAreAtHand' /\ DoneAreCovered' /\ RepeatIsCovered'
    BY <1>2 DEF Quiet
  <1>3. AtWork /\ WalkedAreAtHand /\ DoneAreCovered /\ RepeatIsCovered BY DEF Quiet
  <1>4. Len(site.targets) \in Nat BY <1>1, SiteFacts, LenProperties
  <1>5. CASE turn' = 0 /\ last' # "installed"
    <2>1. \A n \in 1 .. Len(site.targets) : ~(n < 0) BY <1>4
    <2> QED BY <1>1, <1>5, <2>1 DEF AtWork, WalkedAreAtHand, DoneAreCovered, RepeatIsCovered
  <1>6. CASE Install
    <2>1. turn = 0 /\ Begin(1) /\ UNCHANGED <<site, present, last>> /\ site.targets # <<>>
      BY <1>6 DEF Install
    <2>2. 1 \in 1 .. Len(site.targets) BY <1>1, <2>1, SiteFacts, EmptySeq, LenProperties
    <2>3. \A m \in 1 .. Len(site.targets) : ~(m < 1) BY <1>4
    <2> QED BY <1>1, <1>3, <2>1, <2>2, <2>3, BeginQuiet DEF DoneAreCovered
  <1>7. CASE NextTarget
    <2>1. turn # 0 /\ stack = <<>> /\ UNCHANGED <<site, present, runs, cut>> /\ turn \in 1 .. Len(site.targets)
      BY <1>1, <1>7 DEF NextTarget, Types
    <2>2. PICK t : t = turn OBVIOUS
    <2>3. \A m \in 1 .. Len(site.targets) :
            last = "installed" \/ m <= t => \E W : Covers(W, m) /\ site.targets[m][2] \in W
      <3>1. \E W : Covers(W, t) /\ site.targets[t][2] \in W BY <1>3, <2>1, <2>2, TargetIsCovered
      <3>2. ASSUME NEW m \in 1 .. Len(site.targets), last = "installed" \/ m <= t
            PROVE  \E W : Covers(W, m) /\ site.targets[m][2] \in W
        <4>1. m = t \/ last = "installed" \/ m < t BY <2>1, <2>2, <3>2
        <4> QED BY <1>3, <2>2, <3>1, <4>1 DEF DoneAreCovered
      <3> QED BY <3>2
    <2>4. CASE turn < Len(site.targets)
      <3>1. Begin(t + 1) /\ last' = last BY <1>7, <2>2, <2>4 DEF NextTarget
      <3>2. t + 1 \in 1 .. Len(site.targets) BY <1>4, <2>1, <2>2, <2>4
      <3>3. \A m \in 1 .. Len(site.targets) : m < t + 1 => m <= t BY <2>1, <2>2
      <3> QED BY <1>1, <2>1, <2>3, <3>1, <3>2, <3>3, BeginQuiet
    <2>5. CASE ~(turn < Len(site.targets))
      <3>1. turn' = 0 BY <1>7, <2>5 DEF NextTarget
      <3>2. \A m \in 1 .. Len(site.targets) : m <= t BY <1>4, <2>1, <2>2, <2>5
      <3>3. \A n, W : Covers(W, n)' = Covers(W, n) BY <2>1, AtHandSame
      <3> QED BY <1>1, <2>3, <3>1, <3>2, <3>3 DEF AtWork, WalkedAreAtHand, DoneAreCovered, RepeatIsCovered
    <2> QED BY <2>4, <2>5
  <1>8. CASE Leave BY <1>3, <1>8, LeaveQuiet
  <1>9. CASE Descend BY <1>3, <1>9, DescendQuiet
  <1>10. CASE CopyRecurse BY <1>3, <1>10, CopyQuiet
  <1>11. CASE Return BY <1>3, <1>11, ReturnQuiet
  <1>12. CASE Fatal \/ Interrupt \/ Supply
    <2>1. turn' = 0 /\ last' # "installed" BY <1>12 DEF Fatal, Interrupt, Supply, Stop
    <2> QED BY <1>5, <2>1
  <1>13. CASE UNCHANGED vars
    <2>1. UNCHANGED <<site, present, turn, complete, stack, last>> BY <1>13 DEF vars
    <2>2. /\ \A n, dep, W : AtHand(n, dep, W)' = AtHand(n, dep, W)
          /\ \A n, W : Covers(W, n)' = Covers(W, n)
          /\ \A n : TargetCall(n)' = TargetCall(n)
      BY <2>1, AtHandSame
    <2>3. \A g : Walks(g)' = Walks(g) /\ Deps(g)' = Deps(g) /\ \A i : Pending(g, i)' = Pending(g, i)
      BY <2>1 DEF Walks, Deps, Pending
    <2>4. Walked' = Walked BY <2>1, <2>3 DEF Walked
    <2>5. AtWork' BY <1>3, <2>1, <2>2 DEF AtWork
    <2>6. WalkedAreAtHand' BY <1>3, <2>1, <2>2, <2>3, <2>4 DEF WalkedAreAtHand
    <2>7. DoneAreCovered' BY <1>3, <2>1, <2>2 DEF DoneAreCovered
    <2>8. RepeatIsCovered' BY <1>3, <2>1, <2>2, <2>3 DEF RepeatIsCovered
    <2> QED BY <2>5, <2>6, <2>7, <2>8
  <1> QED BY <1>6, <1>7, <1>8, <1>9, <1>10, <1>11, <1>12, <1>13 DEF Next, Step

\* An install that repeats one that succeeded finds everything without copying, if what a
\* target needs is looked for with the rpath of the target.
THEOREM RepeatIsQuiet == Spec => SecondInstallIsQuiet
  <1>1. Init => Quiet
    <2> SUFFICES ASSUME Init PROVE AtWork /\ WalkedAreAtHand /\ DoneAreCovered /\ RepeatIsCovered BY DEF Quiet
    <2>1. turn = 0 /\ last = "never" /\ Types BY Initial DEF Init, IInv
    <2>2. \A n \in 1 .. Len(site.targets) : ~(n < 0) BY <2>1, SiteFacts, LenProperties
    <2> QED BY <2>1, <2>2 DEF AtWork, WalkedAreAtHand, DoneAreCovered, RepeatIsCovered
  <1>2. IInv /\ Quiet /\ [Next]_vars => Quiet' BY QuietStep
  <1>3. IInv /\ Quiet /\ [Next]_vars => [(RpathIsInherited /\ last = "installed") => ~CopyRecurse]_vars
    BY RepeatCopiesNothing DEF Quiet
  <1> QED BY Inductive, <1>1, <1>2, <1>3, PTL DEF Spec, SecondInstallIsQuiet
=============================================================================
