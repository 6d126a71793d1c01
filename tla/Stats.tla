-------------------------------- MODULE Stats --------------------------------
(***************************************************************************)
(* convertStatsToStructs of MexIFaceMixin.m: a dictionary of numbers whose *)
(* names are like "group.key" or "group.3" becomes a struct of structs and *)
(* of arrays.                                                              *)
(***************************************************************************)
EXTENDS Integers, Sequences

CONSTANTS
  NameOrder,   \* every name, in the order of their bytes
  Parts,       \* name -> its parts between the dots
  Index        \* the parts that str2num makes an integer of -> that integer

Names == {NameOrder[i] : i \in DOMAIN NameOrder}

ASSUME StatsAssumption ==
  /\ NameOrder \in Seq(Names)
  /\ \A i, j \in DOMAIN NameOrder : NameOrder[i] = NameOrder[j] => i = j
  /\ \A i \in DOMAIN NameOrder :
       LET p == Parts[NameOrder[i]] IN p # <<>> /\ p \in Seq({p[k] : k \in DOMAIN p})
  /\ \A i, j \in DOMAIN NameOrder : Parts[NameOrder[i]] = Parts[NameOrder[j]] => i = j
  /\ \A p \in DOMAIN Index : Index[p] \in Int

\* The names in their order.
Sorted(names) ==
  LET upTo[n \in 0 .. Len(NameOrder)] ==
        IF n = 0 THEN <<>>
        ELSE IF NameOrder[n] \in names THEN Append(upTo[n - 1], NameOrder[n]) ELSE upTo[n - 1]
  IN  upTo[Len(NameOrder)]

NoStats == [failed |-> FALSE, made |-> <<>>]

\* A member is an array (Matlab's [] and its scalars too) or a struct of numbers.
Numbers(s) == [array |-> s]
Keys(f)    == [struct |-> f]
IsNumeric(v) == "array" \in DOMAIN v

Grown(c, num, val) ==
  [k \in 1 .. (IF num > Len(c) THEN num ELSE Len(c)) |->
     IF k = num THEN val ELSE IF k <= Len(c) THEN c[k] ELSE 0]

\* What is not numeric yet is replaced by zeros.
SetIndex(old, num, val) ==
  Numbers(Grown(IF IsNumeric(old) THEN old.array ELSE <<>>, num, val))

SetKey(old, key, val) ==
  LET f == IF IsNumeric(old) THEN <<>> ELSE old.struct
  IN  Keys([k \in DOMAIN f \cup {key} |-> IF k = key THEN val ELSE f[k]])

\* One turn of the loop: the struct so far, the parts of a name, its value.
AddEntry(s, p, val) ==
  LET group  == p[1]
      put(v) == [s EXCEPT !.made = [g \in DOMAIN s.made \cup {group} |-> IF g = group THEN v ELSE s.made[g]]]
      fail   == [s EXCEPT !.failed = TRUE]
  IN  CASE s.failed     -> s
        [] ~s.failed /\ Len(p) # 2 -> put(Numbers(<<val>>))
        [] ~s.failed /\ Len(p) = 2 /\ p[2] \in DOMAIN Index ->
             IF Index[p[2]] < 1 THEN fail ELSE put(SetIndex(s.made[group], Index[p[2]], val))
        [] OTHER ->
             IF IsNumeric(s.made[group]) /\ s.made[group].array # <<>> THEN fail
             ELSE put(SetKey(s.made[group], p[2], val))

\* Every group of a two-part name begins as [].
convertStatsToStructs(names, values) ==
  LET parts(i) == Parts[names[i]]
      groups   == {parts(i)[1] : i \in {j \in DOMAIN names : Len(parts(j)) = 2}}
      done[i \in 0 .. Len(names)] ==
        IF i = 0 THEN [failed |-> FALSE, made |-> [g \in groups |-> Numbers(<<>>)]]
        ELSE AddEntry(done[i - 1], parts(i), values[i])
  IN  done[Len(names)]
=============================================================================
