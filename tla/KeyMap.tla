------------------------------- MODULE KeyMap -------------------------------
(***************************************************************************)
(* What src/nica/hashmap.h promises of a hashmap: a map from key texts to  *)
(* values, and what each call returns, as long as the program uses it      *)
(* plainly: removes nothing, and puts no key that is in it.                *)
(***************************************************************************)
CONSTANTS Text, Value, Null, Missing, PutMayFail

VARIABLES map, ret, plain

Returns(call, t, r) == ret' = <<call, t, r>>

Init ==
  /\ map = [t \in Text |-> Missing]
  /\ ret = <<"new", Null, TRUE>>
  /\ plain = TRUE

Put(t, v) ==
  /\ map[t] = Missing
  /\ map' = [map EXCEPT ![t] = v]
  /\ Returns("put", t, TRUE)

\* Without memory nothing is stored, and nothing is lost.
PutFails(t) == PutMayFail /\ Returns("put", t, FALSE) /\ UNCHANGED map

Get(t) ==
  /\ Returns("get", t, IF map[t] = Missing THEN Null ELSE map[t])
  /\ UNCHANGED map

EnsureGet(t) == Returns("ensure_get", t, map[t] # Missing) /\ UNCHANGED map

Contains(t) == Returns("contains", t, map[t] # Missing) /\ UNCHANGED map

\* A program that uses the table plainly removes only what is not there.
Remove(t) == map[t] = Missing /\ Returns("remove", t, FALSE) /\ UNCHANGED map

New == map' = [t \in Text |-> Missing] /\ Returns("new", Null, TRUE)

Call ==
  \E t \in Text : \/ PutFails(t) \/ Get(t) \/ EnsureGet(t) \/ Contains(t) \/ Remove(t)
                  \/ \E v \in Value : Put(t, v)

\* Nothing is promised of a table used otherwise, until there is a new one.
Next == plain' => New \/ (plain /\ Call)

Spec == Init /\ [][Next]_<<map, ret, plain>>
=============================================================================
