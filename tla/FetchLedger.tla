---------------------------- MODULE FetchLedger ----------------------------
(***************************************************************************)
(* What the duplicate check of the daemon promises (avoid_dupes in         *)
(* src/server.c), with no lock, no listener and no process: a ledger that  *)
(* grants a URL to a worker in one step, at most once until the entry is   *)
(* Window ticks old.                                                       *)
(***************************************************************************)
EXTENDS Integers

CONSTANTS Worker, Url, NoUrl, Window  \* Window > 0, NoUrl is none of Url

VARIABLES
  age,      \* per URL the ticks since it was entered, or Never
  granted   \* per worker the URL it may fetch, or NoUrl

ledger == <<age, granted>>

Never == -1

Open(u) == age[u] = Never \/ age[u] = Window

Init ==
  /\ age = [u \in Url |-> Never]
  /\ granted = [w \in Worker |-> NoUrl]

Grant(w, u) ==
  /\ granted[w] = NoUrl
  /\ Open(u)
  /\ granted' = [granted EXCEPT ![w] = u]
  /\ age' = [age EXCEPT ![u] = IF @ = Never THEN 0 ELSE @]

Done(w) ==
  /\ granted[w] # NoUrl
  /\ granted' = [granted EXCEPT ![w] = NoUrl]
  /\ UNCHANGED age

\* Time only ever opens a URL.
Pass ==
  /\ age' = [u \in Url |-> IF age[u] \in {Never, Window} THEN age[u]
                           ELSE age[u] + 1]
  /\ UNCHANGED granted

\* The ledger lives as long as the process.
Reset ==
  /\ age' = [u \in Url |-> Never]
  /\ granted' = [w \in Worker |-> NoUrl]

Next ==
  \/ \E w \in Worker : Done(w) \/ \E u \in Url : Grant(w, u)
  \/ Pass
  \/ Reset

Spec == Init /\ [][Next]_ledger
=============================================================================
