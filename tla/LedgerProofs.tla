---------------------------- MODULE LedgerProofs ----------------------------
(***************************************************************************)
(* What everything that implements FetchLedger inherits: the daemon does   *)
(* (DedupeProofs), and CacheFill uses it in place of the daemon.           *)
(***************************************************************************)
EXTENDS FetchLedger, TLAPS

\* The constants of the ledger, as FetchLedger describes them.
Sizes == Window \in Nat \ {0} /\ NoUrl \notin Url

LedgerType ==
  /\ age \in [Url -> Never .. Window]
  /\ granted \in [Worker -> Url \cup {NoUrl}]

\* Whoever may fetch has left an entry.
Entered == \A w \in Worker : granted[w] # NoUrl => age[granted[w]] # Never

\* Two workers may fetch the same URL only if its entry has outlived the window.
OnePerWindow ==
  \A v, w \in Worker :
    v # w /\ granted[v] = granted[w] /\ granted[w] # NoUrl
      => age[granted[w]] = Window

LedgerInv == LedgerType /\ Entered /\ OnePerWindow

LEMMA LedgerStep ==
  ASSUME Sizes, LedgerInv, [Next]_ledger PROVE LedgerInv'
  <1> USE DEF Sizes, LedgerInv, LedgerType, Entered, OnePerWindow, Never
  <1>1. CASE UNCHANGED ledger
    BY <1>1 DEF ledger
  <1>2. ASSUME NEW w \in Worker, NEW u \in Url, Grant(w, u) PROVE LedgerInv'
    <2>1. /\ granted[w] = NoUrl /\ granted' = [granted EXCEPT ![w] = u]
          /\ age[u] = Never \/ age[u] = Window
          /\ age' = [age EXCEPT ![u] = IF age[u] = Never THEN 0 ELSE age[u]]
      BY <1>2 DEF Grant, Open
    <2>2. LedgerType'
      BY <2>1
    <2>3. \A v \in Worker \ {w} : granted'[v] = granted[v]
      BY <2>1
    <2>4. \A v \in Worker \ {w} : granted[v] = u => age[u] = Window /\ age'[u] = Window
      BY <2>1
    <2>5. \A x \in Url : age[x] # Never => age'[x] = age[x]
      BY <2>1
    <2>6. granted'[w] = u /\ age'[u] # Never
      BY <2>1
    <2>7. Entered'
      BY <2>3, <2>5, <2>6
    <2>8. OnePerWindow'
      BY <2>3, <2>4, <2>5, <2>6
    <2> QED BY <2>2, <2>7, <2>8
  <1>3. ASSUME NEW w \in Worker, Done(w) PROVE LedgerInv'
    BY <1>3 DEF Done
  <1>4. CASE Pass
    BY <1>4 DEF Pass
  <1>5. CASE Reset
    BY <1>5 DEF Reset
  <1> QED BY <1>1, <1>2, <1>3, <1>4, <1>5 DEF Next

\* The ledger keeps what it promises.
THEOREM LedgerSafe == ASSUME Sizes PROVE Spec => []LedgerInv
  <1>1. Init => LedgerInv
    BY DEF Sizes, Init, LedgerInv, LedgerType, Entered, OnePerWindow, Never
  <1>2. LedgerInv /\ [Next]_ledger => LedgerInv'
    BY LedgerStep
  <1> QED BY <1>1, <1>2, PTL DEF Spec
=============================================================================
