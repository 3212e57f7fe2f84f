------------------------ MODULE PaymentEntry_proofs -------------------------
(***************************************************************************)
(* Lemmas for the proofs of InvoiceDesk and OnlinePayments: sums over      *)
(* finite sets, types of the shared rows, and what recordPayment keeps.    *)
(***************************************************************************)
EXTENDS PaymentEntry, FiniteSetTheorems, WellFoundedInduction, TLAPS

-----------------------------------------------------------------------------
(* Sums over finite sets.  SumFunctionOnSet folds a set in the order in    *)
(* which CHOOSE takes its elements; the lemmas show that the order does    *)
(* not matter.  Each is by induction on the subsets of a finite set: among *)
(* the counterexamples there would be a smallest one.                      *)

\* g[s] is the sum of f over s, for every subset s of S: the function that SumFunctionOnSet
\* chooses.
SumsUp(g, f, S) ==
  g = [s \in SUBSET S |-> IF s = {} THEN 0
                          ELSE f[CHOOSE x \in s : TRUE] + g[s \ {CHOOSE x \in s : TRUE}]]

\* The element that the fold takes first.
Pick(s) == CHOOSE x \in s : TRUE

\* A set of subsets of a finite set has a smallest member: in place of induction.
LEMMA Smallest ==
  ASSUME NEW S, IsFiniteSet(S), NEW F \in SUBSET (SUBSET S), F # {}
  PROVE  \E M \in F : \A T \in F : ~(T \subseteq M /\ T # M)
  <1>1. IsWellFoundedOn(StrictSubsetOrdering(S), SUBSET S)
    BY FS_StrictSubsetOrderingWellFounded, FS_FiniteSubsetsOfFinite
  <1>2. \E M \in F : \A T \in F : ~ (<<T, M>> \in StrictSubsetOrdering(S))
    BY <1>1, WFMin
  <1> QED BY <1>2 DEF StrictSubsetOrdering

LEMMA PickIn == \A s : s # {} => Pick(s) \in s
  BY DEF Pick

LEMMA SumsUpAt ==
  ASSUME NEW S, NEW f, NEW g, SumsUp(g, f, S), NEW s \in SUBSET S
  PROVE  /\ s = {} => g[s] = 0
         /\ s # {} => g[s] = f[Pick(s)] + g[s \ {Pick(s)}]
  BY DEF SumsUp, Pick

\* Two such functions agree where both are defined ...
LEMMA SumsUpAgree ==
  ASSUME NEW s, IsFiniteSet(s), NEW S, NEW T, NEW f, NEW g, NEW h,
         SumsUp(g, f, S), SumsUp(h, f, T), s \subseteq S, s \subseteq T
  PROVE  g[s] = h[s]
  <1>1. SUFFICES ASSUME NEW F, F = {t \in SUBSET s : g[t] # h[t]}, F # {} PROVE FALSE
    OBVIOUS
  <1>2. F \in SUBSET (SUBSET s)
    BY <1>1
  <1>3. PICK M \in F : \A t \in F : ~(t \subseteq M /\ t # M)
    BY <1>1, <1>2, Smallest
  <1>4. M \in SUBSET S /\ M \in SUBSET T /\ M \in SUBSET s /\ g[M] # h[M]
    BY <1>1, <1>3
  <1>5. /\ M = {} => g[M] = 0 /\ h[M] = 0
        /\ M # {} => g[M] = f[Pick(M)] + g[M \ {Pick(M)}]
        /\ M # {} => h[M] = f[Pick(M)] + h[M \ {Pick(M)}]
    <2>1. M \in SUBSET S /\ M \in SUBSET T
      BY <1>4
    <2>2. (M = {} => g[M] = 0) /\ (M # {} => g[M] = f[Pick(M)] + g[M \ {Pick(M)}])
      BY <2>1 DEF SumsUp, Pick
    <2>3. (M = {} => h[M] = 0) /\ (M # {} => h[M] = f[Pick(M)] + h[M \ {Pick(M)}])
      BY <2>1 DEF SumsUp, Pick
    <2> QED BY <2>2, <2>3
  <1>6. M # {} /\ Pick(M) \in M
    BY <1>4, <1>5, PickIn
  <1>7. M \ {Pick(M)} \in SUBSET s /\ M \ {Pick(M)} \subseteq M /\ M \ {Pick(M)} # M
    BY <1>4, <1>6
  <1>8. g[M \ {Pick(M)}] = h[M \ {Pick(M)}]
    BY <1>1, <1>3, <1>7
  <1> QED BY <1>4, <1>5, <1>6, <1>8

\* ... and there is one, with integer values.
LEMMA SumsUpExists ==
  ASSUME NEW S, IsFiniteSet(S), NEW f, \A x \in S : f[x] \in Int
  PROVE  \E g \in [SUBSET S -> Int] : SumsUp(g, f, S)
  <1>1. SUFFICES ASSUME NEW F, F = {t \in SUBSET S : ~ \E g \in [SUBSET t -> Int] : SumsUp(g, f, t)},
                        F # {}
                 PROVE FALSE
    OBVIOUS
  <1>2. F \in SUBSET (SUBSET S) /\ F # {}
    BY <1>1
  <1>3. PICK M \in F : \A t \in F : ~(t \subseteq M /\ t # M)
    BY <1>2, Smallest
  <1>4. M \in SUBSET S /\ IsFiniteSet(M)
    BY <1>1, <1>2, <1>3, FS_Subset
  <1>5. ASSUME NEW t \in SUBSET M, t # M
        PROVE  \E g \in [SUBSET t -> Int] : SumsUp(g, f, t)
    BY <1>1, <1>3, <1>4, <1>5
  <1>6. PICK of : /\ of = [t \in SUBSET M |-> CHOOSE g \in [SUBSET t -> Int] : SumsUp(g, f, t)]
    OBVIOUS
  <1>7. ASSUME NEW t \in SUBSET M, t # M
        PROVE  of[t] \in [SUBSET t -> Int] /\ SumsUp(of[t], f, t)
    BY <1>5, <1>6, <1>7
  <1>8. PICK G : G = [t \in SUBSET M |->
                       IF t = {} THEN 0 ELSE f[Pick(t)] + of[t \ {Pick(t)}][t \ {Pick(t)}]]
    OBVIOUS
  <1>9. ASSUME NEW t \in SUBSET M, t # {}
        PROVE  /\ Pick(t) \in t /\ f[Pick(t)] \in Int
               /\ t \ {Pick(t)} \in SUBSET M /\ t \ {Pick(t)} # M
               /\ t \ {Pick(t)} \in SUBSET t
    BY <1>4, <1>9, PickIn
  <1>10. ASSUME NEW t \in SUBSET M, t # M PROVE of[t][t] = G[t]
    <2>1. SumsUp(of[t], f, t)
      BY <1>7, <1>10
    <2>2. /\ t = {} => of[t][t] = 0
          /\ t # {} => of[t][t] = f[Pick(t)] + of[t][t \ {Pick(t)}]
      <3>1. PICK k : k = of[t]
        OBVIOUS
      <3>2. SumsUp(k, f, t) /\ t \in SUBSET t
        BY <2>1, <3>1
      <3>3. (t = {} => k[t] = 0) /\ (t # {} => k[t] = f[Pick(t)] + k[t \ {Pick(t)}])
        BY <3>2, SumsUpAt
      <3> QED BY <3>1, <3>3
    <2>3. CASE t = {}
      BY <2>2, <2>3, <1>8
    <2>4. CASE t # {}
      <3>1. PICK u : u = t \ {Pick(t)}
        OBVIOUS
      <3>2. u \in SUBSET M /\ u # M /\ u \subseteq t
        BY <3>1, <2>4, <1>9
      <3>3. SumsUp(of[u], f, u)
        BY <1>7, <3>2
      <3>4. IsFiniteSet(u)
        BY <3>2, <1>4, FS_Subset
      <3>5. of[t][u] = of[u][u]
        BY <2>1, <3>2, <3>3, <3>4, SumsUpAgree
      <3> QED BY <2>2, <2>4, <3>1, <3>5, <1>8
    <2> QED BY <2>3, <2>4
  <1>11. ASSUME NEW t \in SUBSET M PROVE G[t] \in Int
    <2>1. CASE t = {}
      BY <2>1, <1>8
    <2>2. CASE t # {}
      <3>1. PICK u : u = t \ {Pick(t)}
        OBVIOUS
      <3>2. u \in SUBSET M /\ u # M /\ f[Pick(t)] \in Int
        BY <3>1, <2>2, <1>9
      <3>3. of[u][u] \in Int
        BY <1>7, <3>2
      <3> QED BY <2>2, <3>1, <3>2, <3>3, <1>8
    <2> QED BY <2>1, <2>2
  <1>12. G \in [SUBSET M -> Int]
    BY <1>8, <1>11
  <1>13. ASSUME NEW t \in SUBSET M
         PROVE  G[t] = IF t = {} THEN 0 ELSE f[Pick(t)] + G[t \ {Pick(t)}]
    <2>1. CASE t = {}
      BY <2>1, <1>8
    <2>2. CASE t # {}
      <3>1. PICK u : u = t \ {Pick(t)}
        OBVIOUS
      <3>2. u \in SUBSET M /\ u # M
        BY <3>1, <2>2, <1>9
      <3>3. of[u][u] = G[u]
        BY <1>10, <3>2
      <3> QED BY <2>2, <3>1, <3>3, <1>8
    <2> QED BY <2>1, <2>2
  <1>14. SumsUp(G, f, M)
    <2>1. G = [t \in SUBSET M |-> G[t]]
      BY <1>8
    <2>2. [t \in SUBSET M |-> G[t]]
            = [t \in SUBSET M |-> IF t = {} THEN 0 ELSE f[Pick(t)] + G[t \ {Pick(t)}]]
      BY <1>13
    <2> QED BY <2>1, <2>2 DEF SumsUp, Pick
  <1> QED BY <1>1, <1>3, <1>12, <1>14

\* So the sum is what any such function says.
LEMMA SumIs ==
  ASSUME NEW S, IsFiniteSet(S), NEW f, \A x \in S : f[x] \in Int
  PROVE  \E g \in [SUBSET S -> Int] : SumsUp(g, f, S) /\ SumFunctionOnSet(f, S) = g[S]
  <1>1. \E g : SumsUp(g, f, S)
    BY SumsUpExists
  <1>2. SumFunctionOnSet(f, S) = (CHOOSE g : SumsUp(g, f, S))[S]
    BY DEF SumFunctionOnSet, FoldFunctionOnSet, MapThenFoldSet, SumsUp
  <1>3. SumsUp(CHOOSE g : SumsUp(g, f, S), f, S)
    BY <1>1
  <1>4. PICK g \in [SUBSET S -> Int] : SumsUp(g, f, S)
    BY SumsUpExists
  <1>5. g[S] = (CHOOSE h : SumsUp(h, f, S))[S]
    BY <1>3, <1>4, SumsUpAgree
  <1> QED BY <1>2, <1>4, <1>5

\* The sum of nothing.
LEMMA SumEmpty == ASSUME NEW f PROVE SumFunctionOnSet(f, {}) = 0
  <1>1. PICK g : SumsUp(g, f, {}) /\ SumFunctionOnSet(f, {}) = g[{}]
    BY SumIs, FS_EmptySet
  <1> QED BY <1>1, SumsUpAt

\* A sum of integers is an integer.
LEMMA SumType ==
  ASSUME NEW S, IsFiniteSet(S), NEW f, \A x \in S : f[x] \in Int
  PROVE  SumFunctionOnSet(f, S) \in Int
  <1>1. PICK g \in [SUBSET S -> Int] : SumsUp(g, f, S) /\ SumFunctionOnSet(f, S) = g[S]
    BY SumIs
  <1> QED BY <1>1

\* The recursion, with the element that CHOOSE picks.
LEMMA SumPick ==
  ASSUME NEW S, IsFiniteSet(S), NEW f, \A x \in S : f[x] \in Int, S # {}
  PROVE  SumFunctionOnSet(f, S) = f[Pick(S)] + SumFunctionOnSet(f, S \ {Pick(S)})
  <1>1. PICK u : u = S \ {Pick(S)}
    OBVIOUS
  <1>2. IsFiniteSet(u) /\ u \subseteq S
    BY <1>1, FS_Subset
  <1>3. PICK g : SumsUp(g, f, S) /\ SumFunctionOnSet(f, S) = g[S]
    BY SumIs
  <1>4. PICK h : SumsUp(h, f, u) /\ SumFunctionOnSet(f, u) = h[u]
    BY <1>2, SumIs
  <1>5. g[u] = h[u]
    BY <1>2, <1>3, <1>4, SumsUpAgree
  <1>6. S \in SUBSET S
    OBVIOUS
  <1>7. g[S] = f[Pick(S)] + g[S \ {Pick(S)}]
    BY <1>3, <1>6, SumsUpAt
  <1> QED BY <1>1, <1>3, <1>4, <1>5, <1>7

\* ... and with any element.
LEMMA SumStep ==
  ASSUME NEW S, IsFiniteSet(S), NEW f, \A y \in S : f[y] \in Int, NEW x \in S
  PROVE  SumFunctionOnSet(f, S) = f[x] + SumFunctionOnSet(f, S \ {x})
  <1>0. PICK F : F = {t \in SUBSET S : \E y \in t :
                        SumFunctionOnSet(f, t) # f[y] + SumFunctionOnSet(f, t \ {y})}
    OBVIOUS
  <1>1. SUFFICES ASSUME F # {} PROVE FALSE
    BY <1>0
  <1>2. F \in SUBSET (SUBSET S) /\ F # {}
    BY <1>0, <1>1
  <1>3. PICK M \in F : \A t \in F : ~(t \subseteq M /\ t # M)
    BY <1>2, Smallest
  <1>4. M \in SUBSET S /\ IsFiniteSet(M)
    BY <1>2, <1>3, FS_Subset
  <1>5. PICK y \in M : SumFunctionOnSet(f, M) # f[y] + SumFunctionOnSet(f, M \ {y})
    BY <1>0, <1>3
  <1>6. PICK p : p = Pick(M)
    OBVIOUS
  <1>7. /\ p \in M
        /\ SumFunctionOnSet(f, M) = f[p] + SumFunctionOnSet(f, M \ {p})
    BY <1>4, <1>5, <1>6, SumPick, PickIn
  <1>8. p # y
    BY <1>5, <1>7
  <1>9. PICK a, b, c : a = M \ {p} /\ b = M \ {y} /\ c = M \ {p, y}
    OBVIOUS
  <1>10. /\ a \in SUBSET S /\ b \in SUBSET S /\ c \in SUBSET S
         /\ a \subseteq M /\ a # M /\ b \subseteq M /\ b # M
         /\ y \in a /\ p \in b /\ a \ {y} = c /\ b \ {p} = c
    BY <1>4, <1>5, <1>7, <1>8, <1>9
  <1>11. a \notin F /\ b \notin F
    BY <1>3, <1>10
  <1>12. SumFunctionOnSet(f, a) = f[y] + SumFunctionOnSet(f, c)
    BY <1>0, <1>10, <1>11
  <1>13. SumFunctionOnSet(f, b) = f[p] + SumFunctionOnSet(f, c)
    BY <1>0, <1>10, <1>11
  <1>14. SumFunctionOnSet(f, c) \in Int /\ f[p] \in Int /\ f[y] \in Int
    BY <1>4, <1>7, <1>10, FS_Subset, SumType
  <1> QED BY <1>5, <1>7, <1>9, <1>12, <1>13, <1>14

\* Equal addends, equal sums.
LEMMA SumSame ==
  ASSUME NEW S, IsFiniteSet(S), NEW f, NEW h, \A x \in S : f[x] \in Int /\ h[x] = f[x]
  PROVE  SumFunctionOnSet(f, S) = SumFunctionOnSet(h, S)
  <1>1. PICK g : SumsUp(g, f, S) /\ SumFunctionOnSet(f, S) = g[S]
    BY SumIs
  <1>2. PICK k : SumsUp(k, h, S) /\ SumFunctionOnSet(h, S) = k[S]
    BY SumIs
  <1>3. SumsUp(g, h, S)
    BY <1>1, PickIn DEF SumsUp, Pick
  <1> QED BY <1>1, <1>2, <1>3, SumsUpAgree

\* One addend changes.
LEMMA SumChange ==
  ASSUME NEW S, IsFiniteSet(S), NEW f, NEW h, NEW x \in S,
         \A y \in S : f[y] \in Int /\ h[y] \in Int,
         \A y \in S \ {x} : h[y] = f[y]
  PROVE  SumFunctionOnSet(h, S) = SumFunctionOnSet(f, S) - f[x] + h[x]
  <1>1. PICK u : u = S \ {x}
    OBVIOUS
  <1>2. IsFiniteSet(u) /\ u \subseteq S
    BY <1>1, FS_Subset
  <1>3. SumFunctionOnSet(f, u) = SumFunctionOnSet(h, u)
    BY <1>1, <1>2, SumSame
  <1>4. SumFunctionOnSet(f, u) \in Int
    BY <1>2, SumType
  <1>5. SumFunctionOnSet(f, S) = f[x] + SumFunctionOnSet(f, u)
    BY <1>1, SumStep
  <1>6. SumFunctionOnSet(h, S) = h[x] + SumFunctionOnSet(h, u)
    BY <1>1, SumStep
  <1> QED BY <1>3, <1>4, <1>5, <1>6

\* A sum of natural numbers is one, and no addend is larger.
LEMMA SumNat ==
  ASSUME NEW S, IsFiniteSet(S), NEW f, \A y \in S : f[y] \in Nat
  PROVE  /\ SumFunctionOnSet(f, S) \in Nat
         /\ \A x \in S : f[x] <= SumFunctionOnSet(f, S)
  <1>1. PICK F : F = {t \in SUBSET S : SumFunctionOnSet(f, t) \notin Nat}
    OBVIOUS
  <1>2. F = {}
    <2>1. SUFFICES ASSUME F # {} PROVE FALSE
      OBVIOUS
    <2>2. F \in SUBSET (SUBSET S) /\ F # {}
      BY <1>1, <2>1
    <2>3. PICK M \in F : \A t \in F : ~(t \subseteq M /\ t # M)
      BY <2>2, Smallest
    <2>4. M \in SUBSET S /\ IsFiniteSet(M) /\ SumFunctionOnSet(f, M) \notin Nat
      BY <1>1, <2>3, FS_Subset
    <2>5. PICK x \in M : TRUE
      BY <2>4, SumEmpty
    <2>6. PICK u : u = M \ {x}
      OBVIOUS
    <2>7. u \in SUBSET S /\ u \subseteq M /\ u # M
      BY <2>4, <2>5, <2>6
    <2>8. SumFunctionOnSet(f, u) \in Nat
      BY <1>1, <2>3, <2>7
    <2>9. SumFunctionOnSet(f, M) = f[x] + SumFunctionOnSet(f, u)
      <3>1. \A y \in M : f[y] \in Int
        BY <2>4
      <3> QED BY <2>4, <2>5, <2>6, <3>1, SumStep
    <2> QED BY <2>4, <2>5, <2>8, <2>9
  <1>3. ASSUME NEW x \in S PROVE f[x] <= SumFunctionOnSet(f, S)
    <2>1. PICK u : u = S \ {x}
      OBVIOUS
    <2>2. u \in SUBSET S
      BY <2>1
    <2>3. SumFunctionOnSet(f, u) \in Nat
      BY <1>1, <1>2, <2>2
    <2>4. SumFunctionOnSet(f, S) = f[x] + SumFunctionOnSet(f, u)
      <3>1. \A y \in S : f[y] \in Int
        OBVIOUS
      <3> QED BY <2>1, <3>1, SumStep
    <2> QED BY <2>3, <2>4
  <1>4. S \in SUBSET S
    OBVIOUS
  <1> QED BY <1>1, <1>2, <1>3, <1>4

\* A sum of zeros.
LEMMA SumZero ==
  ASSUME NEW S, IsFiniteSet(S), NEW f, \A y \in S : f[y] = 0
  PROVE  SumFunctionOnSet(f, S) = 0
  <1>1. PICK h : h = [y \in S |-> 0]
    OBVIOUS
  <1>2. [s \in SUBSET S |-> 0] = [s \in SUBSET S |-> IF s = {} THEN 0
             ELSE h[Pick(s)] + [t \in SUBSET S |-> 0][s \ {Pick(s)}]]
    <2>1. ASSUME NEW s \in SUBSET S, s # {}
          PROVE  h[Pick(s)] + [t \in SUBSET S |-> 0][s \ {Pick(s)}] = 0
      BY <1>1, <2>1, PickIn
    <2> QED BY <2>1
  <1>3. SumsUp([s \in SUBSET S |-> 0], f, S)
    <2>1. ASSUME NEW s \in SUBSET S, s # {} PROVE f[Pick(s)] = h[Pick(s)]
      BY <1>1, <2>1, PickIn
    <2>2. [s \in SUBSET S |-> 0] = [s \in SUBSET S |-> IF s = {} THEN 0
             ELSE f[Pick(s)] + [t \in SUBSET S |-> 0][s \ {Pick(s)}]]
      BY <1>2, <2>1
    <2> QED BY <2>2 DEF SumsUp, Pick
  <1>4. \A y \in S : f[y] \in Int
    OBVIOUS
  <1>5. PICK g : SumsUp(g, f, S) /\ SumFunctionOnSet(f, S) = g[S]
    BY <1>4, SumIs
  <1>6. g[S] = [s \in SUBSET S |-> 0][S]
    BY <1>3, <1>5, SumsUpAgree
  <1> QED BY <1>5, <1>6

-----------------------------------------------------------------------------
(* What the statements of a handler do to its local state.                 *)

LEMMA BlankTyped == Blank \in Handlers
  BY BooksAssumption DEF Blank, Handlers, NewInvoice, NoRow, InvoiceRows, InvoiceStatus, PaymentRows

LEMMA UpdatedTyped ==
  ASSUME req \in [Requests -> Handlers], NEW r \in Requests, NEW h \in Handlers,
         req' = [req EXCEPT ![r] = h]
  PROVE  req' \in [Requests -> Handlers]
  OBVIOUS

LEMMA GotoTyped ==
  ASSUME req \in [Requests -> Handlers], NEW r \in Requests, NEW step \in Steps, Goto(r, step)
  PROVE  req' \in [Requests -> Handlers]
  BY DEF Goto, Handlers

LEMMA GotoPayTyped ==
  ASSUME req \in [Requests -> Handlers], NEW r \in Requests, NEW step \in Steps,
         NEW p \in PaymentIds, req' = [req EXCEPT ![r].pc = step, ![r].pay = p]
  PROVE  req' \in [Requests -> Handlers]
  <1>1. ASSUME NEW h \in Handlers PROVE [h EXCEPT !.pc = step, !.pay = p] \in Handlers
    BY DEF Handlers
  <1>2. req' = [req EXCEPT ![r] = [req[r] EXCEPT !.pc = step, !.pay = p]]
    BY DEF Handlers
  <1> QED BY <1>1, <1>2, UpdatedTyped

LEMMA GotoInvTyped ==
  ASSUME req \in [Requests -> Handlers], NEW r \in Requests, NEW step \in Steps,
         NEW inv \in InvoiceRows, req' = [req EXCEPT ![r].pc = step, ![r].inv = inv]
  PROVE  req' \in [Requests -> Handlers]
  <1>1. ASSUME NEW h \in Handlers PROVE [h EXCEPT !.pc = step, !.inv = inv] \in Handlers
    BY DEF Handlers
  <1>2. req' = [req EXCEPT ![r] = [req[r] EXCEPT !.pc = step, !.inv = inv]]
    BY DEF Handlers
  <1> QED BY <1>1, <1>2, UpdatedTyped

LEMMA GotoAtTyped ==
  ASSUME req \in [Requests -> Handlers], NEW r \in Requests,
         NEW step \in Steps \cup {"crashed"}, NEW at \in Steps,
         req' = [req EXCEPT ![r].pc = step, ![r].at = at]
  PROVE  req' \in [Requests -> Handlers]
  <1>1. ASSUME NEW h \in Handlers PROVE [h EXCEPT !.pc = step, !.at = at] \in Handlers
    BY DEF Handlers
  <1>2. req' = [req EXCEPT ![r] = [req[r] EXCEPT !.pc = step, !.at = at]]
    BY DEF Handlers
  <1> QED BY <1>1, <1>2, UpdatedTyped

LEMMA FinishTyped ==
  ASSUME req \in [Requests -> Handlers], NEW r \in Requests, Finish(r)
  PROVE  req' \in [Requests -> Handlers]
  <1>1. [Blank EXCEPT !.pc = "done", !.at = req[r].at] \in Handlers
    BY BlankTyped DEF Handlers
  <1> QED BY <1>1 DEF Finish

LEMMA PostTyped ==
  ASSUME books \in [cash : Int, receivable : Int, revenue : Int, wallet : Int],
         NEW debit \in {"cash", "receivable", "revenue", "wallet"},
         NEW credit \in {"cash", "receivable", "revenue", "wallet"},
         NEW n \in Int, Post(debit, credit, n)
  PROVE  books' \in [cash : Int, receivable : Int, revenue : Int, wallet : Int]
  BY DEF Post

LEMMA SettleTyped ==
  ASSUME NEW inv \in InvoiceRows, NEW p \in Int, NEW status \in InvoiceStatus
  PROVE  Settle(inv, p, status) \in InvoiceRows
  <1>1. Total - p \in Int
    BY BooksAssumption
  <1>2. Floor0(Total - p) \in Int
    BY <1>1 DEF Floor0
  <1> QED BY <1>2 DEF Settle, InvoiceRows

LEMMA StatusAfterTyped ==
  ASSUME NEW p \in Int
  PROVE  StatusAfter(p) \in InvoiceStatus
  BY DEF StatusAfter, InvoiceStatus

LEMMA NewPaymentTyped ==
  ASSUME req \in [Requests -> Handlers], NEW r \in Requests
  PROVE  NewPayment(r) \in PaymentRows
  BY DEF NewPayment, Handlers, PaymentRows

-----------------------------------------------------------------------------
(* What keeps the shared rows and the local variables in their domains.    *)

LEMMA BooksStartTyped == InitBooks => TypeOKBooks
  BY BlankTyped, BooksAssumption DEF InitBooks, TypeOKBooks, NewInvoice, NoRow, InvoiceRows,
     InvoiceStatus, PaymentRows

LEMMA RecordKeepsTypes ==
  ASSUME TypeOKBooks, NEW r \in Requests, Record(r)
  PROVE  TypeOKBooks'
  <1> USE DEF TypeOKBooks
  <1>1. CASE RecordStart(r)
    <2>1. PICK amount \in Amounts, method \in Methods, force \in BOOLEAN :
            req' = [req EXCEPT ![r] = [Blank EXCEPT !.pc = "record_guard", !.op = "record",
                      !.amount = amount, !.method = method, !.force = force, !.staff = TRUE]]
      BY <1>1 DEF RecordStart
    <2>2. "record" \in Ops /\ amount \in Nat /\ "record_guard" \in Steps
      BY <1>1, BooksAssumption DEF RecordStart, CanStart, Steps
    <2>3. [Blank EXCEPT !.pc = "record_guard", !.op = "record", !.amount = amount,
             !.method = method, !.force = force, !.staff = TRUE] \in Handlers
      BY <2>2, BlankTyped DEF Handlers
    <2>4. req' \in [Requests -> Handlers]
      BY <2>1, <2>3, UpdatedTyped
    <2> QED BY <1>1, <2>4 DEF RecordStart
  <1>2. CASE RecordGuard(r)
    <2>1. req' \in [Requests -> Handlers]
      BY <1>2, FinishTyped, GotoTyped DEF RecordGuard, Steps
    <2> QED BY <1>2, <2>1 DEF RecordGuard
  <1>3. CASE RecordCommit(r)
    <2>1. PICK p \in PaymentIds :
            IF req[r].staff => MayTake(invoice, req[r].amount)
            THEN LET paid == invoice.paid + req[r].amount
                 IN /\ payments' = [payments EXCEPT ![p] = NewPayment(r)]
                    /\ invoice' = Settle(invoice, paid, IF paid >= Total THEN "PAID" ELSE "PARTIAL")
                    /\ req' = [req EXCEPT ![r].pc = "record_post", ![r].pay = p]
            ELSE Finish(r) /\ UNCHANGED <<invoice, payments>>
      BY <1>3 DEF RecordCommit
    <2>2. payments' \in [PaymentIds -> PaymentRows]
      BY <2>1, NewPaymentTyped
    <2>3. invoice' \in InvoiceRows
      <3>1. invoice.paid + req[r].amount \in Int
        BY DEF InvoiceRows, Handlers
      <3>2. CASE req[r].staff => MayTake(invoice, req[r].amount)
        <4>1. (IF invoice.paid + req[r].amount >= Total THEN "PAID" ELSE "PARTIAL") \in InvoiceStatus
          BY DEF InvoiceStatus
        <4> QED BY <2>1, <3>1, <3>2, <4>1, SettleTyped
      <3>3. CASE ~(req[r].staff => MayTake(invoice, req[r].amount))
        BY <2>1, <3>3
      <3> QED BY <3>2, <3>3
    <2>4. req' \in [Requests -> Handlers]
      BY <2>1, FinishTyped DEF Handlers, Steps
    <2> QED BY <1>3, <2>2, <2>3, <2>4 DEF RecordCommit
  <1>4. CASE RecordPost(r)
    <2>1. req' \in [Requests -> Handlers]
      BY <1>4, FinishTyped, GotoTyped DEF RecordPost, Steps
    <2>2. req[r].amount \in Int
      BY DEF Handlers
    <2>3. books' \in [cash : Int, receivable : Int, revenue : Int, wallet : Int]
      BY <1>4, <2>2, PostTyped DEF RecordPost
    <2> QED BY <1>4, <2>1, <2>3 DEF RecordPost
  <1> QED BY <1>1, <1>2, <1>3, <1>4 DEF Record

LEMMA CrashKeepsTypes ==
  ASSUME TypeOKBooks, NEW r \in Requests, Crash(r)
  PROVE  TypeOKBooks'
  <1>1. req' \in [Requests -> Handlers]
    BY GotoAtTyped DEF Crash, Running, TypeOKBooks
  <1> QED BY <1>1 DEF Crash, TypeOKBooks

LEMMA WindowKeepsTypes ==
  ASSUME TypeOKBooks, NEW p \in PaymentIds, WindowPasses(p)
  PROVE  TypeOKBooks'
  <1>1. payments[p] \in PaymentRows /\ payments \in [PaymentIds -> PaymentRows]
    BY DEF TypeOKBooks
  <1>2. [payments[p] EXCEPT !.fresh = FALSE] \in PaymentRows
    BY <1>1 DEF PaymentRows
  <1>3. payments' = [payments EXCEPT ![p] = [payments[p] EXCEPT !.fresh = FALSE]]
    BY <1>1 DEF WindowPasses
  <1>4. payments' \in [PaymentIds -> PaymentRows]
    BY <1>1, <1>2, <1>3
  <1> QED BY <1>4 DEF WindowPasses, TypeOKBooks

-----------------------------------------------------------------------------
(* A payment that is recorded counts in full.                              *)

LEMMA NetOfTyped ==
  ASSUME TypeOKBooks
  PROVE  \A p \in PaymentIds : NetOf[p] \in Int
  BY DEF TypeOKBooks, PaymentRows, NetOf

LEMMA NetChange ==
  ASSUME NEW p \in PaymentIds,
         \A q \in PaymentIds : NetOf[q] \in Int /\ NetOf'[q] \in Int,
         \A q \in PaymentIds \ {p} : NetOf'[q] = NetOf[q]
  PROVE  NetPayments \in Int /\ NetPayments' = NetPayments - NetOf[p] + NetOf'[p]
  <1>1. IsFiniteSet(PaymentIds)
    BY BooksAssumption
  <1>2. PICK f, h : f = NetOf /\ h = NetOf'
    OBVIOUS
  <1>3. SumFunctionOnSet(h, PaymentIds) = SumFunctionOnSet(f, PaymentIds) - f[p] + h[p]
    BY <1>1, <1>2, SumChange
  <1>4. SumFunctionOnSet(f, PaymentIds) \in Int
    BY <1>1, <1>2, SumType
  <1> QED BY <1>2, <1>3, <1>4 DEF NetPayments

LEMMA NewPaymentCounts ==
  ASSUME TypeOKBooks, NEW r \in Requests, NEW p \in PaymentIds, payments[p].st = "none",
         payments' = [payments EXCEPT ![p] = NewPayment(r)]
  PROVE  NetPayments' = NetPayments + req[r].amount
  <1>1. /\ NetOf[p] = 0 /\ NetOf'[p] = req[r].amount
        /\ \A q \in PaymentIds \ {p} : NetOf'[q] = NetOf[q]
    BY DEF NetOf, Kept, NewPayment, TypeOKBooks, PaymentRows, Handlers
  <1>2. \A q \in PaymentIds : NetOf[q] \in Int /\ NetOf'[q] \in Int
    BY <1>1, NetOfTyped DEF TypeOKBooks, Handlers
  <1>3. NetPayments \in Int /\ NetPayments' = NetPayments - NetOf[p] + NetOf'[p]
    BY <1>1, <1>2, NetChange
  <1> QED BY <1>1, <1>3 DEF TypeOKBooks, Handlers

=============================================================================
