------------------------ MODULE BillingOrdersProofs ------------------------
(***************************************************************************)
(* Proofs about credit top-up orders, for any orders, requests, handlers   *)
(* and amounts and any bounds on faults and cycles.                        *)
(***************************************************************************)
EXTENDS BillingOrders, FiniteSetTheorems, WellFoundedInduction, TLAPS

-----------------------------------------------------------------------------
\* Arithmetic

LEMMA DivMonotone ==
    ASSUME NEW m \in Nat, NEW n \in Nat, m <= n, NEW d \in Nat \ {0}
    PROVE  m \div d <= n \div d
  <1>1. m = d * (m \div d) + (m % d) /\ 0 <= m % d /\ m % d < d
    OBVIOUS
  <1>2. n = d * (n \div d) + (n % d) /\ 0 <= n % d /\ n % d < d
    OBVIOUS
  <1>3. m \div d \in Int /\ n \div d \in Int
    OBVIOUS
  <1>4. SUFFICES ASSUME (m \div d) >= (n \div d) + 1 PROVE FALSE
    BY <1>3
  <1>5. d * (m \div d) >= d * ((n \div d) + 1)
    BY <1>3, <1>4
  <1> QED BY <1>1, <1>2, <1>3, <1>5

LEMMA TargetType ==
    ASSUME NEW n \in 0 .. Paid
    PROVE  computeReversalTarget(n) \in 0 .. Granted
  <1>1. CASE n >= Paid
    BY <1>1, BillingAssumption DEF computeReversalTarget
  <1>2. CASE n < Paid
    <2>1. Granted * n \in Nat /\ Granted * n <= Granted * Paid
      BY <1>2, BillingAssumption
    <2>2. (Granted * n) \div Paid <= (Granted * Paid) \div Paid
      BY <2>1, DivMonotone, BillingAssumption
    <2>3. (Granted * Paid) \div Paid = Granted
      BY BillingAssumption
    <2>4. 0 <= (Granted * n) \div Paid /\ (Granted * n) \div Paid \in Int
      BY <2>1, BillingAssumption
    <2> QED BY <1>2, <2>2, <2>3, <2>4, BillingAssumption DEF computeReversalTarget
  <1> QED BY <1>1, <1>2, BillingAssumption

LEMMA TargetMonotone ==
    ASSUME NEW m \in 0 .. Paid, NEW n \in 0 .. Paid, m <= n
    PROVE  computeReversalTarget(m) <= computeReversalTarget(n)
  <1>1. CASE n >= Paid
    BY <1>1, TargetType, BillingAssumption DEF computeReversalTarget
  <1>2. CASE n < Paid
    <2>1. Granted * m \in Nat /\ Granted * n \in Nat /\ Granted * m <= Granted * n
      BY BillingAssumption
    <2> QED BY <1>2, <2>1, DivMonotone, BillingAssumption DEF computeReversalTarget
  <1> QED BY <1>1, <1>2, BillingAssumption

LEMMA TargetEnds == computeReversalTarget(0) = 0 /\ computeReversalTarget(Paid) = Granted
  BY BillingAssumption DEF computeReversalTarget

-----------------------------------------------------------------------------
\* Sums over finite sets: MapThenSumSet takes the elements in an order of its own,
\* and the sum does not depend on it.

\* Some element of s, the same whenever it is asked for.
Chosen(s) == CHOOSE x \in s : TRUE

\* g sums f over every subset of S.
Sums(g, f, S) ==
    g = [s \in SUBSET S |-> IF s = {} THEN 0 ELSE f[Chosen(s)] + g[s \ {Chosen(s)}]]

LEMMA ChosenIsElement ==
    ASSUME NEW s, s # {}
    PROVE  Chosen(s) \in s
  BY DEF Chosen

\* Among subsets of a finite set there is one that contains no other.
LEMMA MinimalSet ==
    ASSUME NEW S, IsFiniteSet(S), NEW T, T \subseteq SUBSET S, T # {}
    PROVE  \E m \in T : \A t \in T : t \subseteq m => t = m
  <1>1. IsWellFoundedOn(StrictSubsetOrdering(S), FiniteSubsetsOf(S))
    BY FS_StrictSubsetOrderingWellFounded
  <1>2. T \subseteq FiniteSubsetsOf(S)
    BY FS_Subset DEF FiniteSubsetsOf
  <1>3. PICK m \in T : \A t \in T : <<t, m>> \notin StrictSubsetOrdering(S)
    BY <1>1, <1>2, WFMin
  <1>4. ASSUME NEW t \in T, t \subseteq m PROVE t = m
    BY <1>3, <1>4 DEF StrictSubsetOrdering
  <1> QED
    BY <1>4

\* Two sums agree where both are defined.
LEMMA SumsAgree ==
    ASSUME NEW S, NEW U, IsFiniteSet(S), S \subseteq U,
           NEW f, NEW g, NEW h, Sums(g, f, S), Sums(h, f, U)
    PROVE  \A s \in SUBSET S : g[s] = h[s]
  <1> DEFINE T == {s \in SUBSET S : g[s] # h[s]}
  <1> SUFFICES ASSUME T # {} PROVE FALSE
    OBVIOUS
  <1>1. PICK m \in T : \A t \in T : t \subseteq m => t = m
    <2>1. T \subseteq SUBSET S
      OBVIOUS
    <2> HIDE DEF T
    <2> QED
      BY <2>1, MinimalSet
  <1>2. /\ g[m] = IF m = {} THEN 0 ELSE f[Chosen(m)] + g[m \ {Chosen(m)}]
        /\ h[m] = IF m = {} THEN 0 ELSE f[Chosen(m)] + h[m \ {Chosen(m)}]
    BY DEF Sums
  <1>3. m # {}
    BY <1>2
  <1>4. g[m \ {Chosen(m)}] = h[m \ {Chosen(m)}]
    <2>1. m \ {Chosen(m)} \subseteq m /\ m \ {Chosen(m)} # m
      BY <1>3, ChosenIsElement
    <2>2. m \ {Chosen(m)} \notin T
      BY <1>1, <2>1
    <2> QED
      BY <2>2
  <1> QED
    BY <1>2, <1>3, <1>4

\* A finite set has its sums: a smallest set without them would have them.
LEMMA SumsExist ==
    ASSUME NEW S, IsFiniteSet(S), NEW f
    PROVE  \E g : Sums(g, f, S)
  <1> DEFINE T == {s \in SUBSET S : ~\E g : Sums(g, f, s)}
             Own(s) == CHOOSE g : Sums(g, f, s)
             Total2(s) == Own(s)[s]
  <1> SUFFICES ASSUME T # {} PROVE FALSE
    OBVIOUS
  <1>1. PICK m \in T : \A t \in T : t \subseteq m => t = m
    <2>1. T \subseteq SUBSET S
      OBVIOUS
    <2> HIDE DEF T
    <2> QED
      BY <2>1, MinimalSet
  <1>2. ASSUME NEW s \in SUBSET m, s # m PROVE Sums(Own(s), f, s)
    <2>1. s \notin T
      BY <1>1, <1>2
    <2>2. \E g : Sums(g, f, s)
      BY <2>1
    <2> QED
      BY <2>2
  <1>3. ASSUME NEW s \in SUBSET m, s # m
        PROVE  Total2(s) = IF s = {} THEN 0
                          ELSE f[Chosen(s)] + Total2(s \ {Chosen(s)})
    <2> DEFINE rest == s \ {Chosen(s)}
    <2>1. Sums(Own(s), f, s)
      BY <1>2, <1>3
    <2>2. Own(s)[s] = IF s = {} THEN 0 ELSE f[Chosen(s)] + Own(s)[rest]
      <3> HIDE DEF Own
      <3> QED
        BY <2>1 DEF Sums
    <2>3. ASSUME s # {} PROVE Own(s)[rest] = Own(rest)[rest]
      <3>1. rest \in SUBSET m /\ rest # m /\ rest \subseteq s
        BY <1>3
      <3>2. Sums(Own(rest), f, rest)
        BY <1>2, <3>1
      <3>3. IsFiniteSet(rest)
        BY <3>1, FS_Subset
      <3> HIDE DEF Own, rest
      <3> QED
        BY <2>1, <3>1, <3>2, <3>3, SumsAgree
    <2> HIDE DEF Own
    <2> QED
      BY <2>2, <2>3
  <1> DEFINE g == [s \in SUBSET m |->
                     IF s = {} THEN 0 ELSE f[Chosen(s)] + Total2(s \ {Chosen(s)})]
  <1> HIDE DEF Total2
  <1>4. ASSUME NEW s \in SUBSET m, s # {} PROVE g[s \ {Chosen(s)}] = Total2(s \ {Chosen(s)})
    <2>1. s \ {Chosen(s)} \in SUBSET m /\ s \ {Chosen(s)} # m
      BY <1>4, ChosenIsElement
    <2> QED
      BY <1>3, <2>1
  <1>5. g = [s \in SUBSET m |->
               IF s = {} THEN 0 ELSE f[Chosen(s)] + g[s \ {Chosen(s)}]]
    <2>1. ASSUME NEW s \in SUBSET m
          PROVE  g[s] = IF s = {} THEN 0 ELSE f[Chosen(s)] + g[s \ {Chosen(s)}]
      BY <1>4
    <2> QED
      BY <2>1
  <1> HIDE DEF g
  <1>6. Sums(g, f, m)
    BY <1>5 DEF Sums
  <1> QED
    BY <1>6

\* Sums of numbers are numbers, and any element may be taken first.
LEMMA SumsTakeAny ==
    ASSUME NEW S, IsFiniteSet(S), NEW f, NEW g, Sums(g, f, S),
           \A x \in S : f[x] \in Int
    PROVE  /\ g[{}] = 0
           /\ \A s \in SUBSET S : g[s] \in Int
           /\ \A s \in SUBSET S : \A x \in s : g[s] = f[x] + g[s \ {x}]
  <1>0. \A s \in SUBSET S :
           g[s] = IF s = {} THEN 0 ELSE f[Chosen(s)] + g[s \ {Chosen(s)}]
    BY DEF Sums
  <1> DEFINE T == {s \in SUBSET S : ~ /\ g[s] \in Int
                                      /\ \A x \in s : g[s] = f[x] + g[s \ {x}]}
  <1>1. ASSUME T # {} PROVE FALSE
    <2>1. PICK m \in T : \A t \in T : t \subseteq m => t = m
      <3>1. T \subseteq SUBSET S
        OBVIOUS
      <3> HIDE DEF T
      <3> QED
        BY <1>1, <3>1, MinimalSet
    <2>2. ASSUME NEW s \in SUBSET m, s # m
          PROVE  g[s] \in Int /\ \A x \in s : g[s] = f[x] + g[s \ {x}]
      <3>1. s \notin T
        BY <2>1, <2>2
      <3> QED
        BY <3>1
    <2>3. m # {}
      <3>1. ASSUME m = {} PROVE m \notin T
        <4>1. g[m] = 0
          BY <1>0, <3>1
        <4> QED
          BY <3>1, <4>1
      <3> QED
        BY <2>1, <3>1
    <2> DEFINE y == Chosen(m)
    <2>4. y \in m
      BY <2>3, ChosenIsElement
    <2>5. g[m] = f[y] + g[m \ {y}]
      BY <1>0, <2>3
    <2> HIDE DEF y
    <2>6. m \ {y} \in SUBSET m /\ m \ {y} # m
      BY <2>4
    <2>7. f[y] \in Int /\ g[m \ {y}] \in Int /\ g[m] \in Int
      BY <2>2, <2>4, <2>5, <2>6
    <2>8. ASSUME NEW x \in m PROVE g[m] = f[x] + g[m \ {x}]
      <3>1. CASE x = y
        BY <2>5, <3>1
      <3>2. CASE x # y
        <4> DEFINE both == (m \ {y}) \ {x}
        <4>1. m \ {x} \in SUBSET m /\ m \ {x} # m /\ y \in m \ {x} /\ x \in m \ {y}
          BY <2>4, <3>2
        <4>2. g[m \ {x}] = f[y] + g[both]
          <5>1. (m \ {x}) \ {y} = both
            OBVIOUS
          <5>2. g[m \ {x}] = f[y] + g[(m \ {x}) \ {y}]
            BY <2>2, <4>1
          <5> QED
            BY <5>1, <5>2
        <4>3. g[m \ {y}] = f[x] + g[both]
          BY <2>2, <2>6, <4>1
        <4>4. both \in SUBSET m /\ both # m
          BY <2>4
        <4>5. g[both] \in Int /\ f[x] \in Int
          BY <2>2, <4>4
        <4> HIDE DEF both
        <4> QED
          BY <2>5, <2>7, <4>2, <4>3, <4>5
      <3> QED
        BY <3>1, <3>2
    <2> QED
      BY <2>1, <2>7, <2>8
  <1>2. g[{}] = 0
    BY <1>0
  <1> QED
    BY <1>1, <1>2

\* MapThenSumSet is such a sum.
LEMMA DeltaIsSum ==
    ASSUME NEW S, IsFiniteSet(S), NEW f, NEW g, Sums(g, f, S),
           \A r \in S : f[r] = Delta(r)
    PROVE  MapThenSumSet(Delta, S) = g[S]
  <1> DEFINE Q(h) == h = [s \in SUBSET S |->
                           IF s = {} THEN 0
                           ELSE Delta(CHOOSE r \in s : TRUE)
                                + h[s \ {CHOOSE r \in s : TRUE}]]
  <1>1. ASSUME NEW h PROVE Q(h) <=> Sums(h, f, S)
    <2>1. \A s \in SUBSET S : s # {} => f[Chosen(s)] = Delta(Chosen(s))
      BY ChosenIsElement
    <2>2. [s \in SUBSET S |-> IF s = {} THEN 0 ELSE Delta(Chosen(s)) + h[s \ {Chosen(s)}]]
          = [s \in SUBSET S |-> IF s = {} THEN 0 ELSE f[Chosen(s)] + h[s \ {Chosen(s)}]]
      BY <2>1
    <2> QED
      BY <2>2 DEF Sums, Chosen
  <1>2. MapThenSumSet(Delta, S) = (CHOOSE h : Q(h))[S]
    BY DEF MapThenSumSet, MapThenFoldSet
  <1> HIDE DEF Q
  <1>3. Q(g)
    BY <1>1
  <1>4. Q(CHOOSE h : Q(h))
    BY <1>3
  <1> DEFINE own == CHOOSE h : Q(h)
  <1>5. Sums(own, f, S)
    BY <1>1, <1>4
  <1> HIDE DEF own
  <1>6. own[S] = g[S]
    BY <1>5, SumsAgree
  <1> QED
    BY <1>2, <1>6 DEF own

LEMMA ReversedIsSum ==
    ASSUME NEW S, IsFiniteSet(S), NEW f, NEW g, Sums(g, f, S),
           \A r \in S : f[r] = Reversed(r)
    PROVE  MapThenSumSet(Reversed, S) = g[S]
  <1> DEFINE Q(h) == h = [s \in SUBSET S |->
                           IF s = {} THEN 0
                           ELSE Reversed(CHOOSE r \in s : TRUE)
                                + h[s \ {CHOOSE r \in s : TRUE}]]
  <1>1. ASSUME NEW h PROVE Q(h) <=> Sums(h, f, S)
    <2>1. \A s \in SUBSET S : s # {} => f[Chosen(s)] = Reversed(Chosen(s))
      BY ChosenIsElement
    <2>2. [s \in SUBSET S |-> IF s = {} THEN 0 ELSE Reversed(Chosen(s)) + h[s \ {Chosen(s)}]]
          = [s \in SUBSET S |-> IF s = {} THEN 0 ELSE f[Chosen(s)] + h[s \ {Chosen(s)}]]
      BY <2>1
    <2> QED
      BY <2>2 DEF Sums, Chosen
  <1>2. MapThenSumSet(Reversed, S) = (CHOOSE h : Q(h))[S]
    BY DEF MapThenSumSet, MapThenFoldSet
  <1> HIDE DEF Q
  <1>3. Q(g)
    BY <1>1
  <1>4. Q(CHOOSE h : Q(h))
    BY <1>3
  <1> DEFINE own == CHOOSE h : Q(h)
  <1>5. Sums(own, f, S)
    BY <1>1, <1>4
  <1> HIDE DEF own
  <1>6. own[S] = g[S]
    BY <1>5, SumsAgree
  <1> QED
    BY <1>2, <1>6 DEF own

\* A new element adds its own to a sum.
LEMMA SumsAdd ==
    ASSUME NEW S, IsFiniteSet(S), NEW x, x \notin S, NEW f,
           \A y \in S \cup {x} : f[y] \in Int
    PROVE  /\ IsFiniteSet(S \cup {x})
           /\ \E g, h : /\ Sums(g, f, S \cup {x}) /\ Sums(h, f, S)
                        /\ h[S] \in Int /\ g[S \cup {x}] = h[S] + f[x]
  <1> DEFINE U == S \cup {x}
  <1>1. IsFiniteSet(U)
    BY FS_AddElement
  <1>2. PICK g : Sums(g, f, U)
    BY <1>1, SumsExist
  <1>3. PICK h : Sums(h, f, S)
    BY SumsExist
  <1>4. h[S] = g[S]
    <2>1. S \subseteq U
      OBVIOUS
    <2> HIDE DEF U
    <2> QED
      BY <1>2, <1>3, <2>1, SumsAgree
  <1>5. g[S] \in Int /\ g[U] = f[x] + g[U \ {x}]
    <2>1. S \in SUBSET U /\ U \in SUBSET U /\ x \in U /\ \A y \in U : f[y] \in Int
      OBVIOUS
    <2> HIDE DEF U
    <2> QED
      BY <1>1, <1>2, <2>1, SumsTakeAny
  <1>6. U \ {x} = S /\ f[x] \in Int
    OBVIOUS
  <1> HIDE DEF U
  <1>7. h[S] \in Int /\ g[U] = h[S] + f[x]
    <2>1. PICK m, n, k : m = g[S] /\ n = f[x] /\ k = g[U]
      OBVIOUS
    <2>2. g[U \ {x}] = m
      BY <1>6, <2>1
    <2>3. k = n + m
      BY <1>5, <2>1, <2>2, Zenon
    <2>4. m \in Int /\ n \in Int
      BY <1>5, <1>6, <2>1
    <2>5. k = m + n
      BY <2>3, <2>4
    <2> QED
      BY <1>4, <2>1, <2>4, <2>5, Zenon
  <1> QED
    BY <1>1, <1>2, <1>3, <1>7 DEF U

LEMMA DeltaAdds ==
    ASSUME NEW S, IsFiniteSet(S), NEW x, x \notin S,
           \A r \in S \cup {x} : Delta(r) \in Int
    PROVE  /\ MapThenSumSet(Delta, S) \in Int
           /\ MapThenSumSet(Delta, S \cup {x}) = MapThenSumSet(Delta, S) + Delta(x)
  <1> DEFINE f == [r \in S \cup {x} |-> Delta(r)]
  <1>1. /\ \A r \in S \cup {x} : f[r] = Delta(r) /\ f[r] \in Int
        /\ \A r \in S : f[r] = Delta(r)
        /\ f[x] = Delta(x) /\ Delta(x) \in Int
    OBVIOUS
  <1> HIDE DEF f
  <1>2. IsFiniteSet(S \cup {x})
    BY FS_AddElement
  <1>3. PICK g, h : /\ Sums(g, f, S \cup {x}) /\ Sums(h, f, S)
                    /\ h[S] \in Int /\ g[S \cup {x}] = h[S] + f[x]
    BY <1>1, SumsAdd
  <1>4. MapThenSumSet(Delta, S) = h[S]
    BY <1>1, <1>3, DeltaIsSum
  <1>5. MapThenSumSet(Delta, S \cup {x}) = g[S \cup {x}]
    BY <1>1, <1>2, <1>3, DeltaIsSum
  <1> QED
    BY <1>1, <1>3, <1>4, <1>5

LEMMA ReversedAdds ==
    ASSUME NEW S, IsFiniteSet(S), NEW x, x \notin S,
           \A r \in S \cup {x} : Reversed(r) \in Int
    PROVE  /\ MapThenSumSet(Reversed, S) \in Int
           /\ MapThenSumSet(Reversed, S \cup {x}) = MapThenSumSet(Reversed, S) + Reversed(x)
  <1> DEFINE f == [r \in S \cup {x} |-> Reversed(r)]
  <1>1. /\ \A r \in S \cup {x} : f[r] = Reversed(r) /\ f[r] \in Int
        /\ \A r \in S : f[r] = Reversed(r)
        /\ f[x] = Reversed(x) /\ Reversed(x) \in Int
    OBVIOUS
  <1> HIDE DEF f
  <1>2. IsFiniteSet(S \cup {x})
    BY FS_AddElement
  <1>3. PICK g, h : /\ Sums(g, f, S \cup {x}) /\ Sums(h, f, S)
                    /\ h[S] \in Int /\ g[S \cup {x}] = h[S] + f[x]
    BY <1>1, SumsAdd
  <1>4. MapThenSumSet(Reversed, S) = h[S]
    BY <1>1, <1>3, ReversedIsSum
  <1>5. MapThenSumSet(Reversed, S \cup {x}) = g[S \cup {x}]
    BY <1>1, <1>2, <1>3, ReversedIsSum
  <1> QED
    BY <1>1, <1>3, <1>4, <1>5

LEMMA NoSum ==
    /\ MapThenSumSet(Delta, {}) = 0
    /\ MapThenSumSet(Reversed, {}) = 0
  <1>0. IsFiniteSet({})
    BY FS_EmptySet
  <1>1. PICK f : f = [r \in {} |-> 0]
    OBVIOUS
  <1>2. PICK g : Sums(g, f, {})
    BY <1>0, SumsExist
  <1>3. g[{}] = 0
    BY <1>0, <1>2, SumsTakeAny
  <1> QED
    BY <1>0, <1>2, <1>3, DeltaIsSum, ReversedIsSum

-----------------------------------------------------------------------------
\* The inductive invariant

OrderRow == [status : OrderStatuses, paid : BOOLEAN, url : BOOLEAN,
             refunded : 0 .. Paid, reversed : 0 .. Granted,
             reversal : ReversalStatuses]
ProcRow == [pc : {"idle", "fulfil", "mark", "reverse", "finish", "fail"},
            order : Orders, event : Events]

OrdersTyped ==
    /\ order \in [Orders -> OrderRow]
    /\ sent \in [Orders -> [Events -> 0 .. Paid]]
    /\ request \in [Requests -> {"new", "done"} \cup Orders]
    /\ proc \in [Procs -> ProcRow]
    /\ todo \subseteq Orders

\* Nothing is paid, delivered or retried for an order whose checkout is not
\* known, and once it is known no request for it is on its way.
CheckoutFirst ==
    /\ \A o \in Orders : order[o].url => \A c \in Requests : request[c] # o
    /\ \A o \in Orders, n \in Events : sent[o][n] # 0 => order[o].url
    /\ \A p \in Procs : /\ proc[p].pc # "idle" => order[proc[p].order].url
                        /\ proc[p].pc = "reverse" => proc[p].event # Payment
    /\ \A o \in todo : order[o].url

EarlyReversed(o) == HasRow(<<"reversal", o, FULFILLMENT_REVERSAL_ID>>)

\* An order's row agrees with the ledger and with itself: what was refunded is
\* reversed from the grant on, and not at all before it.
Sound(row, granted, early) ==
    /\ granted <=> row.status = "fulfilled"
    /\ early => row.status = "fulfilled"
    /\ row.reversed = IF row.status = "fulfilled"
                      THEN computeReversalTarget(row.refunded) ELSE 0
    /\ row.reversal \in {"refunded", "charged_back"} => row.refunded = Paid
    /\ row.reversal = "none" => row.refunded = 0
    /\ row.status \in {"fulfilled", "fulfillment_failed"} => row.url
    /\ row.url => row.status \notin {"none", "payment_failed"}
    /\ ~row.url => row.reversal = "none"

Books == \A o \in Orders : Sound(order[o], grantRecorded(o), EarlyReversed(o))

IInv == OrdersTyped /\ CheckoutFirst /\ Books

\* The assumption: no two checkout calls for one order are on their way to the
\* provider at a time.
OneCheckoutPerOrder ==
    \A c, d \in Requests : request[c] = request[d] /\ request[c] \in Orders => c = d

\* What SettledStaysSettled says of one order.
Later(old, new) ==
    /\ old.status = "fulfilled" => new.status = "fulfilled"
    /\ new.reversed >= old.reversed
    /\ new.refunded >= old.refunded
    /\ old.reversal = "charged_back" => new.reversal = "charged_back"

NothingLost == \A o \in Orders : Later(order[o], order'[o])

-----------------------------------------------------------------------------
\* Helpers

\* Which of the two rows that matter the transaction on the member's row adds.
SameRows ==
    \A o \in Orders : /\ grantRecorded(o)' <=> grantRecorded(o)
                      /\ EarlyReversed(o)' <=> EarlyReversed(o)

LEMMA RowKey == \A key, delta, short : Row(key, delta, short).key = key
  BY DEF Row

LEMMA SyncKeys ==
    \A r \in syncRows(account) : r.key[1] \in {"expire", "cycle"}
  <1> SUFFICES ASSUME NEW r \in syncRows(account)
               PROVE  r.key[1] \in {"expire", "cycle"}
    OBVIOUS
  <1>1. r \in {Row(<<"expire", account.cycle>>, -account.monthly, 0),
               Row(<<"cycle", account.cycle + 1>>, Monthly, 0)}
    BY DEF syncRows
  <1>2. r.key = <<"expire", account.cycle>> \/ r.key = <<"cycle", account.cycle + 1>>
    BY <1>1, RowKey
  <1> QED BY <1>2

LEMMA MoveKeys ==
    ASSUME NEW a, NEW rows, MoveAccount(a, rows), NEW o
    PROVE  /\ grantRecorded(o)' <=> grantRecorded(o) \/ \E r \in rows : r.key = <<"grant", o>>
           /\ EarlyReversed(o)' <=> EarlyReversed(o)
                 \/ \E r \in rows : r.key = <<"reversal", o, FULFILLMENT_REVERSAL_ID>>
  <1>1. ledger' = ledger \cup syncRows(account) \cup rows
    BY DEF MoveAccount
  <1>2. \A r \in syncRows(account) :
           r.key # <<"grant", o>> /\ r.key # <<"reversal", o, FULFILLMENT_REVERSAL_ID>>
    BY SyncKeys
  <1> QED BY <1>1, <1>2 DEF grantRecorded, EarlyReversed, HasRow

\* An action that writes no order and adds neither row.
LEMMA BooksKept ==
    ASSUME IInv, order' = order, SameRows
    PROVE  Books' /\ NothingLost
  <1>1. Books'
    BY DEF IInv, Books, SameRows, Sound
  <1>2. NothingLost
    BY DEF IInv, OrdersTyped, NothingLost, Later, OrderRow
  <1> QED BY <1>1, <1>2

LEMMA SameLedger == ASSUME ledger' = ledger PROVE SameRows
  BY DEF SameRows, grantRecorded, EarlyReversed, HasRow

\* An action that writes one order.
LEMMA BooksMoved ==
    ASSUME IInv, NEW o \in Orders, NEW row \in OrderRow,
           order' = [order EXCEPT ![o] = row],
           Later(order[o], row),
           Sound(row, grantRecorded(o)', EarlyReversed(o)'),
           \A q \in Orders \ {o} : /\ grantRecorded(q)' <=> grantRecorded(q)
                                   /\ EarlyReversed(q)' <=> EarlyReversed(q)
    PROVE  /\ order' \in [Orders -> OrderRow] /\ Books' /\ NothingLost
           /\ order'[o] = row /\ \A q \in Orders \ {o} : order'[q] = order[q]
  <1>1. /\ order' \in [Orders -> OrderRow] /\ order'[o] = row
        /\ \A q \in Orders \ {o} : order'[q] = order[q]
    BY DEF IInv, OrdersTyped
  <1>2. Books'
    <2> SUFFICES ASSUME NEW q \in Orders
                 PROVE  Sound(order'[q], grantRecorded(q)', EarlyReversed(q)')
      BY DEF Books
    <2>1. CASE q = o
      BY <1>1, <2>1
    <2>2. CASE q # o
      BY <1>1, <2>2 DEF IInv, Books, Sound
    <2> QED BY <2>1, <2>2
  <1>3. NothingLost
    BY <1>1 DEF IInv, OrdersTyped, NothingLost, Later, OrderRow
  <1> QED BY <1>1, <1>2, <1>3

\* What a process at pc works on is typed, and its checkout is known.
LEMMA AtOrder ==
    ASSUME IInv, NEW p \in Procs, ~Idle(p)
    PROVE  /\ proc[p].order \in Orders /\ proc[p].event \in Events
           /\ order[proc[p].order] \in OrderRow /\ order[proc[p].order].url
  BY DEF IInv, OrdersTyped, CheckoutFirst, Idle, ProcRow

LEMMA NoWorkRow == NoWork \in ProcRow /\ NoWork.pc = "idle"
  <1>1. (CHOOSE o \in Orders : TRUE) \in Orders
    BY BillingAssumption
  <1>2. Payment \in Events
    BY BillingAssumption DEF Payment, Events, Chargeback
  <1> QED BY <1>1, <1>2 DEF NoWork, ProcRow

\* A process that moves on with the work it has, or without it, keeps what the
\* invariant says of it.
LEMMA ProcMoved ==
    ASSUME OrdersTyped, CheckoutFirst, NEW p \in Procs,
           \/ proc' = [proc EXCEPT ![p] = NoWork]
           \/ /\ ~Idle(p)
              /\ \E pc \in {"fulfil", "mark", "finish", "fail"} : Goto(p, pc)
    PROVE  /\ proc' \in [Procs -> ProcRow]
           /\ \A q \in Procs : /\ proc'[q].pc # "idle"
                                  => proc[q].pc # "idle" /\ proc'[q].order = proc[q].order
                               /\ proc'[q].pc = "reverse" => proc'[q].event # Payment
  <1>1. CASE proc' = [proc EXCEPT ![p] = NoWork]
    BY <1>1, NoWorkRow DEF OrdersTyped, CheckoutFirst, ProcRow
  <1>2. ASSUME NEW pc \in {"fulfil", "mark", "finish", "fail"}, ~Idle(p), Goto(p, pc)
        PROVE  /\ proc' \in [Procs -> ProcRow]
               /\ \A q \in Procs : /\ proc'[q].pc # "idle"
                                      => proc[q].pc # "idle" /\ proc'[q].order = proc[q].order
                                   /\ proc'[q].pc = "reverse" => proc'[q].event # Payment
    <2>1. [proc[p] EXCEPT !.pc = pc] \in ProcRow
      BY DEF OrdersTyped, ProcRow
    <2>2. /\ proc' \in [Procs -> ProcRow] /\ proc'[p] = [proc[p] EXCEPT !.pc = pc]
          /\ \A q \in Procs \ {p} : proc'[q] = proc[q]
      BY <1>2, <2>1 DEF OrdersTyped, Goto, ProcRow
    <2> QED BY <1>2, <2>2 DEF CheckoutFirst, Idle, OrdersTyped, ProcRow
  <1> QED BY <1>1, <1>2

\* The rest of the invariant after a step of one process that forgets no
\* checkout.
LEMMA ProcessKeeps ==
    ASSUME IInv, NEW p \in Procs,
           \/ proc' = [proc EXCEPT ![p] = NoWork]
           \/ /\ ~Idle(p)
              /\ \E pc \in {"fulfil", "mark", "finish", "fail"} : Goto(p, pc),
           UNCHANGED <<sent, request>>, todo' \subseteq todo,
           order' \in [Orders -> OrderRow],
           \A o \in Orders : order'[o].url <=> order[o].url
    PROVE  OrdersTyped' /\ CheckoutFirst'
  <1>1. OrdersTyped /\ CheckoutFirst
    BY DEF IInv
  <1>2. /\ proc' \in [Procs -> ProcRow]
        /\ \A q \in Procs : /\ proc'[q].pc # "idle"
                               => proc[q].pc # "idle" /\ proc'[q].order = proc[q].order
                            /\ proc'[q].pc = "reverse" => proc'[q].event # Payment
    BY <1>1, ProcMoved
  <1>3. OrdersTyped'
    BY <1>1, <1>2 DEF OrdersTyped
  <1>4. CheckoutFirst'
    <2>1. \A o \in Orders : order'[o].url => \A c \in Requests : request'[c] # o
      BY <1>1 DEF CheckoutFirst
    <2>2. \A o \in Orders, n \in Events : sent'[o][n] # 0 => order'[o].url
      BY <1>1 DEF CheckoutFirst
    <2>3. \A q \in Procs : /\ proc'[q].pc # "idle" => order'[proc'[q].order].url
                           /\ proc'[q].pc = "reverse" => proc'[q].event # Payment
      BY <1>1, <1>2 DEF CheckoutFirst, OrdersTyped, ProcRow
    <2>4. \A o \in todo' : order'[o].url
      BY <1>1 DEF CheckoutFirst, OrdersTyped
    <2> QED BY <2>1, <2>2, <2>3, <2>4 DEF CheckoutFirst
  <1> QED BY <1>3, <1>4

-----------------------------------------------------------------------------
\* Every step keeps the invariant and loses nothing

LEMMA InitIInv == Init => IInv
  <1> SUFFICES ASSUME Init PROVE IInv
    OBVIOUS
  <1>1. NoOrder \in OrderRow
    BY BillingAssumption DEF NoOrder, OrderRow, OrderStatuses, ReversalStatuses
  <1>2. OrdersTyped
    BY <1>1, NoWorkRow, BillingAssumption DEF Init, OrdersTyped
  <1>3. CheckoutFirst
    BY NoWorkRow DEF Init, CheckoutFirst, NoOrder
  <1>4. \A o : ~grantRecorded(o) /\ ~EarlyReversed(o)
    <2>1. \A r \in ledger : r.key[1] = "cycle"
      BY DEF Init, Row
    <2> QED BY <2>1 DEF grantRecorded, EarlyReversed, HasRow
  <1>5. Books
    BY <1>4 DEF Init, Books, Sound, NoOrder
  <1> QED BY <1>2, <1>3, <1>5 DEF IInv

Good == IInv' /\ NothingLost

\* Steps that touch neither orders nor processes.
LEMMA BalanceKeeps ==
    ASSUME IInv, SameRows, UNCHANGED <<order, sent, request, proc, todo>>
    PROVE  Good
  BY BooksKept DEF IInv, OrdersTyped, CheckoutFirst, Good

LEMMA UsageKeeps ==
    ASSUME IInv,
           \/ CycleEnds
           \/ \E u \in Uses, n \in Costs : meterConsume(u, n) \/ reconcileModelProviderCost(u, n)
    PROVE  Good
  <1>1. CASE CycleEnds
    BY <1>1, SameLedger, BalanceKeeps DEF CycleEnds
  <1>2. ASSUME NEW u \in Uses, NEW n \in Costs, meterConsume(u, n) PROVE Good
    <2>1. PICK a : MoveAccount(a, {Row(<<"use", u>>, -n, 0)})
      BY <1>2, Zenon DEF meterConsume
    <2>2. SameRows
      BY <2>1, MoveKeys, RowKey DEF SameRows
    <2> QED BY <1>2, <2>2, BalanceKeeps DEF meterConsume
  <1>3. ASSUME NEW u \in Uses, NEW n \in Costs, reconcileModelProviderCost(u, n) PROVE Good
    <2>1. PICK a, delta : MoveAccount(a, {row \in {Row(<<"settle", u>>, delta, 0)} : row.delta # 0})
      BY <1>3, Zenon DEF reconcileModelProviderCost
    <2>2. SameRows
      BY <2>1, MoveKeys, RowKey DEF SameRows
    <2> QED BY <1>3, <2>2, BalanceKeeps DEF reconcileModelProviderCost
  <1> QED BY <1>1, <1>2, <1>3

\* The checkout is asked for only as long as it is not known.
LEMMA CheckoutAsked ==
    ASSUME IInv, NEW c \in Requests, NEW o \in Orders, createTopupCheckout(c, o)
    PROVE  Good
  <1> DEFINE calls == \/ order[o].status = "none"
                      \/ /\ order[o].status \in RecoverableCheckout
                         /\ ~hasCheckoutUrl(order[o]) /\ ~order[o].paid
  <1>1. /\ SameRows /\ UNCHANGED <<sent, proc, todo>>
        /\ request' = [request EXCEPT ![c] = IF calls THEN o ELSE "done"]
    BY SameLedger DEF createTopupCheckout
  <1>2. calls => ~order[o].url
    BY DEF IInv, Books, Sound, hasCheckoutUrl
  <1>3. order' \in [Orders -> OrderRow] /\ Books' /\ NothingLost
        /\ \A q \in Orders : order'[q].url <=> order[q].url
    <2>1. CASE order' = order
      BY <1>1, <2>1, BooksKept DEF IInv, OrdersTyped
    <2>2. CASE /\ order[o].status = "none"
               /\ order' = [order EXCEPT ![o] = [NoOrder EXCEPT !.status = "pending"]]
      <3> DEFINE row == [NoOrder EXCEPT !.status = "pending"]
      <3>1. /\ row \in OrderRow /\ row.status = "pending" /\ ~row.url /\ row.refunded = 0
            /\ row.reversed = 0 /\ row.reversal = "none"
        <4>1. /\ NoOrder \in OrderRow /\ ~NoOrder.url /\ NoOrder.refunded = 0
              /\ NoOrder.reversed = 0 /\ NoOrder.reversal = "none"
          BY BillingAssumption DEF NoOrder, OrderRow, OrderStatuses, ReversalStatuses
        <4> QED BY <4>1 DEF OrderRow, OrderStatuses
      <3>2. Sound(order[o], grantRecorded(o), EarlyReversed(o)) /\ order[o] \in OrderRow
        BY DEF IInv, Books, OrdersTyped
      <3>3. Sound(row, grantRecorded(o)', EarlyReversed(o)')
        BY <1>1, <2>2, <3>1, <3>2 DEF Sound, SameRows
      <3>4. Later(order[o], row)
        BY <2>2, <3>1, <3>2 DEF Later, Sound, OrderRow
      <3>5. ~order[o].url
        BY <2>2, <3>2 DEF Sound
      <3> HIDE DEF row
      <3> QED BY <1>1, <2>2, <3>1, <3>3, <3>4, <3>5, BooksMoved DEF SameRows, row
    <2> QED BY <2>1, <2>2 DEF createTopupCheckout, updateOrderLocked
  <1>4. OrdersTyped'
    BY <1>1, <1>3 DEF IInv, OrdersTyped
  <1>5. CheckoutFirst'
    <2>1. \A q \in Orders : order'[q].url => \A d \in Requests : request'[d] # q
      BY <1>1, <1>2, <1>3, BillingAssumption DEF IInv, OrdersTyped, CheckoutFirst
    <2> QED BY <1>1, <1>3, <2>1 DEF IInv, OrdersTyped, CheckoutFirst, ProcRow
  <1> QED BY <1>3, <1>4, <1>5 DEF IInv, Good

\* The provider's answer finds an order that nobody has paid: here the
\* assumption is needed, another request would have made the checkout known.
LEMMA CheckoutAnswered ==
    ASSUME IInv, OneCheckoutPerOrder, NEW c \in Requests,
           checkoutCreated(c) \/ checkoutFailed(c)
    PROVE  Good
  <1>0. PICK o \in Orders : request[c] = o
    BY DEF checkoutCreated, checkoutFailed
  <1> DEFINE created == [order[o] EXCEPT !.status = "checkout_created", !.paid = FALSE, !.url = TRUE]
             failed == [order[o] EXCEPT !.status = "payment_failed", !.paid = FALSE]
  <1>1. /\ SameRows /\ UNCHANGED <<sent, proc, todo>>
        /\ request' = [request EXCEPT ![c] = "done"]
    BY SameLedger DEF checkoutCreated, checkoutFailed
  <1>2. /\ order[o] \in OrderRow /\ ~order[o].url
        /\ Sound(order[o], grantRecorded(o), EarlyReversed(o))
    BY <1>0 DEF IInv, OrdersTyped, Books, CheckoutFirst
  <1>3. \A d \in Requests \ {c} : request[d] # o
    BY <1>0 DEF OneCheckoutPerOrder
  <1>4. PICK row \in {created, failed} : order' = [order EXCEPT ![o] = row]
    BY <1>0 DEF checkoutCreated, checkoutFailed, updateOrderLocked
  <1>5. created \in OrderRow /\ failed \in OrderRow
    BY <1>2 DEF OrderRow, OrderStatuses
  <1>6. /\ row.refunded = order[o].refunded /\ row.reversed = order[o].reversed
        /\ row.reversal = order[o].reversal
        /\ \/ row.status = "checkout_created" /\ row.url
           \/ row.status = "payment_failed" /\ ~row.url
    BY <1>2, <1>4 DEF OrderRow
  <1>7. Sound(row, grantRecorded(o)', EarlyReversed(o)')
    BY <1>1, <1>2, <1>6 DEF Sound, SameRows
  <1>8. Later(order[o], row)
    BY <1>2, <1>6 DEF Later, Sound, OrderRow
  <1>9. /\ order' \in [Orders -> OrderRow] /\ Books' /\ NothingLost
        /\ \A q \in Orders : q # o => order'[q] = order[q]
    BY <1>1, <1>4, <1>5, <1>7, <1>8, BooksMoved DEF SameRows
  <1>10. OrdersTyped'
    BY <1>1, <1>9 DEF IInv, OrdersTyped
  <1>11. CheckoutFirst'
    <2>1. \A q \in Orders : order[q].url => order'[q].url
      BY <1>2, <1>9
    <2>2. \A q \in Orders : order'[q].url => \A d \in Requests : request'[d] # q
      BY <1>1, <1>3, <1>9, BillingAssumption DEF IInv, OrdersTyped, CheckoutFirst
    <2> QED BY <1>1, <2>1, <2>2 DEF IInv, OrdersTyped, CheckoutFirst, ProcRow
  <1> QED BY <1>9, <1>10, <1>11 DEF IInv, Good

\* The provider takes a payment only at a known checkout, and gives back only
\* what it took.
LEMMA ProviderKeeps ==
    ASSUME IInv, NEW o \in Orders,
           \/ ProviderTakesPayment(o) \/ ProviderChargesBack(o)
           \/ \E n \in 1 .. Paid : ProviderRefunds(o, n)
    PROVE  Good
  <1>1. PICK n \in Events, amount \in 0 .. Paid : order[o].url /\ Emit(o, n, amount)
    <2>0. /\ Payment \in Events /\ Chargeback \in Events /\ Paid \in 0 .. Paid
          /\ \A n \in 1 .. Paid : n \in Events
      BY BillingAssumption DEF Payment, Chargeback, Events
    <2>1. CASE ProviderTakesPayment(o)
      BY <2>0, <2>1 DEF ProviderTakesPayment
    <2>2. sent[o][Payment] # 0 => order[o].url
      BY <2>0 DEF IInv, CheckoutFirst
    <2>3. CASE ProviderChargesBack(o)
      BY <2>0, <2>2, <2>3 DEF ProviderChargesBack
    <2>4. ASSUME NEW n \in 1 .. Paid, ProviderRefunds(o, n)
          PROVE  /\ n - RefundedSoFar(o) \in 0 .. Paid
                 /\ order[o].url /\ Emit(o, n, n - RefundedSoFar(o))
      BY <2>2, <2>4, BillingAssumption DEF ProviderRefunds
    <2> QED BY <2>0, <2>1, <2>3, <2>4
  <1>2. SameRows /\ UNCHANGED <<order, request, proc, todo>>
    BY <1>1, SameLedger DEF Emit
  <1>3. sent' \in [Orders -> [Events -> 0 .. Paid]]
    BY <1>1 DEF Emit, IInv, OrdersTyped
  <1>4. \A q \in Orders, m \in Events : sent'[q][m] # 0 => order[q].url
    BY <1>1 DEF Emit, IInv, OrdersTyped, CheckoutFirst
  <1> QED BY <1>2, <1>3, <1>4, BooksKept DEF IInv, OrdersTyped, CheckoutFirst, Good

\* A step of a process between its transactions, or one that is rolled back.
LEMMA QuietStep ==
    ASSUME IInv, NEW p \in Procs,
           \/ proc' = [proc EXCEPT ![p] = NoWork]
           \/ /\ ~Idle(p)
              /\ \E pc \in {"fulfil", "mark", "finish", "fail"} : Goto(p, pc),
           UNCHANGED <<order, ledger, sent, request>>, todo' \subseteq todo
    PROVE  Good
  <1>1. order' \in [Orders -> OrderRow] /\ \A o \in Orders : order'[o].url <=> order[o].url
    BY DEF IInv, OrdersTyped
  <1> QED BY <1>1, SameLedger, BooksKept, ProcessKeeps DEF IInv, Good

\* A step of a process that writes the order it works on.
LEMMA OrderStep ==
    ASSUME IInv, NEW p \in Procs, NEW o \in Orders, NEW row \in OrderRow,
           \/ proc' = [proc EXCEPT ![p] = NoWork]
           \/ /\ ~Idle(p)
              /\ \E pc \in {"fulfil", "mark", "finish", "fail"} : Goto(p, pc),
           UNCHANGED <<sent, request, todo>>,
           order' = [order EXCEPT ![o] = row], row.url <=> order[o].url,
           Later(order[o], row),
           Sound(row, grantRecorded(o)', EarlyReversed(o)'),
           \A q \in Orders \ {o} : /\ grantRecorded(q)' <=> grantRecorded(q)
                                   /\ EarlyReversed(q)' <=> EarlyReversed(q)
    PROVE  Good
  <1>1. /\ order' \in [Orders -> OrderRow] /\ Books' /\ NothingLost
        /\ order'[o] = row /\ \A q \in Orders \ {o} : order'[q] = order[q]
    BY BooksMoved
  <1>2. \A q \in Orders : order'[q].url <=> order[q].url
    BY <1>1
  <1> QED BY <1>1, <1>2, ProcessKeeps DEF IInv, Good

\* A reversal recorded before the grant is applied with it: in full, under the
\* reserved id.
LEMMA RecordedReversal ==
    ASSUME NEW a, NEW o, NEW row \in OrderRow, Sound(row, FALSE, FALSE),
           ~EarlyReversed(o)
    PROVE  /\ applyRecordedReversal(a, o, row).reversed = computeReversalTarget(row.refunded)
           /\ \A r \in applyRecordedReversal(a, o, row).rows :
                 r.key = <<"reversal", o, FULFILLMENT_REVERSAL_ID>>
  <1>0. /\ row.refunded \in 0 .. Paid /\ row.reversal \in ReversalStatuses
        /\ row.reversed = 0
    BY DEF OrderRow, Sound
  <1>1. CASE row.reversal = "none"
    BY <1>0, <1>1, TargetEnds DEF applyRecordedReversal, Sound
  <1>2. CASE row.reversal # "none"
    <2> DEFINE total == IF row.reversal = "partially_refunded"
                        THEN Least(row.refunded, Paid) ELSE Paid
               applied == reverseGrant(a, o, row, total, FULFILLMENT_REVERSAL_ID)
    <2>1. total = row.refunded
      BY <1>0, <1>2, BillingAssumption DEF Least, Sound, ReversalStatuses
    <2>2. applied.reversed = computeReversalTarget(row.refunded)
      BY <1>0, <2>1, TargetType DEF reverseGrant, Most
    <2>3. applied.row.key = <<"reversal", o, FULFILLMENT_REVERSAL_ID>>
      BY RowKey DEF reverseGrant
    <2>4. /\ applyRecordedReversal(a, o, row).reversed = applied.reversed
          /\ applyRecordedReversal(a, o, row).rows = {applied.row}
      BY <1>2 DEF applyRecordedReversal, EarlyReversed
    <2> HIDE DEF applied
    <2> QED BY <2>2, <2>3, <2>4
  <1> QED BY <1>1, <1>2

LEMMA FulfilKeeps ==
    ASSUME IInv, NEW p \in Procs, fulfillOrder(p)
    PROVE  Good
  <1>0. PICK o \in Orders : proc[p].order = o
    BY AtOrder DEF fulfillOrder, At, Idle
  <1>1. /\ ~Idle(p) /\ UNCHANGED <<sent, request, todo>>
        /\ proc' = [proc EXCEPT ![p] = NoWork] \/ Goto(p, "finish")
    BY DEF fulfillOrder, At, Idle, Leave
  <1>2. /\ order[o] \in OrderRow /\ order[o].url
        /\ Sound(order[o], grantRecorded(o), EarlyReversed(o))
    BY <1>0, <1>1, AtOrder DEF IInv, Books
  <1>3. CASE order[o].status = "fulfilled"
    <2>1. UNCHANGED <<order, ledger>>
      BY <1>0, <1>3 DEF fulfillOrder
    <2> QED BY <1>1, <2>1, QuietStep
  <1>4. CASE order[o].status # "fulfilled"
    <2>1. ~grantRecorded(o) /\ ~EarlyReversed(o) /\ Sound(order[o], FALSE, FALSE)
      BY <1>2, <1>4 DEF Sound
    <2>2. fulfillTopupOrder(o)
      BY <1>0, <1>4 DEF fulfillOrder
    <2> DEFINE granted == [syncCycle(account) EXCEPT !.addOn = @ + Granted]
               applied == applyRecordedReversal(granted, o, order[o])
               row == [order[o] EXCEPT !.status = "fulfilled", !.paid = TRUE,
                                       !.reversed = applied.reversed]
    <2>3. /\ MoveAccount(applied.account, applied.rows \cup {Row(<<"grant", o>>, Granted, 0)})
          /\ order' = [order EXCEPT ![o] = row]
      BY <2>1, <2>2 DEF fulfillTopupOrder, updateOrderLocked
    <2>4. /\ applied.reversed = computeReversalTarget(order[o].refunded)
          /\ \A r \in applied.rows : r.key = <<"reversal", o, FULFILLMENT_REVERSAL_ID>>
      BY <1>2, <2>1, RecordedReversal
    <2> HIDE DEF applied
    <2>5. /\ grantRecorded(o)'
          /\ \A q \in Orders \ {o} : /\ grantRecorded(q)' <=> grantRecorded(q)
                                     /\ EarlyReversed(q)' <=> EarlyReversed(q)
      BY <2>3, <2>4, MoveKeys, RowKey
    <2>6. computeReversalTarget(order[o].refunded) \in 0 .. Granted
      BY <1>2, TargetType DEF OrderRow
    <2>7. /\ row \in OrderRow /\ row.status = "fulfilled" /\ row.url
          /\ row.refunded = order[o].refunded /\ row.reversal = order[o].reversal
          /\ row.reversed = computeReversalTarget(order[o].refunded)
      BY <1>2, <2>4, <2>6 DEF OrderRow, OrderStatuses
    <2> HIDE DEF row
    <2>8. Sound(row, grantRecorded(o)', EarlyReversed(o)')
      BY <1>2, <2>5, <2>7 DEF Sound
    <2>9. Later(order[o], row)
      BY <1>2, <1>4, <2>6, <2>7 DEF Sound, Later, OrderRow
    <2> QED BY <1>1, <1>2, <2>3, <2>5, <2>7, <2>8, <2>9, OrderStep
  <1> QED BY <1>3, <1>4

LEMMA MarkKeeps ==
    ASSUME IInv, NEW p \in Procs, markFulfillmentFailed(p)
    PROVE  Good
  <1>0. PICK o \in Orders : proc[p].order = o
    BY AtOrder DEF markFulfillmentFailed, At, Idle
  <1>1. /\ ~Idle(p) /\ UNCHANGED <<ledger, sent, request, todo>>
        /\ proc' = [proc EXCEPT ![p] = NoWork] \/ Goto(p, "fail")
    BY DEF markFulfillmentFailed, At, Idle, Leave
  <1>2. /\ order[o] \in OrderRow /\ order[o].url
        /\ Sound(order[o], grantRecorded(o), EarlyReversed(o))
    BY <1>0, <1>1, AtOrder DEF IInv, Books
  <1>3. CASE UNCHANGED order
    BY <1>1, <1>3, QuietStep
  <1>4. CASE order' = [order EXCEPT ![o] = failedFulfillment(order[o])]
    <2>1. CASE order[o].status = "fulfilled"
      <3>1. order' = order
        BY <1>2, <1>4, <2>1 DEF failedFulfillment, IInv, OrdersTyped
      <3> QED BY <1>3, <3>1
    <2>2. CASE order[o].status # "fulfilled"
      <3> DEFINE row == [order[o] EXCEPT !.status = "fulfillment_failed", !.paid = TRUE]
      <3>1. order' = [order EXCEPT ![o] = row]
        BY <1>4, <2>2 DEF failedFulfillment
      <3>2. /\ row \in OrderRow /\ row.status = "fulfillment_failed" /\ row.url
            /\ row.refunded = order[o].refunded /\ row.reversed = order[o].reversed
            /\ row.reversal = order[o].reversal
        BY <1>2 DEF OrderRow, OrderStatuses
      <3> HIDE DEF row
      <3>3. SameRows
        BY <1>1, SameLedger
      <3>4. Sound(row, grantRecorded(o)', EarlyReversed(o)')
        BY <1>2, <2>2, <3>2, <3>3 DEF Sound, SameRows
      <3>5. Later(order[o], row)
        BY <1>2, <2>2, <3>2 DEF Later, OrderRow
      <3> QED BY <1>1, <1>2, <3>1, <3>2, <3>3, <3>4, <3>5, OrderStep DEF SameRows
    <2> QED BY <2>1, <2>2
  <1> QED BY <1>0, <1>3, <1>4 DEF markFulfillmentFailed, updateOrderLocked

\* The total after a reversal is at least the recorded one.
LEMMA RefundedTotal ==
    ASSUME NEW o \in Orders, NEW n \in Events, NEW row \in OrderRow,
           sent[o][n] \in 0 .. Paid
    PROVE  /\ nextRefundedTotal(row, o, n) \in 0 .. Paid
           /\ nextRefundedTotal(row, o, n) >= row.refunded
           /\ n = Chargeback => nextRefundedTotal(row, o, n) = Paid
  <1>1. row.refunded \in 0 .. Paid
    BY DEF OrderRow
  <1>2. CASE n = Chargeback
    BY <1>1, <1>2, BillingAssumption DEF nextRefundedTotal
  <1>3. CASE n # Chargeback /\ Cumulative
    <2>1. n \in 0 .. Paid
      BY <1>3, BillingAssumption DEF Events, Payment, Chargeback
    <2> QED BY <1>1, <1>3, <2>1, BillingAssumption DEF nextRefundedTotal, Most
  <1>4. CASE n # Chargeback /\ ~Cumulative
    BY <1>1, <1>4, BillingAssumption DEF nextRefundedTotal, Least
  <1> QED BY <1>2, <1>3, <1>4

LEMMA ReversalKeeps ==
    ASSUME IInv, NEW p \in Handlers, reversePayment(p)
    PROVE  Good
  <1>p. p \in Procs
    BY DEF Procs
  <1>0. PICK o \in Orders, n \in Events :
           proc[p].order = o /\ proc[p].event = n /\ n # Payment
    BY <1>p, AtOrder DEF reversePayment, At, Idle, IInv, CheckoutFirst
  <1>1. ~Idle(p) /\ UNCHANGED <<sent, request, todo>>
        /\ \E pc \in {"finish", "fail"} : Goto(p, pc)
    BY DEF reversePayment, At, Idle
  <1>2. /\ order[o] \in OrderRow /\ order[o].url /\ sent[o][n] \in 0 .. Paid
        /\ Sound(order[o], grantRecorded(o), EarlyReversed(o))
    BY <1>p, <1>0, <1>1, AtOrder DEF IInv, Books, OrdersTyped
  <1>3. CASE UNCHANGED <<order, ledger>>
    BY <1>p, <1>1, <1>3, QuietStep
  <1>4. CASE applyPaymentReversal(o, n) /\ ~HasRow(<<"reversal", o, n>>)
    <2> DEFINE total == nextRefundedTotal(order[o], o, n)
               status == nextReversalStatus(total, n, order[o].reversal)
               changed == [order[o] EXCEPT !.refunded = Most(@, total), !.reversal = status]
               applied == reverseGrant(syncCycle(account), o, order[o], total, n)
    <2>1. total \in 0 .. Paid /\ total >= order[o].refunded /\ (n = Chargeback => total = Paid)
      BY <1>2, RefundedTotal
    <2>2. /\ status \in ReversalStatuses \ {"none"}
          /\ status \in {"refunded", "charged_back"} => total = Paid
          /\ order[o].reversal = "charged_back" => status = "charged_back"
      BY <1>2, <2>1, BillingAssumption
         DEF nextReversalStatus, ReversalStatuses, Sound, OrderRow
    <2>3. Most(order[o].refunded, total) = total
      BY <1>2, <2>1, BillingAssumption DEF Most, OrderRow
    <2>4. n # FULFILLMENT_REVERSAL_ID
      BY <1>0 DEF Payment, FULFILLMENT_REVERSAL_ID
    <2> HIDE DEF total, status
    <2>5. /\ changed \in OrderRow /\ changed.status = order[o].status
          /\ changed.url = order[o].url /\ changed.refunded = total
          /\ changed.reversal = status /\ changed.reversed = order[o].reversed
      BY <1>2, <2>1, <2>2, <2>3 DEF OrderRow
    <2> HIDE DEF changed
    <2>6. CASE order[o].status # "fulfilled"
      <3>1. /\ MoveAccount(syncCycle(account), {Row(<<"reversal", o, n>>, 0, 0)})
            /\ order' = [order EXCEPT ![o] = changed]
        BY <1>4, <2>6 DEF applyPaymentReversal, updateOrderLocked, changed, total, status
      <3>2. \A q \in Orders : /\ grantRecorded(q)' <=> grantRecorded(q)
                              /\ EarlyReversed(q)' <=> EarlyReversed(q)
        BY <2>4, <3>1, MoveKeys, RowKey
      <3>3. Sound(changed, grantRecorded(o)', EarlyReversed(o)')
        BY <1>2, <2>1, <2>2, <2>5, <2>6, <3>2 DEF Sound
      <3>4. Later(order[o], changed)
        BY <1>2, <2>1, <2>2, <2>5 DEF Later, OrderRow
      <3> QED BY <1>p, <1>1, <2>5, <3>1, <3>2, <3>3, <3>4, OrderStep
    <2>7. CASE order[o].status = "fulfilled"
      <3> DEFINE row == [changed EXCEPT !.reversed = applied.reversed]
      <3>1. /\ MoveAccount(applied.account, {applied.row})
            /\ order' = [order EXCEPT ![o] = row]
        BY <1>4, <2>7 DEF applyPaymentReversal, updateOrderLocked, changed, total, status
      <3>2. applied.row.key = <<"reversal", o, n>>
        BY RowKey DEF reverseGrant
      <3>3. /\ computeReversalTarget(total) \in 0 .. Granted
            /\ order[o].reversed = computeReversalTarget(order[o].refunded)
            /\ computeReversalTarget(order[o].refunded) \in 0 .. Granted
            /\ computeReversalTarget(order[o].refunded) <= computeReversalTarget(total)
        BY <1>2, <2>1, <2>7, TargetType, TargetMonotone DEF Sound, OrderRow
      <3>4. applied.reversed = computeReversalTarget(total)
        BY <3>3, BillingAssumption DEF reverseGrant, Most
      <3> HIDE DEF applied
      <3>5. \A q \in Orders : /\ grantRecorded(q)' <=> grantRecorded(q)
                              /\ EarlyReversed(q)' <=> EarlyReversed(q)
        BY <2>4, <3>1, <3>2, MoveKeys
      <3>6. /\ row \in OrderRow /\ row.status = "fulfilled" /\ row.url = order[o].url
            /\ row.refunded = total /\ row.reversal = status
            /\ row.reversed = computeReversalTarget(total)
        BY <2>5, <2>7, <3>3, <3>4 DEF OrderRow
      <3> HIDE DEF row
      <3>7. Sound(row, grantRecorded(o)', EarlyReversed(o)')
        BY <1>2, <2>1, <2>2, <2>7, <3>5, <3>6 DEF Sound
      <3>8. Later(order[o], row)
        BY <1>2, <2>1, <2>2, <3>3, <3>6 DEF Later, OrderRow
      <3> QED BY <1>p, <1>1, <3>1, <3>5, <3>6, <3>7, <3>8, OrderStep
    <2> QED BY <2>6, <2>7
  <1>5. CASE applyPaymentReversal(o, n) /\ HasRow(<<"reversal", o, n>>)
    <2>1. UNCHANGED <<order, ledger>>
      BY <1>5 DEF applyPaymentReversal
    <2> QED BY <1>3, <2>1
  <1> QED BY <1>0, <1>3, <1>4, <1>5 DEF reversePayment

\* A delivery and the retry job take up only orders whose checkout is known.
LEMMA DeliveryKeeps ==
    ASSUME IInv, DeliveryStep
    PROVE  Good
  <1>1. ASSUME NEW p \in Procs, NEW o \in Orders, NEW n \in Events,
               NEW pc \in {"fulfil", "reverse"}, order[o].url,
               pc = "reverse" => n # Payment,
               proc' = [proc EXCEPT ![p] = [pc |-> pc, order |-> o, event |-> n]],
               UNCHANGED <<order, ledger, sent, request>>, todo' \subseteq todo
        PROVE  Good
    <2>1. [pc |-> pc, order |-> o, event |-> n] \in ProcRow
      BY DEF ProcRow
    <2>2. /\ proc' \in [Procs -> ProcRow]
          /\ proc'[p] = [pc |-> pc, order |-> o, event |-> n]
          /\ \A q \in Procs \ {p} : proc'[q] = proc[q]
      BY <1>1, <2>1 DEF IInv, OrdersTyped
    <2>3. \A q \in Procs : /\ proc'[q].pc # "idle" => order[proc'[q].order].url
                           /\ proc'[q].pc = "reverse" => proc'[q].event # Payment
      BY <1>1, <2>2 DEF IInv, CheckoutFirst
    <2> QED BY <1>1, <2>2, <2>3, SameLedger, BooksKept
            DEF IInv, OrdersTyped, CheckoutFirst, Good
  <1>2. ASSUME NEW h \in Handlers, NEW o \in Orders, NEW n \in Events, receiveWebhook(h, o, n)
        PROVE  Good
    <2>1. h \in Procs /\ order[o].url
      BY <1>2 DEF Procs, receiveWebhook, IInv, CheckoutFirst
    <2>2. CASE n = Payment
      <3>1. proc' = [proc EXCEPT ![h] = [pc |-> "fulfil", order |-> o, event |-> n]]
        BY <1>2, <2>2 DEF receiveWebhook
      <3> QED BY <1>1, <1>2, <2>1, <3>1 DEF receiveWebhook
    <2>3. CASE n # Payment
      <3>1. proc' = [proc EXCEPT ![h] = [pc |-> "reverse", order |-> o, event |-> n]]
        BY <1>2, <2>3 DEF receiveWebhook
      <3> QED BY <1>1, <1>2, <2>1, <2>3, <3>1 DEF receiveWebhook
    <2> QED BY <2>2, <2>3
  <1>3. CASE reconcileLists
    <2>1. /\ todo' \subseteq Orders /\ \A o \in todo' : order[o].url
          /\ UNCHANGED <<order, ledger, sent, request, proc>>
      BY <1>3 DEF reconcileLists, Retryable, IInv, Books, Sound
    <2> QED BY <2>1, SameLedger, BooksKept DEF IInv, OrdersTyped, CheckoutFirst, Good
  <1>4. ASSUME NEW o \in Orders, reconcileNext(o) PROVE Good
    <2>1. /\ Job \in Procs /\ order[o].url /\ Payment \in Events
          /\ proc' = [proc EXCEPT ![Job] = [pc |-> "fulfil", order |-> o, event |-> Payment]]
          /\ UNCHANGED <<order, ledger, sent, request>> /\ todo' \subseteq todo
      BY <1>4, BillingAssumption
         DEF reconcileNext, Procs, IInv, CheckoutFirst, Payment, Events, Chargeback
    <2> QED BY <1>1, <2>1
  <1> QED BY <1>2, <1>3, <1>4 DEF DeliveryStep

LEMMA ProcStepKeeps ==
    ASSUME IInv, NEW p \in Procs, ProcStep(p) \/ fulfillOrderFails(p) \/ Crash(p)
    PROVE  Good
  <1>1. CASE fulfillOrder(p)
    BY <1>1, FulfilKeeps
  <1>2. CASE markFulfillmentFailed(p)
    BY <1>2, MarkKeeps
  <1>3. CASE p \in Handlers /\ reversePayment(p)
    BY <1>3, ReversalKeeps
  <1>4. CASE finishWebhook(p)
    BY <1>4, QuietStep DEF finishWebhook, At, Idle
  <1>5. CASE failWebhook(p)
    BY <1>5, QuietStep DEF failWebhook
  <1>6. CASE fulfillOrderFails(p)
    BY <1>6, QuietStep DEF fulfillOrderFails, At, Idle
  <1>7. CASE Crash(p)
    <2>1. todo' \subseteq todo
      BY <1>7 DEF Crash
    <2> QED BY <1>7, <2>1, QuietStep DEF Crash
  <1> QED BY <1>1, <1>2, <1>3, <1>4, <1>5, <1>6, <1>7 DEF ProcStep

LEMMA NextIInv == IInv /\ OneCheckoutPerOrder /\ [Next]_vars => Good
  <1> SUFFICES ASSUME IInv, OneCheckoutPerOrder, [Next]_vars PROVE Good
    OBVIOUS
  <1>1. CASE EnvironmentStep
    BY <1>1, UsageKeeps, CheckoutAsked, CheckoutAnswered, ProviderKeeps, ProcStepKeeps, Zenon
       DEF EnvironmentStep
  <1>2. CASE DeliveryStep
    BY <1>2, DeliveryKeeps
  <1>3. CASE \E p \in Procs : ProcStep(p)
    BY <1>3, ProcStepKeeps
  <1>4. CASE UNCHANGED vars
    BY <1>4, SameLedger, BalanceKeeps DEF vars
  <1> QED BY <1>1, <1>2, <1>3, <1>4 DEF Next

-----------------------------------------------------------------------------
\* The theorems

\* For any amounts, orders and deliveries: as long as an order's checkout is
\* created by one request at a time, its grant is taken back in proportion to
\* what was reported refunded, in full for a full refund or a lost chargeback,
\* whether the reversal reaches the order before its fulfilment or after
\* (payment-reversal.ts, order-service.ts).
THEOREM GrantTakenBack == Spec /\ []OneCheckoutPerOrder => []RefundTakesGrantBack
  <1>1. IInv => RefundTakesGrantBack
    <2> SUFFICES ASSUME IInv, NEW o \in Orders, grantRecorded(o)
                 PROVE  order[o].reversed =
                          IF order[o].reversal \in {"refunded", "charged_back"} THEN Granted
                          ELSE computeReversalTarget(order[o].refunded)
      BY DEF RefundTakesGrantBack
    <2>1. order[o].reversed = computeReversalTarget(order[o].refunded)
          /\ (order[o].reversal \in {"refunded", "charged_back"} => order[o].refunded = Paid)
      BY DEF IInv, Books, Sound
    <2> QED BY <2>1, TargetEnds
  <1>2. IInv /\ OneCheckoutPerOrder /\ [Next]_vars => IInv'
    BY NextIInv DEF Good
  <1> QED
    BY <1>1, <1>2, InitIInv, PTL DEF Spec

\* Under the same condition no late call, retry or redelivery takes an order out
\* of "fulfilled", lowers what was refunded or reversed of it, or forgets a lost
\* chargeback.  Finding 2 is what happens without the condition.
THEOREM Settles == Spec /\ []OneCheckoutPerOrder => SettledStaysSettled
  <1>1. IInv /\ OneCheckoutPerOrder /\ [Next]_vars =>
          IInv' /\ [\A o \in Orders :
             /\ order[o].status = "fulfilled" => order'[o].status = "fulfilled"
             /\ order'[o].reversed >= order[o].reversed
             /\ order'[o].refunded >= order[o].refunded
             /\ order[o].reversal = "charged_back" => order'[o].reversal = "charged_back"]_vars
    BY NextIInv DEF Good, NothingLost, Later
  <1> QED
    BY <1>1, InitIInv, PTL DEF Spec, SettledStaysSettled

-----------------------------------------------------------------------------
\* The types, without the assumption

LEMMA AtTyped ==
    ASSUME OrdersTyped, NEW p \in Procs
    PROVE  /\ proc[p].order \in Orders /\ proc[p].event \in Events
           /\ order[proc[p].order] \in OrderRow
           /\ sent[proc[p].order][proc[p].event] \in 0 .. Paid
  BY DEF OrdersTyped, ProcRow

\* A step of a process that writes at most its order.
LEMMA ProcTyped ==
    ASSUME OrdersTyped, NEW p \in Procs, order' \in [Orders -> OrderRow],
           UNCHANGED <<sent, request>>, todo' \subseteq todo,
           \/ proc' = [proc EXCEPT ![p] = NoWork]
           \/ \E pc \in {"fulfil", "mark", "finish", "fail"} : Goto(p, pc)
    PROVE  OrdersTyped'
  <1>1. proc[p] \in ProcRow
    BY DEF OrdersTyped
  <1>2. \A pc \in {"fulfil", "mark", "finish", "fail"} : [proc[p] EXCEPT !.pc = pc] \in ProcRow
    BY <1>1 DEF ProcRow
  <1>3. PICK row \in ProcRow : proc' = [proc EXCEPT ![p] = row]
    <2>1. ASSUME NEW pc \in {"fulfil", "mark", "finish", "fail"}, Goto(p, pc)
          PROVE  proc' = [proc EXCEPT ![p] = [proc[p] EXCEPT !.pc = pc]]
      BY <2>1 DEF Goto
    <2> QED
      BY <1>2, <2>1, NoWorkRow
  <1>4. proc' \in [Procs -> ProcRow]
    BY <1>3 DEF OrdersTyped
  <1> QED
    BY <1>4 DEF OrdersTyped

\* What is reversed of an order goes up to a target, which the grant bounds.
LEMMA ReversedTyped ==
    ASSUME NEW a, NEW o, NEW row \in OrderRow, NEW total \in 0 .. Paid, NEW id
    PROVE  reverseGrant(a, o, row, total, id).reversed \in 0 .. Granted
  <1>1. computeReversalTarget(total) \in 0 .. Granted /\ row.reversed \in 0 .. Granted
    BY TargetType DEF OrderRow
  <1> QED
    BY <1>1, BillingAssumption DEF reverseGrant, Most

RecordedTotal(row) ==
    IF row.reversal = "partially_refunded" THEN Least(row.refunded, Paid) ELSE Paid

Recorded(a, o, row) == reverseGrant(a, o, row, RecordedTotal(row), FULFILLMENT_REVERSAL_ID)

\* A recorded reversal is applied under its own id, or there is nothing to apply.
LEMMA RecordedTyped ==
    ASSUME NEW a, NEW o, NEW row \in OrderRow
    PROVE  /\ RecordedTotal(row) \in 0 .. Paid
           /\ \/ /\ applyRecordedReversal(a, o, row).account = a
                 /\ applyRecordedReversal(a, o, row).reversed = row.reversed
                 /\ applyRecordedReversal(a, o, row).rows = {}
              \/ /\ ~HasRow(<<"reversal", o, FULFILLMENT_REVERSAL_ID>>)
                 /\ applyRecordedReversal(a, o, row).account = Recorded(a, o, row).account
                 /\ applyRecordedReversal(a, o, row).reversed = Recorded(a, o, row).reversed
                 /\ applyRecordedReversal(a, o, row).rows = {Recorded(a, o, row).row}
  <1>1. RecordedTotal(row) \in 0 .. Paid
    BY BillingAssumption DEF RecordedTotal, Least, OrderRow
  <1>2. CASE row.reversal = "none" \/ HasRow(<<"reversal", o, FULFILLMENT_REVERSAL_ID>>)
    BY <1>1, <1>2 DEF applyRecordedReversal
  <1>3. CASE ~(row.reversal = "none" \/ HasRow(<<"reversal", o, FULFILLMENT_REVERSAL_ID>>))
    <2>1. applyRecordedReversal(a, o, row) =
            [account |-> Recorded(a, o, row).account,
             reversed |-> Recorded(a, o, row).reversed,
             rows |-> {Recorded(a, o, row).row}]
      BY <1>3 DEF applyRecordedReversal, Recorded, RecordedTotal
    <2> QED
      BY <1>1, <1>3, <2>1
  <1> QED
    BY <1>2, <1>3

LEMMA FulfilTyped ==
    ASSUME OrdersTyped, NEW p \in Procs, fulfillOrder(p)
    PROVE  OrdersTyped'
  <1>0. PICK o \in Orders : proc[p].order = o /\ order[o] \in OrderRow
    BY AtTyped
  <1>1. /\ UNCHANGED <<sent, request, todo>>
        /\ proc' = [proc EXCEPT ![p] = NoWork] \/ Goto(p, "finish")
    BY DEF fulfillOrder, Leave
  <1>2. order' \in [Orders -> OrderRow]
    <2>1. CASE UNCHANGED order
      BY <2>1 DEF OrdersTyped
    <2>2. CASE fulfillTopupOrder(o)
      <3>1. PICK a : order' = [order EXCEPT ![o] =
                        [order[o] EXCEPT !.status = "fulfilled", !.paid = TRUE,
                           !.reversed = applyRecordedReversal(a, o, order[o]).reversed]]
        BY <2>2 DEF fulfillTopupOrder, updateOrderLocked
      <3>2. applyRecordedReversal(a, o, order[o]).reversed \in 0 .. Granted
        <4>1. order[o].reversed \in 0 .. Granted
          BY <1>0 DEF OrderRow
        <4>r. PICK row \in OrderRow : row = order[o]
          BY <1>0
        <4>2. Recorded(a, o, row).reversed \in 0 .. Granted
          BY RecordedTyped, ReversedTyped DEF Recorded
        <4>3. \/ applyRecordedReversal(a, o, row).reversed = row.reversed
              \/ applyRecordedReversal(a, o, row).reversed = Recorded(a, o, row).reversed
          BY RecordedTyped
        <4> QED
          BY <4>r, <4>1, <4>2, <4>3
      <3>3. ASSUME NEW n \in 0 .. Granted
            PROVE  [order[o] EXCEPT !.status = "fulfilled", !.paid = TRUE, !.reversed = n]
                   \in OrderRow
        BY <1>0 DEF OrderRow, OrderStatuses
      <3> QED
        BY <3>1, <3>2, <3>3 DEF OrdersTyped
    <2> QED
      BY <1>0, <2>1, <2>2 DEF fulfillOrder
  <1> QED
    BY <1>1, <1>2, ProcTyped

LEMMA MarkTyped ==
    ASSUME OrdersTyped, NEW p \in Procs, markFulfillmentFailed(p)
    PROVE  OrdersTyped'
  <1>0. PICK o \in Orders : proc[p].order = o /\ order[o] \in OrderRow
    BY AtTyped
  <1>1. /\ UNCHANGED <<sent, request, todo>>
        /\ proc' = [proc EXCEPT ![p] = NoWork] \/ Goto(p, "fail")
    BY DEF markFulfillmentFailed, Leave
  <1>2. failedFulfillment(order[o]) \in OrderRow
    BY <1>0 DEF failedFulfillment, OrderRow, OrderStatuses
  <1>3. order' = order \/ order' = [order EXCEPT ![o] = failedFulfillment(order[o])]
    BY <1>0 DEF markFulfillmentFailed, updateOrderLocked
  <1>4. order' \in [Orders -> OrderRow]
    BY <1>2, <1>3 DEF OrdersTyped
  <1> QED
    BY <1>1, <1>4, ProcTyped

LEMMA ReversalTyped ==
    ASSUME OrdersTyped, NEW p \in Handlers, reversePayment(p)
    PROVE  OrdersTyped'
  <1>0. p \in Procs
    BY DEF Procs
  <1>1. PICK o \in Orders, n \in Events :
           /\ proc[p].order = o /\ proc[p].event = n
           /\ order[o] \in OrderRow /\ sent[o][n] \in 0 .. Paid
    BY <1>0, AtTyped
  <1>2. UNCHANGED <<sent, request, todo>> /\ \E pc \in {"finish", "fail"} : Goto(p, pc)
    BY DEF reversePayment
  <1>3. order' \in [Orders -> OrderRow]
    <2>1. CASE UNCHANGED order
      BY <2>1 DEF OrdersTyped
    <2>2. CASE applyPaymentReversal(o, n) /\ ~HasRow(<<"reversal", o, n>>)
      <3> DEFINE total == nextRefundedTotal(order[o], o, n)
                 status == nextReversalStatus(total, n, order[o].reversal)
                 refunded == Most(order[o].refunded, total)
                 applied == reverseGrant(syncCycle(account), o, order[o], total, n)
                 changed == [order[o] EXCEPT !.refunded = refunded, !.reversal = status]
      <3>1. total \in 0 .. Paid
        BY <1>1, RefundedTotal
      <3>2. status \in ReversalStatuses
        BY DEF nextReversalStatus, ReversalStatuses
      <3>3. refunded \in 0 .. Paid
        BY <1>1, <3>1 DEF Most, OrderRow
      <3>4. applied.reversed \in 0 .. Granted
        BY <1>1, <3>1, ReversedTyped
      <3>5. \/ order' = [order EXCEPT ![o] = changed]
            \/ order' = [order EXCEPT ![o] = [changed EXCEPT !.reversed = applied.reversed]]
        BY <2>2 DEF applyPaymentReversal, updateOrderLocked
      <3> HIDE DEF total, status, refunded, applied
      <3>6. changed \in OrderRow /\ [changed EXCEPT !.reversed = applied.reversed] \in OrderRow
        BY <1>1, <3>2, <3>3, <3>4 DEF OrderRow
      <3> HIDE DEF changed
      <3> QED
        BY <3>5, <3>6 DEF OrdersTyped
    <2> QED
      BY <1>1, <2>1, <2>2 DEF reversePayment, applyPaymentReversal
  <1> QED
    BY <1>0, <1>2, <1>3, ProcTyped

LEMMA CheckoutTyped ==
    ASSUME OrdersTyped, NEW c \in Requests,
           \/ \E o \in Orders : createTopupCheckout(c, o)
           \/ checkoutCreated(c) \/ checkoutFailed(c)
    PROVE  OrdersTyped'
  <1>1. /\ [NoOrder EXCEPT !.status = "pending"] \in OrderRow
        /\ \A o \in Orders :
              /\ [order[o] EXCEPT !.status = "checkout_created", !.paid = FALSE, !.url = TRUE]
                 \in OrderRow
              /\ [order[o] EXCEPT !.status = "payment_failed", !.paid = FALSE] \in OrderRow
    <2>1. (\A o \in Orders : order[o] \in OrderRow) /\ NoOrder \in OrderRow
      BY BillingAssumption DEF OrdersTyped, NoOrder, OrderRow, OrderStatuses, ReversalStatuses
    <2> QED
      BY <2>1 DEF OrderRow, OrderStatuses
  <1>2. \/ order' = order
        \/ \E o \in Orders, row \in OrderRow : order' = [order EXCEPT ![o] = row]
    <2>1. CASE \E o \in Orders : createTopupCheckout(c, o)
      BY <1>1, <2>1 DEF createTopupCheckout, updateOrderLocked
    <2>2. CASE checkoutCreated(c) \/ checkoutFailed(c)
      BY <1>1, <2>2 DEF checkoutCreated, checkoutFailed, updateOrderLocked
    <2> QED
      BY <2>1, <2>2
  <1>3. order' \in [Orders -> OrderRow]
    BY <1>2 DEF OrdersTyped
  <1>4. PICK answer \in Orders \cup {"done"} : request' = [request EXCEPT ![c] = answer]
    BY DEF createTopupCheckout, checkoutCreated, checkoutFailed
  <1>5. request' \in [Requests -> {"new", "done"} \cup Orders]
    BY <1>4 DEF OrdersTyped
  <1>6. UNCHANGED <<sent, proc, todo>>
    BY DEF createTopupCheckout, checkoutCreated, checkoutFailed
  <1> QED
    BY <1>3, <1>5, <1>6 DEF OrdersTyped

LEMMA ProviderTyped ==
    ASSUME OrdersTyped, NEW o \in Orders,
           \/ ProviderTakesPayment(o) \/ ProviderChargesBack(o)
           \/ \E n \in 1 .. Paid : ProviderRefunds(o, n)
    PROVE  OrdersTyped'
  <1>0. /\ Payment \in Events /\ Chargeback \in Events /\ Paid \in 0 .. Paid
        /\ \A n \in 1 .. Paid : n \in Events
    BY BillingAssumption DEF Payment, Chargeback, Events
  <1>1. PICK n \in Events, amount \in 0 .. Paid : Emit(o, n, amount)
    <2>1. ASSUME NEW n \in 1 .. Paid, ProviderRefunds(o, n)
          PROVE  n - RefundedSoFar(o) \in 0 .. Paid /\ Emit(o, n, n - RefundedSoFar(o))
      BY <2>1, BillingAssumption DEF ProviderRefunds
    <2> QED
      BY <1>0, <2>1 DEF ProviderTakesPayment, ProviderChargesBack
  <1> QED
    BY <1>1 DEF Emit, OrdersTyped

LEMMA DeliveryTyped ==
    ASSUME OrdersTyped, DeliveryStep
    PROVE  OrdersTyped'
  <1>1. ASSUME NEW h \in Handlers, NEW o \in Orders, NEW n \in Events, receiveWebhook(h, o, n)
        PROVE  OrdersTyped'
    <2>1. PICK pc \in {"fulfil", "reverse"} :
             proc' = [proc EXCEPT ![h] = [pc |-> pc, order |-> o, event |-> n]]
      BY <1>1 DEF receiveWebhook
    <2>2. [pc |-> pc, order |-> o, event |-> n] \in ProcRow
      BY DEF ProcRow
    <2> QED
      BY <1>1, <2>1, <2>2 DEF receiveWebhook, OrdersTyped
  <1>2. CASE reconcileLists
    BY <1>2 DEF reconcileLists, Retryable, OrdersTyped
  <1>3. ASSUME NEW o \in Orders, reconcileNext(o) PROVE OrdersTyped'
    <2>1. [pc |-> "fulfil", order |-> o, event |-> Payment] \in ProcRow
      BY BillingAssumption DEF ProcRow, Payment, Events, Chargeback
    <2> QED
      BY <1>3, <2>1 DEF reconcileNext, OrdersTyped
  <1> QED
    BY <1>1, <1>2, <1>3 DEF DeliveryStep

LEMMA NextTyped == OrdersTyped /\ [Next]_vars => OrdersTyped'
  <1> SUFFICES ASSUME OrdersTyped, [Next]_vars PROVE OrdersTyped'
    OBVIOUS
  <1>0. ASSUME UNCHANGED <<order, sent, request, proc, todo>> PROVE OrdersTyped'
    BY <1>0 DEF OrdersTyped
  <1>1. order \in [Orders -> OrderRow]
    BY DEF OrdersTyped
  <1>2. ASSUME NEW p \in Procs, fulfillOrderFails(p) \/ Crash(p)
        PROVE  OrdersTyped'
    <2>1. todo' \subseteq todo
      BY <1>2 DEF fulfillOrderFails, Crash
    <2> QED
      BY <1>1, <1>2, <2>1, ProcTyped DEF fulfillOrderFails, Crash
  <1>3. ASSUME NEW h \in Handlers, finishWebhook(h) \/ failWebhook(h)
        PROVE  OrdersTyped'
    BY <1>1, <1>3, ProcTyped DEF finishWebhook, failWebhook, Procs
  <1>4. ASSUME NEW u \in Uses, NEW n \in Costs,
               meterConsume(u, n) \/ reconcileModelProviderCost(u, n)
        PROVE  OrdersTyped'
    BY <1>0, <1>4 DEF meterConsume, reconcileModelProviderCost
  <1>5. CASE CycleEnds \/ UNCHANGED vars
    BY <1>0, <1>5 DEF CycleEnds, vars
  <1>6. CASE EnvironmentStep
    BY <1>2, <1>4, <1>5, <1>6, CheckoutTyped, ProviderTyped, Zenon DEF EnvironmentStep
  <1>7. ASSUME NEW p \in Procs, ProcStep(p)
        PROVE  OrdersTyped'
    BY <1>3, <1>7, FulfilTyped, MarkTyped, ReversalTyped, Zenon DEF ProcStep
  <1> QED
    BY <1>5, <1>6, <1>7, DeliveryTyped DEF Next

-----------------------------------------------------------------------------
\* The balances

AccountRow == [monthly : Nat, addOn : Nat, cycle : 0 .. MaxCycles]
LedgerRow(r) == DOMAIN r = {"key", "delta", "short"} /\ r.delta \in Int /\ r.short \in Nat
EventMarks == {"none", "received", "failed", "processed"}

Money ==
    /\ account \in AccountRow /\ (due => account.cycle < MaxCycles)
    /\ \A r \in ledger : LedgerRow(r)
    /\ usage \in [Uses -> [pc : {"new", "used", "settled"}, monthly : Nat, addOn : Nat]]
    /\ event \in [Orders -> [Events -> EventMarks]]
    /\ due \in BOOLEAN /\ faults \in 0 .. MaxFaults

LEMMA RowType ==
    ASSUME NEW key, NEW delta \in Int, NEW short \in Nat
    PROVE  LedgerRow(Row(key, delta, short))
  BY DEF LedgerRow, Row

\* A renewal happens only below the bound.
LEMMA SyncType ==
    ASSUME Money
    PROVE  syncCycle(account) \in AccountRow /\ \A r \in syncRows(account) : LedgerRow(r)
  <1>1. syncCycle(account) \in AccountRow
    <2>1. account \in AccountRow /\ Monthly \in Nat /\ MaxCycles \in Nat
      BY BillingAssumption DEF Money
    <2>2. CASE ~due
      BY <2>1, <2>2 DEF syncCycle
    <2>3. CASE due
      <3>1. account.cycle + 1 \in 0 .. MaxCycles
        BY <2>1, <2>3 DEF Money, AccountRow
      <3>2. syncCycle(account) = [account EXCEPT !.monthly = Monthly, !.cycle = @ + 1]
        BY <2>3 DEF syncCycle
      <3> QED BY <2>1, <3>1, <3>2 DEF AccountRow
    <2> QED BY <2>2, <2>3
  <1>2. /\ LedgerRow(Row(<<"expire", account.cycle>>, -account.monthly, 0))
        /\ LedgerRow(Row(<<"cycle", account.cycle + 1>>, Monthly, 0))
    BY RowType, BillingAssumption DEF Money, AccountRow
  <1> QED BY <1>1, <1>2 DEF syncRows

\* A charge that the balance covers leaves no bucket negative, and takes from
\* the buckets exactly what it charges.
LEMMA SpendType ==
    ASSUME NEW a \in AccountRow, NEW n \in Nat, Total(a) >= n
    PROVE  /\ spendCredits(a, n) \in AccountRow
           /\ a.monthly - spendCredits(a, n).monthly \in Nat
           /\ a.addOn - spendCredits(a, n).addOn \in Nat
  <1> DEFINE m == Least(a.monthly, n)
  <1>1. a.monthly \in Nat /\ a.addOn \in Nat /\ a.monthly + a.addOn >= n
    BY DEF AccountRow, Total
  <1>2. m \in 0 .. n /\ a.monthly - m \in Nat /\ a.addOn - (n - m) \in Nat
    BY <1>1 DEF Least
  <1> HIDE DEF m
  <1>3. spendCredits(a, n) = [a EXCEPT !.monthly = @ - m, !.addOn = @ - (n - m)]
    BY DEF spendCredits, m
  <1>4. /\ spendCredits(a, n) \in AccountRow
        /\ spendCredits(a, n).monthly = a.monthly - m
        /\ spendCredits(a, n).addOn = a.addOn - (n - m)
    BY <1>1, <1>2, <1>3 DEF AccountRow
  <1> QED BY <1>1, <1>2, <1>4

\* A recovery never takes more than there is.
LEMMA ReclaimType ==
    ASSUME NEW a \in AccountRow, NEW n \in Nat
    PROVE  /\ reclaimCredits(a, n) \in AccountRow
           /\ Total(a) - Total(reclaimCredits(a, n)) \in 0 .. n
  <1> DEFINE x == Least(a.addOn, n)
             m == Least(a.monthly, n - x)
  <1>1. a.monthly \in Nat /\ a.addOn \in Nat
    BY DEF AccountRow
  <1>2. x \in 0 .. n /\ a.addOn - x \in Nat
    BY <1>1 DEF Least
  <1>3. m \in 0 .. n - x /\ a.monthly - m \in Nat
    BY <1>1, <1>2 DEF Least
  <1> HIDE DEF x, m
  <1>4. reclaimCredits(a, n) = [a EXCEPT !.addOn = @ - x, !.monthly = @ - m]
    BY DEF reclaimCredits, x, m
  <1>5. /\ reclaimCredits(a, n) \in AccountRow
        /\ reclaimCredits(a, n).addOn = a.addOn - x
        /\ reclaimCredits(a, n).monthly = a.monthly - m
    BY <1>1, <1>2, <1>3, <1>4 DEF AccountRow
  <1> QED BY <1>1, <1>2, <1>3, <1>5 DEF Total

LEMMA RefundType ==
    ASSUME NEW a \in AccountRow, NEW n \in Nat,
           NEW from \in [pc : {"new", "used", "settled"}, monthly : Nat, addOn : Nat]
    PROVE  refundConsumedCredits(a, n, from) \in AccountRow
  <1> DEFINE x == Least(from.addOn, n)
  <1>1. a.monthly \in Nat /\ a.addOn \in Nat /\ x \in 0 .. n
    BY DEF AccountRow, Least
  <1> HIDE DEF x
  <1>2. refundConsumedCredits(a, n, from) = [a EXCEPT !.addOn = @ + x, !.monthly = @ + (n - x)]
    BY DEF refundConsumedCredits, x
  <1>3. a.addOn + x \in Nat /\ a.monthly + (n - x) \in Nat
    BY <1>1
  <1> QED BY <1>2, <1>3 DEF AccountRow

\* A transaction on the member's row.
LEMMA MoveType ==
    ASSUME Money, NEW a \in AccountRow, NEW rows, \A r \in rows : LedgerRow(r),
           MoveAccount(a, rows)
    PROVE  /\ account' \in AccountRow /\ due' = FALSE
           /\ \A r \in ledger' : LedgerRow(r)
  BY SyncType DEF MoveAccount, Money

LEMMA FaultType == ASSUME Money, Fault PROVE faults' \in 0 .. MaxFaults
  BY BillingAssumption DEF Money, Fault

LEMMA UsageMoney ==
    ASSUME Money, NEW u \in Uses, NEW n \in Costs,
           meterConsume(u, n) \/ reconcileModelProviderCost(u, n)
    PROVE  Money'
  <1> DEFINE a == syncCycle(account)
  <1>0. n \in Nat /\ -n \in Int /\ a \in AccountRow
    BY SyncType, BillingAssumption
  <1>1. CASE meterConsume(u, n)
    <2> DEFINE b == spendCredits(a, n)
               used == [pc |-> "used", monthly |-> a.monthly - b.monthly,
                        addOn |-> a.addOn - b.addOn]
    <2>1. /\ Total(a) >= n /\ MoveAccount(b, {Row(<<"use", u>>, -n, 0)})
          /\ usage' = [usage EXCEPT ![u] = used] /\ UNCHANGED <<event, faults>>
      BY <1>1 DEF meterConsume
    <2>2. b \in AccountRow /\ a.monthly - b.monthly \in Nat /\ a.addOn - b.addOn \in Nat
      BY <1>0, <2>1, SpendType
    <2> HIDE DEF a, b
    <2>3. used \in [pc : {"new", "used", "settled"}, monthly : Nat, addOn : Nat]
      BY <2>2
    <2>4. account' \in AccountRow /\ due' = FALSE /\ \A r \in ledger' : LedgerRow(r)
      BY <1>0, <2>1, <2>2, MoveType, RowType
    <2> HIDE DEF used
    <2> QED BY <2>1, <2>3, <2>4 DEF Money
  <1>2. CASE reconcileModelProviderCost(u, n)
    <2> DEFINE charged == usage[u].monthly + usage[u].addOn
               b == IF n > charged THEN spendCredits(a, n - charged)
                    ELSE refundConsumedCredits(a, charged - n, usage[u])
               rows == {row \in {Row(<<"settle", u>>, charged - n, 0)} : row.delta # 0}
    <2>1. /\ n > charged => Total(a) >= n - charged
          /\ MoveAccount(b, rows)
          /\ usage' = [usage EXCEPT ![u].pc = "settled"] /\ UNCHANGED <<event, faults>>
      BY <1>2 DEF reconcileModelProviderCost
    <2>2. /\ usage[u] \in [pc : {"new", "used", "settled"}, monthly : Nat, addOn : Nat]
          /\ charged \in Nat
      BY DEF Money
    <2> HIDE DEF a, charged
    <2>3. b \in AccountRow
      <3>1. CASE n > charged
        <4>1. n - charged \in Nat /\ Total(a) >= n - charged
          BY <1>0, <2>1, <2>2, <3>1
        <4> QED BY <1>0, <3>1, <4>1, SpendType
      <3>2. CASE ~(n > charged)
        <4>1. charged - n \in Nat
          BY <1>0, <2>2, <3>2
        <4> QED BY <1>0, <2>2, <3>2, <4>1, RefundType
      <3> QED BY <3>1, <3>2
    <2>4. \A r \in rows : LedgerRow(r)
      BY <1>0, <2>2, RowType
    <2> HIDE DEF b, rows
    <2>5. account' \in AccountRow /\ due' = FALSE /\ \A r \in ledger' : LedgerRow(r)
      BY <2>1, <2>3, <2>4, MoveType
    <2>6. usage' \in [Uses -> [pc : {"new", "used", "settled"}, monthly : Nat, addOn : Nat]]
      BY <2>1 DEF Money
    <2> QED BY <2>1, <2>5, <2>6 DEF Money
  <1> QED BY <1>1, <1>2

\* What a reversal writes, from the member's row as it is or just granted.
LEMMA ReverseGrantType ==
    ASSUME NEW a \in AccountRow, NEW o, NEW row \in OrderRow, NEW total \in 0 .. Paid, NEW id
    PROVE  /\ reverseGrant(a, o, row, total, id).account \in AccountRow
           /\ LedgerRow(reverseGrant(a, o, row, total, id).row)
  <1> DEFINE units == Most(computeReversalTarget(total) - row.reversed, 0)
             b == reclaimCredits(a, units)
             recovered == Total(a) - Total(b)
  <1>1. units \in Nat
    BY TargetType, BillingAssumption DEF OrderRow, Most
  <1> HIDE DEF units
  <1>2. b \in AccountRow /\ recovered \in 0 .. units
    BY <1>1, ReclaimType
  <1> HIDE DEF b, recovered
  <1>3. -recovered \in Int /\ units - recovered \in Nat
    BY <1>1, <1>2
  <1>4. /\ reverseGrant(a, o, row, total, id).account = b
        /\ reverseGrant(a, o, row, total, id).row =
             Row(<<"reversal", o, id>>, -recovered, units - recovered)
    BY DEF reverseGrant, units, b, recovered
  <1> QED BY <1>2, <1>3, <1>4, RowType

LEMMA FulfilMoney ==
    ASSUME OrdersTyped, Money, NEW p \in Procs, fulfillOrder(p)
    PROVE  Money'
  <1>0. PICK o \in Orders : proc[p].order = o /\ order[o] \in OrderRow
    BY AtTyped
  <1>1. UNCHANGED <<usage, event, faults>>
    BY DEF fulfillOrder
  <1>2. CASE UNCHANGED <<account, ledger, due>>
    BY <1>1, <1>2 DEF Money
  <1>3. CASE fulfillTopupOrder(o)
    <2> DEFINE a == syncCycle(account)
               granted == IF grantRecorded(o) THEN a ELSE [a EXCEPT !.addOn = @ + Granted]
               applied == applyRecordedReversal(granted, o, order[o])
               rows == applied.rows \cup IF grantRecorded(o) THEN {}
                                         ELSE {Row(<<"grant", o>>, Granted, 0)}
    <2>1. MoveAccount(applied.account, rows)
      BY <1>3 DEF fulfillTopupOrder
    <2>2. granted \in AccountRow
      BY SyncType, BillingAssumption DEF AccountRow
    <2> HIDE DEF granted
    <2>3. /\ applied.account \in AccountRow
          /\ \A r \in applied.rows : LedgerRow(r)
      <3> DEFINE total == IF order[o].reversal = "partially_refunded"
                          THEN Least(order[o].refunded, Paid) ELSE Paid
      <3>1. total \in 0 .. Paid
        BY <1>0, BillingAssumption DEF Least, OrderRow
      <3> HIDE DEF total
      <3>2. \/ applied.account = granted /\ applied.rows = {}
            \/ LET done == reverseGrant(granted, o, order[o], total, FULFILLMENT_REVERSAL_ID)
               IN  applied.account = done.account /\ applied.rows = {done.row}
        BY DEF applyRecordedReversal, total
      <3> QED BY <1>0, <2>2, <3>1, <3>2, ReverseGrantType
    <2> HIDE DEF applied
    <2>4. \A r \in rows : LedgerRow(r)
      BY <2>3, RowType, BillingAssumption
    <2> HIDE DEF rows
    <2>5. account' \in AccountRow /\ due' = FALSE /\ \A r \in ledger' : LedgerRow(r)
      BY <2>1, <2>3, <2>4, MoveType
    <2> QED BY <1>1, <2>5 DEF Money
  <1> QED BY <1>0, <1>2, <1>3 DEF fulfillOrder

LEMMA ReversalMoney ==
    ASSUME OrdersTyped, Money, NEW p \in Handlers, reversePayment(p)
    PROVE  Money'
  <1>0. PICK o \in Orders, n \in Events :
           /\ proc[p].order = o /\ proc[p].event = n
           /\ order[o] \in OrderRow /\ sent[o][n] \in 0 .. Paid
    BY AtTyped DEF Procs
  <1>1. UNCHANGED <<usage, event>> /\ faults' \in 0 .. MaxFaults
    BY FaultType DEF reversePayment, Money
  <1>2. CASE UNCHANGED <<account, ledger, due>>
    BY <1>1, <1>2 DEF Money
  <1>3. CASE applyPaymentReversal(o, n) /\ ~HasRow(<<"reversal", o, n>>)
    <2> DEFINE a == syncCycle(account)
               total == nextRefundedTotal(order[o], o, n)
               applied == reverseGrant(a, o, order[o], total, n)
    <2>1. \/ MoveAccount(a, {Row(<<"reversal", o, n>>, 0, 0)})
          \/ MoveAccount(applied.account, {applied.row})
      BY <1>3 DEF applyPaymentReversal
    <2>2. a \in AccountRow /\ total \in 0 .. Paid
      BY <1>0, SyncType, RefundedTotal
    <2> HIDE DEF a, total
    <2>3. applied.account \in AccountRow /\ LedgerRow(applied.row)
      BY <1>0, <2>2, ReverseGrantType
    <2> HIDE DEF applied
    <2>4. CASE MoveAccount(a, {Row(<<"reversal", o, n>>, 0, 0)})
      <3>1. LedgerRow(Row(<<"reversal", o, n>>, 0, 0))
        BY RowType
      <3>2. account' \in AccountRow /\ due' = FALSE /\ \A r \in ledger' : LedgerRow(r)
        BY <2>2, <2>4, <3>1, MoveType
      <3> QED BY <1>1, <3>2 DEF Money
    <2>5. CASE MoveAccount(applied.account, {applied.row})
      <3>1. account' \in AccountRow /\ due' = FALSE /\ \A r \in ledger' : LedgerRow(r)
        BY <2>3, <2>5, MoveType
      <3> QED BY <1>1, <3>1 DEF Money
    <2> QED BY <2>1, <2>4, <2>5
  <1>4. CASE applyPaymentReversal(o, n) /\ HasRow(<<"reversal", o, n>>)
    BY <1>2, <1>4 DEF applyPaymentReversal
  <1> QED BY <1>0, <1>2, <1>3, <1>4 DEF reversePayment

LEMMA MarkMoney ==
    ASSUME OrdersTyped, Money, NEW h \in Handlers, finishWebhook(h) \/ failWebhook(h)
    PROVE  Money'
  <1>0. proc[h].order \in Orders /\ proc[h].event \in Events
    BY AtTyped DEF Procs
  <1>1. UNCHANGED <<account, ledger, usage, due>> /\ faults' \in 0 .. MaxFaults
    BY FaultType DEF finishWebhook, failWebhook, Money
  <1>2. event' = event \/ MarkEvent(h, "processed") \/ MarkEvent(h, "failed")
    BY DEF finishWebhook, failWebhook, failedStatus
  <1>3. event' \in [Orders -> [Events -> EventMarks]]
    BY <1>0, <1>2 DEF MarkEvent, Money, EventMarks
  <1> QED BY <1>1, <1>3 DEF Money

LEMMA NextMoney == OrdersTyped /\ Money /\ [Next]_vars => Money'
  <1> SUFFICES ASSUME OrdersTyped, Money, [Next]_vars PROVE Money'
    OBVIOUS
  <1>k. ASSUME UNCHANGED <<account, ledger, usage, event, due>>, faults' \in 0 .. MaxFaults
        PROVE  Money'
    BY <1>k DEF Money
  <1>0. faults \in 0 .. MaxFaults
    BY DEF Money
  <1>1. CASE CycleEnds
    BY <1>1, BillingAssumption DEF CycleEnds, Money, AccountRow
  <1>2. ASSUME NEW u \in Uses, NEW n \in Costs,
               meterConsume(u, n) \/ reconcileModelProviderCost(u, n)
        PROVE  Money'
    BY <1>2, UsageMoney
  <1>3. ASSUME NEW c \in Requests,
               \/ \E o \in Orders : createTopupCheckout(c, o)
               \/ checkoutCreated(c) \/ checkoutFailed(c)
        PROVE  Money'
    BY <1>0, <1>3, <1>k, FaultType DEF createTopupCheckout, checkoutCreated, checkoutFailed
  <1>4. ASSUME NEW o \in Orders,
               \/ ProviderTakesPayment(o) \/ ProviderChargesBack(o)
               \/ \E n \in 1 .. Paid : ProviderRefunds(o, n)
        PROVE  Money'
    BY <1>0, <1>4, <1>k
       DEF ProviderTakesPayment, ProviderChargesBack, ProviderRefunds, Emit
  <1>5. ASSUME NEW p \in Procs, fulfillOrderFails(p) \/ Crash(p) \/ markFulfillmentFailed(p)
        PROVE  Money'
    BY <1>0, <1>5, <1>k, FaultType DEF fulfillOrderFails, Crash, markFulfillmentFailed
  <1>6. ASSUME NEW p \in Procs, fulfillOrder(p) PROVE Money'
    BY <1>6, FulfilMoney
  <1>7. ASSUME NEW p \in Handlers, reversePayment(p) \/ finishWebhook(p) \/ failWebhook(p)
        PROVE  Money'
    BY <1>7, ReversalMoney, MarkMoney
  <1>8. ASSUME NEW h \in Handlers, NEW o \in Orders, NEW n \in Events, receiveWebhook(h, o, n)
        PROVE  Money'
    BY <1>8 DEF receiveWebhook, Money, EventMarks
  <1>9. CASE reconcileLists \/ \E o \in Orders : reconcileNext(o)
    BY <1>0, <1>9, <1>k DEF reconcileLists, reconcileNext
  <1>10. CASE UNCHANGED vars
    BY <1>0, <1>10, <1>k DEF vars
  <1> QED
    BY <1>1, <1>2, <1>3, <1>4, <1>5, <1>6, <1>7, <1>8, <1>9, <1>10, Zenon
       DEF Next, DeliveryStep, EnvironmentStep, ProcStep

LEMMA InitMoney == Init => Money
  <1> SUFFICES ASSUME Init PROVE Money
    OBVIOUS
  <1>1. \A r \in ledger : LedgerRow(r)
    BY RowType, BillingAssumption DEF Init
  <1>2. account \in AccountRow
    BY BillingAssumption DEF Init, AccountRow
  <1>3. /\ usage \in [Uses -> [pc : {"new", "used", "settled"}, monthly : Nat, addOn : Nat]]
        /\ event \in [Orders -> [Events -> EventMarks]]
    BY DEF Init, EventMarks
  <1>4. due = FALSE /\ faults \in 0 .. MaxFaults
    BY BillingAssumption DEF Init
  <1> QED BY <1>1, <1>2, <1>3, <1>4 DEF Money

\* Whatever usage, settlements, renewals, grants and reversals interleave, no
\* bucket of the balance ever goes below zero and no row takes back more than
\* the order granted (service-helpers.ts, payment-reversal.ts).
THEOREM NoNegativeBalance == Spec => []TypeOK
  <1>1. OrdersTyped /\ Money => TypeOK
    BY DEF OrdersTyped, OrderRow, ProcRow, Money, AccountRow, LedgerRow, EventMarks, TypeOK
  <1>2. Init => OrdersTyped
    BY InitIInv DEF IInv
  <1> QED
    BY <1>1, <1>2, NextTyped, InitMoney, NextMoney, PTL DEF Spec

-----------------------------------------------------------------------------
\* The ledger

GoodLedger(L) ==
    /\ IsFiniteSet(L) /\ \A r \in L : LedgerRow(r)
    /\ \A r, s \in L : r.key = s.key => r = s

Balance(L) == MapThenSumSet(Delta, L)
ReversalsOf(L, o) == {r \in L : r.key[1] = "reversal" /\ r.key[2] = o}
TakenOf(L, o) == MapThenSumSet(Reversed, ReversalsOf(L, o))

\* Which keys a cycle and the state of the usages have used.
KeysKnown(L, cycle, uses) ==
    \A r \in L :
        /\ r.key[1] = "expire" => r.key[2] \in 0 .. cycle - 1
        /\ r.key[1] = "cycle" => r.key[2] \in 0 .. cycle
        /\ r.key[1] = "use" => r.key[2] \in Uses /\ uses[r.key[2]].pc # "new"
        /\ r.key[1] = "settle" => r.key[2] \in Uses /\ uses[r.key[2]].pc = "settled"

\* The ledger explains the balance and every order.  The keys keep a row from being
\* taken for one that exists, in which case it would move the balance unrecorded.
Explained ==
    /\ GoodLedger(ledger) /\ KeysKnown(ledger, account.cycle, usage)
    /\ Total(account) = Balance(ledger)
    /\ \A o \in Orders : /\ order[o].reversed = TakenOf(ledger, o)
                         /\ order[o].status = "none" => order[o].reversed = 0

LEMMA SumsTyped ==
    ASSUME NEW L, GoodLedger(L)
    PROVE  Balance(L) \in Int /\ \A o : TakenOf(L, o) \in Int
  <1>1. ASSUME NEW S, IsFiniteSet(S), NEW f, \A r \in S : f[r] \in Int
        PROVE  \E g : Sums(g, f, S) /\ g[S] \in Int
    <2>1. PICK g : Sums(g, f, S)
      BY <1>1, SumsExist
    <2>2. S \in SUBSET S
      OBVIOUS
    <2>3. g[S] \in Int
      BY <1>1, <2>1, <2>2, SumsTakeAny
    <2> QED
      BY <2>1, <2>3
  <1>2. Balance(L) \in Int
    <2>1. PICK f : f = [r \in L |-> Delta(r)]
      OBVIOUS
    <2>2. \A r \in L : f[r] = Delta(r) /\ f[r] \in Int
      BY <2>1 DEF GoodLedger, LedgerRow, Delta
    <2>3. IsFiniteSet(L)
      BY DEF GoodLedger
    <2>4. PICK g : Sums(g, f, L) /\ g[L] \in Int
      BY <1>1, <2>2, <2>3
    <2>5. MapThenSumSet(Delta, L) = g[L]
      BY <2>2, <2>3, <2>4, DeltaIsSum
    <2> QED
      BY <2>4, <2>5 DEF Balance
  <1>3. ASSUME NEW o PROVE TakenOf(L, o) \in Int
    <2> DEFINE S == ReversalsOf(L, o)
    <2>0. S \subseteq L
      BY DEF ReversalsOf
    <2>1. PICK f : f = [r \in S |-> Reversed(r)]
      OBVIOUS
    <2>2. \A r \in S : f[r] = Reversed(r) /\ f[r] \in Int
      BY <2>0, <2>1 DEF GoodLedger, LedgerRow, Reversed
    <2>3. IsFiniteSet(S)
      BY <2>0, FS_Subset DEF GoodLedger
    <2> HIDE DEF S
    <2>4. PICK g : Sums(g, f, S) /\ g[S] \in Int
      BY <1>1, <2>2, <2>3
    <2>5. MapThenSumSet(Reversed, S) = g[S]
      BY <2>2, <2>3, <2>4, ReversedIsSum
    <2> QED
      BY <2>4, <2>5 DEF TakenOf, S
  <1> QED
    BY <1>2, <1>3

\* A row under a new key.
LEMMA PostRow ==
    ASSUME NEW L, GoodLedger(L), NEW r, LedgerRow(r), \A s \in L : s.key # r.key
    PROVE  /\ GoodLedger(L \cup {r})
           /\ Balance(L \cup {r}) = Balance(L) + r.delta
           /\ \A o : TakenOf(L \cup {r}, o) =
                       IF r.key[1] = "reversal" /\ r.key[2] = o
                       THEN TakenOf(L, o) + (r.short - r.delta) ELSE TakenOf(L, o)
  <1>1. IsFiniteSet(L) /\ r \notin L /\ \A s \in L \cup {r} : LedgerRow(s)
    BY DEF GoodLedger
  <1>2. GoodLedger(L \cup {r})
    BY <1>1, FS_AddElement DEF GoodLedger
  <1>3. Balance(L \cup {r}) = Balance(L) + r.delta
    <2>1. \A s \in L \cup {r} : Delta(s) \in Int
      BY <1>1 DEF LedgerRow, Delta
    <2>2. MapThenSumSet(Delta, L \cup {r}) = MapThenSumSet(Delta, L) + Delta(r)
      BY <1>1, <2>1, DeltaAdds
    <2> QED
      BY <2>2 DEF Balance, Delta
  <1>4. ASSUME NEW o
        PROVE  TakenOf(L \cup {r}, o) = IF r.key[1] = "reversal" /\ r.key[2] = o
                                       THEN TakenOf(L, o) + (r.short - r.delta) ELSE TakenOf(L, o)
    <2> DEFINE S == ReversalsOf(L, o)
    <2>1. CASE ~(r.key[1] = "reversal" /\ r.key[2] = o)
      <3>1. ReversalsOf(L \cup {r}, o) = S
        BY <2>1 DEF ReversalsOf
      <3> QED
        BY <2>1, <3>1 DEF TakenOf
    <2>2. CASE r.key[1] = "reversal" /\ r.key[2] = o
      <3>1. ReversalsOf(L \cup {r}, o) = S \cup {r}
        BY <2>2 DEF ReversalsOf
      <3>2. S \subseteq L /\ r \notin S
        BY <1>1 DEF ReversalsOf
      <3>3. IsFiniteSet(S)
        BY <1>1, <3>2, FS_Subset
      <3>4. \A s \in S \cup {r} : Reversed(s) \in Int
        BY <1>1, <3>2 DEF LedgerRow, Reversed
      <3> HIDE DEF S
      <3>5. MapThenSumSet(Reversed, S \cup {r}) = MapThenSumSet(Reversed, S) + Reversed(r)
        BY <3>2, <3>3, <3>4, ReversedAdds
      <3> QED
        BY <2>2, <3>1, <3>5 DEF TakenOf, Reversed, S
    <2> QED
      BY <2>1, <2>2
  <1> QED
    BY <1>2, <1>3, <1>4

\* A row that is written only if it changes something.
LEMMA PostChange ==
    ASSUME NEW L, GoodLedger(L), NEW r, LedgerRow(r), \A s \in L : s.key # r.key,
           r.key[1] # "reversal",
           NEW M, M = L \cup {row \in {r} : row.delta # 0}
    PROVE  /\ GoodLedger(M)
           /\ Balance(M) = Balance(L) + r.delta
           /\ \A o : TakenOf(M, o) = TakenOf(L, o)
           /\ \A s \in M : s \in L \/ s = r
  <1>1. CASE r.delta = 0
    <2>1. M = L
      BY <1>1
    <2>2. PICK n \in Int : n = Balance(L)
      BY SumsTyped
    <2>3. n + r.delta = n
      BY <1>1
    <2>4. Balance(M) = n
      BY <2>1, <2>2
    <2>5. Balance(M) = Balance(L) + r.delta
      BY <2>2, <2>3, <2>4, Zenon
    <2>6. \A s \in M : s \in L \/ s = r
      BY <2>1, Zenon
    <2>7. GoodLedger(M) /\ \A o : TakenOf(M, o) = TakenOf(L, o)
      BY <2>1, Zenon
    <2> QED
      BY <2>5, <2>6, <2>7, Zenon
  <1>2. CASE r.delta # 0
    <2>1. M = L \cup {r}
      BY <1>2
    <2>2. /\ GoodLedger(L \cup {r}) /\ Balance(L \cup {r}) = Balance(L) + r.delta
          /\ \A o : TakenOf(L \cup {r}, o) = TakenOf(L, o)
      BY PostRow
    <2>3. /\ GoodLedger(M) /\ Balance(M) = Balance(L) + r.delta
          /\ \A o : TakenOf(M, o) = TakenOf(L, o)
      BY <2>1, <2>2, Zenon
    <2>4. \A s \in M : s \in L \/ s = r
      BY <2>1
    <2> QED
      BY <2>3, <2>4, Zenon
  <1> QED
    BY <1>1, <1>2

\* The ledger once the cycle is renewed.
Synced == ledger \cup syncRows(account)

LEMMA SyncPosts ==
    ASSUME Money, Explained
    PROVE  /\ GoodLedger(Synced)
           /\ Balance(Synced) = Total(syncCycle(account))
           /\ \A o : TakenOf(Synced, o) = TakenOf(ledger, o)
           /\ KeysKnown(Synced, syncCycle(account).cycle, usage)
           /\ \A r \in Synced : r \in ledger \/ r.key[1] \in {"expire", "cycle"}
  <1> DEFINE a == account
             expire == Row(<<"expire", a.cycle>>, -a.monthly, 0)
             cycle == Row(<<"cycle", a.cycle + 1>>, Monthly, 0)
             L == ledger \cup {row \in {expire} : row.delta # 0}
             M == L \cup {row \in {cycle} : row.delta # 0}
  <1>0. /\ a.monthly \in Nat /\ a.addOn \in Nat /\ a.cycle \in Nat /\ Monthly \in Nat
        /\ a \in AccountRow
    BY BillingAssumption DEF Money, AccountRow
  <1>1. CASE ~due
    <2>1. Synced = ledger /\ syncCycle(account) = account
      BY <1>1 DEF Synced, syncRows, syncCycle
    <2> QED
      BY <2>1 DEF Explained
  <1>2. CASE due
    <2>1. /\ LedgerRow(expire) /\ expire.key = <<"expire", a.cycle>>
          /\ expire.delta = -a.monthly
      BY <1>0, RowType DEF Row
    <2>2. LedgerRow(cycle) /\ cycle.key = <<"cycle", a.cycle + 1>> /\ cycle.delta = Monthly
      BY <1>0, RowType DEF Row
    <2>3. M = Synced
      BY <1>2 DEF Synced, syncRows
    <2>4. syncCycle(a) = [a EXCEPT !.monthly = Monthly, !.cycle = @ + 1]
      BY <1>2 DEF syncCycle
    <2>5. /\ syncCycle(a).cycle = a.cycle + 1
          /\ Total(syncCycle(a)) = Monthly + a.addOn /\ Total(a) = a.monthly + a.addOn
      BY <1>0, <2>4 DEF Total, AccountRow
    <2> HIDE DEF expire, cycle
    <2>6. \A s \in ledger : s.key # expire.key /\ s.key # cycle.key
      <3> SUFFICES ASSUME NEW s \in ledger
                   PROVE  s.key # expire.key /\ s.key # cycle.key
        OBVIOUS
      <3>1. /\ s.key[1] = "expire" => s.key[2] \in 0 .. a.cycle - 1
            /\ s.key[1] = "cycle" => s.key[2] \in 0 .. a.cycle
        BY DEF Explained, KeysKnown
      <3> QED
        BY <1>0, <2>1, <2>2, <3>1
    <2>7. /\ GoodLedger(L) /\ Balance(L) = Balance(ledger) + expire.delta
          /\ \A o : TakenOf(L, o) = TakenOf(ledger, o)
          /\ \A s \in L : s \in ledger \/ s = expire
      <3>1. expire.key[1] # "reversal"
        BY <2>1
      <3>2. GoodLedger(ledger)
        BY DEF Explained
      <3> HIDE DEF a
      <3> QED
        BY <2>1, <2>6, <3>1, <3>2, PostChange
    <2> HIDE DEF L
    <2>8. \A s \in L : s.key # cycle.key
      BY <2>1, <2>2, <2>6, <2>7
    <2>9. /\ GoodLedger(M) /\ Balance(M) = Balance(L) + cycle.delta
          /\ \A o : TakenOf(M, o) = TakenOf(L, o)
          /\ \A s \in M : s \in L \/ s = cycle
      <3>1. cycle.key[1] # "reversal"
        BY <2>2
      <3> QED
        BY <2>2, <2>7, <2>8, <3>1, PostChange
    <2> HIDE DEF M
    <2>10. Balance(M) = Total(syncCycle(a))
      <3>1. PICK m, n, k : m = Balance(ledger) /\ n = Balance(L) /\ k = Balance(M)
        OBVIOUS
      <3>2. m = a.monthly + a.addOn
        BY <2>5, <3>1 DEF Explained
      <3>3. n = m + (-a.monthly)
        BY <2>1, <2>7, <3>1, Zenon
      <3>4. k = n + Monthly
        BY <2>2, <2>9, <3>1, Zenon
      <3>5. k = Monthly + a.addOn
        BY <1>0, <3>2, <3>3, <3>4
      <3> QED
        BY <2>5, <3>1, <3>5, Zenon
    <2>11. \A s \in M : s \in ledger \/ s = expire \/ s = cycle
      BY <2>7, <2>9
    <2>12. KeysKnown(M, syncCycle(a).cycle, usage)
      <3> SUFFICES ASSUME NEW s \in M
                   PROVE  /\ s.key[1] = "expire" => s.key[2] \in 0 .. syncCycle(a).cycle - 1
                          /\ s.key[1] = "cycle" => s.key[2] \in 0 .. syncCycle(a).cycle
                          /\ s.key[1] = "use" =>
                                s.key[2] \in Uses /\ usage[s.key[2]].pc # "new"
                          /\ s.key[1] = "settle" =>
                                s.key[2] \in Uses /\ usage[s.key[2]].pc = "settled"
        BY DEF KeysKnown
      <3>1. CASE s \in ledger
        <4>1. /\ s.key[1] = "expire" => s.key[2] \in 0 .. a.cycle - 1
              /\ s.key[1] = "cycle" => s.key[2] \in 0 .. a.cycle
              /\ s.key[1] = "use" => s.key[2] \in Uses /\ usage[s.key[2]].pc # "new"
              /\ s.key[1] = "settle" => s.key[2] \in Uses /\ usage[s.key[2]].pc = "settled"
          BY <3>1 DEF Explained, KeysKnown
        <4> QED
          BY <1>0, <2>5, <4>1
      <3>2. CASE s = expire \/ s = cycle
        BY <1>0, <2>1, <2>2, <2>5, <3>2
      <3> QED
        BY <2>11, <3>1, <3>2
    <2>13. \A s \in M : s \in ledger \/ s.key[1] \in {"expire", "cycle"}
      BY <2>1, <2>2, <2>11
    <2>14. \A o : TakenOf(M, o) = TakenOf(ledger, o)
      BY <2>7, <2>9
    <2> QED
      BY <2>3, <2>9, <2>10, <2>12, <2>13, <2>14, Zenon
  <1> QED
    BY <1>1, <1>2
\* A transaction leaves the rows of the renewal and its own.
LEMMA MoveLedger ==
    ASSUME NEW a, NEW rows, MoveAccount(a, rows)
    PROVE  account' = a /\ ledger' = Synced \cup rows
  BY DEF MoveAccount, Synced

LEMMA StillFresh ==
    ASSUME Money, Explained, NEW key, key[1] \notin {"expire", "cycle"}, ~HasRow(key)
    PROVE  \A s \in Synced : s.key # key
  <1>1. \A s \in Synced : s \in ledger \/ s.key[1] \in {"expire", "cycle"}
    BY SyncPosts
  <1> QED
    BY <1>1 DEF HasRow

LEMMA KeysAdd ==
    ASSUME NEW L, NEW cycle, NEW uses, KeysKnown(L, cycle, uses),
           NEW r, r.key[1] \in {"grant", "reversal"}
    PROVE  KeysKnown(L \cup {r}, cycle, uses)
  BY DEF KeysKnown

\* A charge leaves what it charged out of the balance.
LEMMA SpendTotal ==
    ASSUME NEW a \in AccountRow, NEW n \in Nat
    PROVE  /\ Total(spendCredits(a, n)) = Total(a) - n
           /\ spendCredits(a, n).cycle = a.cycle
  <1> DEFINE m == Least(a.monthly, n)
  <1>1. a.monthly \in Nat /\ a.addOn \in Nat /\ m \in Nat
    BY DEF AccountRow, Least
  <1> HIDE DEF m
  <1>2. spendCredits(a, n) = [a EXCEPT !.monthly = @ - m, !.addOn = @ - (n - m)]
    BY DEF spendCredits, m
  <1>3. /\ spendCredits(a, n).monthly = a.monthly - m
        /\ spendCredits(a, n).addOn = a.addOn - (n - m)
        /\ spendCredits(a, n).cycle = a.cycle
    BY <1>2 DEF AccountRow
  <1> QED
    BY <1>1, <1>3 DEF Total

\* A correction gives back all of it, whichever bucket it came from.
LEMMA RefundTotal ==
    ASSUME NEW a \in AccountRow, NEW n \in Nat, NEW from, from.addOn \in Nat
    PROVE  /\ Total(refundConsumedCredits(a, n, from)) = Total(a) + n
           /\ refundConsumedCredits(a, n, from).cycle = a.cycle
  <1> DEFINE x == Least(from.addOn, n)
  <1>1. a.monthly \in Nat /\ a.addOn \in Nat /\ x \in Nat
    BY DEF AccountRow, Least
  <1> HIDE DEF x
  <1>2. refundConsumedCredits(a, n, from) = [a EXCEPT !.addOn = @ + x, !.monthly = @ + (n - x)]
    BY DEF refundConsumedCredits, x
  <1>3. /\ refundConsumedCredits(a, n, from).addOn = a.addOn + x
        /\ refundConsumedCredits(a, n, from).monthly = a.monthly + (n - x)
        /\ refundConsumedCredits(a, n, from).cycle = a.cycle
    BY <1>2 DEF AccountRow
  <1> QED
    BY <1>1, <1>3 DEF Total

\* A reversal writes the row of what it took and could not take.
LEMMA ReversalRow ==
    ASSUME NEW a \in AccountRow, NEW o, NEW row \in OrderRow, NEW total \in 0 .. Paid, NEW id,
           NEW done, done = reverseGrant(a, o, row, total, id)
    PROVE  /\ done.account.cycle = a.cycle
           /\ done.row.key = <<"reversal", o, id>> /\ LedgerRow(done.row)
           /\ Total(done.account) = Total(a) + done.row.delta
           /\ done.reversed = row.reversed + (done.row.short - done.row.delta)
  <1> DEFINE units == Most(computeReversalTarget(total) - row.reversed, 0)
             b == reclaimCredits(a, units)
             recovered == Total(a) - Total(b)
  <1>1. units \in Nat /\ row.reversed \in Nat
    BY TargetType, BillingAssumption DEF OrderRow, Most
  <1> HIDE DEF units
  <1>2. b \in AccountRow /\ recovered \in 0 .. units
    BY <1>1, ReclaimType
  <1>3. b.cycle = a.cycle
    BY DEF reclaimCredits, AccountRow
  <1>4. Total(a) \in Int /\ Total(b) \in Int
    <2>1. \A c \in AccountRow : Total(c) \in Int
      BY DEF AccountRow, Total
    <2> QED
      BY <1>2, <2>1
  <1>5. Total(b) = Total(a) + (-recovered)
    BY <1>4
  <1>6. LedgerRow(done.row)
    BY ReverseGrantType
  <1> HIDE DEF b, recovered
  <1>7. /\ done.account = b /\ done.reversed = row.reversed + units
        /\ done.row = Row(<<"reversal", o, id>>, -recovered, units - recovered)
    BY DEF reverseGrant, units, b, recovered
  <1>8. /\ done.row.key = <<"reversal", o, id>> /\ done.row.delta = -recovered
        /\ done.row.short = units - recovered
    BY <1>7 DEF Row
  <1>9. units = (units - recovered) - (-recovered)
    BY <1>1, <1>2
  <1> QED
    BY <1>3, <1>5, <1>6, <1>7, <1>8, <1>9, Zenon

\* The orders, when one was written.
LEMMA OrderExplained ==
    ASSUME OrdersTyped, Explained, NEW o \in Orders, NEW row, updateOrderLocked(o, row),
           row.status = "none" => row.reversed = 0,
           row.reversed = TakenOf(ledger', o),
           \A q \in Orders \ {o} : TakenOf(ledger', q) = TakenOf(ledger, q)
    PROVE  \A q \in Orders : /\ order'[q].reversed = TakenOf(ledger', q)
                             /\ order'[q].status = "none" => order'[q].reversed = 0
  <1> SUFFICES ASSUME NEW q \in Orders
               PROVE  /\ order'[q].reversed = TakenOf(ledger', q)
                      /\ order'[q].status = "none" => order'[q].reversed = 0
    OBVIOUS
  <1>1. CASE q = o
    <2>1. order'[q] = row
      BY <1>1 DEF updateOrderLocked, OrdersTyped
    <2> QED
      BY <1>1, <2>1
  <1>2. CASE q # o
    <2>1. order'[q] = order[q]
      BY <1>2 DEF updateOrderLocked, OrdersTyped
    <2> QED
      BY <1>2, <2>1 DEF Explained
  <1> QED
    BY <1>1, <1>2

LEMMA MeterExplained ==
    ASSUME OrdersTyped, Money, Explained, NEW u \in Uses, NEW n \in Costs, meterConsume(u, n)
    PROVE  Explained'
  <1> DEFINE a == syncCycle(account)
             b == spendCredits(a, n)
             r == Row(<<"use", u>>, -n, 0)
  <1>0. n \in Nat /\ -n \in Int /\ a \in AccountRow
    BY SyncType, BillingAssumption
  <1>1. /\ usage[u].pc = "new" /\ MoveAccount(b, {r}) /\ order' = order
        /\ \E row : row.pc = "used" /\ usage' = [usage EXCEPT ![u] = row]
    <2>1. /\ usage[u].pc = "new" /\ MoveAccount(b, {r}) /\ order' = order
          /\ usage' = [usage EXCEPT ![u] = [pc |-> "used",
                         monthly |-> a.monthly - b.monthly, addOn |-> a.addOn - b.addOn]]
      BY DEF meterConsume
    <2> HIDE DEF a, b, r
    <2> QED
      BY <2>1
  <1>2. r.key = <<"use", u>> /\ r.delta = -n /\ LedgerRow(r)
    BY <1>0, RowType DEF Row
  <1>3. Total(b) = Total(a) - n /\ b.cycle = a.cycle
    BY <1>0, SpendTotal
  <1>4. account' = b /\ ledger' = Synced \cup {r}
    BY <1>1, MoveLedger
  <1>5. GoodLedger(Synced) /\ Balance(Synced) = Total(a) /\ KeysKnown(Synced, a.cycle, usage)
        /\ \A o : TakenOf(Synced, o) = TakenOf(ledger, o)
    BY SyncPosts
  <1>6. Total(a) \in Int
    BY <1>0 DEF Total, AccountRow
  <1> HIDE DEF a, b, r
  <1>7. \A s \in Synced : s.key # r.key
    BY <1>1, <1>2, <1>5 DEF KeysKnown
  <1>8. /\ GoodLedger(ledger') /\ Balance(ledger') = Balance(Synced) + r.delta
        /\ \A o : TakenOf(ledger', o) = TakenOf(Synced, o)
    BY <1>2, <1>4, <1>5, <1>7, PostRow
  <1>9. Total(account') = Balance(ledger')
    <2>1. Balance(ledger') = Total(a) + (-n)
      BY <1>2, <1>5, <1>8, Zenon
    <2>2. Total(account') = Total(a) - n
      BY <1>3, <1>4
    <2> QED
      BY <1>0, <1>6, <2>1, <2>2
  <1>10. KeysKnown(ledger', account'.cycle, usage')
    BY <1>1, <1>2, <1>3, <1>4, <1>5 DEF KeysKnown, Money
  <1>11. \A o \in Orders : /\ order'[o].reversed = TakenOf(ledger', o)
                           /\ order'[o].status = "none" => order'[o].reversed = 0
    BY <1>1, <1>5, <1>8 DEF Explained
  <1> QED
    BY <1>8, <1>9, <1>10, <1>11 DEF Explained
LEMMA SettleExplained ==
    ASSUME OrdersTyped, Money, Explained, NEW u \in Uses, NEW n \in Costs,
           reconcileModelProviderCost(u, n)
    PROVE  Explained'
  <1> DEFINE a == syncCycle(account)
             charged == usage[u].monthly + usage[u].addOn
             b == IF n > charged THEN spendCredits(a, n - charged)
                  ELSE refundConsumedCredits(a, charged - n, usage[u])
             r == Row(<<"settle", u>>, charged - n, 0)
             rows == {row \in {r} : row.delta # 0}
  <1>0. /\ n \in Nat /\ charged \in Nat /\ charged - n \in Int /\ usage[u].addOn \in Nat
        /\ a \in AccountRow
    <2>1. usage[u] \in [pc : {"new", "used", "settled"}, monthly : Nat, addOn : Nat]
      BY DEF Money
    <2> QED
      BY <2>1, SyncType, BillingAssumption
  <1>1. /\ usage[u].pc = "used" /\ MoveAccount(b, rows) /\ order' = order
        /\ usage' = [usage EXCEPT ![u].pc = "settled"]
    BY DEF reconcileModelProviderCost
  <1>2. r.key = <<"settle", u>> /\ r.delta = charged - n /\ LedgerRow(r)
    BY <1>0, RowType DEF Row
  <1>3. Total(a) \in Int
    BY <1>0 DEF Total, AccountRow
  <1>4. account' = b /\ ledger' = Synced \cup rows
    BY <1>1, MoveLedger
  <1>5. GoodLedger(Synced) /\ Balance(Synced) = Total(a) /\ KeysKnown(Synced, a.cycle, usage)
        /\ \A o : TakenOf(Synced, o) = TakenOf(ledger, o)
    BY SyncPosts
  <1> HIDE DEF a, charged
  <1>6. Total(b) = Total(a) + (charged - n) /\ b.cycle = a.cycle
    <2>1. CASE n > charged
      <3>1. n - charged \in Nat /\ b = spendCredits(a, n - charged)
        BY <1>0, <2>1
      <3>2. Total(b) = Total(a) - (n - charged) /\ b.cycle = a.cycle
        BY <1>0, <3>1, SpendTotal
      <3> QED
        BY <1>0, <1>3, <3>2
    <2>2. CASE ~(n > charged)
      <3>1. charged - n \in Nat /\ b = refundConsumedCredits(a, charged - n, usage[u])
        BY <1>0, <2>2
      <3> QED
        BY <1>0, <3>1, RefundTotal
    <2> QED
      BY <2>1, <2>2
  <1> HIDE DEF b, r
  <1>7. \A s \in Synced : s.key # r.key
    BY <1>1, <1>2, <1>5 DEF KeysKnown
  <1>8. /\ GoodLedger(ledger') /\ Balance(ledger') = Balance(Synced) + r.delta
        /\ \A o : TakenOf(ledger', o) = TakenOf(Synced, o)
        /\ \A s \in ledger' : s \in Synced \/ s = r
    <2>1. r.key[1] # "reversal"
      BY <1>2
    <2> QED
      BY <1>2, <1>4, <1>5, <1>7, <2>1, PostChange
  <1>9. Total(account') = Balance(ledger')
    <2>1. Balance(ledger') = Total(a) + (charged - n)
      BY <1>2, <1>5, <1>8, Zenon
    <2> QED
      BY <1>4, <1>6, <2>1, Zenon
  <1>10. KeysKnown(ledger', account'.cycle, usage')
    <2>1. /\ \A v \in Uses : usage[v].pc # "new" => usage'[v].pc # "new"
          /\ \A v \in Uses : usage[v].pc = "settled" => usage'[v].pc = "settled"
          /\ usage'[u].pc = "settled"
      BY <1>1 DEF Money
    <2> QED
      BY <1>2, <1>4, <1>5, <1>6, <1>8, <2>1 DEF KeysKnown
  <1>11. \A o \in Orders : /\ order'[o].reversed = TakenOf(ledger', o)
                           /\ order'[o].status = "none" => order'[o].reversed = 0
    BY <1>1, <1>5, <1>8 DEF Explained
  <1> QED
    BY <1>8, <1>9, <1>10, <1>11 DEF Explained

\* A grant's row, or none if it is there.
LEMMA GrantPosts ==
    ASSUME Money, Explained, NEW o \in Orders, NEW granted, NEW L,
           granted = IF grantRecorded(o) THEN syncCycle(account)
                     ELSE [syncCycle(account) EXCEPT !.addOn = @ + Granted],
           L = Synced \cup IF grantRecorded(o) THEN {} ELSE {Row(<<"grant", o>>, Granted, 0)}
    PROVE  /\ granted \in AccountRow /\ granted.cycle = syncCycle(account).cycle
           /\ GoodLedger(L) /\ Balance(L) = Total(granted)
           /\ KeysKnown(L, granted.cycle, usage)
           /\ \A q : TakenOf(L, q) = TakenOf(ledger, q)
           /\ \A id : ~HasRow(<<"reversal", o, id>>) =>
                \A s \in L : s.key # <<"reversal", o, id>>
  <1> DEFINE a == syncCycle(account)
             r == Row(<<"grant", o>>, Granted, 0)
  <1>0. a \in AccountRow /\ Granted \in Nat
    BY SyncType, BillingAssumption
  <1>1. /\ GoodLedger(Synced) /\ Balance(Synced) = Total(a) /\ KeysKnown(Synced, a.cycle, usage)
        /\ \A q : TakenOf(Synced, q) = TakenOf(ledger, q)
    BY SyncPosts
  <1>2. \A id : ~HasRow(<<"reversal", o, id>>) =>
           \A s \in Synced : s.key # <<"reversal", o, id>>
    <2> SUFFICES ASSUME NEW id, ~HasRow(<<"reversal", o, id>>)
                 PROVE  \A s \in Synced : s.key # <<"reversal", o, id>>
      OBVIOUS
    <2>1. PICK key : key = <<"reversal", o, id>>
      OBVIOUS
    <2>2. key[1] \notin {"expire", "cycle"} /\ ~HasRow(key)
      BY <2>1
    <2> QED
      BY <2>1, <2>2, StillFresh
  <1>3. CASE grantRecorded(o)
    <2>1. granted = a /\ L = Synced
      BY <1>3
    <2> QED
      BY <1>0, <1>1, <1>2, <2>1
  <1>4. CASE ~grantRecorded(o)
    <2>1. granted = [a EXCEPT !.addOn = @ + Granted] /\ L = Synced \cup {r}
      BY <1>4
    <2>2. r.key = <<"grant", o>> /\ r.delta = Granted /\ LedgerRow(r)
      BY <1>0, RowType DEF Row
    <2>3. \A s \in Synced : s.key # r.key
      <3>1. ~HasRow(r.key) /\ r.key[1] \notin {"expire", "cycle"}
        BY <1>4, <2>2 DEF grantRecorded
      <3> QED
        BY <3>1, StillFresh
    <2> HIDE DEF a, r
    <2>4. /\ granted \in AccountRow /\ granted.cycle = a.cycle
          /\ Total(granted) = Total(a) + Granted
      BY <1>0, <2>1 DEF AccountRow, Total
    <2>5. /\ GoodLedger(L) /\ Balance(L) = Balance(Synced) + r.delta
          /\ \A q : TakenOf(L, q) = TakenOf(Synced, q)
      BY <1>1, <2>1, <2>2, <2>3, PostRow
    <2>6. Balance(L) = Total(granted)
      BY <1>1, <2>2, <2>4, <2>5, Zenon
    <2>7. KeysKnown(L, a.cycle, usage)
      <3>1. r.key[1] \in {"grant", "reversal"}
        BY <2>2
      <3> QED
        BY <1>1, <2>1, <3>1, KeysAdd
    <2>8. \A id : ~HasRow(<<"reversal", o, id>>) =>
             \A s \in L : s.key # <<"reversal", o, id>>
      BY <1>2, <2>1, <2>2
    <2> QED
      BY <1>1, <2>4, <2>5, <2>6, <2>7, <2>8 DEF a
  <1> QED
    BY <1>3, <1>4
\* A reversal whose id has no row yet leaves M of L.
Reverses(a, L, o, row, total, id, done, M) ==
    /\ a \in AccountRow /\ row \in OrderRow /\ total \in 0 .. Paid
    /\ GoodLedger(L) /\ Balance(L) = Total(a) /\ KeysKnown(L, a.cycle, usage)
    /\ row.reversed = TakenOf(L, o) /\ \A s \in L : s.key # <<"reversal", o, id>>
    /\ done = reverseGrant(a, o, row, total, id) /\ M = L \cup {done.row}

LEMMA ReversalPosts ==
    ASSUME NEW a, NEW L, NEW o, NEW row, NEW total, NEW id, NEW done, NEW M,
           Reverses(a, L, o, row, total, id, done, M)
    PROVE  /\ GoodLedger(M) /\ Balance(M) = Total(done.account)
           /\ KeysKnown(M, done.account.cycle, usage)
           /\ done.reversed = TakenOf(M, o)
           /\ \A q : q # o => TakenOf(M, q) = TakenOf(L, q)
  <1>0. /\ a \in AccountRow /\ row \in OrderRow /\ total \in 0 .. Paid
        /\ GoodLedger(L) /\ Balance(L) = Total(a) /\ KeysKnown(L, a.cycle, usage)
        /\ row.reversed = TakenOf(L, o) /\ \A s \in L : s.key # <<"reversal", o, id>>
        /\ done = reverseGrant(a, o, row, total, id) /\ M = L \cup {done.row}
    BY DEF Reverses
  <1>1. /\ done.account.cycle = a.cycle
        /\ done.row.key = <<"reversal", o, id>> /\ LedgerRow(done.row)
        /\ Total(done.account) = Total(a) + done.row.delta
        /\ done.reversed = row.reversed + (done.row.short - done.row.delta)
    BY <1>0, ReversalRow
  <1>2. PICK r : r = done.row
    OBVIOUS
  <1>3. r.key[1] = "reversal" /\ r.key[2] = o /\ LedgerRow(r) /\ \A s \in L : s.key # r.key
    BY <1>0, <1>1, <1>2
  <1>4. /\ GoodLedger(M) /\ Balance(M) = Balance(L) + r.delta
        /\ \A q : TakenOf(M, q) = IF r.key[1] = "reversal" /\ r.key[2] = q
                                  THEN TakenOf(L, q) + (r.short - r.delta) ELSE TakenOf(L, q)
    <2>1. M = L \cup {r}
      BY <1>0, <1>2
    <2>2. GoodLedger(L)
      BY <1>0
    <2> QED
      BY <1>3, <2>1, <2>2, PostRow
  <1>5. Balance(M) = Total(done.account)
    BY <1>0, <1>1, <1>2, <1>4, Zenon
  <1>6. KeysKnown(M, done.account.cycle, usage)
    <2>1. M = L \cup {r} /\ KeysKnown(L, done.account.cycle, usage)
      BY <1>0, <1>1, <1>2, Zenon
    <2>2. r.key[1] \in {"grant", "reversal"}
      BY <1>3
    <2> QED
      BY <2>1, <2>2, KeysAdd
  <1>7. TakenOf(M, o) = TakenOf(L, o) + (r.short - r.delta)
    BY <1>3, <1>4
  <1>8. done.reversed = TakenOf(M, o)
    BY <1>0, <1>1, <1>2, <1>7, Zenon
  <1>9. \A q : q # o => TakenOf(M, q) = TakenOf(L, q)
    BY <1>3, <1>4
  <1> QED
    BY <1>4, <1>5, <1>6, <1>8, <1>9

LEMMA FulfilExplained ==
    ASSUME OrdersTyped, Money, Explained, NEW o \in Orders, fulfillTopupOrder(o),
           usage' = usage
    PROVE  Explained'
  <1> DEFINE granted == IF grantRecorded(o) THEN syncCycle(account)
                        ELSE [syncCycle(account) EXCEPT !.addOn = @ + Granted]
             L == Synced \cup IF grantRecorded(o) THEN {}
                              ELSE {Row(<<"grant", o>>, Granted, 0)}
             applied == applyRecordedReversal(granted, o, order[o])
  <1>0. PICK row \in OrderRow : row = order[o]
    BY DEF OrdersTyped
  <1>1. PICK new : /\ updateOrderLocked(o, new)
                   /\ new.status = "fulfilled" /\ new.reversed = applied.reversed
    <2>1. updateOrderLocked(o, [order[o] EXCEPT !.status = "fulfilled", !.paid = TRUE,
                                  !.reversed = applied.reversed])
      BY DEF fulfillTopupOrder
    <2> HIDE DEF applied
    <2>2. PICK v : v = applied.reversed
      OBVIOUS
    <2>3. updateOrderLocked(o, [row EXCEPT !.status = "fulfilled", !.paid = TRUE, !.reversed = v])
      BY <1>0, <2>1, <2>2, Zenon
    <2>4. PICK next : next = [row EXCEPT !.status = "fulfilled", !.paid = TRUE, !.reversed = v]
      OBVIOUS
    <2>5. next.status = "fulfilled" /\ next.reversed = v
      BY <1>0, <2>4 DEF OrderRow
    <2> QED
      BY <2>2, <2>3, <2>4, <2>5, Zenon
  <1>2. MoveAccount(applied.account, applied.rows \cup IF grantRecorded(o) THEN {}
                                       ELSE {Row(<<"grant", o>>, Granted, 0)})
    BY DEF fulfillTopupOrder
  <1>3. account' = applied.account /\ ledger' = L \cup applied.rows
    <2>1. account' = applied.account
      BY <1>2, MoveLedger
    <2>2. ledger' = Synced \cup (applied.rows \cup IF grantRecorded(o) THEN {}
                                   ELSE {Row(<<"grant", o>>, Granted, 0)})
      BY <1>2, MoveLedger
    <2> HIDE DEF applied
    <2> QED
      BY <2>1, <2>2
  <1>4. /\ granted \in AccountRow /\ granted.cycle = syncCycle(account).cycle
        /\ GoodLedger(L) /\ Balance(L) = Total(granted)
        /\ KeysKnown(L, granted.cycle, usage)
        /\ \A q : TakenOf(L, q) = TakenOf(ledger, q)
        /\ \A id : ~HasRow(<<"reversal", o, id>>) =>
             \A s \in L : s.key # <<"reversal", o, id>>
    <2>1. PICK g, M : g = granted /\ M = L
      OBVIOUS
    <2> QED
      BY <2>1, GrantPosts
  <1>5. row.reversed = TakenOf(L, o)
    BY <1>0, <1>4 DEF Explained
  <1> HIDE DEF granted, L
  <1>6. /\ GoodLedger(ledger') /\ Balance(ledger') = Total(account')
        /\ KeysKnown(ledger', account'.cycle, usage)
        /\ applied.reversed = TakenOf(ledger', o)
        /\ \A q : q # o => TakenOf(ledger', q) = TakenOf(L, q)
    <2>1. CASE /\ applied.account = granted /\ applied.reversed = row.reversed
               /\ applied.rows = {}
      <3>1. account' = granted /\ ledger' = L
        BY <1>3, <2>1
      <3> QED
        BY <1>4, <1>5, <2>1, <3>1
    <2>2. CASE /\ ~HasRow(<<"reversal", o, FULFILLMENT_REVERSAL_ID>>)
               /\ applied.account = Recorded(granted, o, row).account
               /\ applied.reversed = Recorded(granted, o, row).reversed
               /\ applied.rows = {Recorded(granted, o, row).row}
      <3>1. PICK total \in 0 .. Paid : total = RecordedTotal(row)
        BY RecordedTyped
      <3>2. PICK done : done = reverseGrant(granted, o, row, total, FULFILLMENT_REVERSAL_ID)
        OBVIOUS
      <3>3. Recorded(granted, o, row) = done
        BY <3>1, <3>2 DEF Recorded
      <3>4. account' = done.account /\ ledger' = L \cup {done.row}
        BY <1>3, <2>2, <3>3
      <3>5. \A s \in L : s.key # <<"reversal", o, FULFILLMENT_REVERSAL_ID>>
        BY <1>4, <2>2
      <3> HIDE DEF applied
      <3>6. PICK g, K, M, id : /\ g = granted /\ K = L /\ M = ledger'
                               /\ id = FULFILLMENT_REVERSAL_ID
        OBVIOUS
      <3>7. Reverses(g, K, o, row, total, id, done, M)
        BY <1>4, <1>5, <3>2, <3>4, <3>5, <3>6, Zenon DEF Reverses
      <3>8. /\ GoodLedger(M) /\ Balance(M) = Total(done.account)
            /\ KeysKnown(M, done.account.cycle, usage)
            /\ done.reversed = TakenOf(M, o)
            /\ \A q : q # o => TakenOf(M, q) = TakenOf(K, q)
        BY <3>7, ReversalPosts
      <3> QED
        BY <2>2, <3>3, <3>4, <3>6, <3>8, Zenon
    <2> QED
      BY <1>0, <2>1, <2>2, RecordedTyped
  <1> HIDE DEF applied
  <1>7. \A q \in Orders : /\ order'[q].reversed = TakenOf(ledger', q)
                          /\ order'[q].status = "none" => order'[q].reversed = 0
    BY <1>1, <1>4, <1>6, OrderExplained
  <1> QED
    BY <1>6, <1>7 DEF Explained
LEMMA QuietExplained ==
    ASSUME OrdersTyped, Explained, UNCHANGED <<account, ledger, usage>>,
           \A o \in Orders : /\ order'[o].reversed = order[o].reversed
                             /\ order'[o].status = "none" => order[o].status = "none"
    PROVE  Explained'
  BY DEF Explained

\* A reversal reported before the grant is noted with a row that moves nothing.
LEMMA NotedExplained ==
    ASSUME OrdersTyped, Money, Explained, NEW o \in Orders, NEW n \in Events,
           ~HasRow(<<"reversal", o, n>>),
           MoveAccount(syncCycle(account), {Row(<<"reversal", o, n>>, 0, 0)}),
           NEW row, updateOrderLocked(o, row),
           row.reversed = order[o].reversed, row.status = order[o].status,
           usage' = usage
    PROVE  Explained'
  <1> DEFINE a == syncCycle(account)
  <1>1. PICK r : r = Row(<<"reversal", o, n>>, 0, 0)
    OBVIOUS
  <1>2. /\ r.key = <<"reversal", o, n>> /\ r.delta = 0 /\ r.short = 0 /\ LedgerRow(r)
        /\ r.key[1] = "reversal" /\ r.key[2] = o
    BY <1>1, RowType DEF Row
  <1>3. GoodLedger(Synced) /\ Balance(Synced) = Total(a) /\ KeysKnown(Synced, a.cycle, usage)
        /\ \A q : TakenOf(Synced, q) = TakenOf(ledger, q)
    BY SyncPosts
  <1>4. \A s \in Synced : s.key # r.key
    <2>1. ~HasRow(r.key) /\ r.key[1] \notin {"expire", "cycle"}
      BY <1>2
    <2> QED
      BY <2>1, StillFresh
  <1>5. account' = a /\ ledger' = Synced \cup {r}
    BY <1>1, MoveLedger
  <1> HIDE DEF a
  <1>6. /\ GoodLedger(ledger') /\ Balance(ledger') = Balance(Synced) + r.delta
        /\ \A q : TakenOf(ledger', q) = IF r.key[1] = "reversal" /\ r.key[2] = q
                                        THEN TakenOf(Synced, q) + (r.short - r.delta)
                                        ELSE TakenOf(Synced, q)
    <2>1. PICK K : K = Synced
      OBVIOUS
    <2>2. GoodLedger(K) /\ LedgerRow(r) /\ \A s \in K : s.key # r.key
      BY <1>2, <1>3, <1>4, <2>1
    <2>3. /\ GoodLedger(K \cup {r}) /\ Balance(K \cup {r}) = Balance(K) + r.delta
          /\ \A q : TakenOf(K \cup {r}, q) = IF r.key[1] = "reversal" /\ r.key[2] = q
                                               THEN TakenOf(K, q) + (r.short - r.delta)
                                               ELSE TakenOf(K, q)
      BY <2>2, PostRow
    <2> QED
      BY <1>5, <2>1, <2>3, Zenon
  <1>7. Balance(Synced) \in Int /\ TakenOf(Synced, o) \in Int
    BY <1>3, SumsTyped
  <1>8. Total(account') = Balance(ledger')
    BY <1>2, <1>3, <1>5, <1>6, <1>7
  <1>9. \A q : TakenOf(ledger', q) = TakenOf(ledger, q)
    <2>1. TakenOf(Synced, o) + (r.short - r.delta) = TakenOf(Synced, o)
      BY <1>2, <1>7
    <2> QED
      BY <1>2, <1>3, <1>6, <2>1
  <1>10. KeysKnown(ledger', account'.cycle, usage)
    <2>1. r.key[1] \in {"grant", "reversal"}
      BY <1>2
    <2> QED
      BY <1>3, <1>5, <2>1, KeysAdd
  <1>11. \A q \in Orders : /\ order'[q].reversed = TakenOf(ledger', q)
                           /\ order'[q].status = "none" => order'[q].reversed = 0
    <2>1. row.status = "none" => row.reversed = 0
      BY DEF Explained
    <2>2. row.reversed = TakenOf(ledger', o)
      BY <1>9 DEF Explained
    <2> QED
      BY <1>9, <2>1, <2>2, OrderExplained
  <1> QED
    BY <1>6, <1>8, <1>10, <1>11 DEF Explained

\* A reversal of a fulfilled order is taken from the balance.
LEMMA TakenExplained ==
    ASSUME OrdersTyped, Money, Explained, NEW o \in Orders, NEW n \in Events,
           ~HasRow(<<"reversal", o, n>>), NEW total \in 0 .. Paid,
           NEW done, done = reverseGrant(syncCycle(account), o, order[o], total, n),
           MoveAccount(done.account, {done.row}),
           NEW row, updateOrderLocked(o, row),
           row.reversed = done.reversed, row.status = "fulfilled",
           usage' = usage
    PROVE  Explained'
  <1> DEFINE a == syncCycle(account)
  <1>0. PICK old \in OrderRow : old = order[o]
    BY DEF OrdersTyped
  <1>1. GoodLedger(Synced) /\ Balance(Synced) = Total(a) /\ KeysKnown(Synced, a.cycle, usage)
        /\ \A q : TakenOf(Synced, q) = TakenOf(ledger, q)
    BY SyncPosts
  <1>2. \A s \in Synced : s.key # <<"reversal", o, n>>
    <2>1. PICK key : key = <<"reversal", o, n>>
      OBVIOUS
    <2>2. ~HasRow(key) /\ key[1] \notin {"expire", "cycle"}
      BY <2>1
    <2> QED
      BY <2>1, <2>2, StillFresh
  <1>3. account' = done.account /\ ledger' = Synced \cup {done.row}
    BY MoveLedger
  <1>4. a \in AccountRow
    BY SyncType
  <1>5. old.reversed = TakenOf(Synced, o) /\ done = reverseGrant(a, o, old, total, n)
    BY <1>0, <1>1 DEF Explained
  <1> HIDE DEF a
  <1>6. PICK b, K, M : b = a /\ K = Synced /\ M = ledger'
    OBVIOUS
  <1>7. Reverses(b, K, o, old, total, n, done, M)
    BY <1>0, <1>1, <1>2, <1>3, <1>4, <1>5, <1>6, Zenon DEF Reverses
  <1>8. /\ GoodLedger(M) /\ Balance(M) = Total(done.account)
        /\ KeysKnown(M, done.account.cycle, usage)
        /\ done.reversed = TakenOf(M, o)
        /\ \A q : q # o => TakenOf(M, q) = TakenOf(K, q)
    BY <1>7, ReversalPosts
  <1>9. /\ GoodLedger(ledger') /\ Balance(ledger') = Total(account')
        /\ KeysKnown(ledger', account'.cycle, usage)
        /\ row.reversed = TakenOf(ledger', o)
        /\ \A q \in Orders \ {o} : TakenOf(ledger', q) = TakenOf(ledger, q)
    BY <1>1, <1>3, <1>6, <1>8
  <1>10. \A q \in Orders : /\ order'[q].reversed = TakenOf(ledger', q)
                           /\ order'[q].status = "none" => order'[q].reversed = 0
    BY <1>9, OrderExplained
  <1> QED
    BY <1>9, <1>10 DEF Explained

LEMMA ReversalExplained ==
    ASSUME OrdersTyped, Money, Explained, NEW h \in Handlers, reversePayment(h)
    PROVE  Explained'
  <1>0. PICK o \in Orders, n \in Events :
           /\ proc[h].order = o /\ proc[h].event = n
           /\ order[o] \in OrderRow /\ sent[o][n] \in 0 .. Paid
    BY AtTyped DEF Procs
  <1>1. usage' = usage
    BY DEF reversePayment
  <1>2. CASE UNCHANGED <<order, account, ledger>>
    BY <1>1, <1>2, QuietExplained
  <1>3. CASE applyPaymentReversal(o, n) /\ ~HasRow(<<"reversal", o, n>>)
    <2>1. PICK old \in OrderRow : old = order[o]
      BY <1>0
    <2>2. PICK total \in 0 .. Paid : total = nextRefundedTotal(order[o], o, n)
      BY <1>0, RefundedTotal
    <2>3. PICK done : done = reverseGrant(syncCycle(account), o, order[o], total, n)
      OBVIOUS
    <2>4. PICK changed : changed = [old EXCEPT !.refunded = Most(@, total),
                                      !.reversal = nextReversalStatus(total, n, @)]
      OBVIOUS
    <2>5. changed.reversed = old.reversed /\ changed.status = old.status
      BY <2>4 DEF OrderRow
    <2>6. \/ /\ MoveAccount(syncCycle(account), {Row(<<"reversal", o, n>>, 0, 0)})
             /\ updateOrderLocked(o, changed)
          \/ /\ old.status = "fulfilled"
             /\ MoveAccount(done.account, {done.row})
             /\ updateOrderLocked(o, [changed EXCEPT !.reversed = done.reversed])
      BY <1>3, <2>1, <2>2, <2>3, <2>4, Zenon DEF applyPaymentReversal
    <2>7. CASE /\ MoveAccount(syncCycle(account), {Row(<<"reversal", o, n>>, 0, 0)})
               /\ updateOrderLocked(o, changed)
      BY <1>1, <1>3, <2>1, <2>5, <2>7, NotedExplained
    <2>8. CASE /\ old.status = "fulfilled"
               /\ MoveAccount(done.account, {done.row})
               /\ updateOrderLocked(o, [changed EXCEPT !.reversed = done.reversed])
      <3>1. PICK v, row : v = done.reversed /\ row = [changed EXCEPT !.reversed = v]
        OBVIOUS
      <3>2. updateOrderLocked(o, row)
        BY <2>8, <3>1, Zenon
      <3>3. row.reversed = v /\ row.status = "fulfilled"
        BY <2>1, <2>4, <2>8, <3>1 DEF OrderRow
      <3> QED
        BY <1>1, <1>3, <2>3, <2>8, <3>1, <3>2, <3>3, TakenExplained
    <2> QED
      BY <2>6, <2>7, <2>8
  <1>4. CASE applyPaymentReversal(o, n) /\ HasRow(<<"reversal", o, n>>)
    BY <1>2, <1>4 DEF applyPaymentReversal
  <1> QED
    BY <1>0, <1>2, <1>3, <1>4 DEF reversePayment
LEMMA InitExplained == Init => Explained
  <1> SUFFICES ASSUME Init PROVE Explained
    OBVIOUS
  <1>0. Monthly \in Nat
    BY BillingAssumption
  <1>1. PICK r : r = Row(<<"cycle", 0>>, Monthly, 0)
    OBVIOUS
  <1>2. r.key = <<"cycle", 0>> /\ r.delta = Monthly /\ LedgerRow(r) /\ r.key[1] = "cycle"
    BY <1>0, <1>1, RowType DEF Row
  <1>3. PICK K : K = {}
    OBVIOUS
  <1>4. GoodLedger(K) /\ Balance(K) = 0 /\ \A o : TakenOf(K, o) = 0
    <2>1. GoodLedger(K)
      BY <1>3, FS_EmptySet DEF GoodLedger
    <2>2. \A o : ReversalsOf(K, o) = {}
      BY <1>3 DEF ReversalsOf
    <2> QED
      BY <1>3, <2>1, <2>2, NoSum DEF Balance, TakenOf
  <1>5. /\ GoodLedger(K \cup {r}) /\ Balance(K \cup {r}) = Balance(K) + r.delta
        /\ \A o : TakenOf(K \cup {r}, o) = TakenOf(K, o)
    <2>1. \A s \in K : s.key # r.key
      BY <1>3
    <2>2. r.key[1] # "reversal"
      BY <1>2
    <2> QED
      BY <1>2, <1>4, <2>1, <2>2, PostRow
  <1>6. K \cup {r} = ledger
    BY <1>1, <1>3 DEF Init
  <1>7. GoodLedger(ledger) /\ Balance(ledger) = Monthly /\ \A o : TakenOf(ledger, o) = 0
    <2>1. Balance(K \cup {r}) = 0 + Monthly
      BY <1>2, <1>4, <1>5, Zenon
    <2>2. Balance(K \cup {r}) = Monthly
      BY <1>0, <2>1
    <2> QED
      BY <1>4, <1>5, <1>6, <2>2
  <1>8. account = [monthly |-> Monthly, addOn |-> 0, cycle |-> 0]
        /\ \A s \in ledger : s = r
    BY <1>1 DEF Init
  <1>9. Total(account) = Monthly /\ account.cycle = 0
    BY <1>0, <1>8 DEF Total
  <1>10. KeysKnown(ledger, account.cycle, usage)
    BY <1>2, <1>8, <1>9 DEF KeysKnown
  <1>11. \A o \in Orders : order[o].reversed = 0
    BY DEF Init, NoOrder
  <1> QED
    BY <1>7, <1>9, <1>10, <1>11 DEF Explained

LEMMA CheckoutExplained ==
    ASSUME OrdersTyped, Explained, NEW c \in Requests,
           \/ \E o \in Orders : createTopupCheckout(c, o)
           \/ checkoutCreated(c) \/ checkoutFailed(c)
    PROVE  Explained'
  <1>1. UNCHANGED <<account, ledger, usage>>
    BY DEF createTopupCheckout, checkoutCreated, checkoutFailed
  <1>2. ASSUME NEW o \in Orders, NEW row, updateOrderLocked(o, row),
               row.reversed = order[o].reversed, row.status # "none"
        PROVE  Explained'
    <2>1. \A q \in Orders : /\ order'[q].reversed = order[q].reversed
                            /\ order'[q].status = "none" => order[q].status = "none"
      BY <1>2 DEF updateOrderLocked, OrdersTyped
    <2> QED
      BY <1>1, <2>1, QuietExplained
  <1>3. CASE order' = order
    BY <1>1, <1>3, QuietExplained
  <1>4. ASSUME NEW o \in Orders, createTopupCheckout(c, o), order' # order PROVE Explained'
    <2>1. /\ order[o].status = "none"
          /\ updateOrderLocked(o, [NoOrder EXCEPT !.status = "pending"])
      BY <1>4 DEF createTopupCheckout
    <2>2. PICK row : row = [NoOrder EXCEPT !.status = "pending"]
      OBVIOUS
    <2>3. row.reversed = 0 /\ row.status = "pending"
      BY <2>2 DEF NoOrder
    <2>4. order[o].reversed = 0
      BY <2>1 DEF Explained
    <2> QED
      BY <1>2, <2>1, <2>2, <2>3, <2>4
  <1>5. ASSUME checkoutCreated(c) \/ checkoutFailed(c) PROVE Explained'
    <2>1. PICK o \in Orders : request[c] = o
      BY <1>5 DEF checkoutCreated, checkoutFailed
    <2>2. PICK old \in OrderRow : old = order[o]
      BY DEF OrdersTyped
    <2>3. PICK row : /\ \/ row = [old EXCEPT !.status = "checkout_created",
                                    !.paid = FALSE, !.url = TRUE]
                        \/ row = [old EXCEPT !.status = "payment_failed", !.paid = FALSE]
                     /\ updateOrderLocked(o, row)
      BY <1>5, <2>1, <2>2 DEF checkoutCreated, checkoutFailed
    <2>4. row.reversed = old.reversed /\ row.status # "none"
      BY <2>3 DEF OrderRow
    <2> QED
      BY <1>2, <2>2, <2>3, <2>4
  <1> QED
    BY <1>3, <1>4, <1>5

LEMMA MarkExplained ==
    ASSUME OrdersTyped, Explained, NEW p \in Procs, markFulfillmentFailed(p)
    PROVE  Explained'
  <1>1. UNCHANGED <<account, ledger, usage>>
    BY DEF markFulfillmentFailed
  <1>2. PICK o \in Orders : proc[p].order = o
    BY AtTyped
  <1>3. PICK old \in OrderRow : old = order[o]
    BY DEF OrdersTyped
  <1>4. CASE order' = order
    BY <1>1, <1>4, QuietExplained
  <1>5. CASE updateOrderLocked(o, failedFulfillment(order[o]))
    <2>1. PICK row : row = failedFulfillment(old)
      OBVIOUS
    <2>2. /\ row.reversed = old.reversed
          /\ row.status = "none" => old.status = "none"
      BY <2>1 DEF failedFulfillment, OrderRow
    <2>3. updateOrderLocked(o, row)
      BY <1>3, <1>5, <2>1
    <2>4. \A q \in Orders : /\ order'[q].reversed = order[q].reversed
                            /\ order'[q].status = "none" => order[q].status = "none"
      BY <1>3, <2>2, <2>3 DEF updateOrderLocked, OrdersTyped
    <2> QED
      BY <1>1, <2>4, QuietExplained
  <1> QED
    BY <1>2, <1>4, <1>5 DEF markFulfillmentFailed

LEMMA NextExplained == OrdersTyped /\ Money /\ Explained /\ [Next]_vars => Explained'
  <1> SUFFICES ASSUME OrdersTyped, Money, Explained, [Next]_vars PROVE Explained'
    OBVIOUS
  <1>0. ASSUME UNCHANGED <<order, account, ledger, usage>> PROVE Explained'
    BY <1>0, QuietExplained
  <1>1. ASSUME NEW u \in Uses, NEW n \in Costs,
               meterConsume(u, n) \/ reconcileModelProviderCost(u, n)
        PROVE  Explained'
    BY <1>1, MeterExplained, SettleExplained
  <1>2. ASSUME NEW o \in Orders,
               \/ ProviderTakesPayment(o) \/ ProviderChargesBack(o)
               \/ \E n \in 1 .. Paid : ProviderRefunds(o, n)
        PROVE  Explained'
    BY <1>0, <1>2 DEF ProviderTakesPayment, ProviderChargesBack, ProviderRefunds, Emit
  <1>3. ASSUME NEW p \in Procs, fulfillOrderFails(p) \/ Crash(p)
        PROVE  Explained'
    BY <1>0, <1>3 DEF fulfillOrderFails, Crash
  <1>4. CASE CycleEnds \/ UNCHANGED vars
    BY <1>0, <1>4 DEF CycleEnds, vars
  <1>5. CASE EnvironmentStep
    BY <1>1, <1>2, <1>3, <1>4, <1>5, CheckoutExplained, Zenon DEF EnvironmentStep
  <1>6. ASSUME NEW p \in Procs, fulfillOrder(p) PROVE Explained'
    <2>1. CASE UNCHANGED <<order, account, ledger, due>>
      BY <1>0, <1>6, <2>1 DEF fulfillOrder
    <2>2. CASE fulfillTopupOrder(proc[p].order)
      <3>1. PICK o \in Orders : proc[p].order = o
        BY AtTyped
      <3>2. usage' = usage
        BY <1>6 DEF fulfillOrder
      <3> QED
        BY <2>2, <3>1, <3>2, FulfilExplained
    <2> QED
      BY <1>6, <2>1, <2>2 DEF fulfillOrder
  <1>7. ASSUME NEW h \in Handlers, finishWebhook(h) \/ failWebhook(h)
        PROVE  Explained'
    BY <1>0, <1>7 DEF finishWebhook, failWebhook
  <1>8. CASE DeliveryStep
    BY <1>0, <1>8 DEF DeliveryStep, receiveWebhook, reconcileLists, reconcileNext
  <1>9. ASSUME NEW p \in Procs, ProcStep(p) PROVE Explained'
    BY <1>6, <1>7, <1>9, MarkExplained, ReversalExplained, Zenon DEF ProcStep
  <1> QED
    BY <1>4, <1>5, <1>8, <1>9 DEF Next

LEMMA LedgerKeys ==
    ASSUME GoodLedger(ledger)
    PROVE  Cardinality({r.key : r \in ledger}) = Cardinality(ledger)
  <1> DEFINE S == {r.key : r \in ledger}
             f == [r \in ledger |-> r.key]
  <1>1. f \in [ledger -> S] /\ \A r \in ledger : f[r] = r.key
    OBVIOUS
  <1>2. \A r, s \in ledger : f[r] = f[s] => r = s
    BY <1>1 DEF GoodLedger
  <1>3. \A k \in S : \E r \in ledger : f[r] = k
    BY <1>1
  <1> HIDE DEF S, f
  <1>4. f \in Bijection(ledger, S)
    BY <1>1, <1>2, <1>3 DEF Bijection, Injection, Surjection, IsInjective
  <1>5. IsFiniteSet(ledger)
    BY DEF GoodLedger
  <1> QED
    BY <1>4, <1>5, FS_Bijection DEF ExistsBijection, S

\* Whatever usage, renewals, settlements, grants and reversals interleave, the
\* buckets hold the sum of the ledger's rows, an order has reversed what its rows
\* took back or could not, and no key is charged twice (account-service.ts,
\* usage-service.ts, order-service.ts, payment-reversal.ts).
THEOREM LedgerExplains == Spec => []LedgerExplainsBalances
  <1>1. Explained => LedgerExplainsBalances
    <2> SUFFICES ASSUME Explained PROVE LedgerExplainsBalances
      OBVIOUS
    <2>1. \A o : RowsOf("reversal", o) = ReversalsOf(ledger, o)
      BY DEF RowsOf, Rows, ReversalsOf
    <2>2. \A o \in Orders : order[o].reversed = MapThenSumSet(Reversed, RowsOf("reversal", o))
      BY <2>1 DEF Explained, TakenOf
    <2>3. Cardinality({r.key : r \in ledger}) = Cardinality(ledger)
      BY LedgerKeys DEF Explained
    <2> QED
      BY <2>2, <2>3 DEF Explained, Balance, LedgerExplainsBalances
  <1>2. Init => OrdersTyped
    BY InitIInv DEF IInv
  <1> QED
    BY <1>1, <1>2, NextTyped, InitMoney, NextMoney, InitExplained, NextExplained, PTL DEF Spec
=============================================================================
