---------------------------- MODULE Payout_proof -----------------------------
(***************************************************************************)
(* Theorems about Payout and the wallets in it, for any owners, jobs,      *)
(* amounts, threads, payouts, batches and restarts.                        *)
(***************************************************************************)
EXTENDS Payout, FiniteSetTheorems, WellFoundedInduction, TLAPS

------------------------------------------------------------------------------
(* Sums over finite sets, and lists of their elements                         *)

\* The element of a set that CHOOSE gives first.
One(s) == CHOOSE x \in s : TRUE

\* f sums the values of g over the subsets of S.
Sums(f, g, S) ==
  \A s \in SUBSET S : f[s] = IF s = {} THEN 0 ELSE g[One(s)] + f[s \ {One(s)}]

\* The same for the subsets that have at most n elements.
SumsTo(f, g, S, n) ==
  \A s \in SUBSET S : Cardinality(s) <= n =>
    f[s] = IF s = {} THEN 0 ELSE g[One(s)] + f[s \ {One(s)}]

\* The recursive definition of such a function.
IsRecursive(f, g, S) ==
  f = [s \in SUBSET S |-> IF s = {} THEN 0 ELSE g[One(s)] + f[s \ {One(s)}]]

\* A set of subsets of a finite set has a smallest element.
LEMMA SmallestSubset ==
  ASSUME NEW S, IsFiniteSet(S), NEW T, T \subseteq SUBSET S, T # {}
  PROVE  \E m \in T : \A s \in T : s \subseteq m => s = m
<1>1. IsWellFoundedOn(StrictSubsetOrdering(S), SUBSET S)
  BY FS_StrictSubsetOrderingWellFounded, FS_FiniteSubsetsOfFinite
<1>2. PICK m \in T : \A s \in T : ~(<<s, m>> \in StrictSubsetOrdering(S))
  BY <1>1, WFMin
<1>3. ASSUME NEW s \in T, s \subseteq m, s # m PROVE FALSE
  <2>1. <<s, m>> \in (SUBSET S) \X (SUBSET S)
    OBVIOUS
  <2>2. <<s, m>> \in StrictSubsetOrdering(S)
    BY <2>1, <1>3 DEF StrictSubsetOrdering
  <2> QED BY <2>2, <1>2
<1> QED BY <1>3

\* A set of natural numbers has a smallest element.
LEMMA SmallestNumber ==
  ASSUME NEW T, T \subseteq Nat, T # {}
  PROVE  \E m \in T : \A n \in T : m <= n
<1>1. PICK m \in T : \A n \in T : ~(<<n, m>> \in OpToRel(<, Nat))
  BY NatLessThanWellFounded, WFMin
<1>2. ASSUME NEW n \in T, n < m PROVE FALSE
  <2>1. <<n, m>> \in Nat \X Nat /\ n < m
    BY <1>2
  <2>2. <<n, m>> \in OpToRel(<, Nat)
    BY <2>1 DEF OpToRel
  <2> QED BY <2>2, <1>1
<1> QED BY <1>2

\* Two functions that sum the same values sum to the same.
LEMMA SumsAgree ==
  ASSUME NEW S, IsFiniteSet(S), NEW g, NEW f, NEW e, Sums(f, g, S), Sums(e, g, S)
  PROVE  \A s \in SUBSET S : f[s] = e[s]
<1> DEFINE Bad == {s \in SUBSET S : f[s] # e[s]}
<1>1. SUFFICES ASSUME Bad # {} PROVE FALSE
  OBVIOUS
<1>2. PICK m \in Bad : \A s \in Bad : s \subseteq m => s = m
  <2>1. Bad \subseteq SUBSET S
    OBVIOUS
  <2> HIDE DEF Bad
  <2> QED BY <1>1, <2>1, SmallestSubset
<1>3. m # {}
  BY <1>2 DEF Sums
<1>4. One(m) \in m
  BY <1>3 DEF One
<1>5. m \ {One(m)} \notin Bad
  BY <1>2, <1>4
<1>6. f[m \ {One(m)}] = e[m \ {One(m)}]
  BY <1>4, <1>5
<1>7. f[m] = e[m]
  BY <1>3, <1>6 DEF Sums
<1> QED
  BY <1>2, <1>7

\* A function that sums integers has integers for values.
LEMMA SumsAreIntegers ==
  ASSUME NEW S, IsFiniteSet(S), NEW g, \A x \in S : g[x] \in Int, NEW f, Sums(f, g, S)
  PROVE  \A s \in SUBSET S : f[s] \in Int
<1> DEFINE Bad == {s \in SUBSET S : f[s] \notin Int}
<1>1. SUFFICES ASSUME Bad # {} PROVE FALSE
  OBVIOUS
<1>2. PICK m \in Bad : \A s \in Bad : s \subseteq m => s = m
  <2>1. Bad \subseteq SUBSET S
    OBVIOUS
  <2> HIDE DEF Bad
  <2> QED BY <1>1, <2>1, SmallestSubset
<1>3. m # {}
  <2>1. ASSUME m = {} PROVE f[m] = 0
    BY <2>1, <1>2 DEF Sums
  <2> QED BY <1>2, <2>1
<1>4. One(m) \in m
  BY <1>3 DEF One
<1>5. m \ {One(m)} \notin Bad
  BY <1>2, <1>4
<1>6. f[m \ {One(m)}] \in Int /\ g[One(m)] \in Int
  BY <1>4, <1>5
<1>7. f[m] \in Int
  <2>1. f[m] = g[One(m)] + f[m \ {One(m)}]
    BY <1>2, <1>3 DEF Sums
  <2> QED BY <2>1, <1>6
<1> QED
  BY <1>2, <1>7

\* Up to a size, there is a function that sums.
LEMMA SumsUpTo ==
  ASSUME NEW S, IsFiniteSet(S), NEW g, NEW n \in Nat
  PROVE  \E f : SumsTo(f, g, S, n)
<1> DEFINE Bad == {k \in Nat : ~ \E f : SumsTo(f, g, S, k)}
<1>1. SUFFICES ASSUME Bad # {} PROVE FALSE
  OBVIOUS
<1>2. PICK m \in Bad : \A k \in Bad : m <= k
  <2>1. Bad \subseteq Nat
    OBVIOUS
  <2> HIDE DEF Bad
  <2> QED BY <1>1, <2>1, SmallestNumber
<1>3. \A s \in SUBSET S : IsFiniteSet(s) /\ Cardinality(s) \in Nat
  BY FS_Subset, FS_CardinalityType
<1>4. m # 0
  <2> DEFINE f == [s \in SUBSET S |-> 0]
  <2>1. ASSUME NEW s \in SUBSET S, Cardinality(s) <= 0
        PROVE  f[s] = IF s = {} THEN 0 ELSE g[One(s)] + f[s \ {One(s)}]
    BY <1>3, <2>1, FS_EmptySet
  <2>2. SumsTo(f, g, S, 0)
    BY <2>1 DEF SumsTo
  <2> QED BY <2>2, <1>2
<1>5. m - 1 \in Nat /\ m - 1 \notin Bad
  <2>1. m \in Nat
    BY <1>2
  <2> HIDE DEF Bad
  <2> QED BY <1>2, <1>4, <2>1
<1>6. PICK f : SumsTo(f, g, S, m - 1)
  BY <1>5
<1> DEFINE h == [s \in SUBSET S |-> IF Cardinality(s) < m THEN f[s]
                                    ELSE IF s = {} THEN 0 ELSE g[One(s)] + f[s \ {One(s)}]]
<1>7. ASSUME NEW s \in SUBSET S, Cardinality(s) <= m
      PROVE  h[s] = IF s = {} THEN 0 ELSE g[One(s)] + h[s \ {One(s)}]
  <2>1. CASE s = {}
    <3>1. Cardinality(s) < m
      BY <2>1, <1>2, <1>4, FS_EmptySet
    <3>2. Cardinality(s) <= m - 1
      BY <3>1, <1>2, <1>3
    <3> QED BY <2>1, <3>1, <3>2, <1>6 DEF SumsTo
  <2>2. CASE s # {}
    <3>1. One(s) \in s
      BY <2>2 DEF One
    <3>2. /\ s \ {One(s)} \in SUBSET S
          /\ Cardinality(s \ {One(s)}) = Cardinality(s) - 1
      BY <3>1, <1>3, FS_RemoveElement
    <3>3. Cardinality(s \ {One(s)}) < m
      BY <3>2, <1>3, <1>7, <1>2
    <3>4. h[s \ {One(s)}] = f[s \ {One(s)}]
      BY <3>2, <3>3
    <3>5. CASE Cardinality(s) < m
      <4>1. Cardinality(s) <= m - 1
        BY <3>5, <1>2, <1>3
      <4> QED BY <4>1, <3>5, <1>6, <2>2, <3>4 DEF SumsTo
    <3>6. CASE ~(Cardinality(s) < m)
      BY <3>6, <2>2, <3>4
    <3> QED BY <3>5, <3>6
  <2> QED BY <2>1, <2>2
<1>8. SumsTo(h, g, S, m)
  BY <1>7 DEF SumsTo
<1> QED
  BY <1>8, <1>2

\* There is a function that sums over all subsets of a finite set.
LEMMA SumsExist ==
  ASSUME NEW S, IsFiniteSet(S), NEW g
  PROVE  \E f : IsRecursive(f, g, S)
<1>1. Cardinality(S) \in Nat
  BY FS_CardinalityType
<1>2. PICK f : SumsTo(f, g, S, Cardinality(S))
  BY <1>1, SumsUpTo
<1>3. \A s \in SUBSET S : Cardinality(s) <= Cardinality(S)
  BY FS_Subset
<1> DEFINE h == [s \in SUBSET S |-> f[s]]
<1>4. ASSUME NEW s \in SUBSET S
      PROVE  h[s] = IF s = {} THEN 0 ELSE g[One(s)] + h[s \ {One(s)}]
  <2>1. s \ {One(s)} \in SUBSET S
    OBVIOUS
  <2> QED BY <2>1, <1>2, <1>3 DEF SumsTo
<1>5. h = [s \in SUBSET S |-> IF s = {} THEN 0 ELSE g[One(s)] + h[s \ {One(s)}]]
  BY <1>4
<1>6. IsRecursive(h, g, S)
  BY <1>5, Zenon DEF IsRecursive
<1> QED
  BY <1>6

\* SetToSeq lists the elements of a finite set, each once.
LEMMA SetToSeqLists ==
  ASSUME NEW S, IsFiniteSet(S)
  PROVE  /\ SetToSeq(S) \in Seq(S)
         /\ \A x \in S : \E n \in DOMAIN SetToSeq(S) : SetToSeq(S)[n] = x
         /\ \A m, n \in DOMAIN SetToSeq(S) : SetToSeq(S)[m] = SetToSeq(S)[n] => m = n
<1> DEFINE c == Cardinality(S)
<1>1. c \in Nat /\ ExistsBijection(1..c, S)
  BY FS_CardinalityType
<1>2. PICK f : f \in [1..c -> S] /\ IsInjective(f)
  BY <1>1 DEF ExistsBijection, Bijection, Injection
<1>3. SetToSeq(S) \in [1..c -> S] /\ IsInjective(SetToSeq(S))
  BY <1>2, Zenon DEF SetToSeq
<1>4. PICK q : q = SetToSeq(S)
  OBVIOUS
<1>5. q \in Seq(S) /\ DOMAIN q = 1..c
  BY <1>1, <1>3, <1>4
<1>6. \A m, n \in DOMAIN q : q[m] = q[n] => m = n
  BY <1>3, <1>4 DEF IsInjective
<1>7. IsFiniteSet(1..c) /\ Cardinality(1..c) = c
  <2>1. c \in Int /\ 1 \in Int
    BY <1>1
  <2> QED BY <2>1, <1>1, FS_Interval
<1>8. q \in Injection(1..c, S)
  BY <1>3, <1>4 DEF Injection
<1>9. q \in Surjection(1..c, S)
  BY <1>7, <1>8, FS_Injection
<1>10. \A x \in S : \E n \in DOMAIN q : q[n] = x
  BY <1>5, <1>9 DEF Surjection
<1> QED
  BY <1>4, <1>5, <1>6, <1>10

------------------------------------------------------------------------------
(* Calls in memory                                                            *)

Columns  == {"available", "hold"}
Impacted == {j \in Job : ImpactedOf[j] # NoOwner}

\* A call in memory, whatever it does.
Memory ==
  [pc : WalletPC \cup PayoutPC, wallet : WalletRow, changed : SUBSET Columns,
   entry : Transaction \cup {NoEntry}, trx : Nat,
   next : {"idle", "regenIncome", "regenCompensation"},
   incomes : SUBSET Job, compensations : SUBSET Impacted,
   ids : SUBSET Nat, rows : SUBSET PayoutId, status : PayoutStatus, sent : BOOLEAN]

\* A transaction, saved or to be saved: credits are of jobs, payouts of a payout's row.
EntryOK(e) ==
  /\ e \in Transaction
  /\ e.type \in CreditType => e.job \in Job
  /\ e.payout \in DOMAIN payouts \cup {0}
  /\ e.type = "PAYOUT" => e.payout # 0

WithTransaction == {"checkCompensation", "findWallet", "findPending", "compareEntry",
                    "writeEntry", "compareRelease", "writeRelease"}
WithLines       == {"saveBatch", "send", "saveSentLines", "closeBatch", "saveMarked", "increment"}

\* What a call has in hand at each pc is there in the tables.
ProcessOK(p) ==
  /\ p.rows \subseteq DOMAIN payouts
  /\ p.pc \in WithTransaction => EntryOK(p.entry)
  /\ p.pc \in {"compareRelease", "writeRelease"} => p.trx \in DOMAIN transactions
  /\ p.pc \in {"savePayouts", "saveLines"} => p.ids \subseteq Credits
  /\ p.pc = "saveLines" =>
       \A i \in p.ids : transactions[i].owner \in Payable =>
         \E r \in p.rows : payouts[r].owner = transactions[i].owner
  /\ p.pc \in WithLines => p.ids \subseteq DOMAIN lines

RowsOK ==
  /\ jobs \in [Job -> JobStatus]
  /\ wallets \in [Owner -> WalletRow]
  /\ transactions \in Seq(Transaction)
  /\ payouts \in Seq(PayoutRow)
  /\ lines \in Seq(Line)
  /\ batches \in Seq(BatchStatus)
  /\ Len(payouts) <= MaxPayouts
  /\ \A i \in DOMAIN transactions : EntryOK(transactions[i])
  /\ \A l \in DOMAIN lines : lines[l].payout \in DOMAIN payouts

TodoOK ==
  /\ todo \in [Task -> Nat]
  /\ \A k \in [name : {"hold", "release"}, id : PayoutId] :
       todo[k] > 0 => k.id \in DOMAIN payouts

ThreadsOK ==
  /\ thread \in [Thread -> Memory]
  /\ \A t \in Thread : ProcessOK(thread[t])

Typed ==
  /\ RowsOK /\ TodoOK /\ ThreadsOK
  /\ alone \in BOOLEAN /\ reported \subseteq Job \X Owner /\ crashes \in 0..MaxCrashes
  /\ announced \in [Job -> Nat] /\ \A j \in Job : announced[j] <= MaxAnnounced[j]

------------------------------------------------------------------------------
(* Sums and sequences *)

\* The amounts of finitely many rows sum up to what a function that sums them returns.
LEMMA AmountSums ==
  ASSUME NEW seq, NEW S, IsFiniteSet(S), NEW g, \A i \in S : g[i] = seq[i].amount
  PROVE  \E f : Sums(f, g, S) /\ Amount(seq, S) = f[S]
<1> DEFINE It(f) == f = [s \in SUBSET S |-> IF s = {} THEN 0
                           ELSE LET x == CHOOSE x \in s : TRUE
                                IN  seq[x].amount + f[s \ {x}]]
           c == CHOOSE f : It(f)
<1>1. PICK e : IsRecursive(e, g, S)
  BY SumsExist
<1>2. \A s \in SUBSET S : s # {} => g[One(s)] = seq[One(s)].amount
  BY DEF One
<1>3. e = [s \in SUBSET S |-> IF s = {} THEN 0 ELSE seq[One(s)].amount + e[s \ {One(s)}]]
  BY <1>1, <1>2 DEF IsRecursive
<1>4. It(e)
  BY <1>3, Zenon DEF One
<1>5. It(c)
  BY <1>4, Zenon
<1>6. Amount(seq, S) = c[S]
  BY Zenon DEF Amount, MapThenSumSet, MapThenFoldSet
<1> HIDE DEF c
<1>7. c = [s \in SUBSET S |-> IF s = {} THEN 0 ELSE seq[One(s)].amount + c[s \ {One(s)}]]
  BY <1>5, Zenon DEF One
<1>8. Sums(c, g, S)
  BY <1>2, <1>7 DEF Sums
<1> QED
  BY <1>6, <1>8

\* Amounts sum up to an integer.
LEMMA AmountType ==
  ASSUME NEW seq, NEW S, IsFiniteSet(S), \A i \in S : seq[i].amount \in Int
  PROVE  Amount(seq, S) \in Int
<1> DEFINE g == [i \in S |-> seq[i].amount]
<1>1. \A i \in S : g[i] = seq[i].amount /\ g[i] \in Int
  OBVIOUS
<1> HIDE DEF g
<1>2. PICK f : Sums(f, g, S) /\ Amount(seq, S) = f[S]
  BY <1>1, AmountSums
<1>3. f[S] \in Int
  BY <1>1, <1>2, SumsAreIntegers
<1> QED
  BY <1>2, <1>3

\* Equal amounts have equal sums.
LEMMA AmountsAgree ==
  ASSUME NEW seq, NEW rqs, NEW S, IsFiniteSet(S), \A i \in S : seq[i].amount = rqs[i].amount
  PROVE  Amount(seq, S) = Amount(rqs, S)
<1> DEFINE g == [i \in S |-> seq[i].amount]
<1>1. \A i \in S : g[i] = seq[i].amount /\ g[i] = rqs[i].amount
  OBVIOUS
<1> HIDE DEF g
<1>2. PICK f : Sums(f, g, S) /\ Amount(seq, S) = f[S]
  BY <1>1, AmountSums
<1>3. PICK e : Sums(e, g, S) /\ Amount(rqs, S) = e[S]
  BY <1>1, AmountSums
<1>4. \A s \in SUBSET S : f[s] = e[s]
  BY <1>2, <1>3, SumsAgree
<1>5. f[S] = e[S]
  BY <1>4
<1> QED
  BY <1>2, <1>3, <1>5

------------------------------------------------------------------------------
(* Types *)

\* Rows are added at the end, and what they are about does not change.
Grows ==
  /\ DOMAIN transactions \subseteq DOMAIN transactions'
  /\ \A i \in DOMAIN transactions :
       /\ transactions'[i].type = transactions[i].type
       /\ transactions'[i].owner = transactions[i].owner
       /\ transactions'[i].job = transactions[i].job
       /\ transactions'[i].amount = transactions[i].amount
  /\ DOMAIN payouts \subseteq DOMAIN payouts'
  /\ \A p \in DOMAIN payouts : /\ payouts'[p].owner = payouts[p].owner
                               /\ payouts'[p].amount = payouts[p].amount
  /\ DOMAIN lines \subseteq DOMAIN lines'

\* What a call has in hand stays there while the tables grow.
LEMMA ProcessKept ==
  ASSUME RowsOK, Grows, NEW p \in Memory, ProcessOK(p)
  PROVE  ProcessOK(p)'
<1>1. p.rows \subseteq DOMAIN payouts'
  BY DEF ProcessOK, Grows
<1>2. ASSUME EntryOK(p.entry) PROVE EntryOK(p.entry)'
  BY <1>2 DEF EntryOK, Grows
<1>3. ASSUME p.ids \subseteq Credits PROVE p.ids \subseteq Credits'
  BY <1>3 DEF Credits, Grows
<1>4. ASSUME p.pc = "saveLines", NEW i \in p.ids, transactions'[i].owner \in Payable
      PROVE  \E r \in p.rows : payouts'[r].owner = transactions'[i].owner
  <2>1. i \in DOMAIN transactions
    BY <1>4 DEF ProcessOK, Credits
  <2>2. transactions[i].owner = transactions'[i].owner
    BY <2>1 DEF Grows
  <2>3. PICK r \in p.rows : payouts[r].owner = transactions[i].owner
    BY <1>4, <2>2 DEF ProcessOK
  <2>4. payouts'[r].owner = payouts[r].owner
    BY <2>3 DEF ProcessOK, Grows
  <2> QED
    BY <2>2, <2>3, <2>4
<1>5. ASSUME p.ids \subseteq DOMAIN lines PROVE p.ids \subseteq DOMAIN lines'
  BY <1>5 DEF Grows
<1>6. ASSUME p.trx \in DOMAIN transactions PROVE p.trx \in DOMAIN transactions'
  BY <1>6 DEF Grows
<1> QED
  BY <1>1, <1>2, <1>3, <1>4, <1>5, <1>6 DEF ProcessOK

\* Rows that stay as they are grow.
LEMMA SameGrows == UNCHANGED <<transactions, payouts, lines>> => Grows
BY DEF Grows

\* One thread moves on: the others keep what they have.
LEMMA ThreadsMove ==
  ASSUME RowsOK, ThreadsOK, Grows,
         NEW t \in Thread, NEW q \in Memory, ProcessOK(q)', Become(t, q)
  PROVE  ThreadsOK'
<1>1. thread' \in [Thread -> Memory]
  BY DEF ThreadsOK, Become
<1>2. ASSUME NEW u \in Thread PROVE ProcessOK(thread[u])'
  <2>1. CASE u = t
    BY <2>1 DEF Become, ThreadsOK, ProcessOK, EntryOK, Credits
  <2>2. CASE u # t
    <3>1. PICK p : p = thread[u]
      OBVIOUS
    <3>2. p \in Memory /\ ProcessOK(p)
      BY <3>1 DEF ThreadsOK
    <3>3. ProcessOK(p)'
      BY <3>2, ProcessKept
    <3>4. thread'[u] = p
      BY <2>2, <3>1 DEF Become, ThreadsOK
    <3> QED
      BY <3>3, <3>4 DEF ProcessOK, EntryOK, Credits
  <2> QED BY <2>1, <2>2
<1> QED
  BY <1>1, <1>2 DEF ThreadsOK

\* No thread moves.
LEMMA ThreadsStay ==
  ASSUME RowsOK, ThreadsOK, Grows, UNCHANGED thread
  PROVE  ThreadsOK'
<1>1. ASSUME NEW u \in Thread PROVE ProcessOK(thread[u])'
  <2>1. PICK p : p = thread[u]
    OBVIOUS
  <2>2. p \in Memory /\ ProcessOK(p)
    BY <2>1 DEF ThreadsOK
  <2>3. ProcessOK(p)'
    BY <2>2, ProcessKept
  <2> QED
    BY <2>1, <2>3 DEF ProcessOK, EntryOK, Credits
<1> QED
  BY <1>1 DEF ThreadsOK

\* An idle thread has nothing in hand.
LEMMA IdleOK == Idle \in Memory /\ ProcessOK(Idle)'
<1>1. NoEntry \in Transaction \cup {NoEntry} /\ NewWallet \in WalletRow
  BY DEF NewWallet, WalletRow
<1>2. Idle \in Memory
  BY <1>1 DEF Idle, Memory, WalletPC, PayoutStatus, Columns
<1>3. ProcessOK(Idle)'
  BY DEF Idle, ProcessOK, WithTransaction, WithLines
<1> QED
  BY <1>2, <1>3

\* Tasks are taken one by one, and published of payouts that are there.
LEMMA TodoKept ==
  ASSUME TodoOK, DOMAIN payouts \subseteq DOMAIN payouts',
         \/ UNCHANGED todo
         \/ \E k \in Task : Take(k.name, k.id)
         \/ \E tasks : /\ Publish(tasks)
                       /\ \A k \in tasks : k.name \in {"hold", "release"}
                                             => k.id \in DOMAIN payouts'
  PROVE  TodoOK'
<1> DEFINE OfPayouts == [name : {"hold", "release"}, id : PayoutId]
<1>0. OfPayouts \subseteq Task
  BY DEF Task
<1>1. CASE UNCHANGED todo
  BY <1>1 DEF TodoOK
<1>2. ASSUME NEW k \in Task, Take(k.name, k.id) PROVE TodoOK'
  <2>1. k = [name |-> k.name, id |-> k.id]
    BY DEF Task
  <2>2. todo[k] > 0 /\ todo' = [todo EXCEPT ![k] = @ - 1]
    BY <1>2, <2>1 DEF Take
  <2>3. todo[k] - 1 \in Nat
    BY <2>2 DEF TodoOK
  <2>4. todo' \in [Task -> Nat]
    BY <2>2, <2>3 DEF TodoOK
  <2>5. \A m \in OfPayouts : todo'[m] > 0 => todo[m] > 0
    BY <2>2, <2>3, <1>0 DEF TodoOK
  <2> QED
    BY <2>4, <2>5 DEF TodoOK
<1>3. ASSUME NEW tasks, Publish(tasks),
             \A k \in tasks : k.name \in {"hold", "release"} => k.id \in DOMAIN payouts'
      PROVE  TodoOK'
  <2>1. todo' \in [Task -> Nat]
    BY <1>3 DEF Publish, TodoOK
  <2>2. ASSUME NEW m \in OfPayouts, todo'[m] > 0 PROVE m.id \in DOMAIN payouts'
    <3>1. m \in tasks \/ todo[m] > 0
      BY <1>3, <2>2, <1>0 DEF Publish
    <3> QED
      BY <3>1, <1>3 DEF TodoOK
  <2> QED
    BY <2>1, <2>2 DEF TodoOK
<1> QED
  BY <1>1, <1>2, <1>3

\* The part of Typed that the rows, the tasks and the calls have.
Working == RowsOK /\ TodoOK /\ ThreadsOK

\* A step that only changes what a thread has in hand, and takes a task or none.
LEMMA MoveKeeps ==
  ASSUME Working, UNCHANGED rows,
         UNCHANGED todo \/ \E k \in Task : Take(k.name, k.id),
         NEW t \in Thread, NEW q \in Memory, ProcessOK(q), Become(t, q)
  PROVE  Working'
<1>1. RowsOK' /\ Grows
  BY DEF Working, RowsOK, rows, EntryOK, Grows
<1>2. ProcessOK(q)'
  BY <1>1, ProcessKept DEF Working
<1>3. ThreadsOK'
  BY <1>1, <1>2, ThreadsMove DEF Working
<1>4. TodoOK'
  BY <1>1, TodoKept DEF Working, Grows
<1> QED
  BY <1>1, <1>3, <1>4 DEF Working

\* What the factories of wallet transactions make.
LEMMA CreditEntryType ==
  ASSUME NEW type \in CreditType, NEW j \in Job,
         type = "INCOME" \/ ImpactedOf[j] # NoOwner
  PROVE  /\ CreditEntry(type, j) \in Transaction /\ EntryOK(CreditEntry(type, j))
         /\ CreditEntry(type, j).owner = CreditedTo(type, j)
         /\ CreditEntry(type, j).amount = DueFor(type, j)
         /\ CreditEntry(type, j).type = type /\ CreditEntry(type, j).job = j
<1>1. CreditedTo(type, j) \in Owner /\ DueFor(type, j) \in Int
  BY WalletAssumption DEF CreditedTo, DueFor
<1>2. PICK e : e = CreditEntry(type, j)
  OBVIOUS
<1>3. e \in Transaction
  BY <1>1, <1>2 DEF CreditEntry, Transaction
<1>4. EntryOK(e)
  BY <1>2, <1>3 DEF CreditEntry, EntryOK, CreditType
<1> QED
  BY <1>2, <1>3, <1>4 DEF CreditEntry

\* The transaction of a payout is typed, and its amount is what the payout takes.
LEMMA PayoutEntryType ==
  ASSUME RowsOK, NEW p \in DOMAIN payouts
  PROVE  /\ PayoutEntry(p) \in Transaction /\ EntryOK(PayoutEntry(p))
         /\ PayoutEntry(p).type = "PAYOUT" /\ PayoutEntry(p).payout = p
         /\ PayoutEntry(p).owner = payouts[p].owner
         /\ PayoutEntry(p).amount = -payouts[p].amount
<1>1. payouts[p] \in PayoutRow /\ p \in PayoutId
  BY WalletAssumption DEF RowsOK, PayoutId
<1>2. payouts[p].owner \in Owner /\ payouts[p].amount \in Int
  BY <1>1 DEF PayoutRow
<1>3. PICK e : e = PayoutEntry(p)
  OBVIOUS
<1>4. e \in Transaction
  BY <1>1, <1>2, <1>3 DEF PayoutEntry, Transaction
<1>5. p # 0
  BY <1>1, WalletAssumption DEF PayoutId
<1>6. EntryOK(e)
  BY <1>1, <1>3, <1>4, <1>5 DEF PayoutEntry, EntryOK, CreditType
<1> QED
  BY <1>3, <1>4, <1>6 DEF PayoutEntry

\* The wallet in memory is a wallet, whatever was added to it.
LEMMA WalletType ==
  ASSUME NEW w \in WalletRow, NEW amount \in Int
  PROVE  /\ Debited(w, amount) \in WalletRow /\ Held(w, amount) \in WalletRow
         /\ Released(w, amount) \in WalletRow
<1>1. w = [exists |-> w.exists, available |-> w.available, hold |-> w.hold]
      /\ w.exists \in BOOLEAN /\ w.available \in Int /\ w.hold \in Int
  BY DEF WalletRow
<1>2. w.available + amount \in Int /\ w.available - amount \in Int
      /\ w.hold + amount \in Int /\ w.hold - amount \in Int
  BY <1>1
<1>3. /\ Debited(w, amount) = [w EXCEPT !.available = w.available + amount]
      /\ Held(w, amount) = [w EXCEPT !.available = w.available - amount,
                                      !.hold = w.hold + amount]
      /\ Released(w, amount) = [w EXCEPT !.hold = w.hold - amount]
  BY DEF Debited, Held, Released
<1>4. Debited(w, amount) \in WalletRow
  BY <1>2, <1>3 DEF WalletRow
<1>5. Held(w, amount) \in WalletRow
  BY <1>2, <1>3 DEF WalletRow
<1>6. Released(w, amount) \in WalletRow
  BY <1>2, <1>3 DEF WalletRow
<1> QED
  BY <1>4, <1>5, <1>6

\* A call with a transaction and a wallet, on its way to save them.
LEMMA WithEntryType ==
  ASSUME NEW p \in Memory, ProcessOK(p), NEW entry \in Transaction, EntryOK(entry),
         NEW wallet \in WalletRow, NEW q, q = WithEntry(p, entry, wallet)
  PROVE  /\ q \in Memory /\ ProcessOK(q)
         /\ q.pc = "compareEntry" /\ q.entry = entry /\ q.wallet = wallet
         /\ q.incomes = p.incomes /\ q.compensations = p.compensations /\ q.next = p.next
         /\ q.rows = p.rows
<1>1. q = [p EXCEPT !.pc = "compareEntry", !.entry = entry, !.wallet = wallet]
  BY DEF WithEntry
<1>2. q \in Memory
  BY <1>1 DEF Memory, WalletPC
<1>3. /\ q.pc = "compareEntry" /\ q.entry = entry /\ q.wallet = wallet
      /\ q.incomes = p.incomes /\ q.compensations = p.compensations /\ q.next = p.next
      /\ q.rows = p.rows
  BY <1>1 DEF Memory
<1>4. ProcessOK(q)
  BY <1>3 DEF ProcessOK, WithTransaction, WithLines
<1> QED
  BY <1>2, <1>3, <1>4

\* The same of an idle thread, now.
LEMMA IdleNow == Idle \in Memory /\ ProcessOK(Idle)
<1>1. Idle \in Memory
  BY IdleOK
<1>2. ProcessOK(Idle)
  BY DEF Idle, ProcessOK, WithTransaction, WithLines
<1> QED BY <1>1, <1>2

\* A wallet of which some columns are written remains a wallet.
LEMMA MergedType ==
  ASSUME NEW w \in WalletRow, NEW row \in WalletRow, NEW columns \in SUBSET Columns
  PROVE  /\ Merged(w, row, columns) \in WalletRow
         /\ Merged(w, row, columns).exists = row.exists
         /\ Merged(w, row, columns).available =
              IF "available" \in columns THEN w.available ELSE row.available
         /\ Merged(w, row, columns).hold = IF "hold" \in columns THEN w.hold ELSE row.hold
<1>1. w.available \in Int /\ w.hold \in Int
      /\ row.exists \in BOOLEAN /\ row.available \in Int /\ row.hold \in Int
  BY DEF WalletRow
<1>2. DOMAIN row = {"exists", "available", "hold"}
  BY DEF WalletRow
<1>3. Merged(w, row, columns) = [exists |-> row.exists,
        available |-> IF "available" \in columns THEN w.available ELSE row.available,
        hold |-> IF "hold" \in columns THEN w.hold ELSE row.hold]
  BY <1>2 DEF Merged, Columns
<1> QED
  BY <1>1, <1>3 DEF WalletRow

\* The tables that only a handler in the wallets leaves alone.
LEMMA WalletRows ==
  UNCHANGED <<jobs, wallets, transactions, payouts>> /\ UNCHANGED <<lines, batches>>
    => UNCHANGED rows
BY DEF rows

\* The handlers that credit an owner keep the state typed.
LEMMA IncomeType ==
  ASSUME Working, UNCHANGED <<lines, batches>>, NEW t \in Thread, NEW j \in Job,
         Income(t, j) \/ Compensate(t, j)
  PROVE  Working'
<1> USE DEF Working
<1>1. UNCHANGED rows
  BY WalletRows DEF Income, Compensate
<1>2. CASE Income(t, j)
  <2>1. PICK e : e = CreditEntry("INCOME", j)
    OBVIOUS
  <2>2. e \in Transaction /\ EntryOK(e)
    BY <2>1, CreditEntryType DEF CreditType
  <2>3. e.owner \in Owner /\ e.amount \in Int
    BY <2>1, CreditEntryType, WalletAssumption DEF CreditType, CreditedTo, DueFor
  <2>4. wallets[e.owner] \in WalletRow
    BY <2>3 DEF RowsOK
  <2>5. Debited(wallets[e.owner], e.amount) \in WalletRow
    BY <2>3, <2>4, WalletType
  <2>6. PICK q : q = WithEntry(Idle, e, Debited(wallets[e.owner], e.amount))
    OBVIOUS
  <2>7. q \in Memory /\ ProcessOK(q)
    BY <2>2, <2>5, <2>6, WithEntryType, IdleNow
  <2>8. Become(t, q)
    BY <1>2, <2>1, <2>6 DEF Income
  <2>9. [name |-> "income", id |-> j] \in Task
    BY DEF Task
  <2>10. \E k \in Task : Take(k.name, k.id)
    BY <1>2, <2>9 DEF Income
  <2> QED
    BY <1>1, <2>7, <2>8, <2>10, MoveKeeps
<1>3. CASE Compensate(t, j)
  <2>0. ImpactedOf[j] # NoOwner
    BY <1>3 DEF Compensate
  <2>1. PICK e : e = CreditEntry("RESCHEDULE_SURCHARGE_COMPENSATION", j)
    OBVIOUS
  <2>2. e \in Transaction /\ EntryOK(e)
    BY <2>0, <2>1, CreditEntryType DEF CreditType
  <2>3. e.owner \in Owner /\ e.amount \in Int
    BY <2>0, <2>1, CreditEntryType, WalletAssumption DEF CreditType, CreditedTo, DueFor
  <2>4. wallets[e.owner] \in WalletRow
    BY <2>3 DEF RowsOK
  <2>5. Debited(wallets[e.owner], e.amount) \in WalletRow
    BY <2>3, <2>4, WalletType
  <2>6. PICK r : r = WithEntry(Idle, e, Debited(wallets[e.owner], e.amount))
    OBVIOUS
  <2>7. r \in Memory /\ ProcessOK(r) /\ r.entry = e /\ r.rows = {}
    <3>1. Idle.rows = {}
      BY DEF Idle
    <3> QED BY <3>1, <2>2, <2>5, <2>6, WithEntryType, IdleNow
  <2>8. PICK q : q = [r EXCEPT !.pc = "checkCompensation"]
    OBVIOUS
  <2>9. q \in Memory
    BY <2>7, <2>8 DEF Memory, WalletPC
  <2>10. q.pc = "checkCompensation" /\ q.entry = e /\ q.rows = {}
    BY <2>7, <2>8 DEF Memory
  <2>11. ProcessOK(q)
    BY <2>2, <2>10 DEF ProcessOK, WithLines
  <2>12. Become(t, q)
    BY <1>3, <2>1, <2>6, <2>8 DEF Compensate
  <2>13. [name |-> "compensation", id |-> j] \in Task
    BY DEF Task
  <2>14. \E k \in Task : Take(k.name, k.id)
    BY <1>3, <2>13 DEF Compensate
  <2> QED
    BY <1>1, <2>9, <2>11, <2>12, <2>14, MoveKeeps
<1> QED BY <1>2, <1>3

\* Nobody is compensated.
LEMMA DismissType ==
  ASSUME Working, UNCHANGED <<lines, batches>>, NEW j \in Job, DismissCompensation(j)
  PROVE  Working'
<1>1. UNCHANGED rows
  BY WalletRows DEF DismissCompensation
<1>2. RowsOK' /\ Grows
  BY <1>1 DEF Working, RowsOK, rows, EntryOK, Grows
<1>3. ThreadsOK'
  BY <1>2, ThreadsStay DEF Working, DismissCompensation
<1>4. [name |-> "compensation", id |-> j] \in Task
  BY DEF Task
<1>5. \E k \in Task : Take(k.name, k.id)
  BY <1>4 DEF DismissCompensation
<1>6. TodoOK'
  BY <1>2, <1>5, TodoKept DEF Working, Grows
<1> QED
  BY <1>2, <1>3, <1>6 DEF Working

\* A handler moves on and keeps its transaction.
LEMMA OnwardType ==
  ASSUME Working, NEW t \in Thread, thread[t].pc \in WithTransaction,
         NEW pc \in WithTransaction \ {"compareRelease", "writeRelease"},
         NEW q, q = [thread[t] EXCEPT !.pc = pc]
  PROVE  q \in Memory /\ ProcessOK(q) /\ q.pc = pc /\ q.entry = thread[t].entry
<1>1. PICK p : p = thread[t]
  OBVIOUS
<1>2. p \in Memory /\ ProcessOK(p)
  BY <1>1 DEF Working, ThreadsOK
<1>3. q \in Memory
  BY <1>1, <1>2 DEF Memory, WithTransaction, WalletPC
<1>4. q.pc = pc /\ q.entry = p.entry /\ q.rows = p.rows
  BY <1>1, <1>2 DEF Memory
<1>5. ProcessOK(q)
  BY <1>1, <1>2, <1>4 DEF ProcessOK, WithTransaction, WithLines
<1> QED
  BY <1>1, <1>3, <1>4, <1>5

\* The question whether the owner was compensated already.
LEMMA CheckType ==
  ASSUME Working, UNCHANGED <<lines, batches>>, NEW t \in Thread, CheckCompensation(t)
  PROVE  Working'
<1>1. UNCHANGED rows /\ UNCHANGED todo
  BY WalletRows DEF CheckCompensation
<1>2. CASE Finish(t)
  BY <1>1, <1>2, IdleNow, MoveKeeps DEF Finish
<1>3. CASE Goto(t, "compareEntry")
  <2>1. PICK q : q = [thread[t] EXCEPT !.pc = "compareEntry"]
    OBVIOUS
  <2>2. q \in Memory /\ ProcessOK(q)
    BY <2>1, OnwardType DEF CheckCompensation, Running, WithTransaction
  <2>3. Become(t, q)
    BY <1>3, <2>1 DEF Goto, Become, Working, ThreadsOK
  <2> QED
    BY <1>1, <2>2, <2>3, MoveKeeps
<1> QED
  BY <1>2, <1>3 DEF CheckCompensation

\* The handlers that hold and release a balance begin.
LEMMA HoldType ==
  ASSUME Working, UNCHANGED <<lines, batches>>, NEW t \in Thread, NEW p \in PayoutId,
         Hold(t, p) \/ Release(t, p)
  PROVE  Working'
<1> USE DEF Working
<1>1. UNCHANGED rows
  BY WalletRows DEF Hold, Release
<1>2. PICK name \in {"hold", "release"} : Take(name, p)
  BY DEF Hold, Release
<1>3. PICK k : k = [name |-> name, id |-> p]
  OBVIOUS
<1>4. k \in Task /\ k \in [name : {"hold", "release"}, id : PayoutId]
      /\ k.name = name /\ k.id = p
  BY <1>3 DEF Task
<1>5. todo[k] > 0
  BY <1>2, <1>3 DEF Take
<1>6. p \in DOMAIN payouts
  BY <1>4, <1>5 DEF TodoOK
<1>7. \E m \in Task : Take(m.name, m.id)
  BY <1>2, <1>4
<1>8. PICK e : e = PayoutEntry(p)
  OBVIOUS
<1>9. e \in Transaction /\ EntryOK(e) /\ e.owner = payouts[p].owner
      /\ e.amount = -payouts[p].amount
  BY <1>6, <1>8, PayoutEntryType
<1>10. e.owner \in Owner /\ e.amount \in Int /\ -e.amount \in Int
  <2>1. payouts[p].owner \in Owner /\ payouts[p].amount \in Int
    <3>1. payouts[p] \in PayoutRow
      BY <1>6 DEF RowsOK
    <3> QED BY <3>1 DEF PayoutRow
  <2>2. -payouts[p].amount \in Int /\ -(-payouts[p].amount) \in Int
    BY <2>1
  <2> QED BY <1>9, <2>1, <2>2
<1>11. wallets[e.owner] \in WalletRow
  BY <1>10 DEF RowsOK
<1>12. PICK w : w = Released(wallets[e.owner], -e.amount)
  OBVIOUS
<1>13. w \in WalletRow
  BY <1>10, <1>11, <1>12, WalletType
<1>14. PICK q : q = [Idle EXCEPT !.pc = "findWallet", !.entry = e]
  OBVIOUS
<1>15. PICK r : r = [Idle EXCEPT !.pc = "findPending", !.entry = e, !.wallet = w]
  OBVIOUS
<1>16. Idle \in Memory /\ Idle.rows = {}
  <2>1. Idle.rows = {}
    BY DEF Idle
  <2> QED BY <2>1, IdleNow
<1>17. q \in Memory /\ r \in Memory
  BY <1>9, <1>13, <1>14, <1>15, <1>16 DEF Memory, WalletPC
<1>18. /\ q.pc = "findWallet" /\ q.entry = e /\ q.rows = {}
       /\ r.pc = "findPending" /\ r.entry = e /\ r.rows = {}
  BY <1>14, <1>15, <1>16 DEF Memory
<1>19. ProcessOK(q) /\ ProcessOK(r)
  BY <1>9, <1>18 DEF ProcessOK, WithTransaction, WithLines
<1>20. Become(t, Idle) \/ Become(t, q) \/ Become(t, r)
  BY <1>8, <1>12, <1>14, <1>15 DEF Hold, Release
<1> QED
  BY <1>1, <1>7, <1>17, <1>19, <1>20, IdleNow, MoveKeeps

\* The wallet whose balance is held is read.
LEMMA FindWalletType ==
  ASSUME Working, UNCHANGED <<lines, batches>>, NEW t \in Thread, FindWallet(t)
  PROVE  Working'
<1> USE DEF Working
<1>1. UNCHANGED rows /\ UNCHANGED todo
  BY WalletRows DEF FindWallet
<1>2. PICK p, e : p = thread[t] /\ e = thread[t].entry
  OBVIOUS
<1>3. p \in Memory /\ ProcessOK(p) /\ p.pc = "findWallet"
  BY <1>2 DEF ThreadsOK, FindWallet, Running
<1>4. EntryOK(e)
  BY <1>2, <1>3 DEF ProcessOK, WithTransaction
<1>5. e \in Transaction /\ e.owner \in Owner /\ e.amount \in Int /\ -e.amount \in Int
  BY <1>4 DEF EntryOK, Transaction
<1>6. Held(wallets[e.owner], -e.amount) \in WalletRow
  BY <1>5, WalletType DEF RowsOK
<1>7. PICK q : q = WithEntry(p, e, Held(wallets[e.owner], -e.amount))
  OBVIOUS
<1>8. q \in Memory /\ ProcessOK(q)
  BY <1>3, <1>4, <1>5, <1>6, <1>7, WithEntryType
<1>9. Become(t, q) \/ Become(t, Idle)
  BY <1>2, <1>7 DEF FindWallet, Finish
<1> QED
  BY <1>1, <1>8, <1>9, IdleNow, MoveKeeps

\* The transaction that is released is read.
LEMMA FindPendingType ==
  ASSUME Working, UNCHANGED <<lines, batches>>, NEW t \in Thread, FindPending(t)
  PROVE  Working'
<1> USE DEF Working
<1>1. UNCHANGED rows /\ UNCHANGED todo
  BY WalletRows DEF FindPending
<1>2. PICK p : p = thread[t]
  OBVIOUS
<1>3. p \in Memory /\ ProcessOK(p) /\ p.pc = "findPending"
  BY <1>2 DEF ThreadsOK, FindPending, Running
<1>4. CASE Finish(t)
  BY <1>1, <1>4, IdleNow, MoveKeeps DEF Finish
<1>5. ASSUME NEW i \in DOMAIN transactions,
             Become(t, [thread[t] EXCEPT !.pc = "compareRelease", !.trx = i])
      PROVE  Working'
  <2>1. PICK q : q = [p EXCEPT !.pc = "compareRelease", !.trx = i]
    OBVIOUS
  <2>2. i \in Nat
    BY DEF RowsOK
  <2>3. q \in Memory
    BY <1>3, <2>1, <2>2 DEF Memory, WalletPC
  <2>4. q.pc = "compareRelease" /\ q.trx = i /\ q.entry = p.entry /\ q.rows = p.rows
    BY <1>3, <2>1 DEF Memory
  <2>5. ProcessOK(q)
    BY <1>3, <2>4 DEF ProcessOK, WithTransaction, WithLines
  <2> QED
    BY <1>1, <1>2, <1>5, <2>1, <2>3, <2>5, MoveKeeps
<1> QED
  BY <1>4, <1>5 DEF FindPending, OfPayout, Of

\* The save reads the wallet again.
LEMMA CompareType ==
  ASSUME Working, UNCHANGED <<lines, batches>>, NEW t \in Thread,
         CompareEntry(t) \/ CompareRelease(t)
  PROVE  Working'
<1> USE DEF Working
<1>1. UNCHANGED rows /\ UNCHANGED todo
  BY WalletRows DEF CompareEntry, CompareRelease, Compare
<1>2. PICK p : p = thread[t]
  OBVIOUS
<1>3. p \in Memory /\ ProcessOK(p)
  BY <1>2 DEF ThreadsOK
<1>4. PICK changed : changed = Differing(p.wallet, wallets[p.entry.owner])
  OBVIOUS
<1>5. changed \in SUBSET Columns
  BY <1>4 DEF Differing, Columns
<1>6. PICK to \in {"writeEntry", "writeRelease"} :
        /\ p.pc = IF to = "writeEntry" THEN "compareEntry" ELSE "compareRelease"
        /\ Become(t, [p EXCEPT !.pc = to, !.changed = changed])
  BY <1>2, <1>4 DEF CompareEntry, CompareRelease, Compare, Running
<1>7. PICK q : q = [p EXCEPT !.pc = to, !.changed = changed]
  OBVIOUS
<1>8. q \in Memory
  BY <1>3, <1>5, <1>7 DEF Memory, WalletPC
<1>9. q.pc = to /\ q.entry = p.entry /\ q.rows = p.rows /\ q.trx = p.trx
  BY <1>3, <1>7 DEF Memory
<1>10. ProcessOK(q)
  BY <1>3, <1>6, <1>9 DEF ProcessOK, WithTransaction, WithLines
<1> QED
  BY <1>1, <1>6, <1>7, <1>8, <1>10, MoveKeeps

\* What a call returns to has no transaction in hand.
LEMMA ReturnType ==
  ASSUME NEW p \in Memory, NEW q,
         q = [Idle EXCEPT !.pc = p.next, !.incomes = p.incomes,
                          !.compensations = p.compensations]
  PROVE  /\ q \in Memory /\ ProcessOK(q) /\ ProcessOK(q)'
         /\ q.pc = p.next /\ q.incomes = p.incomes /\ q.compensations = p.compensations
         /\ q.next = "idle"
<1>1. Idle \in Memory /\ Idle.rows = {} /\ Idle.next = "idle"
  <2>1. Idle.rows = {} /\ Idle.next = "idle"
    BY DEF Idle
  <2> QED BY <2>1, IdleNow
<1>2. p.next \in {"idle", "regenIncome", "regenCompensation"}
      /\ p.incomes \in SUBSET Job /\ p.compensations \in SUBSET Impacted
  BY DEF Memory
<1>3. q \in Memory
  BY <1>1, <1>2 DEF Memory, WalletPC
<1>4. q.pc = p.next /\ q.rows = {} /\ q.incomes = p.incomes
      /\ q.compensations = p.compensations /\ q.next = "idle"
  BY <1>1 DEF Memory
<1>5. ProcessOK(q) /\ ProcessOK(q)'
  BY <1>2, <1>4 DEF ProcessOK, WithTransaction, WithLines
<1> QED
  BY <1>3, <1>4, <1>5

\* A transaction is saved at the end of the table.
LEMMA AppendGrows ==
  ASSUME RowsOK, NEW e, EntryOK(e), transactions' = Append(transactions, e),
         wallets' \in [Owner -> WalletRow], UNCHANGED <<jobs, payouts, lines, batches>>
  PROVE  RowsOK' /\ Grows
<1>1. e \in Transaction /\ transactions \in Seq(Transaction)
  BY DEF EntryOK, RowsOK
<1>2. /\ transactions' \in Seq(Transaction)
      /\ DOMAIN transactions' = 1..(Len(transactions) + 1)
      /\ \A i \in DOMAIN transactions : transactions'[i] = transactions[i]
      /\ transactions'[Len(transactions) + 1] = e
      /\ DOMAIN transactions = 1..Len(transactions) /\ Len(transactions) \in Nat
  BY <1>1
<1>3. Grows
  BY <1>2 DEF Grows
<1>4. ASSUME NEW i \in DOMAIN transactions' PROVE EntryOK(transactions'[i])
  <2>1. i \in DOMAIN transactions \/ i = Len(transactions) + 1
    BY <1>2
  <2> QED BY <2>1, <1>2 DEF RowsOK
<1>5. RowsOK'
  BY <1>2, <1>4 DEF RowsOK, EntryOK
<1> QED
  BY <1>3, <1>5

\* The save inserts the transaction and writes the wallet.
LEMMA WriteEntryType ==
  ASSUME Working, UNCHANGED <<lines, batches>>, NEW t \in Thread, WriteEntry(t)
  PROVE  Working'
<1> USE DEF Working
<1>1. PICK p, o : p = thread[t] /\ o = thread[t].entry.owner
  OBVIOUS
<1>2. p \in Memory /\ ProcessOK(p) /\ p.pc = "writeEntry"
  BY <1>1 DEF ThreadsOK, WriteEntry, Running
<1>3. EntryOK(p.entry)
  BY <1>2 DEF ProcessOK, WithTransaction
<1>4. p.entry \in Transaction
  BY <1>3 DEF EntryOK
<1>5. o \in Owner
  BY <1>1, <1>4 DEF Transaction
<1>6. p.wallet \in WalletRow /\ p.changed \in SUBSET Columns
  BY <1>2 DEF Memory
<1>7. wallets[o] \in WalletRow
  BY <1>5 DEF RowsOK
<1>8. CASE p.wallet.exists
  <2>1. /\ wallets' = [wallets EXCEPT ![o] = Merged(p.wallet, wallets[o], p.changed)]
        /\ transactions' = Append(transactions, p.entry)
        /\ Return(t) /\ UNCHANGED <<jobs, payouts, todo>>
    BY <1>1, <1>8 DEF WriteEntry
  <2>2. wallets' \in [Owner -> WalletRow]
    BY <1>5, <1>6, <1>7, <2>1, MergedType DEF RowsOK
  <2>3. RowsOK' /\ Grows
    BY <1>3, <2>1, <2>2, AppendGrows
  <2>4. PICK q : q = [Idle EXCEPT !.pc = p.next, !.incomes = p.incomes,
                                  !.compensations = p.compensations]
    OBVIOUS
  <2>5. q \in Memory /\ ProcessOK(q)'
    BY <1>2, <2>4, ReturnType
  <2>6. Become(t, q)
    BY <1>1, <2>1, <2>4 DEF Return
  <2>7. ThreadsOK'
    BY <2>3, <2>5, <2>6, ThreadsMove
  <2>8. TodoOK'
    BY <2>1, <2>3, TodoKept DEF Grows
  <2> QED
    BY <2>3, <2>7, <2>8
<1>9. CASE ~p.wallet.exists /\ ~wallets[o].exists
  <2>1. /\ wallets' = [wallets EXCEPT ![o] = [p.wallet EXCEPT !.exists = TRUE]]
        /\ transactions' = Append(transactions, p.entry)
        /\ Return(t) /\ UNCHANGED <<jobs, payouts, todo>>
    BY <1>1, <1>9 DEF WriteEntry
  <2>2. wallets' \in [Owner -> WalletRow]
    <3>1. [p.wallet EXCEPT !.exists = TRUE] \in WalletRow
      BY <1>6 DEF WalletRow
    <3> QED
      BY <1>5, <2>1, <3>1 DEF RowsOK
  <2>3. RowsOK' /\ Grows
    BY <1>3, <2>1, <2>2, AppendGrows
  <2>4. PICK q : q = [Idle EXCEPT !.pc = p.next, !.incomes = p.incomes,
                                  !.compensations = p.compensations]
    OBVIOUS
  <2>5. q \in Memory /\ ProcessOK(q)'
    BY <1>2, <2>4, ReturnType
  <2>6. Become(t, q)
    BY <1>1, <2>1, <2>4 DEF Return
  <2>7. ThreadsOK'
    BY <2>3, <2>5, <2>6, ThreadsMove
  <2>8. TodoOK'
    BY <2>1, <2>3, TodoKept DEF Grows
  <2> QED
    BY <2>3, <2>7, <2>8
<1>10. CASE ~p.wallet.exists /\ wallets[o].exists
  <2>1. UNCHANGED rows /\ UNCHANGED todo /\ Become(t, Idle)
    BY <1>1, <1>10 DEF WriteEntry, Finish, rows
  <2> QED
    BY <2>1, IdleNow, MoveKeeps
<1> QED
  BY <1>8, <1>9, <1>10

\* The save updates the transaction and writes the wallet.
LEMMA WriteReleaseType ==
  ASSUME Working, UNCHANGED <<lines, batches>>, NEW t \in Thread, WriteRelease(t)
  PROVE  Working'
<1> USE DEF Working
<1>1. PICK p, o : p = thread[t] /\ o = thread[t].entry.owner
  OBVIOUS
<1>2. p \in Memory /\ ProcessOK(p) /\ p.pc = "writeRelease"
  BY <1>1 DEF ThreadsOK, WriteRelease, Running
<1>3. EntryOK(p.entry)
  BY <1>2 DEF ProcessOK, WithTransaction
<1>4. o \in Owner
  BY <1>1, <1>3 DEF EntryOK, Transaction
<1>5. p.wallet \in WalletRow /\ p.changed \in SUBSET Columns /\ wallets[o] \in WalletRow
  BY <1>2, <1>4 DEF Memory, RowsOK
<1>6. /\ wallets' = [wallets EXCEPT ![o] = Merged(p.wallet, wallets[o], p.changed)]
      /\ transactions' = [transactions EXCEPT ![p.trx].status = "SUCCESS"]
      /\ Become(t, Idle) /\ UNCHANGED <<jobs, payouts, todo>>
  BY <1>1, <1>4 DEF WriteRelease, Finish, RowsOK
<1>7. wallets' \in [Owner -> WalletRow]
  BY <1>4, <1>5, <1>6, MergedType DEF RowsOK
<1>8. /\ DOMAIN transactions' = DOMAIN transactions
      /\ \A i \in DOMAIN transactions :
           \/ transactions'[i] = transactions[i]
           \/ transactions'[i] = [transactions[i] EXCEPT !.status = "SUCCESS"]
  BY <1>6 DEF RowsOK
<1>9. ASSUME NEW i \in DOMAIN transactions
      PROVE  /\ transactions'[i] \in Transaction
             /\ transactions'[i].type = transactions[i].type
             /\ transactions'[i].owner = transactions[i].owner
             /\ transactions'[i].job = transactions[i].job
             /\ transactions'[i].amount = transactions[i].amount
             /\ transactions'[i].payout = transactions[i].payout
  <2>1. PICK r : r = transactions[i]
    OBVIOUS
  <2>2. r \in Transaction
    BY <2>1 DEF RowsOK
  <2> QED
    BY <1>8, <2>1, <2>2 DEF Transaction
<1>10. Grows
  BY <1>6, <1>8, <1>9 DEF Grows
<1>11. transactions' \in Seq(Transaction)
  <2>1. Len(transactions) \in Nat /\ DOMAIN transactions = 1..Len(transactions)
    BY DEF RowsOK
  <2>2. transactions' \in [1..Len(transactions) -> Transaction]
    BY <1>6, <1>9, <2>1 DEF RowsOK
  <2> QED BY <2>1, <2>2
<1>12. RowsOK'
  <2>1. ASSUME NEW i \in DOMAIN transactions' PROVE EntryOK(transactions[i])'
    <3>1. i \in DOMAIN transactions
      BY <1>8
    <3>2. EntryOK(transactions[i])
      BY <3>1 DEF RowsOK
    <3> QED BY <1>6, <1>9, <3>1, <3>2 DEF EntryOK
  <2> QED
    BY <1>6, <1>7, <1>11, <2>1 DEF RowsOK, EntryOK
<1>13. ThreadsOK'
  BY <1>6, <1>10, IdleOK, ThreadsMove
<1>14. TodoOK'
  BY <1>6, <1>10, TodoKept DEF Grows
<1> QED
  BY <1>12, <1>13, <1>14

\* The repair takes one job more.
LEMMA RegenOneType ==
  ASSUME Working, UNCHANGED rows, UNCHANGED todo, NEW t \in Thread,
         thread[t].pc \in {"regenIncome", "regenCompensation"},
         NEW j \in Job, NEW type \in CreditType, type = "INCOME" \/ ImpactedOf[j] # NoOwner,
         NEW left \in {"incomes", "compensations"}, RegenOne(t, j, type, left)
  PROVE  Working'
<1> USE DEF Working
<1>1. PICK p, e : p = thread[t] /\ e = CreditEntry(type, j)
  OBVIOUS
<1>2. p \in Memory /\ ProcessOK(p)
  BY <1>1 DEF ThreadsOK
<1>3. e \in Transaction /\ EntryOK(e)
  BY <1>1, CreditEntryType
<1>4. e.owner \in Owner /\ e.amount \in Int
  BY <1>3 DEF Transaction
<1>5. Debited(wallets[e.owner], e.amount) \in WalletRow
  BY <1>4, WalletType DEF RowsOK
<1>6. PICK r : r = WithEntry(p, e, Debited(wallets[e.owner], e.amount))
  OBVIOUS
<1>7. /\ r \in Memory /\ ProcessOK(r) /\ r.pc = "compareEntry" /\ r.entry = e
      /\ r.rows = p.rows
  BY <1>2, <1>3, <1>5, <1>6, WithEntryType
<1>8. PICK q : q = [r EXCEPT ![left] = @ \ {j}, !.next = p.pc]
  OBVIOUS
<1>9. q \in Memory
  <2>1. CASE left = "incomes"
    <3>1. q = [r EXCEPT !.incomes = r.incomes \ {j}, !.next = p.pc]
      BY <1>8, <2>1
    <3>2. r.incomes \ {j} \in SUBSET Job
      BY <1>7 DEF Memory
    <3> QED BY <1>1, <1>7, <3>1, <3>2 DEF Memory
  <2>2. CASE left = "compensations"
    <3>1. q = [r EXCEPT !.compensations = r.compensations \ {j}, !.next = p.pc]
      BY <1>8, <2>2
    <3>2. r.compensations \ {j} \in SUBSET Impacted
      BY <1>7 DEF Memory
    <3> QED BY <1>1, <1>7, <3>1, <3>2 DEF Memory
  <2> QED BY <2>1, <2>2
<1>10. q.pc = "compareEntry" /\ q.entry = e /\ q.rows = p.rows
  BY <1>7, <1>8 DEF Memory
<1>11. ProcessOK(q)
  BY <1>2, <1>3, <1>10 DEF ProcessOK, WithTransaction, WithLines
<1>12. Become(t, q)
  BY <1>1, <1>6, <1>8 DEF RegenOne
<1> QED
  BY <1>9, <1>11, <1>12, MoveKeeps

\* The repair goes on.
LEMMA RegenType ==
  ASSUME Working, UNCHANGED <<lines, batches>>, NEW t \in Thread,
         RegenIncome(t) \/ RegenCompensation(t)
  PROVE  Working'
<1> USE DEF Working
<1>1. UNCHANGED rows /\ UNCHANGED todo
  BY WalletRows DEF RegenIncome, RegenCompensation
<1>2. PICK p : p = thread[t]
  OBVIOUS
<1>3. p \in Memory /\ ProcessOK(p) /\ p.pc \in {"regenIncome", "regenCompensation"}
  BY <1>2 DEF ThreadsOK, RegenIncome, RegenCompensation, Running
<1>4. CASE Goto(t, "regenCompensation")
  <2>1. PICK q : q = [p EXCEPT !.pc = "regenCompensation"]
    OBVIOUS
  <2>2. q \in Memory /\ q.pc = "regenCompensation" /\ q.rows = p.rows
    BY <1>3, <2>1 DEF Memory, WalletPC
  <2>3. ProcessOK(q)
    BY <1>3, <2>2 DEF ProcessOK, WithTransaction, WithLines
  <2>4. Become(t, q)
    BY <1>2, <1>4, <2>1 DEF Goto, Become, ThreadsOK
  <2> QED
    BY <1>1, <2>2, <2>3, <2>4, MoveKeeps
<1>5. CASE Finish(t)
  BY <1>1, <1>5, IdleNow, MoveKeeps DEF Finish
<1>6. ASSUME NEW j \in thread[t].incomes, RegenOne(t, j, "INCOME", "incomes")
      PROVE  Working'
  <2>1. j \in Job
    BY <1>2, <1>3 DEF Memory
  <2> QED
    BY <1>1, <1>2, <1>3, <1>6, <2>1, RegenOneType DEF CreditType
<1>7. ASSUME NEW j \in thread[t].compensations,
             RegenOne(t, j, "RESCHEDULE_SURCHARGE_COMPENSATION", "compensations")
      PROVE  Working'
  <2>1. j \in Job /\ ImpactedOf[j] # NoOwner
    BY <1>2, <1>3 DEF Memory, Impacted
  <2> QED
    BY <1>1, <1>2, <1>3, <1>7, <2>1, RegenOneType DEF CreditType
<1> QED
  BY <1>4, <1>5, <1>6, <1>7 DEF RegenIncome, RegenCompensation

\* What the program does without being called keeps types.
LEMMA CommandType == Working /\ Command => Working'
<1> SUFFICES ASSUME Working, Command PROVE Working'
  OBVIOUS
<1>1. UNCHANGED <<lines, batches>>
  BY DEF Command
<1>2. ASSUME NEW j \in Job, DismissCompensation(j) PROVE Working'
  BY <1>1, <1>2, DismissType
<1>3. ASSUME NEW t \in Thread, WalletStep(t) PROVE Working'
  BY <1>1, <1>3, IncomeType, HoldType, CheckType, FindWalletType, FindPendingType, CompareType,
     WriteEntryType, WriteReleaseType, RegenType DEF WalletStep
<1> QED
  BY <1>2, <1>3 DEF Command

------------------------------------------------------------------------------

\* Rows of payouts are saved anew, about the same owners and amounts.
LEMMA PayoutsSaved ==
  ASSUME RowsOK, UNCHANGED <<jobs, wallets, transactions, lines>>,
         batches' \in Seq(BatchStatus),
         payouts' = [p \in DOMAIN payouts |-> payouts'[p]],
         \A p \in DOMAIN payouts : /\ payouts'[p] \in PayoutRow
                                   /\ payouts'[p].owner = payouts[p].owner
                                   /\ payouts'[p].amount = payouts[p].amount
  PROVE  RowsOK' /\ Grows
<1>1. Len(payouts) \in Nat /\ DOMAIN payouts = 1..Len(payouts)
  BY DEF RowsOK
<1>2. payouts' \in [1..Len(payouts) -> PayoutRow]
  BY <1>1
<1>3. payouts' \in Seq(PayoutRow) /\ DOMAIN payouts' = DOMAIN payouts
      /\ Len(payouts') = Len(payouts)
  BY <1>1, <1>2
<1>4. RowsOK'
  BY <1>3 DEF RowsOK, EntryOK
<1>5. Grows
  BY <1>3 DEF Grows
<1> QED BY <1>4, <1>5

\* The status of some payouts is set.
LEMMA SetStatusType ==
  ASSUME RowsOK, NEW S, NEW status \in PayoutStatus, NEW new, new = SetStatus(S, status)
  PROVE  /\ new = [p \in DOMAIN payouts |-> new[p]]
         /\ \A p \in DOMAIN payouts :
              /\ new[p] \in PayoutRow
              /\ new[p].owner = payouts[p].owner /\ new[p].amount = payouts[p].amount
              /\ new[p].processed = payouts[p].processed /\ new[p].batch = payouts[p].batch
              /\ new[p].status = IF p \in S THEN status ELSE payouts[p].status
<1>1. new = [p \in DOMAIN payouts |->
               IF p \in S THEN [payouts[p] EXCEPT !.status = status] ELSE payouts[p]]
  BY DEF SetStatus
<1>2. ASSUME NEW p \in DOMAIN payouts
      PROVE  /\ new[p] \in PayoutRow
             /\ new[p].owner = payouts[p].owner /\ new[p].amount = payouts[p].amount
             /\ new[p].processed = payouts[p].processed /\ new[p].batch = payouts[p].batch
             /\ new[p].status = IF p \in S THEN status ELSE payouts[p].status
  <2>1. PICK r : r = payouts[p]
    OBVIOUS
  <2>2. r \in PayoutRow
    BY <2>1 DEF RowsOK
  <2>3. new[p] = IF p \in S THEN [r EXCEPT !.status = status] ELSE r
    BY <1>1, <2>1
  <2> QED
    BY <2>1, <2>2, <2>3 DEF PayoutRow
<1>3. new = [p \in DOMAIN payouts |-> new[p]]
  BY <1>1
<1> QED
  BY <1>2, <1>3

\* The status of some lines is set.
LEMMA SetLinesSaved ==
  ASSUME RowsOK, UNCHANGED <<jobs, wallets, transactions, payouts, batches>>,
         NEW S, NEW status \in LineStatus, lines' = SetLines(S, status)
  PROVE  RowsOK' /\ Grows
<1>1. Len(lines) \in Nat /\ DOMAIN lines = 1..Len(lines)
  BY DEF RowsOK
<1>2. ASSUME NEW l \in DOMAIN lines
      PROVE  lines'[l] \in Line /\ lines'[l].payout = lines[l].payout
  <2>1. PICK r : r = lines[l]
    OBVIOUS
  <2>2. r \in Line
    BY <2>1 DEF RowsOK
  <2>3. lines'[l] = IF l \in S THEN [r EXCEPT !.status = status] ELSE r
    BY <2>1 DEF SetLines
  <2> QED
    BY <2>1, <2>2, <2>3 DEF Line
<1>3. lines' \in [1..Len(lines) -> Line] /\ DOMAIN lines' = DOMAIN lines
  BY <1>1, <1>2 DEF SetLines
<1>4. lines' \in Seq(Line)
  BY <1>1, <1>3
<1>5. RowsOK'
  BY <1>2, <1>3, <1>4 DEF RowsOK, EntryOK
<1>6. Grows
  BY <1>3 DEF Grows
<1> QED BY <1>5, <1>6

\* The end of a job.
LEMMA EndType ==
  ASSUME Working, NEW j \in Job, Fulfil(j) \/ TestFulfilled(j) \/ Fail(j)
  PROVE  Working'
<1> USE DEF Working
<1>1. /\ jobs' \in [Job -> JobStatus]
      /\ UNCHANGED <<wallets, transactions, payouts, lines, batches, thread>>
  BY DEF Fulfil, TestFulfilled, Announce, Fail, RowsOK, JobStatus
<1>2. RowsOK' /\ Grows
  BY <1>1 DEF RowsOK, EntryOK, Grows
<1>3. ThreadsOK'
  BY <1>1, <1>2, ThreadsStay
<1>4. PICK tasks : Publish(tasks) /\ \A k \in tasks : k.name \in {"income", "compensation"}
  <2> DEFINE both == Tasks("income", {j}) \cup Tasks("compensation", {j})
  <2>1. \A k \in both : k.name \in {"income", "compensation"}
    BY DEF Tasks
  <2>2. Publish(both) \/ Publish(Tasks("compensation", {j}))
    BY DEF Fulfil, TestFulfilled, Announce, Fail, ServiceRequestFulfilled, ServiceRequestRevoked
  <2> QED BY <2>1, <2>2
<1>5. TodoOK'
  BY <1>2, <1>4, TodoKept DEF Grows
<1> QED
  BY <1>2, <1>3, <1>5

\* Another payout is to be held.
LEMMA PatchType ==
  ASSUME Working, NEW p \in DOMAIN payouts, Patch(p)
  PROVE  Working'
<1> USE DEF Working
<1>1. UNCHANGED rows /\ UNCHANGED thread
  BY DEF Patch
<1>2. RowsOK' /\ Grows
  BY <1>1 DEF RowsOK, rows, EntryOK, Grows
<1>3. ThreadsOK'
  BY <1>1, <1>2, ThreadsStay
<1>4. Publish(Tasks("hold", {p}))
  BY DEF Patch
<1>5. \A k \in Tasks("hold", {p}) : k.id \in DOMAIN payouts'
  BY <1>1 DEF Tasks, rows
<1>6. TodoOK'
  BY <1>2, <1>4, <1>5, TodoKept DEF Grows
<1> QED
  BY <1>2, <1>3, <1>6

\* A call starts from an idle thread with rows of payouts and rows of another table.
LEMMA StartType ==
  ASSUME Working, UNCHANGED rows, UNCHANGED todo, NEW t \in Thread, NEW q \in Memory,
         q.rows \subseteq DOMAIN payouts,
         \/ q.pc \in {"readLines", "saveStatus", "saveSettled"}
         \/ q.pc = "savePayouts" /\ q.ids \subseteq Credits
         \/ q.pc = "saveMarked" /\ q.ids \subseteq DOMAIN lines,
         Become(t, q)
  PROVE  Working'
<1>1. ProcessOK(q)
  BY DEF ProcessOK, WithTransaction, WithLines
<1> QED
  BY <1>1, MoveKeeps

\* A request that starts a call on a thread keeps the state typed.
LEMMA RequestStartType ==
  ASSUME Working, NEW t \in Thread,
         \/ StartRegen(t) \/ Schedule(t) \/ Upload(t) \/ Settle(t)
         \/ \E j \in Job, o \in Owner : Mark(t, j, o)
         \/ \E p \in DOMAIN payouts, s \in NewStatus : Update(t, p, s)
  PROVE  Working'
<1> USE DEF Working
<1>0. Idle.ids = {} /\ Idle.rows = {} /\ Idle.status = "SCHEDULED"
  BY DEF Idle
<1>a. DOMAIN payouts \in SUBSET PayoutId
  BY WalletAssumption DEF RowsOK, PayoutId
<1>1. CASE StartRegen(t)
  <2>1. UNCHANGED rows /\ UNCHANGED todo
    BY <1>1 DEF StartRegen, Regen, rows
  <2>2. PICK q : q = [Idle EXCEPT !.pc = "regenIncome",
                            !.incomes = {j \in Forgotten : jobs[j] = "FULFILLED"},
                            !.compensations = {j \in Forgotten : ImpactedOf[j] # NoOwner}]
    OBVIOUS
  <2>3. /\ {j \in Forgotten : jobs[j] = "FULFILLED"} \in SUBSET Job
        /\ {j \in Forgotten : ImpactedOf[j] # NoOwner} \in SUBSET Impacted
    BY DEF Forgotten, Impacted
  <2>4. q \in Memory /\ q.pc = "regenIncome" /\ q.rows = {}
    BY <2>2, <2>3, <1>0, IdleNow DEF Memory, WalletPC
  <2>5. ProcessOK(q)
    BY <2>4 DEF ProcessOK, WithTransaction, WithLines
  <2>6. Become(t, q)
    BY <1>1, <2>2 DEF StartRegen, Regen
  <2> QED
    BY <2>1, <2>4, <2>5, <2>6, MoveKeeps
<1>2. CASE Schedule(t)
  <2>1. UNCHANGED rows /\ UNCHANGED todo
    BY <1>2 DEF Schedule
  <2>2. Debitable \in SUBSET Nat /\ Debitable \subseteq Credits
    BY DEF Debitable, Credits, RowsOK
  <2>3. PICK q : q = [Idle EXCEPT !.pc = "savePayouts", !.ids = Debitable]
    OBVIOUS
  <2>4. Become(t, q)
    BY <1>2, <2>3 DEF Schedule, Start
  <2>5. q \in Memory /\ q.pc = "savePayouts" /\ q.ids = Debitable /\ q.rows = {}
    BY <2>2, <2>3, <1>0, IdleNow DEF Memory, PayoutPC
  <2> HIDE DEF Working
  <2> QED
    BY <2>1, <2>2, <2>4, <2>5, StartType
<1>3. CASE Upload(t)
  <2>1. UNCHANGED rows /\ UNCHANGED todo
    BY <1>3 DEF Upload
  <2>2. PICK S : S = {p \in DOMAIN payouts : payouts[p].status = "SCHEDULED"}
    OBVIOUS
  <2>3. PICK q : q = [Idle EXCEPT !.pc = "readLines", !.rows = S]
    OBVIOUS
  <2>4. Become(t, q)
    BY <1>3, <2>2, <2>3 DEF Upload, Start
  <2>5. S \subseteq DOMAIN payouts /\ S \in SUBSET PayoutId
    BY <2>2, <1>a
  <2>6. q \in Memory /\ q.pc = "readLines" /\ q.rows = S
    BY <2>3, <2>5, <1>0, IdleNow DEF Memory, PayoutPC
  <2> HIDE DEF Working
  <2> QED
    BY <2>1, <2>4, <2>5, <2>6, StartType
<1>4. CASE Settle(t)
  <2>1. UNCHANGED rows /\ UNCHANGED todo
    BY <1>4 DEF Settle
  <2>2. PICK B : B = {b \in DOMAIN batches : batches[b] = "IN_TRANSIT"}
    OBVIOUS
  <2>3. PICK S : S = {p \in DOMAIN payouts : payouts[p].batch \in B}
    OBVIOUS
  <2>4. PICK q : q = [Idle EXCEPT !.pc = "saveSettled", !.ids = B, !.rows = S]
    OBVIOUS
  <2>5. Become(t, q)
    BY <1>4, <2>2, <2>3, <2>4 DEF Settle, Start
  <2>6. B \in SUBSET Nat /\ S \subseteq DOMAIN payouts /\ S \in SUBSET PayoutId
    BY <2>2, <2>3, <1>a DEF RowsOK
  <2>7. q \in Memory /\ q.pc = "saveSettled" /\ q.rows = S
    BY <2>4, <2>6, <1>0, IdleNow DEF Memory, PayoutPC
  <2> HIDE DEF Working
  <2> QED
    BY <2>1, <2>5, <2>6, <2>7, StartType
<1>5. ASSUME NEW j \in Job, NEW o \in Owner, Mark(t, j, o)
      PROVE  Working'
  <2>1. UNCHANGED rows /\ UNCHANGED todo
    BY <1>5 DEF Mark
  <2>2. PICK S : S = {l \in DOMAIN lines : lines[l].job = j /\ lines[l].owner = o}
    OBVIOUS
  <2>3. PICK q : q = [Idle EXCEPT !.pc = "saveMarked", !.ids = S]
    OBVIOUS
  <2>4. Become(t, q)
    BY <1>5, <2>2, <2>3 DEF Mark, Start
  <2>5. S \in SUBSET Nat /\ S \subseteq DOMAIN lines
    BY <2>2 DEF RowsOK
  <2>6. q \in Memory /\ q.pc = "saveMarked" /\ q.ids = S /\ q.rows = {}
    BY <2>3, <2>5, <1>0, IdleNow DEF Memory, PayoutPC
  <2> HIDE DEF Working
  <2> QED
    BY <2>1, <2>4, <2>5, <2>6, StartType
<1>6. ASSUME NEW p \in DOMAIN payouts, NEW s \in NewStatus, Update(t, p, s)
      PROVE  Working'
  <2>1. UNCHANGED rows /\ UNCHANGED todo
    BY <1>6 DEF Update
  <2>2. PICK q : q = [Idle EXCEPT !.pc = "saveStatus", !.rows = {p}, !.status = s]
    OBVIOUS
  <2>3. Become(t, q)
    BY <1>6, <2>2 DEF Update, Start
  <2>4. s \in PayoutStatus /\ {p} \in SUBSET PayoutId
    BY <1>a, PayoutAssumption DEF PayoutStatus
  <2>5. q \in Memory /\ q.pc = "saveStatus" /\ q.rows = {p}
    BY <2>2, <2>4, <1>0, IdleNow DEF Memory, PayoutPC
  <2> HIDE DEF Working
  <2> QED
    BY <2>1, <2>3, <2>5, StartType
<1> QED
  BY <1>1, <1>2, <1>3, <1>4, <1>5, <1>6

\* A call moves on with what it has, and rows changed: those of payouts and lines grow.
LEMMA StepKeeps ==
  ASSUME Working, RowsOK', Grows, NEW t \in Thread, NEW q \in Memory, ProcessOK(q)', Become(t, q),
         \/ UNCHANGED todo
         \/ \E tasks : Publish(tasks) /\ \A k \in tasks : k.id \in DOMAIN payouts
  PROVE  Working'
<1>1. ThreadsOK'
  BY ThreadsMove DEF Working
<1>2. TodoOK'
  BY TodoKept DEF Working, Grows
<1> QED
  BY <1>1, <1>2 DEF Working

\* A call goes to another pc of its own.
LEMMA GotoType ==
  ASSUME Working, NEW t \in Thread, NEW q, NEW from \in PayoutPC, thread[t].pc = from,
         NEW pc \in PayoutPC, q = [thread[t] EXCEPT !.pc = pc],
         \/ pc \in {"checkPaid", "savePaid"} \/ (from \in WithLines /\ pc \in WithLines)
  PROVE  /\ q \in Memory /\ ProcessOK(q) /\ q.pc = pc /\ q.rows = thread[t].rows
         /\ q.ids = thread[t].ids /\ q.status = thread[t].status /\ q.sent = thread[t].sent
         /\ Goto(t, pc) => Become(t, q)
<1>1. PICK p : p = thread[t]
  OBVIOUS
<1>2. p \in Memory /\ ProcessOK(p)
  BY <1>1 DEF Working, ThreadsOK
<1>3. q \in Memory
  BY <1>1, <1>2 DEF Memory
<1>4. /\ q.pc = pc /\ q.rows = p.rows /\ q.ids = p.ids /\ q.status = p.status /\ q.sent = p.sent
      /\ q.entry = p.entry
  BY <1>1, <1>2 DEF Memory
<1>5. ProcessOK(q)
  BY <1>1, <1>2, <1>4 DEF ProcessOK, WithTransaction, WithLines, PayoutPC
<1>6. Goto(t, pc) => Become(t, q)
  BY <1>1 DEF Goto, Become, Working, ThreadsOK
<1> QED
  BY <1>1, <1>3, <1>4, <1>5, <1>6

\* An upload reads the lines of its payouts.
LEMMA ReadLinesType ==
  ASSUME Working, NEW t \in Thread, ReadLines(t)
  PROVE  Working'
<1> USE DEF Working
<1>1. UNCHANGED rows /\ UNCHANGED todo
  BY DEF ReadLines
<1>2. PICK p : p = thread[t]
  OBVIOUS
<1>3. p \in Memory /\ ProcessOK(p)
  BY <1>2 DEF ThreadsOK
<1>4. PICK ids : ids = {l \in DOMAIN lines : lines[l].payout \in p.rows}
  OBVIOUS
<1>5. ids \in SUBSET Nat /\ ids \subseteq DOMAIN lines
  BY <1>4 DEF RowsOK
<1>6. PICK status : status = IF \A l \in ids : lines[l].status = "SCHEDULED"
                             THEN "IN_TRANSIT" ELSE "FAILED"
  OBVIOUS
<1>7. status \in PayoutStatus
  BY <1>6 DEF PayoutStatus
<1>8. PICK q : q = [p EXCEPT !.pc = "saveBatch", !.ids = ids, !.status = status]
  OBVIOUS
<1>9. q \in Memory /\ q.pc = "saveBatch" /\ q.ids = ids /\ q.rows = p.rows
  BY <1>3, <1>5, <1>7, <1>8 DEF Memory, PayoutPC
<1>10. ProcessOK(q)
  BY <1>3, <1>5, <1>9 DEF ProcessOK, WithTransaction, WithLines
<1>11. Become(t, Idle) \/ Become(t, q)
  BY <1>2, <1>4, <1>6, <1>8 DEF ReadLines
<1> HIDE DEF Working
<1> QED
  BY <1>1, <1>9, <1>10, <1>11, IdleNow, MoveKeeps

\* An upload saves its batch, and the payouts with it.
LEMMA SaveBatchType ==
  ASSUME Working, NEW t \in Thread, SaveBatch(t)
  PROVE  Working'
<1> USE DEF Working
<1>1. PICK S, b : S = thread[t].rows /\ b = Len(batches')
  OBVIOUS
<1>2. batches' \in Seq(BatchStatus) /\ b \in Nat
  BY <1>1 DEF SaveBatch, RowsOK, BatchStatus
<1>3. payouts' = [p \in DOMAIN payouts |-> IF p \in S THEN [payouts[p] EXCEPT !.batch = b]
                                                       ELSE payouts[p]]
  BY <1>1 DEF SaveBatch
<1>4. ASSUME NEW p \in DOMAIN payouts
      PROVE  /\ payouts'[p] \in PayoutRow
             /\ payouts'[p].owner = payouts[p].owner /\ payouts'[p].amount = payouts[p].amount
  <2>1. PICK r : r = payouts[p]
    OBVIOUS
  <2>2. r \in PayoutRow
    BY <2>1 DEF RowsOK
  <2>3. payouts'[p] = IF p \in S THEN [r EXCEPT !.batch = b] ELSE r
    BY <1>3, <2>1
  <2> QED
    BY <1>2, <2>1, <2>2, <2>3 DEF PayoutRow
<1>5. payouts' = [p \in DOMAIN payouts |-> payouts'[p]]
  BY <1>3
<1>6. RowsOK' /\ Grows
  BY <1>2, <1>4, <1>5, PayoutsSaved DEF SaveBatch
<1>7. PICK q : q = [thread[t] EXCEPT !.pc = "send"]
  OBVIOUS
<1> HIDE DEF Working
<1>8. q \in Memory /\ ProcessOK(q) /\ Become(t, q)
  BY <1>7, GotoType DEF SaveBatch, Running, PayoutPC, WithLines
<1>9. ProcessOK(q)'
  BY <1>6, <1>8, ProcessKept DEF Working
<1> QED
  BY <1>6, <1>8, <1>9, StepKeeps DEF SaveBatch

\* An upload sends its files.
LEMMA SendType ==
  ASSUME Working, NEW t \in Thread, Send(t)
  PROVE  Working'
<1>1. UNCHANGED rows /\ UNCHANGED todo
  BY DEF Send
<1>2. PICK p : p = thread[t]
  OBVIOUS
<1>3. p \in Memory /\ ProcessOK(p) /\ p.pc = "send"
  BY <1>2 DEF Working, ThreadsOK, Send, Running
<1>4. ASSUME NEW q \in Memory, q.pc \in {"closeBatch", "saveSentLines"},
             q.rows = p.rows, q.ids = p.ids, Become(t, q)
      PROVE  Working'
  <2>1. ProcessOK(q)
    BY <1>3, <1>4 DEF ProcessOK, WithTransaction, WithLines
  <2> QED
    BY <1>1, <1>4, <2>1, MoveKeeps
<1>5. PICK pc : pc = IF p.status = "IN_TRANSIT" THEN "saveSentLines" ELSE "closeBatch"
  OBVIOUS
<1>6. PICK q : q = [p EXCEPT !.pc = "closeBatch", !.status = "FAILED"]
  OBVIOUS
<1>7. PICK r : r = [p EXCEPT !.sent = TRUE, !.pc = pc]
  OBVIOUS
<1>8. q \in Memory /\ q.pc = "closeBatch" /\ q.rows = p.rows /\ q.ids = p.ids
  BY <1>3, <1>6 DEF Memory, PayoutPC, PayoutStatus
<1>9. r \in Memory /\ r.pc \in {"closeBatch", "saveSentLines"} /\ r.rows = p.rows /\ r.ids = p.ids
  BY <1>3, <1>5, <1>7 DEF Memory, PayoutPC
<1>10. Become(t, q) \/ Become(t, r)
  BY <1>2, <1>5, <1>6, <1>7 DEF Send
<1> QED
  BY <1>4, <1>8, <1>9, <1>10

\* Lines get another status.
LEMMA SetLinesType ==
  ASSUME Working, NEW t \in Thread, SaveSentLines(t) \/ SaveMarked(t)
  PROVE  Working'
<1>1. PICK S : S = thread[t].ids
  OBVIOUS
<1>2. PICK status \in LineStatus : lines' = SetLines(S, status)
  BY <1>1 DEF SaveSentLines, SaveMarked, LineStatus
<1>3. UNCHANGED <<jobs, wallets, transactions, payouts, batches, todo>>
  BY DEF SaveSentLines, SaveMarked
<1>4. RowsOK' /\ Grows
  BY <1>2, <1>3, SetLinesSaved DEF Working
<1>5. PICK pc \in {"closeBatch", "increment"} : Goto(t, pc)
  BY DEF SaveSentLines, SaveMarked
<1>6. PICK q : q = [thread[t] EXCEPT !.pc = pc]
  OBVIOUS
<1>7. thread[t].pc \in PayoutPC \cap WithLines /\ pc \in PayoutPC \cap WithLines
  BY <1>5 DEF SaveSentLines, SaveMarked, Running, PayoutPC, WithLines
<1>8. q \in Memory /\ ProcessOK(q) /\ Become(t, q)
  BY <1>5, <1>6, <1>7, GotoType
<1>9. ProcessOK(q)'
  BY <1>4, <1>8, ProcessKept DEF Working
<1> QED
  BY <1>3, <1>4, <1>8, <1>9, StepKeeps

\* An upload ends: the batch and the payouts get their status.
LEMMA CloseBatchType ==
  ASSUME Working, NEW t \in Thread, CloseBatch(t)
  PROVE  Working'
<1> USE DEF Working
<1>1. PICK p : p = thread[t]
  OBVIOUS
<1>2. p \in Memory /\ p.status \in BatchStatus
  BY <1>1 DEF ThreadsOK, Memory, BatchStatus, PayoutStatus
<1>3. batches' \in Seq(BatchStatus)
  <2>1. batches' = [b \in DOMAIN batches |->
                      IF \E r \in p.rows : payouts[r].batch = b THEN p.status ELSE batches[b]]
    BY <1>1 DEF CloseBatch
  <2>2. Len(batches) \in Nat /\ DOMAIN batches = 1..Len(batches)
        /\ batches \in [1..Len(batches) -> BatchStatus]
    BY DEF RowsOK
  <2>3. batches' \in [1..Len(batches) -> BatchStatus]
    BY <1>2, <2>1, <2>2
  <2> QED BY <2>2, <2>3
<1>4. payouts' = payouts \/ payouts' = SetStatus(p.rows, "IN_TRANSIT")
  BY <1>1 DEF CloseBatch
<1>5. /\ payouts' = [r \in DOMAIN payouts |-> payouts'[r]]
      /\ \A r \in DOMAIN payouts : /\ payouts'[r] \in PayoutRow
                                   /\ payouts'[r].owner = payouts[r].owner
                                   /\ payouts'[r].amount = payouts[r].amount
  <2>1. CASE payouts' = payouts
    BY <2>1 DEF RowsOK
  <2>2. CASE payouts' = SetStatus(p.rows, "IN_TRANSIT")
    BY <2>2, SetStatusType DEF PayoutStatus
  <2> QED BY <1>4, <2>1, <2>2
<1>6. RowsOK' /\ Grows
  BY <1>3, <1>5, PayoutsSaved DEF CloseBatch
<1> HIDE DEF Working
<1> QED
  BY <1>6, IdleOK, StepKeeps DEF CloseBatch, Finish

\* A payout is compared with what the bank processed of it.
LEMMA CheckPaidType ==
  ASSUME Working, NEW t \in Thread, CheckPaid(t)
  PROVE  Working'
<1>1. UNCHANGED rows /\ UNCHANGED todo /\ thread[t].pc = "checkPaid"
  BY DEF CheckPaid, Running
<1>2. PICK q : q = [thread[t] EXCEPT !.pc = "savePaid"]
  OBVIOUS
<1>3. q \in Memory /\ ProcessOK(q) /\ (Goto(t, "savePaid") => Become(t, q))
  BY <1>1, <1>2, GotoType DEF PayoutPC
<1>4. Become(t, q) \/ Become(t, Idle)
  BY <1>3 DEF CheckPaid, Finish
<1> QED
  BY <1>1, <1>3, <1>4, IdleNow, MoveKeeps

\* One payout is saved.
LEMMA OnePayoutSaved ==
  ASSUME RowsOK, NEW x \in DOMAIN payouts, NEW s \in PayoutRow,
         s.owner = payouts[x].owner, s.amount = payouts[x].amount,
         payouts' = [payouts EXCEPT ![x] = s]
  PROVE  /\ payouts' = [y \in DOMAIN payouts |-> payouts'[y]]
         /\ \A y \in DOMAIN payouts : /\ payouts'[y] \in PayoutRow
                                      /\ payouts'[y].owner = payouts[y].owner
                                      /\ payouts'[y].amount = payouts[y].amount
<1>1. payouts' = [y \in DOMAIN payouts |-> IF y = x THEN s ELSE payouts[y]]
  OBVIOUS
<1>2. \A y \in DOMAIN payouts : payouts[y] \in PayoutRow
  BY DEF RowsOK
<1>3. \A y \in DOMAIN payouts : payouts'[y] = IF y = x THEN s ELSE payouts[y]
  BY <1>1
<1>4. payouts' = [y \in DOMAIN payouts |-> payouts'[y]]
  BY <1>1
<1> QED
  BY <1>2, <1>3, <1>4

\* What the bank processed is added to its payout.
LEMMA IncrementType ==
  ASSUME Working, NEW t \in Thread, Increment(t)
  PROVE  Working'
<1> USE DEF Working
<1>1. PICK p : p = thread[t]
  OBVIOUS
<1>2. p \in Memory /\ ProcessOK(p) /\ p.pc = "increment"
  BY <1>1 DEF ThreadsOK, Increment, Running
<1>3. p.ids \subseteq DOMAIN lines
  BY <1>2 DEF ProcessOK, WithLines
<1>4. PICK l \in p.ids :
        /\ payouts' = [payouts EXCEPT ![lines[l].payout].processed =
                                      @ + Amount(lines, p.ids)]
        /\ Become(t, [p EXCEPT !.pc = "checkPaid", !.rows = {lines[l].payout}])
  BY <1>1 DEF Increment
<1>5. PICK x : x = lines[l].payout
  OBVIOUS
<1>6. x \in DOMAIN payouts /\ x \in PayoutId
  BY <1>3, <1>5, WalletAssumption DEF RowsOK, PayoutId
<1>7. Amount(lines, p.ids) \in Int
  <2>1. IsFiniteSet(DOMAIN lines)
    <3>1. DOMAIN lines = 1..Len(lines) /\ Len(lines) \in Int /\ 1 \in Int
      BY DEF RowsOK
    <3> QED BY <3>1, FS_Interval
  <2>2. IsFiniteSet(p.ids)
    BY <1>3, <2>1, FS_Subset
  <2>3. \A i \in p.ids : lines[i].amount \in Int
    <3>1. \A i \in p.ids : lines[i] \in Line
      BY <1>3 DEF RowsOK
    <3> QED BY <3>1 DEF Line
  <2> QED BY <2>2, <2>3, AmountType
<1>8. PICK a : a = Amount(lines, p.ids)
  OBVIOUS
<1>9. PICK r : r = payouts[x]
  OBVIOUS
<1>10. r \in PayoutRow /\ r.processed \in Int /\ r.processed + a \in Int
  <2>1. r \in PayoutRow
    BY <1>6, <1>9 DEF RowsOK
  <2>2. r.processed \in Int
    BY <2>1 DEF PayoutRow
  <2> QED BY <1>7, <1>8, <2>1, <2>2
<1>11. payouts' = [payouts EXCEPT ![x] = [r EXCEPT !.processed = r.processed + a]]
  BY <1>4, <1>5, <1>6, <1>8, <1>9 DEF RowsOK
<1>12. PICK s : s = [r EXCEPT !.processed = r.processed + a]
  OBVIOUS
<1>13. s \in PayoutRow /\ s.owner = r.owner /\ s.amount = r.amount
  BY <1>10, <1>12 DEF PayoutRow
<1>14. /\ payouts' = [y \in DOMAIN payouts |-> payouts'[y]]
       /\ \A y \in DOMAIN payouts : /\ payouts'[y] \in PayoutRow
                                    /\ payouts'[y].owner = payouts[y].owner
                                    /\ payouts'[y].amount = payouts[y].amount
  BY <1>6, <1>9, <1>11, <1>12, <1>13, OnePayoutSaved
<1>15. RowsOK' /\ Grows
  <2>1. batches' \in Seq(BatchStatus) /\ UNCHANGED <<jobs, wallets, transactions, lines>>
    BY DEF Increment, RowsOK
  <2> QED BY <1>14, <2>1, PayoutsSaved
<1>16. PICK q : q = [p EXCEPT !.pc = "checkPaid", !.rows = {x}]
  OBVIOUS
<1>17. q \in Memory /\ q.pc = "checkPaid" /\ q.rows = {x}
  BY <1>2, <1>6, <1>16 DEF Memory, PayoutPC
<1>18. ProcessOK(q)
  BY <1>6, <1>17 DEF ProcessOK, WithTransaction, WithLines
<1>19. ProcessOK(q)'
  BY <1>15, <1>17, <1>18, ProcessKept
<1> HIDE DEF Working
<1> QED
  BY <1>4, <1>5, <1>15, <1>16, <1>17, <1>19, StepKeeps DEF Increment

\* Payouts are saved with another status, and tasks started for some of them.
LEMMA StatusType ==
  ASSUME Working, NEW t \in Thread, SavePaid(t) \/ SaveStatus(t) \/ SaveSettled(t)
  PROVE  Working'
<1> USE DEF Working
<1>1. PICK p : p = thread[t]
  OBVIOUS
<1>2. p \in Memory /\ ProcessOK(p) /\ p.status \in PayoutStatus
  BY <1>1 DEF ThreadsOK, Memory
<1>3. p.rows \subseteq DOMAIN payouts
  BY <1>2 DEF ProcessOK
<1>4. batches' \in Seq(BatchStatus) /\ UNCHANGED <<jobs, wallets, transactions, lines>>
  <2>1. CASE SaveSettled(t)
    <3>1. batches' = [b \in DOMAIN batches |-> IF b \in p.ids THEN "PAID" ELSE batches[b]]
      BY <1>1, <2>1 DEF SaveSettled
    <3>2. Len(batches) \in Nat /\ DOMAIN batches = 1..Len(batches)
          /\ batches \in [1..Len(batches) -> BatchStatus]
      BY DEF RowsOK
    <3>3. batches' \in [1..Len(batches) -> BatchStatus]
      BY <3>1, <3>2 DEF BatchStatus
    <3> QED BY <2>1, <3>2, <3>3 DEF SaveSettled
  <2>2. CASE SavePaid(t) \/ SaveStatus(t)
    BY <2>2 DEF SavePaid, SaveStatus, RowsOK
  <2> QED BY <2>1, <2>2
<1>5. /\ payouts' = [y \in DOMAIN payouts |-> payouts'[y]]
      /\ \A y \in DOMAIN payouts : /\ payouts'[y] \in PayoutRow
                                   /\ payouts'[y].owner = payouts[y].owner
                                   /\ payouts'[y].amount = payouts[y].amount
  <2>1. CASE SavePaid(t)
    <3>1. PICK x \in p.rows :
            payouts' = [payouts EXCEPT ![x].status = "PAID", ![x].processed = payouts[x].amount]
      BY <1>1, <2>1 DEF SavePaid
    <3>2. PICK r : r = payouts[x]
      OBVIOUS
    <3>3. r \in PayoutRow
      BY <1>3, <3>2 DEF RowsOK
    <3>4. PICK s : s = [r EXCEPT !.status = "PAID", !.processed = r.amount]
      OBVIOUS
    <3>5. s \in PayoutRow /\ s.owner = r.owner /\ s.amount = r.amount
      BY <3>3, <3>4 DEF PayoutRow, PayoutStatus
    <3>6. payouts' = [payouts EXCEPT ![x] = s]
      BY <1>3, <3>1, <3>2, <3>4 DEF RowsOK
    <3> QED
      BY <1>3, <3>2, <3>5, <3>6, OnePayoutSaved
  <2>2. CASE SaveStatus(t) \/ SaveSettled(t)
    <3>1. PICK status \in PayoutStatus : payouts' = SetStatus(p.rows, status)
      BY <1>1, <1>2, <2>2 DEF SaveStatus, SaveSettled, PayoutStatus
    <3> QED BY <3>1, SetStatusType
  <2> QED BY <2>1, <2>2
<1>6. RowsOK' /\ Grows
  BY <1>4, <1>5, PayoutsSaved
<1>7. \E tasks : Publish(tasks) /\ \A k \in tasks : k.id \in DOMAIN payouts
  <2>1. ASSUME NEW S, S \subseteq DOMAIN payouts, Publish(Tasks("release", S))
        PROVE  \E tasks : Publish(tasks) /\ \A k \in tasks : k.id \in DOMAIN payouts
    <3>1. \A k \in Tasks("release", S) : k.id \in DOMAIN payouts
      BY <2>1 DEF Tasks
    <3> QED BY <2>1, <3>1
  <2>2. CASE SavePaid(t)
    <3>1. PICK x \in p.rows : Publish(Tasks("release", {x}))
      BY <1>1, <2>2 DEF SavePaid, PayoutPaid
    <3>2. {x} \subseteq DOMAIN payouts
      BY <1>3
    <3> QED BY <2>1, <3>1, <3>2
  <2>3. CASE SaveStatus(t) \/ SaveSettled(t)
    <3>1. Publish(Tasks("release", p.rows))
      BY <1>1, <2>3 DEF SaveStatus, SaveSettled, PayoutPaid
    <3> QED BY <1>3, <2>1, <3>1
  <2> QED BY <2>2, <2>3
<1>8. Become(t, Idle)
  BY DEF SavePaid, SaveStatus, SaveSettled, Finish
<1> HIDE DEF Working
<1> QED
  BY <1>6, <1>7, <1>8, IdleOK, StepKeeps

\* The owners of finitely many transactions are finitely many.
LEMMA OwnersFinite ==
  ASSUME RowsOK, NEW S, S \subseteq DOMAIN transactions
  PROVE  IsFiniteSet(S) /\ IsFiniteSet(Owners(S)) /\ Owners(S) \subseteq Owner
<1>1. IsFiniteSet(DOMAIN transactions)
  <2>1. DOMAIN transactions = 1..Len(transactions) /\ Len(transactions) \in Int /\ 1 \in Int
    BY DEF RowsOK
  <2> QED BY <2>1, FS_Interval
<1>2. IsFiniteSet(S)
  BY <1>1, FS_Subset
<1> DEFINE f == [i \in S |-> transactions[i].owner]
<1>3. f \in Surjection(S, Owners(S))
  BY DEF Surjection, Owners
<1>4. IsFiniteSet(Owners(S))
  BY <1>2, <1>3, FS_Surjection
<1>5. \A i \in S : transactions[i] \in Transaction
  BY DEF RowsOK
<1>6. Owners(S) \subseteq Owner
  BY <1>5 DEF Owners, Transaction
<1> QED BY <1>2, <1>4, <1>6

\* What one sequence appended to another is.
LEMMA Concatenation ==
  ASSUME NEW S, NEW a \in Seq(S), NEW b \in Seq(S), NEW c, c = a \o b
  PROVE  /\ c \in Seq(S) /\ Len(c) = Len(a) + Len(b)
         /\ DOMAIN c = 1..(Len(a) + Len(b))
         /\ Len(a) \in Nat /\ Len(b) \in Nat
<1>1. a \o b \in Seq(S) /\ Len(a \o b) = Len(a) + Len(b)
  OBVIOUS
<1> QED BY <1>1

\* Whom the payouts of a schedule are for.
Payees(t) == Owners(thread[t].ids) \cap Payable

\* What PayoutFactory makes and the repository saves: one payout for each owner who can
\* be paid, of the sum of his transactions, which point at it from now on.
PayoutsAre(t, Row) ==
  /\ payouts' \in Seq(PayoutRow) /\ Len(payouts') <= MaxPayouts
  /\ DOMAIN payouts \subseteq DOMAIN payouts'
  /\ \A p \in DOMAIN payouts : payouts'[p] = payouts[p]
  /\ \A o \in Payees(t) : payouts'[Row[o]].owner = o
  /\ \A p \in DOMAIN payouts' \ DOMAIN payouts : \E o \in Payees(t) :
       /\ p = Row[o] /\ payouts'[p].status = "SCHEDULED" /\ payouts'[p].processed = 0
       /\ payouts'[p].amount = Amount(transactions,
                                      {i \in thread[t].ids : transactions[i].owner = o})
  /\ transactions' = [i \in DOMAIN transactions |->
                        IF i \in thread[t].ids /\ transactions[i].owner \in Payable
                        THEN [transactions[i] EXCEPT !.payout = Row[transactions[i].owner]]
                        ELSE transactions[i]]
  /\ Become(t, [thread[t] EXCEPT !.pc = "saveLines", !.rows = {Row[o] : o \in Payees(t)}])

\* What SavePayouts does, with the row of each payee named.
LEMMA PayoutsAppended ==
  ASSUME RowsOK, NEW t \in Thread, SavePayouts(t), thread[t].ids \subseteq Credits
  PROVE  \E Row \in [Payees(t) -> DOMAIN payouts' \ DOMAIN payouts] : PayoutsAre(t, Row)
<1> DEFINE ids == thread[t].ids
           S   == Owners(ids) \cap Payable
           owners == SetToSeq(S)
<1>1. ids \subseteq DOMAIN transactions
  BY DEF Credits
<1>2. IsFiniteSet(ids) /\ IsFiniteSet(S) /\ S \subseteq Owner
  BY <1>1, OwnersFinite, FS_Intersection
<1>4. /\ owners \in Seq(S)
      /\ \A x \in S : \E n \in DOMAIN owners : owners[n] = x
      /\ \A m, n \in DOMAIN owners : owners[m] = owners[n] => m = n
  <2> HIDE DEF S
  <2> QED BY <1>2, SetToSeqLists
<1> DEFINE row(n) == [owner |-> owners[n], status |-> "SCHEDULED", processed |-> 0, batch |-> 0,
                      amount |-> Amount(transactions,
                                        {i \in ids : transactions[i].owner = owners[n]})]
           Row == [o \in S |-> Len(payouts) + CHOOSE n \in DOMAIN owners : owners[n] = o]
           new == [n \in DOMAIN owners |-> row(n)]
<1> HIDE DEF owners
<1>6. ASSUME NEW n \in DOMAIN owners PROVE row(n) \in PayoutRow
  <2>1. IsFiniteSet({i \in ids : transactions[i].owner = owners[n]})
    BY <1>2, FS_Subset
  <2>2. \A i \in ids : transactions[i] \in Transaction
    BY <1>1 DEF RowsOK
  <2>3. \A i \in ids : transactions[i].amount \in Int
    BY <2>2 DEF Transaction
  <2>4. Amount(transactions, {i \in ids : transactions[i].owner = owners[n]}) \in Int
    BY <2>1, <2>3, AmountType
  <2>5. owners[n] \in Owner
    BY <1>2, <1>4
  <2> QED
    BY <2>4, <2>5 DEF PayoutRow, PayoutStatus
<1>7. /\ Len(owners) \in Nat /\ DOMAIN owners = 1..Len(owners)
      /\ Len(payouts) \in Nat /\ DOMAIN payouts = 1..Len(payouts) /\ payouts \in Seq(PayoutRow)
  BY <1>4 DEF RowsOK
<1>8. new \in Seq(PayoutRow) /\ Len(new) = Len(owners) /\ DOMAIN new = DOMAIN owners
      /\ \A n \in DOMAIN owners : new[n] = row(n)
  <2>1. \A n \in DOMAIN owners : new[n] = row(n)
    OBVIOUS
  <2>2. DOMAIN new = DOMAIN owners
    OBVIOUS
  <2> HIDE DEF row
  <2>3. new \in [1..Len(owners) -> PayoutRow]
    BY <1>6, <1>7
  <2> QED BY <1>7, <2>1, <2>2, <2>3
<1>9. SavePayouts(t) =>
        /\ Len(payouts) + Len(new) <= MaxPayouts
        /\ payouts' = payouts \o new
        /\ transactions' = [i \in DOMAIN transactions |->
             IF i \in ids /\ transactions[i].owner \in Payable
             THEN [transactions[i] EXCEPT
                     !.payout = Len(payouts) + CHOOSE n \in DOMAIN owners :
                                                 owners[n] = transactions[i].owner]
             ELSE transactions[i]]
        /\ Become(t, [thread[t] EXCEPT !.pc = "saveLines",
             !.rows = {Len(payouts) + CHOOSE n \in DOMAIN owners : owners[n] = o :
                         o \in Range(owners)}])
  BY Zenon DEF SavePayouts, owners
<1> HIDE DEF row, new, ids, S
<1>10. /\ payouts' \in Seq(PayoutRow) /\ Len(payouts') = Len(payouts) + Len(owners)
       /\ \A p \in DOMAIN payouts : payouts'[p] = payouts[p]
       /\ \A n \in DOMAIN owners : payouts'[Len(payouts) + n] = row(n)
       /\ DOMAIN payouts' = 1..(Len(payouts) + Len(owners))
  <2>1. payouts' = payouts \o new
    BY <1>9
  <2>2. /\ payouts' \in Seq(PayoutRow) /\ Len(payouts') = Len(payouts) + Len(owners)
        /\ DOMAIN payouts' = 1..(Len(payouts) + Len(owners))
    <3>1. new \in Seq(PayoutRow) /\ payouts \in Seq(PayoutRow) /\ Len(new) = Len(owners)
      BY <1>7, <1>8
    <3>2. PICK c, d, e : c = payouts' /\ d = payouts /\ e = new
      OBVIOUS
    <3> HIDE DEF Row
    <3>3. c = d \o e /\ d \in Seq(PayoutRow) /\ e \in Seq(PayoutRow)
      BY <2>1, <3>1, <3>2
    <3>4. c \in Seq(PayoutRow) /\ Len(c) = Len(d) + Len(e) /\ DOMAIN c = 1..(Len(d) + Len(e))
      BY <3>3, Concatenation
    <3> QED BY <3>1, <3>2, <3>4
  <2>3. \A p \in DOMAIN payouts : payouts'[p] = payouts[p]
    BY <1>7, <1>8, <2>1
  <2>4. \A n \in DOMAIN owners : payouts'[Len(payouts) + n] = new[n]
    BY <1>7, <1>8, <2>1
  <2>5. \A n \in DOMAIN owners : payouts'[Len(payouts) + n] = row(n)
    BY <1>8, <2>4
  <2> QED BY <2>2, <2>3, <2>5
<1>11. ASSUME NEW o \in S
       PROVE  /\ Row[o] \in DOMAIN payouts' \ DOMAIN payouts
              /\ \E n \in DOMAIN owners : Row[o] = Len(payouts) + n /\ owners[n] = o
  <2>1. PICK n : n = CHOOSE k \in DOMAIN owners : owners[k] = o
    OBVIOUS
  <2>2. n \in DOMAIN owners /\ owners[n] = o
    BY <1>4, <2>1
  <2>3. Row[o] = Len(payouts) + n
    BY <2>1
  <2>4. Len(payouts) + n \in DOMAIN payouts' /\ Len(payouts) + n \notin DOMAIN payouts
    BY <1>7, <1>10, <2>2
  <2> HIDE DEF Row
  <2> QED
    BY <2>2, <2>3, <2>4
<1>12. Range(owners) = S
  BY <1>4, <1>7 DEF Range
<1>13. Row \in [S -> DOMAIN payouts' \ DOMAIN payouts]
  BY <1>11
<1>14. ASSUME NEW o \in S PROVE payouts'[Row[o]].owner = o
  <2> HIDE DEF Row
  <2>1. PICK n \in DOMAIN owners : Row[o] = Len(payouts) + n /\ owners[n] = o
    BY <1>11
  <2>2. payouts'[Row[o]] = row(n)
    BY <1>10, <2>1
  <2> QED BY <2>1, <2>2 DEF row
<1>15. ASSUME NEW p \in DOMAIN payouts' \ DOMAIN payouts
       PROVE  \E o \in S :
                /\ p = Row[o] /\ payouts'[p].status = "SCHEDULED" /\ payouts'[p].processed = 0
                /\ payouts'[p].amount = Amount(transactions,
                                               {i \in ids : transactions[i].owner = o})
  <2>1. PICK n \in DOMAIN owners : p = Len(payouts) + n
    <3>1. p - Len(payouts) \in DOMAIN owners /\ p = Len(payouts) + (p - Len(payouts))
      BY <1>7, <1>10
    <3> QED BY <3>1
  <2>2. owners[n] \in S
    BY <1>4
  <2>3. PICK m \in DOMAIN owners : Row[owners[n]] = Len(payouts) + m /\ owners[m] = owners[n]
    BY <1>11, <2>2
  <2>4. m = n
    BY <1>4, <2>3
  <2>5. payouts'[p] = row(n)
    BY <1>10, <2>1
  <2> HIDE DEF Row
  <2>6. p = Row[owners[n]]
    BY <2>1, <2>3, <2>4
  <2>7. /\ payouts'[p].status = "SCHEDULED" /\ payouts'[p].processed = 0
        /\ payouts'[p].amount = Amount(transactions,
                                       {i \in ids : transactions[i].owner = owners[n]})
    BY <2>5 DEF row
  <2> QED
    BY <2>2, <2>6, <2>7
<1>16. transactions' = [i \in DOMAIN transactions |->
                          IF i \in ids /\ transactions[i].owner \in Payable
                          THEN [transactions[i] EXCEPT !.payout = Row[transactions[i].owner]]
                          ELSE transactions[i]]
  <2>1. \A i \in ids : transactions[i].owner \in Payable => transactions[i].owner \in S
    BY DEF Owners, S
  <2> QED BY <1>9, <2>1
<1>17. Become(t, [thread[t] EXCEPT !.pc = "saveLines", !.rows = {Row[o] : o \in S}])
  <2>1. {Len(payouts) + CHOOSE n \in DOMAIN owners : owners[n] = o : o \in Range(owners)}
          = {Row[o] : o \in S}
    BY <1>12
  <2> QED BY <1>9, <2>1, Zenon
<1>18. Len(payouts') <= MaxPayouts /\ DOMAIN payouts \subseteq DOMAIN payouts'
  BY <1>7, <1>8, <1>9, <1>10
<1> HIDE DEF Row
<1>19. Payees(t) = S
  BY DEF Payees, S, ids
<1>20. Row \in [Payees(t) -> DOMAIN payouts' \ DOMAIN payouts]
  BY <1>13, <1>19
<1>21. PayoutsAre(t, Row)
  BY <1>19, <1>10, <1>14, <1>15, <1>16, <1>17, <1>18, Zenon DEF PayoutsAre, ids
<1> QED
  BY <1>20, <1>21

\* A schedule saves its payouts.
LEMMA SavePayoutsType ==
  ASSUME Working, NEW t \in Thread, SavePayouts(t)
  PROVE  Working'
<1> USE DEF Working
<1>1. PICK p : p = thread[t]
  OBVIOUS
<1>2. p \in Memory /\ ProcessOK(p) /\ p.pc = "savePayouts"
  BY <1>1 DEF ThreadsOK, SavePayouts, Running
<1>3. p.ids \subseteq Credits
  BY <1>2 DEF ProcessOK
<1>4. PICK S : S = Payees(t)
  OBVIOUS
<1>22. thread[t].ids \subseteq Credits
  BY <1>1, <1>3
<1>23. PICK Row \in [Payees(t) -> DOMAIN payouts' \ DOMAIN payouts] :
         PayoutsAre(t, Row)
  BY <1>22, PayoutsAppended
<1>5. /\ Row \in [S -> DOMAIN payouts' \ DOMAIN payouts]
      /\ payouts' \in Seq(PayoutRow) /\ Len(payouts') <= MaxPayouts
      /\ DOMAIN payouts \subseteq DOMAIN payouts'
      /\ \A r \in DOMAIN payouts : payouts'[r] = payouts[r]
      /\ \A o \in S : payouts'[Row[o]].owner = o
      /\ transactions' = [i \in DOMAIN transactions |->
                            IF i \in p.ids /\ transactions[i].owner \in Payable
                            THEN [transactions[i] EXCEPT !.payout = Row[transactions[i].owner]]
                            ELSE transactions[i]]
      /\ Become(t, [p EXCEPT !.pc = "saveLines", !.rows = {Row[o] : o \in S}])
  BY <1>1, <1>4, <1>23, Zenon DEF PayoutsAre
<1>6. \A i \in p.ids : transactions[i].owner \in Payable => transactions[i].owner \in S
  BY <1>1, <1>4 DEF Payees, Owners
<1>7. DOMAIN payouts' \subseteq PayoutId
  BY <1>5, WalletAssumption DEF PayoutId
<1>8. ASSUME NEW i \in DOMAIN transactions
      PROVE  /\ transactions'[i] \in Transaction
             /\ transactions'[i].type = transactions[i].type
             /\ transactions'[i].owner = transactions[i].owner
             /\ transactions'[i].job = transactions[i].job
             /\ transactions'[i].amount = transactions[i].amount
             /\ \/ transactions'[i].payout = transactions[i].payout
                \/ transactions'[i].payout \in DOMAIN payouts' \ DOMAIN payouts
  <2>1. PICK r : r = transactions[i]
    OBVIOUS
  <2>2. r \in Transaction
    BY <2>1 DEF RowsOK
  <2>3. CASE i \in p.ids /\ r.owner \in Payable
    <3>1. PICK x : x = Row[r.owner]
      OBVIOUS
    <3>2. x \in DOMAIN payouts' \ DOMAIN payouts /\ x \in PayoutId
      BY <1>5, <1>6, <1>7, <2>1, <2>3, <3>1
    <3>3. transactions'[i] = [r EXCEPT !.payout = x]
      BY <1>5, <2>1, <2>3, <3>1
    <3> QED BY <2>1, <2>2, <3>2, <3>3 DEF Transaction
  <2>4. CASE ~(i \in p.ids /\ r.owner \in Payable)
    <3>1. transactions'[i] = r
      BY <1>5, <2>1, <2>4
    <3> QED BY <2>1, <2>2, <3>1
  <2> QED BY <2>3, <2>4
<1>9. UNCHANGED <<jobs, wallets, lines, batches, todo>>
  BY DEF SavePayouts
<1>10. DOMAIN transactions' = DOMAIN transactions
  BY <1>5
<1>11. Grows
  BY <1>5, <1>8, <1>9, <1>10 DEF Grows
<1>12. transactions' \in Seq(Transaction)
  <2>1. Len(transactions) \in Nat /\ DOMAIN transactions = 1..Len(transactions)
    BY DEF RowsOK
  <2>2. transactions' \in [1..Len(transactions) -> Transaction]
    BY <1>5, <1>8, <2>1
  <2> QED BY <2>1, <2>2
<1>13. ASSUME NEW i \in DOMAIN transactions' PROVE EntryOK(transactions[i])'
  <2>1. i \in DOMAIN transactions
    BY <1>10
  <2>2. EntryOK(transactions[i])
    BY <2>1 DEF RowsOK
  <2>3. 0 \notin DOMAIN payouts'
    BY <1>5
  <2> QED
    BY <1>5, <1>8, <2>1, <2>2, <2>3 DEF EntryOK
<1>14. RowsOK'
  BY <1>5, <1>9, <1>12, <1>13 DEF RowsOK
<1>15. PICK q : q = [p EXCEPT !.pc = "saveLines", !.rows = {Row[o] : o \in S}]
  OBVIOUS
<1>16. {Row[o] : o \in S} \subseteq DOMAIN payouts'
  BY <1>5
<1>17. q \in Memory /\ q.pc = "saveLines" /\ q.rows = {Row[o] : o \in S} /\ q.ids = p.ids
  BY <1>2, <1>7, <1>15, <1>16 DEF Memory, PayoutPC
<1>18. p.ids \subseteq Credits'
  BY <1>3, <1>8, <1>10 DEF Credits
<1>19. ASSUME NEW i \in p.ids, transactions'[i].owner \in Payable
       PROVE  \E r \in q.rows : payouts'[r].owner = transactions'[i].owner
  <2>1. transactions'[i].owner \in S
    BY <1>3, <1>6, <1>8, <1>19 DEF Credits
  <2>2. Row[transactions'[i].owner] \in q.rows
    BY <1>17, <2>1
  <2>3. payouts'[Row[transactions'[i].owner]].owner = transactions'[i].owner
    BY <1>5, <2>1
  <2> QED
    BY <2>2, <2>3
<1>20. ProcessOK(q)'
  BY <1>16, <1>17, <1>18, <1>19 DEF ProcessOK, WithTransaction, WithLines
<1>21. Become(t, q)
  BY <1>5, <1>15
<1> HIDE DEF Working
<1> QED
  BY <1>9, <1>11, <1>14, <1>17, <1>20, <1>21, StepKeeps

\* The line of credit i, where last has the credit of each job that was read last.
LineFor(t, i, last) ==
  [job |-> transactions[i].job, owner |-> transactions[i].owner,
   amount |-> transactions[i].amount, status |-> "SCHEDULED",
   payout |-> CHOOSE r \in thread[t].rows :
                payouts[r].owner = transactions[last[transactions[i].job]].owner]

LinesAre(t, last, seq) ==
  /\ last \in [{transactions[i].job : i \in thread[t].ids} -> thread[t].ids]
  /\ \A j \in DOMAIN last : transactions[last[j]].job = j
  /\ seq = SetToSeq({i \in thread[t].ids : transactions[i].type = "INCOME"})
             \o SetToSeq({i \in thread[t].ids : transactions[i].type # "INCOME"})
  /\ seq \in Seq(thread[t].ids) /\ Len(seq) \in Nat /\ DOMAIN seq = 1..Len(seq)
  /\ lines' \in Seq(Line) /\ Len(lines) \in Nat
  /\ DOMAIN lines = 1..Len(lines) /\ DOMAIN lines' = 1..(Len(lines) + Len(seq))
  /\ \A l \in DOMAIN lines : lines'[l] = lines[l]
  /\ \A n \in DOMAIN seq : /\ lines'[Len(lines) + n] = LineFor(t, seq[n], last)
                           /\ LineFor(t, seq[n], last).payout \in DOMAIN payouts

\* A schedule that all owners can be paid for adds a line for each credit in hand.
LEMMA LinesAppended ==
  ASSUME Working, NEW t \in Thread, SaveLines(t), Owners(thread[t].ids) \subseteq Payable
  PROVE  \E last, seq : LinesAre(t, last, seq)
<1> USE DEF Working
<1>1. PICK p, ids : p = thread[t] /\ ids = thread[t].ids
  OBVIOUS
<1>2. p \in Memory /\ ProcessOK(p) /\ p.pc = "saveLines"
  BY <1>1 DEF ThreadsOK, SaveLines, Running
<1>3. ids \subseteq Credits /\ p.rows \subseteq DOMAIN payouts /\ ids \subseteq DOMAIN transactions
  BY <1>1, <1>2 DEF ProcessOK, Credits
<1>4. PICK incomes, others : /\ incomes = SetToSeq({i \in ids : transactions[i].type = "INCOME"})
                             /\ others = SetToSeq({i \in ids : transactions[i].type # "INCOME"})
  OBVIOUS
<1>5. incomes \in Seq(ids) /\ others \in Seq(ids)
  <2>1. \A T \in SUBSET ids : IsFiniteSet(T) /\ SetToSeq(T) \in Seq(T)
    BY <1>3, OwnersFinite, SetToSeqLists, FS_Subset
  <2> QED BY <1>4, <2>1
<1>6. PICK seq : seq = incomes \o others
  OBVIOUS
<1>7. seq \in Seq(ids) /\ Len(seq) \in Nat /\ DOMAIN seq = 1..Len(seq)
  BY <1>5, <1>6
<1>8. PICK last \in [{transactions[i].job : i \in ids} -> ids] :
        /\ \A j \in DOMAIN last : last[j] \in {i \in ids : transactions[i].job = j}
        /\ lines' = lines \o [n \in DOMAIN seq |-> LineFor(t, seq[n], last)]
  <2> DEFINE ids_  == thread[t].ids
             in_ == SetToSeq({i \in ids_ : transactions[i].type = "INCOME"})
             ot_ == SetToSeq({i \in ids_ : transactions[i].type # "INCOME"})
             Line_(i, last) ==
               [job |-> transactions[i].job, owner |-> transactions[i].owner,
                amount |-> transactions[i].amount, status |-> "SCHEDULED",
                payout |-> CHOOSE r \in thread[t].rows :
                  payouts[r].owner = transactions[last[transactions[i].job]].owner]
  <2>1. SaveLines(t) =>
          \/ ~(Owners(ids_) \subseteq Payable)
          \/ \E last \in [{transactions[i].job : i \in ids_} -> ids_] :
               /\ \A j \in DOMAIN last : last[j] \in {i \in ids_ : transactions[i].job = j}
               /\ lines' = lines \o [n \in DOMAIN (in_ \o ot_) |-> Line_((in_ \o ot_)[n], last)]
    BY Zenon DEF SaveLines
  <2>2. ids_ = ids /\ in_ = incomes /\ ot_ = others /\ Owners(ids_) \subseteq Payable
    BY <1>1, <1>4
  <2>3. \A i, last : Line_(i, last) = LineFor(t, i, last)
    BY Zenon DEF LineFor
  <2> HIDE DEF ids_, in_, ot_, Line_
  <2>4. PICK last_ \in [{transactions[i].job : i \in ids_} -> ids_] :
          /\ \A j \in DOMAIN last_ : last_[j] \in {i \in ids_ : transactions[i].job = j}
          /\ lines' = lines \o [n \in DOMAIN (in_ \o ot_) |-> Line_((in_ \o ot_)[n], last_)]
    BY <2>1, <2>2
  <2>5. seq = in_ \o ot_
    BY <1>6, <2>2
  <2>6. lines' = lines \o [n \in DOMAIN seq |-> LineFor(t, seq[n], last_)]
    BY <2>3, <2>4, <2>5
  <2> QED BY <2>2, <2>4, <2>6
<1>9. ASSUME NEW i \in ids
      PROVE LineFor(t, i, last) \in Line /\ LineFor(t, i, last).payout \in DOMAIN payouts
  <2>1. PICK r, k : r = transactions[i] /\ k = last[transactions[i].job]
    OBVIOUS
  <2>2. r \in Transaction /\ r.job \in Job
    <3>1. EntryOK(r)
      BY <1>3, <2>1 DEF RowsOK
    <3>2. r.type \in CreditType
      BY <1>3, <2>1 DEF Credits
    <3> QED BY <3>1, <3>2 DEF EntryOK
  <2>3. k \in ids
    BY <1>8, <2>1
  <2>4. transactions[k].owner \in Payable
    BY <1>1, <2>3 DEF Owners
  <2>5. \E x \in p.rows : payouts[x].owner = transactions[k].owner
    BY <1>1, <1>2, <2>3, <2>4 DEF ProcessOK
  <2>6. PICK x : x = CHOOSE r_ \in p.rows : payouts[r_].owner = transactions[k].owner
    OBVIOUS
  <2>7. x \in p.rows
    BY <2>5, <2>6
  <2>8. x \in DOMAIN payouts /\ x \in PayoutId
    BY <1>2, <1>3, <2>7 DEF Memory
  <2>9. LineFor(t, i, last) = [job |-> r.job, owner |-> r.owner, amount |-> r.amount,
                               status |-> "SCHEDULED", payout |-> x]
    BY <1>1, <2>1, <2>6 DEF LineFor
  <2>10. r.owner \in Owner /\ r.amount \in Int
    BY <2>2 DEF Transaction
  <2> QED BY <2>2, <2>8, <2>9, <2>10 DEF Line, LineStatus
<1>10. PICK new : new = [n \in DOMAIN seq |-> LineFor(t, seq[n], last)]
  OBVIOUS
<1>11. /\ new \in Seq(Line) /\ Len(new) = Len(seq) /\ DOMAIN new = 1..Len(seq)
       /\ \A n \in 1..Len(seq) : new[n].payout \in DOMAIN payouts
  <2>1. \A n \in DOMAIN seq : seq[n] \in ids
    BY <1>7
  <2>2. \A n \in 1..Len(seq) : new[n] \in Line /\ new[n].payout \in DOMAIN payouts
    BY <1>7, <1>9, <1>10, <2>1
  <2>3. new \in [1..Len(seq) -> Line]
    BY <1>7, <1>10, <2>2
  <2> QED BY <1>7, <2>2, <2>3
<1>12. lines \in Seq(Line) /\ Len(lines) \in Nat /\ DOMAIN lines = 1..Len(lines)
  BY DEF RowsOK
<1>13. PICK c : c = lines'
  OBVIOUS
<1>14. c = lines \o new
  BY <1>8, <1>10, <1>13
<1>15. c \in Seq(Line) /\ DOMAIN c = 1..(Len(lines) + Len(seq))
  <2> HIDE DEF Working
  <2>1. new \in Seq(Line) /\ lines \in Seq(Line)
    BY <1>11, <1>12
  <2>2. c \in Seq(Line)
    BY <2>1, <1>14, Concatenation
  <2>3. DOMAIN c = 1..(Len(lines) + Len(new))
    BY <2>1, <1>14, Concatenation
  <2> QED BY <2>2, <2>3, <1>11
<1>16. \A l \in DOMAIN lines : c[l] = lines[l]
  BY <1>11, <1>12, <1>14
<1>17. ASSUME NEW n \in DOMAIN seq
       PROVE  /\ c[Len(lines) + n] = LineFor(t, seq[n], last)
              /\ LineFor(t, seq[n], last).payout \in DOMAIN payouts
  <2>1. n \in 1..Len(seq) /\ n \in DOMAIN new
    BY <1>7, <1>11
  <2>2. c[Len(lines) + n] = new[n]
    BY <1>11, <1>12, <1>14, <2>1
  <2> QED BY <1>10, <1>11, <2>1, <2>2
<1>18. \A j \in DOMAIN last : transactions[last[j]].job = j
  BY <1>8
<1>19. /\ last \in [{transactions[i].job : i \in thread[t].ids} -> thread[t].ids]
       /\ seq = SetToSeq({i \in thread[t].ids : transactions[i].type = "INCOME"})
                  \o SetToSeq({i \in thread[t].ids : transactions[i].type # "INCOME"})
       /\ seq \in Seq(thread[t].ids)
  BY <1>1, <1>4, <1>6, <1>7, <1>8
<1>20. LinesAre(t, last, seq)
  BY <1>7, <1>12, <1>13, <1>15, <1>16, <1>17, <1>18, <1>19, Zenon DEF LinesAre
<1> QED BY <1>20

\* PayoutLineFactory makes lines of the payouts that were saved.
LEMMA SaveLinesType ==
  ASSUME Working, NEW t \in Thread, SaveLines(t)
  PROVE  Working'
<1> USE DEF Working
<1>1. PICK p : p = thread[t]
  OBVIOUS
<1>2. p \in Memory /\ ProcessOK(p) /\ p.rows \subseteq DOMAIN payouts
  BY <1>1 DEF ThreadsOK, ProcessOK
<1>3. Become(t, Idle) /\ UNCHANGED <<jobs, wallets, transactions, payouts, batches>>
  BY DEF SaveLines, Finish
<1>4. CASE ~(Owners(p.ids) \subseteq Payable)
  <2>1. UNCHANGED rows /\ UNCHANGED todo
    BY <1>1, <1>4 DEF SaveLines, rows
  <2> HIDE DEF Working
  <2> QED BY <1>3, <2>1, IdleNow, MoveKeeps
<1>5. CASE Owners(p.ids) \subseteq Payable
  <2>1. PICK last, seq : LinesAre(t, last, seq)
    BY <1>1, <1>5, LinesAppended
  <2>2. /\ lines' \in Seq(Line) /\ Len(lines) \in Nat /\ Len(seq) \in Nat
        /\ DOMAIN seq = 1..Len(seq)
        /\ DOMAIN lines = 1..Len(lines) /\ DOMAIN lines' = 1..(Len(lines) + Len(seq))
        /\ \A l \in DOMAIN lines : lines'[l] = lines[l]
        /\ \A n \in DOMAIN seq : lines'[Len(lines) + n].payout \in DOMAIN payouts
    BY <2>1, Zenon DEF LinesAre
  <2>3. ASSUME NEW l \in DOMAIN lines' PROVE lines'[l].payout \in DOMAIN payouts
    <3>1. CASE l \in DOMAIN lines
      BY <2>2, <3>1 DEF RowsOK
    <3>2. CASE l \notin DOMAIN lines
      <4>1. l - Len(lines) \in DOMAIN seq /\ l = Len(lines) + (l - Len(lines))
        BY <2>2, <3>2
      <4> QED BY <2>2, <4>1
    <3> QED BY <3>1, <3>2
  <2>4. DOMAIN lines \subseteq DOMAIN lines'
    BY <2>2
  <2>5. Grows
    BY <1>3, <2>4 DEF Grows
  <2>6. RowsOK'
    BY <1>3, <2>2, <2>3 DEF RowsOK, EntryOK
  <2>7. Publish(Tasks("hold", p.rows))
    BY <1>1, <1>5 DEF SaveLines, PayoutScheduled
  <2>8. \A k \in Tasks("hold", p.rows) : k.id \in DOMAIN payouts
    BY <1>2 DEF Tasks
  <2> HIDE DEF Working
  <2> QED
    BY <1>3, <2>5, <2>6, <2>7, <2>8, IdleOK, StepKeeps
<1> QED
  BY <1>4, <1>5

\* The process ends: nothing is left of the calls.
LEMMA CrashType ==
  ASSUME Working, Crash
  PROVE  Working'
<1>1. UNCHANGED rows /\ thread' = [t \in Thread |-> Idle] /\ todo' = [k \in Task |-> 0]
  BY DEF Crash
<1>2. RowsOK'
  BY <1>1 DEF Working, RowsOK, rows, EntryOK
<1>3. ThreadsOK'
  BY <1>1, IdleOK DEF ThreadsOK, ProcessOK, EntryOK, Credits
<1>4. TodoOK'
  BY <1>1 DEF TodoOK, Task
<1> QED
  BY <1>2, <1>3, <1>4 DEF Working

\* Every step keeps the tables, the tasks and the calls together.
LEMMA WorkingStep == Working /\ Next => Working'
<1> SUFFICES ASSUME Working, Next PROVE Working'
  OBVIOUS
<1>1. CASE Request
  <2>1. ASSUME NEW j \in Job, Fulfil(j) \/ TestFulfilled(j) \/ Fail(j) PROVE Working'
    BY <2>1, EndType
  <2>2. ASSUME NEW t \in Thread,
               \/ StartRegen(t) \/ Schedule(t) \/ Upload(t) \/ Settle(t)
               \/ \E j \in Job, o \in Owner : Mark(t, j, o)
               \/ \E p \in DOMAIN payouts, s \in NewStatus : Update(t, p, s)
        PROVE  Working'
    BY <2>2, RequestStartType
  <2>3. ASSUME NEW p \in DOMAIN payouts, Patch(p) PROVE Working'
    BY <2>3, PatchType
  <2> QED BY <1>1, <2>1, <2>2, <2>3 DEF Request
<1>2. CASE Command
  BY <1>2, CommandType
<1>3. ASSUME NEW t \in Thread, PayoutStep(t) PROVE Working'
  BY <1>3, SavePayoutsType, SaveLinesType, ReadLinesType, SaveBatchType, SendType, SetLinesType,
     CloseBatchType, IncrementType, CheckPaidType, StatusType DEF PayoutStep
<1>4. CASE Crash
  BY <1>4, CrashType
<1> QED BY <1>1, <1>2, <1>3, <1>4 DEF Next, Program

\* Who is alone, what the bank reported and how many processes were lost.
LEMMA RestStep ==
  ASSUME Next, alone \in BOOLEAN, reported \subseteq Job \X Owner, crashes \in 0..MaxCrashes
  PROVE  alone' \in BOOLEAN /\ reported' \subseteq Job \X Owner /\ crashes' \in 0..MaxCrashes
<1>1. CASE Request
  <2>1. alone' \in BOOLEAN
    BY <1>1 DEF Request, Fulfil, TestFulfilled, Announce, Fail, StartRegen, Schedule, Upload,
       Settle, Mark, Update, Patch,
                Start, MayStart
  <2>2. UNCHANGED crashes
    BY <1>1 DEF Request, Fulfil, TestFulfilled, Announce, Fail, StartRegen, Schedule, Upload,
       Settle, Mark, Update, Patch
  <2>3. reported' \subseteq Job \X Owner
    <3>1. UNCHANGED reported \/ \E t \in Thread, j \in Job, o \in Owner : Mark(t, j, o)
      BY <1>1 DEF Request, Fulfil, TestFulfilled, Announce, Fail, StartRegen, Schedule, Upload,
         Settle, Update, Patch
    <3>2. ASSUME NEW t \in Thread, NEW j \in Job, NEW o \in Owner, Mark(t, j, o)
          PROVE  reported' = reported \cup {<<j, o>>}
      BY <3>2 DEF Mark
    <3> QED BY <3>1, <3>2
  <2> QED BY <2>1, <2>2, <2>3
<1>2. CASE Program
  <2>1. UNCHANGED <<alone, reported, crashes>>
    BY <1>2 DEF Program, Command, PayoutStep, SavePayouts, SaveLines, ReadLines, SaveBatch, Send,
                SaveSentLines, CloseBatch, SaveMarked, Increment, CheckPaid, SavePaid, SaveStatus,
                SaveSettled
  <2> QED BY <2>1
<1>3. CASE Crash
  BY <1>3, PayoutAssumption DEF Crash
<1> QED BY <1>1, <1>2, <1>3 DEF Next

\* A job is announced as fulfilled, or nothing is.
LEMMA AnnouncedBy ==
  ASSUME Next
  PROVE  UNCHANGED announced \/ \E j \in Job : Fulfil(j) \/ TestFulfilled(j)
<1>1. CASE Request
  BY <1>1 DEF Request, Fail, StartRegen, Schedule, Upload, Settle, Mark, Update, Patch
<1>2. CASE Program
  BY <1>2 DEF Program, Command, PayoutStep, SavePayouts, SaveLines, ReadLines, SaveBatch, Send,
              SaveSentLines, CloseBatch, SaveMarked, Increment, CheckPaid, SavePaid, SaveStatus,
              SaveSettled
<1>3. CASE Crash
  BY <1>3 DEF Crash
<1> QED BY <1>1, <1>2, <1>3 DEF Next

\* A job is announced as often as the bound says, at most.
LEMMA AnnouncedStep ==
  ASSUME Next, announced \in [Job -> Nat], \A j \in Job : announced[j] <= MaxAnnounced[j]
  PROVE  /\ announced' \in [Job -> Nat]
         /\ \A j \in Job : announced'[j] <= MaxAnnounced[j]
         /\ \A j \in Job : announced[j] <= announced'[j]
<1>1. CASE UNCHANGED announced
  BY <1>1
<1>2. ASSUME NEW j \in Job, Fulfil(j) \/ TestFulfilled(j)
      PROVE  /\ announced' \in [Job -> Nat]
             /\ \A i \in Job : announced'[i] <= MaxAnnounced[i]
             /\ \A i \in Job : announced[i] <= announced'[i]
  <2>1. announced[j] < MaxAnnounced[j] /\ announced' = [announced EXCEPT ![j] = @ + 1]
    BY <1>2 DEF Fulfil, TestFulfilled, Announce
  <2>2. announced[j] \in Nat /\ MaxAnnounced[j] \in Nat
    BY PayoutAssumption
  <2> QED BY <2>1, <2>2
<1> QED BY <1>1, <1>2, AnnouncedBy

\* Typed is inductive.
LEMMA Typing == Spec => []Typed
<1>1. Init => Typed
  <2> SUFFICES ASSUME Init PROVE Typed
    OBVIOUS
  <2>1. RowsOK
    BY WalletAssumption DEF Init, RowsOK, JobStatus, WalletRow, NewWallet, EntryOK
  <2>2. TodoOK
    BY DEF Init, TodoOK, Task
  <2>3. ThreadsOK
    BY IdleNow DEF Init, ThreadsOK
  <2>4. alone = FALSE /\ reported = {} /\ crashes = 0
    BY DEF Init
  <2>5. crashes \in 0..MaxCrashes
    BY <2>4, PayoutAssumption
  <2>6. announced \in [Job -> Nat] /\ \A j \in Job : announced[j] <= MaxAnnounced[j]
    BY PayoutAssumption DEF Init
  <2> QED BY <2>1, <2>2, <2>3, <2>4, <2>5, <2>6 DEF Typed
<1>2. Typed /\ [Next]_vars => Typed'
  <2> SUFFICES ASSUME Typed, [Next]_vars PROVE Typed'
    OBVIOUS
  <2>1. CASE Next
    <3>1. Working
      BY DEF Typed, Working
    <3>2. Working'
      BY <2>1, <3>1, WorkingStep
    <3>3. alone' \in BOOLEAN /\ reported' \subseteq Job \X Owner /\ crashes' \in 0..MaxCrashes
      BY <2>1, RestStep DEF Typed
    <3>4. announced' \in [Job -> Nat] /\ \A j \in Job : announced'[j] <= MaxAnnounced[j]
      BY <2>1, AnnouncedStep DEF Typed
    <3> QED BY <3>2, <3>3, <3>4 DEF Typed, Working
  <2>2. CASE UNCHANGED vars
    <3>1. Typed' = Typed
      BY <2>2 DEF vars, rows, Typed, RowsOK, TodoOK, ThreadsOK, ProcessOK, EntryOK, Credits
    <3> QED BY <3>1
  <2> QED BY <2>1, <2>2
<1> QED BY <1>1, <1>2, PTL DEF Spec

\* The rows hold what their entities allow, and the calls what the handlers keep,
\* whatever the calls are and however they overlap and end.
THEOREM TypeCorrect == Spec => []TypeOK
<1>1. Typed => TypeOK
  <2> SUFFICES ASSUME Typed PROVE TypeOK
    OBVIOUS
  <2>1. \A t \in Thread : thread[t] \in Memory
    BY DEF Typed, ThreadsOK
  <2>2. \A t \in Thread : thread[t].pc \in WalletPC \cup PayoutPC
    BY <2>1 DEF Memory
  <2> QED BY <2>2 DEF Typed, RowsOK, TodoOK, TypeOK
<1> QED BY <1>1, Typing, PTL

------------------------------------------------------------------------------
(* What a step of a wallet's handler reads, and what it writes *)

KeptAway(p, q) == /\ q.incomes = p.incomes /\ q.compensations = p.compensations
                  /\ q.next = p.next

NothingToRepair(q) == q.incomes = {} /\ q.compensations = {} /\ q.next = "idle"

WalletOf(p) == wallets[p.entry.owner]

\* It ends without saving anything.
Stops(q) ==
  /\ q = Idle /\ UNCHANGED <<wallets, transactions>>
  /\ UNCHANGED todo \/ \E k \in Task : Take(k.name, k.id)

\* It reads the wallet of somebody to whom an amount is due.
ReadsIncome(p, q) ==
  /\ p.pc = "idle" /\ q.pc = "compareEntry" /\ NothingToRepair(q)
  /\ \E j \in Job : Take("income", j) /\ q.entry = CreditEntry("INCOME", j)
  /\ q.wallet = Debited(WalletOf(q), q.entry.amount)
  /\ UNCHANGED <<wallets, transactions>>

ReadsCompensation(p, q) ==
  /\ p.pc = "idle" /\ q.pc = "checkCompensation" /\ NothingToRepair(q)
  /\ \E j \in Impacted : /\ Take("compensation", j)
                         /\ q.entry = CreditEntry("RESCHEDULE_SURCHARGE_COMPENSATION", j)
  /\ q.wallet = Debited(WalletOf(q), q.entry.amount)
  /\ UNCHANGED <<wallets, transactions>>

ReadsForgotten(p, q) ==
  /\ \/ /\ p.pc = "regenIncome"
        /\ \E j \in p.incomes : /\ q.entry = CreditEntry("INCOME", j)
                                /\ q.incomes = p.incomes \ {j}
        /\ q.compensations = p.compensations
     \/ /\ p.pc = "regenCompensation"
        /\ \E j \in p.compensations :
             /\ q.entry = CreditEntry("RESCHEDULE_SURCHARGE_COMPENSATION", j)
             /\ q.compensations = p.compensations \ {j}
        /\ q.incomes = p.incomes
  /\ q.pc = "compareEntry" /\ q.next = p.pc
  /\ q.wallet = Debited(WalletOf(q), q.entry.amount)
  /\ UNCHANGED <<wallets, transactions, todo>>

\* Nobody was compensated yet.
FindsNone(p, q) ==
  /\ p.pc = "checkCompensation" /\ q.pc = "compareEntry" /\ KeptAway(p, q)
  /\ \A i \in Of(p.entry.type) : \/ transactions[i].owner # p.entry.owner
                                 \/ transactions[i].job # p.entry.job
  /\ q.entry = p.entry /\ q.wallet = p.wallet
  /\ UNCHANGED <<wallets, transactions, todo>>

\* It begins to hold or to release the balance of a payout.
BeginsHold(p, q) ==
  /\ p.pc = "idle" /\ q.pc = "findWallet" /\ NothingToRepair(q)
  /\ \E x \in DOMAIN payouts : Take("hold", x) /\ OfPayout(x) = {} /\ q.entry = PayoutEntry(x)
  /\ UNCHANGED <<wallets, transactions>>

BeginsRelease(p, q) ==
  /\ p.pc = "idle" /\ q.pc = "findPending" /\ NothingToRepair(q)
  /\ \E x \in DOMAIN payouts : Take("release", x) /\ q.entry = PayoutEntry(x)
  /\ WalletOf(q).exists /\ q.wallet = Released(WalletOf(q), -q.entry.amount)
  /\ UNCHANGED <<wallets, transactions>>

FindsWallet(p, q) ==
  /\ p.pc = "findWallet" /\ q.pc = "compareEntry" /\ KeptAway(p, q)
  /\ q.entry = p.entry
  /\ WalletOf(p).exists /\ q.wallet = Held(WalletOf(p), -p.entry.amount)
  /\ UNCHANGED <<wallets, transactions, todo>>

FindsPending(p, q) ==
  /\ p.pc = "findPending" /\ q.pc = "compareRelease" /\ KeptAway(p, q)
  /\ q.trx \in OfPayout(p.entry.payout) /\ transactions[q.trx].status = "PENDING"
  /\ q.entry = p.entry /\ q.wallet = p.wallet
  /\ UNCHANGED <<wallets, transactions, todo>>

Compares(p, q) ==
  /\ \/ p.pc = "compareEntry" /\ q.pc = "writeEntry"
     \/ p.pc = "compareRelease" /\ q.pc = "writeRelease"
  /\ KeptAway(p, q)
  /\ q.entry = p.entry /\ q.wallet = p.wallet /\ q.trx = p.trx
  /\ q.changed = Differing(p.wallet, WalletOf(p))
  /\ UNCHANGED <<wallets, transactions, todo>>

\* The jobs with incomes are done.
TurnsToCompensations(p, q) ==
  /\ p.pc = "regenIncome" /\ q.pc = "regenCompensation" /\ KeptAway(p, q)
  /\ UNCHANGED <<wallets, transactions, todo>>

Inserts(p, q) ==
  /\ p.pc = "writeEntry" /\ q.pc = p.next
  /\ q.incomes = p.incomes /\ q.compensations = p.compensations /\ q.next = "idle"
  /\ transactions' = Append(transactions, p.entry)
  /\ wallets' = [wallets EXCEPT ![p.entry.owner] =
                   IF p.wallet.exists THEN Merged(p.wallet, WalletOf(p), p.changed)
                                      ELSE [p.wallet EXCEPT !.exists = TRUE]]
  /\ UNCHANGED todo

Updates(p, q) ==
  /\ p.pc = "writeRelease" /\ q = Idle
  /\ transactions' = [transactions EXCEPT ![p.trx].status = "SUCCESS"]
  /\ wallets' = [wallets EXCEPT ![p.entry.owner] = Merged(p.wallet, WalletOf(p), p.changed)]
  /\ UNCHANGED todo

WalletMove(p, q) ==
  \/ Stops(q)
  \/ ReadsIncome(p, q) \/ ReadsCompensation(p, q) \/ ReadsForgotten(p, q)
  \/ FindsNone(p, q) \/ BeginsHold(p, q) \/ BeginsRelease(p, q)
  \/ FindsWallet(p, q) \/ FindsPending(p, q) \/ Compares(p, q)
  \/ TurnsToCompensations(p, q) \/ Inserts(p, q) \/ Updates(p, q)

\* The call of a thread becomes another by a move of a wallet's handler.
Moves(t) == /\ \E q \in Memory : Become(t, q) /\ WalletMove(thread[t], q)
            /\ UNCHANGED <<jobs, payouts>>

\* The fields of a call that is idle.
LEMMA IdleFields == NothingToRepair(Idle) /\ Idle.pc = "idle" /\ Idle \in Memory /\ Idle.ids = {}
  /\ Idle.rows = {}
<1>1. NothingToRepair(Idle) /\ Idle.pc = "idle" /\ Idle.ids = {} /\ Idle.rows = {}
  BY DEF Idle, NothingToRepair
<1> QED BY <1>1, IdleNow

\* Reading a wallet for an income or a compensation that a saga asked for.
LEMMA CreditMoves ==
  ASSUME Working, NEW t \in Thread, NEW j \in Job, Income(t, j) \/ Compensate(t, j)
  PROVE  Moves(t)
<1> USE DEF Working
<1>0. PICK p : p = thread[t]
  OBVIOUS
<1>1. p.pc = "idle" /\ UNCHANGED <<jobs, wallets, transactions, payouts>>
  BY <1>0 DEF Income, Compensate, Running
<1>2. ASSUME NEW type \in CreditType, type = "INCOME" \/ ImpactedOf[j] # NoOwner
      PROVE  \E r \in Memory :
               /\ r = WithEntry(Idle, CreditEntry(type, j),
                                Debited(wallets[CreditEntry(type, j).owner],
                                        CreditEntry(type, j).amount))
               /\ r.pc = "compareEntry" /\ NothingToRepair(r) /\ r.entry = CreditEntry(type, j)
               /\ r.wallet = Debited(WalletOf(r), r.entry.amount)
  <2>1. PICK e : e = CreditEntry(type, j)
    OBVIOUS
  <2>2. e \in Transaction /\ EntryOK(e)
    BY <1>2, <2>1, CreditEntryType
  <2>3. e.owner \in Owner /\ e.amount \in Int
    BY <2>2, <1>2, <2>1, CreditEntryType, WalletAssumption DEF CreditType, CreditedTo, DueFor
  <2>4. PICK w : w = Debited(wallets[e.owner], e.amount)
    OBVIOUS
  <2>5. w \in WalletRow
    BY <2>3, <2>4, WalletType DEF RowsOK
  <2>6. PICK r : r = WithEntry(Idle, e, w)
    OBVIOUS
  <2>7. /\ r \in Memory /\ r.pc = "compareEntry" /\ r.entry = e /\ r.wallet = w
        /\ NothingToRepair(r)
    BY <2>2, <2>5, <2>6, WithEntryType, IdleNow, IdleFields DEF NothingToRepair
  <2> QED
    BY <2>1, <2>4, <2>6, <2>7 DEF WalletOf
<1>3. CASE Income(t, j)
  <2>1. PICK r \in Memory :
               /\ r = WithEntry(Idle, CreditEntry("INCOME", j),
                                Debited(wallets[CreditEntry("INCOME", j).owner],
                                        CreditEntry("INCOME", j).amount))
               /\ r.pc = "compareEntry" /\ NothingToRepair(r) /\ r.entry = CreditEntry("INCOME", j)
               /\ r.wallet = Debited(WalletOf(r), r.entry.amount)
    BY <1>2 DEF CreditType
  <2>2. Become(t, r) /\ Take("income", j)
    BY <1>3, <2>1 DEF Income
  <2>3. ReadsIncome(p, r)
    BY <1>1, <2>1, <2>2 DEF ReadsIncome
  <2> QED BY <1>0, <1>1, <2>2, <2>3 DEF Moves, WalletMove
<1>4. CASE Compensate(t, j)
  <2>0. ImpactedOf[j] # NoOwner /\ j \in Impacted
    BY <1>4 DEF Compensate, Impacted
  <2> DEFINE e == CreditEntry("RESCHEDULE_SURCHARGE_COMPENSATION", j)
  <2>1. PICK r \in Memory :
               /\ r = WithEntry(Idle, e, Debited(wallets[e.owner], e.amount))
               /\ r.pc = "compareEntry" /\ NothingToRepair(r) /\ r.entry = e
               /\ r.wallet = Debited(WalletOf(r), r.entry.amount)
    BY <1>2, <2>0 DEF CreditType
  <2>2. PICK q : q = [r EXCEPT !.pc = "checkCompensation"]
    OBVIOUS
  <2>3. Become(t, q) /\ Take("compensation", j)
    BY <1>4, <2>1, <2>2 DEF Compensate
  <2> HIDE DEF e
  <2>4. q \in Memory /\ q.pc = "checkCompensation" /\ NothingToRepair(q) /\ q.entry = e
        /\ q.wallet = r.wallet
    BY <2>1, <2>2 DEF Memory, WalletPC, NothingToRepair
  <2>5. q.wallet = Debited(WalletOf(q), q.entry.amount)
    BY <2>1, <2>4 DEF WalletOf
  <2>6. ReadsCompensation(p, q)
    BY <1>1, <2>0, <2>3, <2>4, <2>5 DEF ReadsCompensation, e
  <2> QED BY <1>0, <1>1, <2>3, <2>4, <2>6 DEF Moves, WalletMove
<1> QED BY <1>3, <1>4

\* Beginning to hold or to release the balance of a payout.
LEMMA HoldMoves ==
  ASSUME Working, NEW t \in Thread, NEW x \in PayoutId, Hold(t, x) \/ Release(t, x)
  PROVE  Moves(t)
<1> USE DEF Working
<1>0. PICK p : p = thread[t]
  OBVIOUS
<1>1. p.pc = "idle" /\ UNCHANGED <<jobs, wallets, transactions, payouts>>
  BY <1>0 DEF Hold, Release, Running
<1>2. PICK name \in {"hold", "release"} : Take(name, x)
  BY DEF Hold, Release
<1>3. PICK k : k = [name |-> name, id |-> x]
  OBVIOUS
<1>4. k \in Task /\ k \in [name : {"hold", "release"}, id : PayoutId]
      /\ k.name = name /\ k.id = x
  BY <1>3 DEF Task
<1>5. todo[k] > 0
  BY <1>2, <1>3 DEF Take
<1>6. x \in DOMAIN payouts
  BY <1>4, <1>5 DEF TodoOK
<1>7. \E m \in Task : Take(m.name, m.id)
  BY <1>2, <1>4
<1>8. CASE Become(t, Idle)
  BY <1>0, <1>1, <1>7, <1>8, IdleFields DEF Moves, WalletMove, Stops
<1>9. PICK e : e = PayoutEntry(x)
  OBVIOUS
<1>10. e \in Transaction /\ EntryOK(e) /\ e.owner \in Owner /\ e.amount \in Int /\ -e.amount \in Int
  <2>1. e \in Transaction /\ EntryOK(e) /\ e.owner = payouts[x].owner
    BY <1>6, <1>9, PayoutEntryType
  <2>2. payouts[x].owner \in Owner
    <3>1. payouts[x] \in PayoutRow
      BY <1>6 DEF RowsOK
    <3> QED BY <3>1 DEF PayoutRow
  <2>3. e.amount \in Int
    BY <2>1 DEF Transaction
  <2> QED BY <2>1, <2>2, <2>3
<1>11. CASE Hold(t, x) /\ ~Become(t, Idle)
  <2>1. PICK q : q = [Idle EXCEPT !.pc = "findWallet", !.entry = e]
    OBVIOUS
  <2>2. Become(t, q) /\ OfPayout(x) = {} /\ Take("hold", x)
    BY <1>9, <1>11, <2>1 DEF Hold
  <2>3. q \in Memory /\ q.pc = "findWallet" /\ q.entry = e /\ NothingToRepair(q)
    BY <1>10, <2>1, IdleFields DEF Memory, WalletPC, NothingToRepair
  <2>4. BeginsHold(p, q)
    BY <1>1, <1>6, <1>9, <2>2, <2>3 DEF BeginsHold
  <2> QED BY <1>0, <1>1, <2>2, <2>3, <2>4 DEF Moves, WalletMove
<1>12. CASE Release(t, x) /\ ~Become(t, Idle)
  <2>0. PICK w : w = Released(wallets[e.owner], -e.amount)
    OBVIOUS
  <2>1. PICK q : q = [Idle EXCEPT !.pc = "findPending", !.entry = e, !.wallet = w]
    OBVIOUS
  <2>2. Become(t, q) /\ wallets[e.owner].exists /\ Take("release", x)
    BY <1>9, <1>12, <2>0, <2>1 DEF Release
  <2>3. w \in WalletRow
    BY <1>10, <2>0, WalletType DEF RowsOK
  <2>4. q \in Memory /\ q.pc = "findPending" /\ q.entry = e /\ q.wallet = w /\ NothingToRepair(q)
    BY <1>10, <2>1, <2>3, IdleFields DEF Memory, WalletPC, NothingToRepair
  <2>5. BeginsRelease(p, q)
    BY <1>1, <1>6, <1>9, <2>0, <2>2, <2>4 DEF BeginsRelease, WalletOf
  <2> QED BY <1>0, <1>1, <2>2, <2>4, <2>5 DEF Moves, WalletMove
<1> QED BY <1>8, <1>11, <1>12

\* Going on with a transaction in hand.
LEMMA OnwardMoves ==
  ASSUME Working, NEW t \in Thread,
         \/ CheckCompensation(t) \/ FindWallet(t) \/ FindPending(t)
         \/ CompareEntry(t) \/ CompareRelease(t)
  PROVE  Moves(t)
<1> USE DEF Working
<1>0. PICK p : p = thread[t]
  OBVIOUS
<1>1. p \in Memory /\ ProcessOK(p)
  BY <1>0 DEF ThreadsOK
<1>2. UNCHANGED <<jobs, wallets, transactions, payouts, todo>>
  BY DEF CheckCompensation, FindWallet, FindPending, CompareEntry, CompareRelease, Compare
<1>3. CASE Become(t, Idle)
  BY <1>0, <1>2, <1>3, IdleFields DEF Moves, WalletMove, Stops
<1>4. CASE CheckCompensation(t) /\ ~Become(t, Idle)
  <2>1. PICK q : q = [p EXCEPT !.pc = "compareEntry"]
    OBVIOUS
  <2>2. p.pc = "checkCompensation"
    BY <1>0, <1>4 DEF CheckCompensation, Running
  <2>3. \A i \in Of(p.entry.type) : \/ transactions[i].owner # p.entry.owner
                                    \/ transactions[i].job # p.entry.job
    BY <1>0, <1>4 DEF CheckCompensation, Finish
  <2>4. Goto(t, "compareEntry")
    BY <1>0, <1>4 DEF CheckCompensation, Finish
  <2>5. Become(t, q)
    BY <1>0, <2>1, <2>4 DEF Goto, Become, ThreadsOK
  <2>6. /\ q \in Memory /\ q.pc = "compareEntry" /\ KeptAway(p, q)
        /\ q.entry = p.entry /\ q.wallet = p.wallet
    BY <1>1, <2>1 DEF Memory, WalletPC, KeptAway
  <2>7. FindsNone(p, q)
    BY <1>2, <2>2, <2>3, <2>6 DEF FindsNone
  <2> QED BY <1>0, <1>2, <2>5, <2>6, <2>7 DEF Moves, WalletMove
<1>5. CASE FindWallet(t) /\ ~Become(t, Idle)
  <2>0. PICK w : w = Held(WalletOf(p), -p.entry.amount)
    OBVIOUS
  <2>1. PICK q : q = WithEntry(p, p.entry, w)
    OBVIOUS
  <2>2. p.pc = "findWallet"
    BY <1>0, <1>5 DEF FindWallet, Running
  <2>3. Become(t, q) /\ WalletOf(p).exists
    BY <1>0, <1>5, <2>0, <2>1 DEF FindWallet, Finish, WalletOf
  <2>4. EntryOK(p.entry) /\ p.entry \in Transaction
    BY <1>1, <2>2 DEF ProcessOK, WithTransaction, EntryOK
  <2>5. p.entry.owner \in Owner /\ p.entry.amount \in Int /\ -p.entry.amount \in Int
    BY <2>4 DEF Transaction
  <2>6. w \in WalletRow
    BY <2>0, <2>5, WalletType DEF RowsOK, WalletOf
  <2>7. /\ q \in Memory /\ q.pc = "compareEntry" /\ KeptAway(p, q)
        /\ q.entry = p.entry /\ q.wallet = w
    BY <1>1, <2>1, <2>4, <2>6, WithEntryType DEF KeptAway
  <2>8. FindsWallet(p, q)
    BY <1>2, <2>0, <2>2, <2>3, <2>7 DEF FindsWallet
  <2> QED BY <1>0, <1>2, <2>3, <2>7, <2>8 DEF Moves, WalletMove
<1>6. CASE FindPending(t) /\ ~Become(t, Idle)
  <2>1. PICK i \in OfPayout(p.entry.payout) :
               /\ transactions[i].status = "PENDING"
               /\ Become(t, [p EXCEPT !.pc = "compareRelease", !.trx = i])
    BY <1>0, <1>6 DEF FindPending, Finish
  <2>2. PICK q : q = [p EXCEPT !.pc = "compareRelease", !.trx = i]
    OBVIOUS
  <2>3. i \in Nat
    BY <2>1 DEF OfPayout, Of, RowsOK
  <2>4. /\ q \in Memory /\ q.pc = "compareRelease" /\ KeptAway(p, q) /\ q.trx = i
        /\ q.entry = p.entry /\ q.wallet = p.wallet
    BY <1>1, <2>2, <2>3 DEF Memory, WalletPC, KeptAway
  <2>5. p.pc = "findPending"
    BY <1>0, <1>6 DEF FindPending, Running
  <2>6. FindsPending(p, q)
    BY <1>2, <2>1, <2>4, <2>5 DEF FindsPending
  <2> QED BY <1>0, <1>2, <2>1, <2>2, <2>4, <2>6 DEF Moves, WalletMove
<1>7. CASE CompareEntry(t) \/ CompareRelease(t)
  <2>1. PICK changed : changed = Differing(p.wallet, WalletOf(p))
    OBVIOUS
  <2>2. changed \in SUBSET Columns
    BY <2>1 DEF Differing, Columns
  <2>3. PICK to \in {"writeEntry", "writeRelease"} :
          /\ p.pc = IF to = "writeEntry" THEN "compareEntry" ELSE "compareRelease"
          /\ Become(t, [p EXCEPT !.pc = to, !.changed = changed])
    BY <1>0, <1>7, <2>1 DEF CompareEntry, CompareRelease, Compare, Running, WalletOf
  <2>4. PICK q : q = [p EXCEPT !.pc = to, !.changed = changed]
    OBVIOUS
  <2>5. /\ q \in Memory /\ q.pc = to /\ KeptAway(p, q)
        /\ q.entry = p.entry /\ q.wallet = p.wallet /\ q.trx = p.trx /\ q.changed = changed
    BY <1>1, <2>2, <2>4 DEF Memory, WalletPC, KeptAway
  <2>6. Compares(p, q)
    BY <1>2, <2>1, <2>3, <2>5 DEF Compares
  <2> QED BY <1>0, <1>2, <2>3, <2>4, <2>5, <2>6 DEF Moves, WalletMove
<1> QED BY <1>3, <1>4, <1>5, <1>6, <1>7

\* Saving a transaction with its wallet.
LEMMA WriteMoves ==
  ASSUME Working, NEW t \in Thread, WriteEntry(t) \/ WriteRelease(t)
  PROVE  Moves(t)
<1> USE DEF Working
<1>0. PICK p, o : p = thread[t] /\ o = thread[t].entry.owner
  OBVIOUS
<1>1. p \in Memory /\ ProcessOK(p)
  BY <1>0 DEF ThreadsOK
<1>2. UNCHANGED <<jobs, payouts, todo>>
  BY DEF WriteEntry, WriteRelease
<1>3. CASE WriteRelease(t)
  <2>1. p.pc = "writeRelease" /\ Become(t, Idle)
    BY <1>0, <1>3 DEF WriteRelease, Running, Finish
  <2>2. EntryOK(p.entry) /\ o \in Owner
    BY <1>0, <1>1, <2>1 DEF ProcessOK, WithTransaction, EntryOK, Transaction
  <2>3. /\ wallets' = [wallets EXCEPT ![o] = Merged(p.wallet, wallets[o], p.changed)]
        /\ transactions' = [transactions EXCEPT ![p.trx].status = "SUCCESS"]
    BY <1>0, <1>3, <2>2 DEF WriteRelease, RowsOK
  <2>4. Updates(p, Idle)
    BY <1>0, <1>2, <2>1, <2>3 DEF Updates, WalletOf
  <2> QED BY <1>0, <1>2, <2>1, <2>4, IdleFields DEF Moves, WalletMove
<1>4. CASE WriteEntry(t) /\ UNCHANGED <<wallets, transactions>> /\ Finish(t)
  <2>1. Stops(Idle)
    BY <1>2, <1>4 DEF Stops
  <2> QED BY <1>0, <1>2, <1>4, <2>1, IdleFields DEF Moves, WalletMove, Finish
<1>5. CASE WriteEntry(t) /\ ~(UNCHANGED <<wallets, transactions>> /\ Finish(t))
  <2>1. PICK q : q = [Idle EXCEPT !.pc = p.next, !.incomes = p.incomes,
                                  !.compensations = p.compensations]
    OBVIOUS
  <2>2. q \in Memory /\ q.pc = p.next /\ q.incomes = p.incomes
        /\ q.compensations = p.compensations /\ q.next = "idle"
    BY <1>1, <2>1, ReturnType
  <2>3. p.pc = "writeEntry" /\ transactions' = Append(transactions, p.entry) /\ Become(t, q)
    BY <1>0, <1>5, <2>1 DEF WriteEntry, Running, Return
  <2>4. wallets' = [wallets EXCEPT ![o] =
                      IF p.wallet.exists THEN Merged(p.wallet, wallets[o], p.changed)
                                         ELSE [p.wallet EXCEPT !.exists = TRUE]]
    BY <1>0, <1>5, Zenon DEF WriteEntry
  <2>5. Inserts(p, q)
    BY <1>0, <1>2, <2>2, <2>3, <2>4 DEF Inserts, WalletOf
  <2> QED BY <1>0, <1>2, <2>2, <2>3, <2>5 DEF Moves, WalletMove
<1> QED BY <1>3, <1>4, <1>5

\* The repair of missing transactions.
LEMMA RegenMoves ==
  ASSUME Working, NEW t \in Thread, RegenIncome(t) \/ RegenCompensation(t)
  PROVE  Moves(t)
<1> USE DEF Working
<1>0. PICK p : p = thread[t]
  OBVIOUS
<1>1. p \in Memory /\ p.pc \in {"regenIncome", "regenCompensation"}
  BY <1>0 DEF ThreadsOK, RegenIncome, RegenCompensation, Running
<1>2. UNCHANGED <<jobs, wallets, transactions, payouts, todo>>
  BY DEF RegenIncome, RegenCompensation
<1>3. CASE Finish(t)
  BY <1>0, <1>2, <1>3, IdleFields DEF Moves, WalletMove, Stops, Finish
<1>4. CASE RegenIncome(t) /\ Goto(t, "regenCompensation")
  <2>1. PICK q : q = [p EXCEPT !.pc = "regenCompensation"]
    OBVIOUS
  <2>2. q \in Memory /\ q.pc = "regenCompensation" /\ KeptAway(p, q)
    BY <1>1, <2>1 DEF Memory, WalletPC, KeptAway
  <2>3. Become(t, q)
    BY <1>0, <1>4, <2>1 DEF Goto, Become, ThreadsOK
  <2>4. TurnsToCompensations(p, q)
    BY <1>0, <1>2, <1>4, <2>2 DEF TurnsToCompensations, RegenIncome, Running
  <2> QED BY <1>0, <1>2, <2>2, <2>3, <2>4 DEF Moves, WalletMove
<1>5. ASSUME NEW type \in CreditType, NEW j \in Job, type = "INCOME" \/ ImpactedOf[j] # NoOwner
      PROVE  \E r \in Memory :
               /\ r = WithEntry(p, CreditEntry(type, j),
                                Debited(wallets[CreditEntry(type, j).owner],
                                        CreditEntry(type, j).amount))
               /\ r.pc = "compareEntry" /\ KeptAway(p, r) /\ r.entry = CreditEntry(type, j)
               /\ r.wallet = Debited(WalletOf(r), r.entry.amount)
  <2>1. PICK e : e = CreditEntry(type, j)
    OBVIOUS
  <2>2. e \in Transaction /\ EntryOK(e)
    BY <1>5, <2>1, CreditEntryType
  <2>3. e.owner \in Owner /\ e.amount \in Int
    BY <2>2 DEF Transaction
  <2>4. PICK w : w = Debited(wallets[e.owner], e.amount)
    OBVIOUS
  <2>5. w \in WalletRow
    BY <2>3, <2>4, WalletType DEF RowsOK
  <2>6. PICK r : r = WithEntry(p, e, w)
    OBVIOUS
  <2>7. ProcessOK(p)
    BY <1>0 DEF ThreadsOK
  <2>8. /\ r \in Memory /\ r.pc = "compareEntry" /\ r.entry = e /\ r.wallet = w
        /\ KeptAway(p, r)
    BY <1>1, <2>2, <2>5, <2>6, <2>7, WithEntryType DEF KeptAway
  <2> QED
    BY <2>1, <2>4, <2>6, <2>8 DEF WalletOf
<1>6. ASSUME NEW j \in p.incomes, RegenOne(t, j, "INCOME", "incomes"), p.pc = "regenIncome"
      PROVE  Moves(t)
  <2>1. j \in Job
    BY <1>1 DEF Memory
  <2> DEFINE e == CreditEntry("INCOME", j)
  <2>2. PICK r \in Memory :
               /\ r = WithEntry(p, e, Debited(wallets[e.owner], e.amount))
               /\ r.pc = "compareEntry" /\ KeptAway(p, r) /\ r.entry = e
               /\ r.wallet = Debited(WalletOf(r), r.entry.amount)
    BY <1>5, <2>1 DEF CreditType
  <2>3. Become(t, [r EXCEPT !["incomes"] = @ \ {j}, !.next = p.pc])
    BY <1>0, <1>6, <2>2, Zenon DEF RegenOne
  <2>4. PICK q : q = [r EXCEPT !.incomes = r.incomes \ {j}, !.next = p.pc]
    OBVIOUS
  <2>5. Become(t, q)
    BY <2>3, <2>4
  <2> HIDE DEF e
  <2>6. /\ q \in Memory /\ q.pc = "compareEntry" /\ q.next = p.pc /\ q.entry = e
        /\ q.wallet = r.wallet /\ q.incomes = p.incomes \ {j}
        /\ q.compensations = p.compensations
    BY <1>1, <2>2, <2>4 DEF Memory, WalletPC, KeptAway
  <2>7. q.wallet = Debited(WalletOf(q), q.entry.amount)
    BY <2>2, <2>6 DEF WalletOf
  <2>8. ReadsForgotten(p, q)
    BY <1>2, <1>6, <2>6, <2>7 DEF ReadsForgotten, e
  <2> QED BY <1>0, <1>2, <2>5, <2>6, <2>8 DEF Moves, WalletMove
<1>7. ASSUME NEW j \in p.compensations, p.pc = "regenCompensation",
             RegenOne(t, j, "RESCHEDULE_SURCHARGE_COMPENSATION", "compensations")
      PROVE  Moves(t)
  <2>1. j \in Job /\ ImpactedOf[j] # NoOwner
    BY <1>1 DEF Memory, Impacted
  <2> DEFINE e == CreditEntry("RESCHEDULE_SURCHARGE_COMPENSATION", j)
  <2>2. PICK r \in Memory :
               /\ r = WithEntry(p, e, Debited(wallets[e.owner], e.amount))
               /\ r.pc = "compareEntry" /\ KeptAway(p, r) /\ r.entry = e
               /\ r.wallet = Debited(WalletOf(r), r.entry.amount)
    BY <1>5, <2>1 DEF CreditType
  <2>3. Become(t, [r EXCEPT !["compensations"] = @ \ {j}, !.next = p.pc])
    BY <1>0, <1>7, <2>2, Zenon DEF RegenOne
  <2>4. PICK q : q = [r EXCEPT !.compensations = r.compensations \ {j}, !.next = p.pc]
    OBVIOUS
  <2>5. Become(t, q)
    BY <2>3, <2>4
  <2> HIDE DEF e
  <2>6. /\ q \in Memory /\ q.pc = "compareEntry" /\ q.next = p.pc /\ q.entry = e
        /\ q.wallet = r.wallet /\ q.compensations = p.compensations \ {j}
        /\ q.incomes = p.incomes
    BY <1>1, <2>2, <2>4 DEF Memory, WalletPC, KeptAway
  <2>7. q.wallet = Debited(WalletOf(q), q.entry.amount)
    BY <2>2, <2>6 DEF WalletOf
  <2>8. ReadsForgotten(p, q)
    BY <1>2, <1>7, <2>6, <2>7 DEF ReadsForgotten, e
  <2> QED BY <1>0, <1>2, <2>5, <2>6, <2>8 DEF Moves, WalletMove
<1>8. p.pc = IF RegenIncome(t) THEN "regenIncome" ELSE "regenCompensation"
  BY <1>0 DEF RegenIncome, RegenCompensation, Running
<1>9. CASE RegenIncome(t)
  BY <1>0, <1>4, <1>6, <1>8, <1>9 DEF RegenIncome
<1>10. CASE RegenCompensation(t)
  BY <1>0, <1>3, <1>7, <1>10 DEF RegenCompensation, Running
<1> QED BY <1>9, <1>10

\* Every step of a wallet's handler is such a move.
LEMMA StepMoves ==
  ASSUME Working, NEW t \in Thread, WalletStep(t)
  PROVE  Moves(t)
BY CreditMoves, HoldMoves, OnwardMoves, WriteMoves, RegenMoves DEF WalletStep

\* A step of a call on payouts: the call goes on or ends, and only when it creates
\* payouts do transactions change, or whose and of what amount the payouts are.
PayoutMove(p, q) ==
  /\ p.pc \in PayoutPC
  /\ \/ q = Idle
     \/ q.pc \in PayoutPC \ {"savePayouts", "saveStatus"} /\ KeptAway(p, q) /\ UNCHANGED todo
  /\ UNCHANGED <<jobs, wallets>>

SameDebts ==
  /\ UNCHANGED transactions
  /\ DOMAIN payouts' = DOMAIN payouts
  /\ \A p \in DOMAIN payouts : /\ payouts'[p].owner = payouts[p].owner
                               /\ payouts'[p].amount = payouts[p].amount

\* Every step of a call on payouts is such a move.
LEMMA PayoutMoves ==
  ASSUME Working, NEW t \in Thread, PayoutStep(t)
  PROVE  \E q \in Memory : Become(t, q) /\ PayoutMove(thread[t], q)
<1> USE DEF Working
<1>1. PICK p : p = thread[t]
  OBVIOUS
<1>2. p \in Memory
  BY <1>1 DEF ThreadsOK
<1>3. p.pc \in PayoutPC
  BY <1>1 DEF PayoutStep, SavePayouts, SaveLines, ReadLines, SaveBatch, Send, SaveSentLines,
              CloseBatch, SaveMarked, Increment, CheckPaid, SavePaid, SaveStatus, SaveSettled,
              Running, PayoutPC
<1>4. UNCHANGED <<jobs, wallets>>
  <2>1. SavePayouts(t) => UNCHANGED <<jobs, wallets>>
    BY DEF SavePayouts
  <2>2. SaveLines(t) => UNCHANGED <<jobs, wallets>>
    BY DEF SaveLines
  <2>3. CloseBatch(t) \/ CheckPaid(t) => UNCHANGED <<jobs, wallets>>
    BY DEF CloseBatch, CheckPaid, rows
  <2>4. ReadLines(t) \/ SaveBatch(t) \/ Send(t) \/ SaveSentLines(t) => UNCHANGED <<jobs, wallets>>
    BY DEF ReadLines, SaveBatch, Send, SaveSentLines, rows
  <2>5. SaveMarked(t) \/ Increment(t) \/ SavePaid(t) => UNCHANGED <<jobs, wallets>>
    BY DEF SaveMarked, Increment, SavePaid
  <2>6. SaveStatus(t) \/ SaveSettled(t) => UNCHANGED <<jobs, wallets>>
    BY DEF SaveStatus, SaveSettled
  <2> QED BY <2>1, <2>2, <2>3, <2>4, <2>5, <2>6 DEF PayoutStep
<1>5. ASSUME Become(t, Idle) PROVE \E q \in Memory : Become(t, q) /\ PayoutMove(p, q)
  BY <1>3, <1>4, <1>5, IdleNow DEF PayoutMove
<1> DEFINE To(pc, ids, rws, status, sent) ==
             [p EXCEPT !.pc = pc, !.ids = ids, !.rows = rws, !.status = status, !.sent = sent]
           Goal == \E q \in Memory : Become(t, q) /\ PayoutMove(p, q)
<1>6. ASSUME NEW pc \in PayoutPC \ {"savePayouts", "saveStatus"}, UNCHANGED todo,
             NEW ids, NEW rws, NEW status, NEW sent,
             Become(t, To(pc, ids, rws, status, sent)), Working'
      PROVE  Goal
  <2>1. PICK q : q = To(pc, ids, rws, status, sent)
    OBVIOUS
  <2>2. Become(t, q)
    BY <1>6, <2>1
  <2>3. q.pc = pc /\ KeptAway(p, q)
    BY <1>2, <2>1 DEF Memory, KeptAway
  <2>4. thread'[t] = q /\ thread'[t] \in Memory
    BY <1>6, <2>2 DEF Become, ThreadsOK
  <2>5. PayoutMove(p, q)
    BY <1>3, <1>4, <1>6, <2>3 DEF PayoutMove
  <2> QED BY <2>2, <2>4, <2>5
<1>20. \A pc \in PayoutPC \ {"savePayouts", "saveStatus"} : [p EXCEPT !.pc = pc] = To(pc, p.ids, p.rows, p.status, p.sent)
  BY <1>2 DEF Memory
<1> HIDE DEF Goal, To
<1>21. Become(t, Idle) => Goal
  BY <1>5 DEF Goal
<1>7. Working'
  <2>1. Next
    BY DEF Next, Program
  <2> HIDE DEF Working
  <2> QED BY <2>1, WorkingStep
<1>9. ASSUME NEW pc \in PayoutPC \ {"savePayouts", "saveStatus"}, UNCHANGED todo, Goto(t, pc)
      PROVE  Goal
  <2>1. [p EXCEPT !.pc = pc] = To(pc, p.ids, p.rows, p.status, p.sent)
    BY <1>20
  <2>2. Become(t, [p EXCEPT !.pc = pc])
    BY <1>1, <1>9 DEF Goto, Become, ThreadsOK
  <2> QED BY <1>6, <1>7, <1>9, <2>1, <2>2
<1>10. ASSUME SavePayouts(t) PROVE Goal
  <2>1. p.pc = "savePayouts" /\ UNCHANGED todo
    BY <1>1, <1>10 DEF SavePayouts, Running
  <2>2. thread[t].ids \subseteq Credits
    BY <1>1, <2>1 DEF ThreadsOK, ProcessOK
  <2>3. PICK Row \in [Payees(t) -> DOMAIN payouts' \ DOMAIN payouts] : PayoutsAre(t, Row)
    BY <1>10, <2>2, PayoutsAppended
  <2>4. PICK rws : rws = {Row[o] : o \in Payees(t)}
    OBVIOUS
  <2>5. Become(t, [p EXCEPT !.pc = "saveLines", !.rows = rws])
    BY <1>1, <2>3, <2>4, Zenon DEF PayoutsAre
  <2>6. [p EXCEPT !.pc = "saveLines", !.rows = rws]
          = To("saveLines", p.ids, rws, p.status, p.sent)
    BY <1>2 DEF Memory, To
  <2>7. "saveLines" \in PayoutPC \ {"savePayouts", "saveStatus"}
    BY DEF PayoutPC
  <2> QED BY <1>6, <1>7, <2>1, <2>5, <2>6, <2>7
<1>11. ASSUME ReadLines(t) /\ ~Become(t, Idle) PROVE Goal
  <2>1. PICK ids, status : Become(t, [p EXCEPT !.pc = "saveBatch", !.ids = ids, !.status = status])
    BY <1>1, <1>11 DEF ReadLines
  <2>2. [p EXCEPT !.pc = "saveBatch", !.ids = ids, !.status = status]
          = To("saveBatch", ids, p.rows, status, p.sent)
    BY <1>2 DEF Memory, To
  <2>3. "saveBatch" \in PayoutPC \ {"savePayouts", "saveStatus"} /\ UNCHANGED todo
    BY <1>11 DEF PayoutPC, ReadLines
  <2> QED BY <1>6, <1>7, <2>1, <2>2, <2>3
<1>12. ASSUME Send(t) PROVE Goal
  <2>1. PICK pc \in {"closeBatch", "saveSentLines"} : \E status, sent :
          Become(t, [p EXCEPT !.pc = pc, !.status = status, !.sent = sent])
    <3>1. CASE Become(t, [thread[t] EXCEPT !.pc = "closeBatch", !.status = "FAILED"])
      <4>1. [p EXCEPT !.pc = "closeBatch", !.status = "FAILED"]
              = [p EXCEPT !.pc = "closeBatch", !.status = "FAILED", !.sent = p.sent]
        BY <1>2 DEF Memory
      <4> QED BY <1>1, <3>1, <4>1
    <3>2. ASSUME NEW pc \in {"closeBatch", "saveSentLines"},
                 Become(t, [thread[t] EXCEPT !.sent = TRUE, !.pc = pc])
          PROVE  \E status, sent :
                   Become(t, [p EXCEPT !.pc = pc, !.status = status, !.sent = sent])
      <4>1. [p EXCEPT !.sent = TRUE, !.pc = pc]
              = [p EXCEPT !.pc = pc, !.status = p.status, !.sent = TRUE]
        BY <1>2 DEF Memory
      <4> QED BY <1>1, <3>2, <4>1
    <3> QED BY <1>12, <3>1, <3>2 DEF Send
  <2>4. PICK status, sent : Become(t, [p EXCEPT !.pc = pc, !.status = status, !.sent = sent])
    BY <2>1
  <2>2. [p EXCEPT !.pc = pc, !.status = status, !.sent = sent]
          = To(pc, p.ids, p.rows, status, sent)
    BY <1>2 DEF Memory, To
  <2>3. pc \in PayoutPC \ {"savePayouts", "saveStatus"} /\ UNCHANGED todo
    BY <1>12 DEF PayoutPC, Send
  <2> QED BY <1>6, <1>7, <2>4, <2>2, <2>3
<1>13. ASSUME Increment(t) PROVE Goal
  <2>1. PICK rws : Become(t, [p EXCEPT !.pc = "checkPaid", !.rows = rws])
    BY <1>1, <1>13 DEF Increment
  <2>2. [p EXCEPT !.pc = "checkPaid", !.rows = rws]
          = To("checkPaid", p.ids, rws, p.status, p.sent)
    BY <1>2 DEF Memory, To
  <2>3. "checkPaid" \in PayoutPC \ {"savePayouts", "saveStatus"} /\ UNCHANGED todo
    BY <1>13 DEF PayoutPC, Increment
  <2> QED BY <1>6, <1>7, <2>1, <2>2, <2>3
<1>14. ASSUME SaveBatch(t) \/ SaveSentLines(t) \/ SaveMarked(t) \/ CheckPaid(t) PROVE Goal
  <2>1. \/ Become(t, Idle)
        \/ \E pc \in PayoutPC \ {"savePayouts", "saveStatus"} : Goto(t, pc)
    BY <1>14 DEF SaveBatch, SaveSentLines, SaveMarked, CheckPaid, Finish, PayoutPC
  <2>2. UNCHANGED todo
    BY <1>14 DEF SaveBatch, SaveSentLines, SaveMarked, CheckPaid
  <2> QED BY <1>9, <1>21, <2>1, <2>2
<1>15. ASSUME SaveLines(t) \/ CloseBatch(t) \/ SavePaid(t) \/ SaveStatus(t) \/ SaveSettled(t) PROVE Goal
  <2>1. Become(t, Idle)
    BY <1>15 DEF SaveLines, CloseBatch, SavePaid, SaveStatus, SaveSettled, Finish
  <2> QED BY <1>21, <2>1
<1>22. Goal
  BY <1>10, <1>11, <1>12, <1>13, <1>14, <1>15, <1>21 DEF PayoutStep
<1> QED
  BY <1>1, <1>22 DEF Goal

\* But for SavePayouts, no step of a call on payouts changes what is owed to whom.
LEMMA DebtsStay ==
  ASSUME Working, NEW t \in Thread, PayoutStep(t), ~SavePayouts(t)
  PROVE  SameDebts
<1> USE DEF Working
<1>1. PICK p : p = thread[t]
  OBVIOUS
<1>2. p \in Memory /\ p.rows \subseteq DOMAIN payouts /\ ProcessOK(p)
  BY <1>1 DEF ThreadsOK, ProcessOK
<1>3. UNCHANGED transactions
  <2>2. SaveLines(t) => UNCHANGED transactions
    BY DEF SaveLines
  <2>3. CloseBatch(t) \/ CheckPaid(t) => UNCHANGED transactions
    BY DEF CloseBatch, CheckPaid, rows
  <2>4. ReadLines(t) \/ SaveBatch(t) \/ Send(t) \/ SaveSentLines(t) => UNCHANGED transactions
    BY DEF ReadLines, SaveBatch, Send, SaveSentLines, rows
  <2>5. SaveMarked(t) \/ Increment(t) \/ SavePaid(t) => UNCHANGED transactions
    BY DEF SaveMarked, Increment, SavePaid
  <2>6. SaveStatus(t) \/ SaveSettled(t) => UNCHANGED transactions
    BY DEF SaveStatus, SaveSettled
  <2> QED BY <2>2, <2>3, <2>4, <2>5, <2>6 DEF PayoutStep
<1>4. CASE UNCHANGED payouts
  BY <1>3, <1>4 DEF SameDebts
<1>5. ASSUME NEW S, NEW status \in PayoutStatus, payouts' = SetStatus(S, status)
      PROVE  SameDebts
  <2>1. PICK new : new = payouts'
    OBVIOUS
  <2>2. /\ new = [x \in DOMAIN payouts |-> new[x]]
        /\ \A x \in DOMAIN payouts :
              new[x].owner = payouts[x].owner /\ new[x].amount = payouts[x].amount
    BY <1>5, <2>1, SetStatusType
  <2>3. DOMAIN new = DOMAIN payouts
    BY <2>2
  <2> QED BY <1>3, <2>1, <2>2, <2>3 DEF SameDebts
<1>6. CASE CloseBatch(t)
  <2>1. UNCHANGED payouts \/ payouts' = SetStatus(p.rows, "IN_TRANSIT")
    BY <1>1, <1>6 DEF CloseBatch
  <2> QED BY <1>4, <1>5, <2>1 DEF PayoutStatus
<1>7. CASE SaveStatus(t) \/ SaveSettled(t)
  <2>1. payouts' = SetStatus(p.rows, p.status) \/ payouts' = SetStatus(p.rows, "PAID")
    BY <1>1, <1>7 DEF SaveStatus, SaveSettled
  <2>2. p.status \in PayoutStatus /\ "PAID" \in PayoutStatus
    BY <1>2 DEF Memory, PayoutStatus
  <2> QED BY <1>5, <2>1, <2>2
<1>8. CASE SaveBatch(t)
  <2>1. payouts' = [x \in DOMAIN payouts |->
                     IF x \in p.rows THEN [payouts[x] EXCEPT !.batch = Len(batches')]
                                     ELSE payouts[x]]
    BY <1>1, <1>8 DEF SaveBatch
  <2>2. ASSUME NEW x \in DOMAIN payouts
        PROVE  payouts'[x].owner = payouts[x].owner /\ payouts'[x].amount = payouts[x].amount
    <3>1. PICK r : r = payouts[x]
      OBVIOUS
    <3>2. r \in PayoutRow
      BY <3>1 DEF RowsOK
    <3>3. payouts'[x] = r \/ payouts'[x] = [r EXCEPT !.batch = Len(batches')]
      BY <2>1, <3>1
    <3> QED BY <3>1, <3>2, <3>3 DEF PayoutRow
  <2> QED BY <1>3, <2>1, <2>2 DEF SameDebts
<1>9. ASSUME NEW x, NEW s, payouts' = [payouts EXCEPT ![x] = s],
             x \in DOMAIN payouts => s.owner = payouts[x].owner /\ s.amount = payouts[x].amount
      PROVE  SameDebts
  <2>1. DOMAIN payouts' = DOMAIN payouts
    BY <1>9
  <2>2. ASSUME NEW y \in DOMAIN payouts
        PROVE  payouts'[y].owner = payouts[y].owner /\ payouts'[y].amount = payouts[y].amount
    <3>1. CASE y = x
      BY <1>9, <3>1
    <3>2. CASE y # x
      BY <1>9, <3>2
    <3> QED BY <3>1, <3>2
  <2> QED BY <1>3, <2>1, <2>2 DEF SameDebts
<1>10. CASE Increment(t)
  <2>1. PICK x : payouts' = [payouts EXCEPT ![x].processed = @ + Amount(lines, p.ids)]
    BY <1>1, <1>10 DEF Increment
  <2>2. PICK r, n : r = payouts[x] /\ n = payouts[x].processed + Amount(lines, p.ids)
    OBVIOUS
  <2>3. payouts' = [payouts EXCEPT ![x] = [r EXCEPT !.processed = n]]
    BY <2>1, <2>2
  <2>4. PICK s : s = [r EXCEPT !.processed = n]
    OBVIOUS
  <2>5. x \in DOMAIN payouts => s.owner = payouts[x].owner /\ s.amount = payouts[x].amount
    <3>1. x \in DOMAIN payouts => r \in PayoutRow
      BY <2>2 DEF RowsOK
    <3> QED BY <2>2, <2>4, <3>1 DEF PayoutRow
  <2> QED BY <1>9, <2>3, <2>4, <2>5
<1>11. CASE SavePaid(t)
  <2>1. PICK x : payouts' = [payouts EXCEPT ![x].status = "PAID",
                                            ![x].processed = payouts[x].amount]
    BY <1>11 DEF SavePaid
  <2>2. PICK r : r = payouts[x]
    OBVIOUS
  <2>3. PICK s : s = [r EXCEPT !.status = "PAID", !.processed = r.amount]
    OBVIOUS
  <2>4. payouts' = [payouts EXCEPT ![x] = s]
    BY <2>1, <2>2, <2>3
  <2>5. x \in DOMAIN payouts => s.owner = payouts[x].owner /\ s.amount = payouts[x].amount
    <3>1. x \in DOMAIN payouts => r \in PayoutRow
      BY <2>2 DEF RowsOK
    <3> QED BY <2>2, <2>3, <3>1 DEF PayoutRow
  <2> QED BY <1>9, <2>4, <2>5
<1>12. UNCHANGED payouts \/ CloseBatch(t) \/ SaveStatus(t) \/ SaveSettled(t) \/ SaveBatch(t)
       \/ Increment(t) \/ SavePaid(t)
  <2>1. SaveLines(t) => UNCHANGED payouts
    BY DEF SaveLines
  <2>2. ReadLines(t) \/ Send(t) \/ SaveSentLines(t) => UNCHANGED payouts
    BY DEF ReadLines, Send, SaveSentLines, rows
  <2>3. SaveMarked(t) \/ CheckPaid(t) => UNCHANGED payouts
    BY DEF SaveMarked, CheckPaid, rows
  <2> QED BY <2>1, <2>2, <2>3 DEF PayoutStep
<1> QED
  BY <1>4, <1>6, <1>7, <1>8, <1>10, <1>11, <1>12

------------------------------------------------------------------------------
(* What payouts are backed by *)

\* A transaction that is not yet saved: a credit is not paid, a payout's is of its
\* amount and its owner.
BackedEntry(e) ==
  /\ e.type \in CreditType => e.payout = 0
  /\ e.type = "PAYOUT" => /\ e.amount = -payouts[e.payout].amount
                          /\ e.owner = payouts[e.payout].owner

Remembered(p) ==
  /\ p.pc \in WithTransaction => BackedEntry(p.entry)
  /\ p.pc = "savePayouts" => p.ids \subseteq Debitable

\* The credits that a schedule read stay unpaid until it saves its payouts: no other
\* schedule is under way.
Backed ==
  /\ PayoutIsBacked
  /\ \A t \in Thread : Remembered(thread[t])
  /\ \A t, u \in Thread : Running(t, "savePayouts") /\ Running(u, "savePayouts") => t = u

\* The tables grow, and nobody decides which payout a credit is part of.
Continues ==
  /\ DOMAIN transactions \subseteq DOMAIN transactions'
  /\ \A i \in DOMAIN transactions :
       /\ transactions'[i].type = transactions[i].type
       /\ transactions'[i].owner = transactions[i].owner
       /\ transactions'[i].amount = transactions[i].amount
       /\ transactions'[i].payout = transactions[i].payout
  /\ DOMAIN payouts' = DOMAIN payouts
  /\ \A p \in DOMAIN payouts : /\ payouts'[p].owner = payouts[p].owner
                               /\ payouts'[p].amount = payouts[p].amount

\* A transaction in memory stays backed where the tables only grow.
LEMMA EntryStaysBacked ==
  ASSUME Continues, NEW e, EntryOK(e), BackedEntry(e)
  PROVE  BackedEntry(e)'
BY DEF Continues, EntryOK, BackedEntry

\* So does a call in memory.
LEMMA CallStaysBacked ==
  ASSUME Continues, NEW p \in Memory, ProcessOK(p), Remembered(p)
  PROVE  Remembered(p)'
<1>1. p.pc \in WithTransaction => BackedEntry(p.entry)'
  BY EntryStaysBacked DEF Remembered, ProcessOK
<1>2. p.ids \subseteq Debitable => p.ids \subseteq Debitable'
  BY DEF Debitable, Credits, Continues
<1> QED BY <1>1, <1>2 DEF Remembered

\* Where the tables only grow, payouts stay backed.
LEMMA PayoutsStayBacked ==
  ASSUME RowsOK, Continues, PayoutIsBacked,
         \A i \in DOMAIN transactions' \ DOMAIN transactions : BackedEntry(transactions[i])',
         \A i \in DOMAIN transactions' : EntryOK(transactions[i])'
  PROVE  PayoutIsBacked'
<1>1. ASSUME NEW i \in DOMAIN transactions'
      PROVE  /\ BackedEntry(transactions[i])' \/ i \in DOMAIN transactions
             /\ EntryOK(transactions[i])'
  BY <1>1
<1>2. ASSUME NEW p \in DOMAIN payouts'
      PROVE  /\ payouts'[p].amount = Amount(transactions, CreditsOf(p))'
             /\ \A i \in CreditsOf(p)' : transactions'[i].owner = payouts'[p].owner
  <2>1. p \in DOMAIN payouts /\ p # 0
    BY <1>2 DEF Continues, RowsOK
  <2>2. ASSUME NEW i \in CreditsOf(p)' PROVE i \in CreditsOf(p)
    <3>1. i \in DOMAIN transactions' /\ transactions'[i].type \in CreditType
          /\ transactions'[i].payout = p
      BY DEF CreditsOf, Credits
    <3>2. i \in DOMAIN transactions
      BY <1>1, <2>1, <3>1 DEF BackedEntry
    <3> QED BY <3>1, <3>2 DEF CreditsOf, Credits, Continues
  <2>3. CreditsOf(p) \subseteq CreditsOf(p)'
    BY DEF CreditsOf, Credits, Continues
  <2>4. PICK S : S = CreditsOf(p) /\ S = CreditsOf(p)'
    BY <2>2, <2>3
  <2>5. IsFiniteSet(S) /\ S \subseteq DOMAIN transactions
    BY <2>4, OwnersFinite DEF CreditsOf, Credits
  <2>6. Amount(transactions, S) = Amount(transactions', S)
    <3>1. PICK seq, rqs : seq = transactions /\ rqs = transactions'
      OBVIOUS
    <3>2. \A i \in S : seq[i].amount = rqs[i].amount
      BY <2>5, <3>1 DEF Continues
    <3>3. Amount(seq, S) = Amount(rqs, S)
      BY <2>5, <3>2, AmountsAgree
    <3> QED BY <3>1, <3>3
  <2>7. payouts'[p].amount = Amount(transactions', S)
    BY <2>1, <2>4, <2>6 DEF PayoutIsBacked, Continues
  <2>8. ASSUME NEW i \in S PROVE transactions'[i].owner = payouts'[p].owner
    <3>1. transactions[i].owner = payouts[p].owner
      BY <2>1, <2>4, <2>8 DEF PayoutIsBacked
    <3>2. i \in DOMAIN transactions
      BY <2>5
    <3>3. transactions'[i].owner = transactions[i].owner
      BY <3>2 DEF Continues
    <3>4. payouts'[p].owner = payouts[p].owner
      BY <2>1 DEF Continues
    <3> QED BY <3>1, <3>3, <3>4
  <2>9. Amount(transactions, CreditsOf(p))' = Amount(transactions', S)
    BY <2>4, Zenon DEF Amount, MapThenSumSet, MapThenFoldSet
  <2> QED BY <2>4, <2>7, <2>8, <2>9
<1>3. ASSUME NEW i \in Of("PAYOUT")'
      PROVE  /\ transactions'[i].amount = -payouts'[transactions'[i].payout].amount
             /\ transactions'[i].owner = payouts'[transactions'[i].payout].owner
  <2>1. i \in DOMAIN transactions' /\ transactions'[i].type = "PAYOUT"
    BY DEF Of
  <2>2. CASE i \in DOMAIN transactions
    <3>1. i \in Of("PAYOUT")
      BY <2>1, <2>2 DEF Of, Continues
    <3>2. EntryOK(transactions[i])
      BY <2>2 DEF RowsOK
    <3>3. transactions[i].payout \in DOMAIN payouts
      BY <3>1, <3>2 DEF EntryOK, Of
    <3> QED BY <2>2, <3>1, <3>3 DEF PayoutIsBacked, Continues
  <2>3. CASE i \notin DOMAIN transactions
    BY <1>1, <2>1, <2>3 DEF BackedEntry
  <2> QED BY <2>2, <2>3
<1> QED BY <1>2, <1>3 DEF PayoutIsBacked

\* One thread moves on to q.
LEMMA ThreadBacked ==
  ASSUME Working, Backed, Continues, PayoutIsBacked',
         NEW t \in Thread, NEW q \in Memory, Become(t, q), Remembered(q)',
         q.pc = "savePayouts" => \A u \in Thread : ~Running(u, "savePayouts")
  PROVE  Backed'
<1>1. thread \in [Thread -> Memory] /\ \A u \in Thread : ProcessOK(thread[u])
  BY DEF Working, ThreadsOK
<1>2. \A u \in Thread : thread'[u] = IF u = t THEN q ELSE thread[u]
  BY <1>1 DEF Become
<1>3. ASSUME NEW u \in Thread PROVE Remembered(thread[u])'
  <2>1. PICK p : p = thread'[u]
    OBVIOUS
  <2>2. p = q \/ p = thread[u]
    BY <1>2, <2>1
  <2>3. ASSUME p = thread[u] PROVE Remembered(p)'
    <3>1. p \in Memory /\ ProcessOK(p) /\ Remembered(p)
      BY <1>1, <2>3 DEF Backed
    <3> QED BY <3>1, CallStaysBacked
  <2>4. Remembered(p)'
    <3>1. p = q => Remembered(p)'
      OBVIOUS
    <3> QED BY <2>2, <2>3, <3>1
  <2> QED BY <2>1, <2>4 DEF Remembered, BackedEntry, Debitable, Credits
<1>4. ASSUME NEW u \in Thread, NEW v \in Thread,
             Running(u, "savePayouts")', Running(v, "savePayouts")'
      PROVE  u = v
  BY <1>2, <1>4 DEF Running, Backed
<1> QED BY <1>3, <1>4 DEF Backed

\* No thread moves on.
LEMMA NobodyBacked ==
  ASSUME Working, Backed, Continues, PayoutIsBacked', UNCHANGED thread
  PROVE  Backed'
<1>1. thread \in [Thread -> Memory] /\ \A u \in Thread : ProcessOK(thread[u])
  BY DEF Working, ThreadsOK
<1>3. ASSUME NEW u \in Thread PROVE Remembered(thread[u])'
  <2>1. PICK p : p = thread[u] /\ p = thread'[u]
    OBVIOUS
  <2>2. p \in Memory /\ ProcessOK(p) /\ Remembered(p)
    BY <1>1, <2>1 DEF Backed
  <2>3. Remembered(p)'
    BY <2>2, CallStaysBacked
  <2> QED BY <2>1, <2>3 DEF Remembered, BackedEntry, Debitable, Credits
<1> QED BY <1>3 DEF Backed, Running

\* Rows that stay as they are go on.
LEMMA SameContinues == UNCHANGED <<transactions, payouts>> \/ SameDebts => Continues
BY DEF Continues, SameDebts

\* A transaction that is inserted comes after those that are there.
LEMMA InsertContinues ==
  ASSUME RowsOK, NEW e \in Transaction, transactions' = Append(transactions, e),
         UNCHANGED payouts
  PROVE  /\ Continues
         /\ Len(transactions) \in Nat /\ DOMAIN transactions = 1..Len(transactions)
         /\ DOMAIN transactions' = DOMAIN transactions \cup {Len(transactions) + 1}
         /\ transactions'[Len(transactions) + 1] = e
         /\ \A i \in DOMAIN transactions : transactions'[i] = transactions[i]
<1>1. transactions \in Seq(Transaction)
  BY DEF RowsOK
<1>2. /\ DOMAIN transactions' = 1..(Len(transactions) + 1)
      /\ \A i \in DOMAIN transactions : transactions'[i] = transactions[i]
      /\ transactions'[Len(transactions) + 1] = e
      /\ DOMAIN transactions = 1..Len(transactions) /\ Len(transactions) \in Nat
  BY <1>1
<1>3. Continues
  BY <1>2 DEF Continues
<1>4. DOMAIN transactions' = DOMAIN transactions \cup {Len(transactions) + 1}
  BY <1>2
<1> QED BY <1>2, <1>3, <1>4

\* A transaction that is updated is about the same.
LEMMA UpdateContinues ==
  ASSUME RowsOK, NEW x, transactions' = [transactions EXCEPT ![x].status = "SUCCESS"],
         UNCHANGED payouts
  PROVE  /\ Continues /\ DOMAIN transactions' = DOMAIN transactions
         /\ \A i \in DOMAIN transactions :
              transactions'[i].status = IF i = x THEN "SUCCESS" ELSE transactions[i].status
<1>1. DOMAIN transactions' = DOMAIN transactions
  OBVIOUS
<1>2. ASSUME NEW i \in DOMAIN transactions
      PROVE  /\ transactions'[i].type = transactions[i].type
             /\ transactions'[i].owner = transactions[i].owner
             /\ transactions'[i].amount = transactions[i].amount
             /\ transactions'[i].payout = transactions[i].payout
             /\ transactions'[i].status = IF i = x THEN "SUCCESS" ELSE transactions[i].status
  <2>1. PICK r : r = transactions[i]
    OBVIOUS
  <2>2. r \in Transaction
    BY <2>1 DEF RowsOK
  <2>3. transactions'[i] = IF i = x THEN [r EXCEPT !.status = "SUCCESS"] ELSE r
    BY <2>1
  <2> QED BY <2>1, <2>2, <2>3 DEF Transaction
<1> QED BY <1>1, <1>2 DEF Continues

\* What a payout's transaction is, and a credit's.
LEMMA EntriesBacked ==
  /\ \A type \in CreditType, j \in Job : /\ CreditEntry(type, j).type = type
                                         /\ BackedEntry(CreditEntry(type, j))
  /\ RowsOK => \A x \in DOMAIN payouts : BackedEntry(PayoutEntry(x))
<1>1. ASSUME NEW type \in CreditType, NEW j \in Job
      PROVE  CreditEntry(type, j).type = type /\ BackedEntry(CreditEntry(type, j))
  <2>1. CreditEntry(type, j).type = type /\ CreditEntry(type, j).payout = 0
    BY DEF CreditEntry
  <2> QED BY <2>1 DEF BackedEntry, CreditType
<1>2. ASSUME RowsOK, NEW x \in DOMAIN payouts PROVE BackedEntry(PayoutEntry(x))
  BY <1>2, PayoutEntryType DEF BackedEntry, CreditType
<1> QED BY <1>1, <1>2

\* The wallets' handlers keep payouts backed: they append or update single transactions.
LEMMA MovesBacked ==
  ASSUME Working, Working', Backed, NEW t \in Thread, Moves(t)
  PROVE  Backed'
<1> USE DEF Working
<1>1. PICK p : p = thread[t]
  OBVIOUS
<1>2. p \in Memory /\ ProcessOK(p) /\ Remembered(p)
  BY <1>1 DEF ThreadsOK, Backed
<1>3. PICK q \in Memory : Become(t, q) /\ WalletMove(p, q)
  BY <1>1 DEF Moves
<1>4. UNCHANGED payouts /\ DOMAIN payouts' = DOMAIN payouts
  BY DEF Moves
<1>5. ASSUME Continues, PayoutIsBacked', Remembered(q)', q.pc # "savePayouts"
      PROVE  Backed'
  <2> HIDE DEF Working
  <2> QED BY <1>3, <1>5, ThreadBacked
<1>6. \A i \in DOMAIN transactions' : EntryOK(transactions[i])'
  BY DEF RowsOK
<1>7. ASSUME UNCHANGED transactions PROVE Continues /\ PayoutIsBacked'
  <2>1. Continues
    BY <1>4, <1>7, SameContinues
  <2>2. DOMAIN transactions' \ DOMAIN transactions = {}
    BY <1>7
  <2> QED BY <1>6, <2>1, <2>2, PayoutsStayBacked DEF Backed
<1>8. ASSUME NEW e, BackedEntry(e), q.entry = e, q.pc # "savePayouts" PROVE Remembered(q)'
  BY <1>4, <1>8 DEF Remembered, BackedEntry
<1>9. ASSUME q.pc \notin WithTransaction, q.pc # "savePayouts" PROVE Remembered(q)'
  BY <1>9 DEF Remembered
<1>10. p.pc \in WithTransaction => BackedEntry(p.entry)
  BY <1>2 DEF Remembered
<1>11. Idle.pc \notin WithTransaction /\ Idle.pc # "savePayouts"
  BY DEF Idle, WithTransaction
<1>12. CASE Stops(q)
  BY <1>5, <1>7, <1>9, <1>11, <1>12 DEF Stops
<1>13. CASE ReadsIncome(p, q) \/ ReadsCompensation(p, q) \/ ReadsForgotten(p, q)
  <2>1. q.pc # "savePayouts" /\ UNCHANGED transactions
    BY <1>13 DEF ReadsIncome, ReadsCompensation, ReadsForgotten
  <2>2. p.incomes \subseteq Job /\ p.compensations \subseteq Job
    BY <1>2 DEF Memory, Impacted
  <2>3. \E type \in CreditType, j \in Job : q.entry = CreditEntry(type, j)
    BY <1>13, <2>2 DEF ReadsIncome, ReadsCompensation, ReadsForgotten, CreditType, Impacted
  <2>4. BackedEntry(q.entry)
    BY <2>3, EntriesBacked
  <2> QED BY <1>5, <1>7, <1>8, <2>1, <2>4
<1>14. CASE FindsNone(p, q) \/ FindsWallet(p, q) \/ FindsPending(p, q) \/ Compares(p, q)
  <2>1. q.pc # "savePayouts" /\ UNCHANGED transactions /\ p.pc \in WithTransaction
        /\ q.entry = p.entry
    BY <1>14 DEF FindsNone, FindsWallet, FindsPending, Compares, WithTransaction
  <2> QED BY <1>5, <1>7, <1>8, <1>10, <2>1
<1>15. CASE BeginsHold(p, q) \/ BeginsRelease(p, q)
  <2>1. q.pc # "savePayouts" /\ UNCHANGED transactions
    BY <1>15 DEF BeginsHold, BeginsRelease
  <2>2. \E x \in DOMAIN payouts : q.entry = PayoutEntry(x)
    BY <1>15 DEF BeginsHold, BeginsRelease
  <2>3. BackedEntry(q.entry)
    BY <2>2, EntriesBacked
  <2> QED BY <1>5, <1>7, <1>8, <2>1, <2>3
<1>16. CASE TurnsToCompensations(p, q)
  <2>1. UNCHANGED transactions /\ q.pc \notin WithTransaction /\ q.pc # "savePayouts"
    BY <1>16 DEF TurnsToCompensations, WithTransaction
  <2> QED BY <1>5, <1>7, <1>9, <2>1
<1>17. CASE Inserts(p, q)
  <2>1. transactions' = Append(transactions, p.entry) /\ p.pc = "writeEntry" /\ q.pc = p.next
    BY <1>17 DEF Inserts
  <2>2. p.pc \in WithTransaction
    BY <2>1 DEF WithTransaction
  <2>3. EntryOK(p.entry) /\ p.entry \in Transaction /\ BackedEntry(p.entry)
    BY <1>2, <1>10, <2>2 DEF ProcessOK, EntryOK
  <2>4. q.pc \notin WithTransaction /\ q.pc # "savePayouts"
    BY <1>2, <2>1 DEF Memory, WithTransaction
  <2>5. /\ Continues
        /\ DOMAIN transactions' = DOMAIN transactions \cup {Len(transactions) + 1}
        /\ transactions'[Len(transactions) + 1] = p.entry
    BY <1>4, <2>1, <2>3, InsertContinues
  <2>6. BackedEntry(p.entry)'
    BY <1>4, <2>3 DEF BackedEntry
  <2>7. \A i \in DOMAIN transactions' \ DOMAIN transactions : BackedEntry(transactions[i])'
    <3>1. \A i \in DOMAIN transactions' \ DOMAIN transactions : transactions'[i] = p.entry
      BY <2>5
    <3> QED BY <2>6, <3>1 DEF BackedEntry
  <2>8. PayoutIsBacked'
    BY <1>6, <2>5, <2>7, PayoutsStayBacked DEF Backed
  <2> QED BY <1>5, <1>9, <2>4, <2>5, <2>8
<1>18. CASE Updates(p, q)
  <2>1. transactions' = [transactions EXCEPT ![p.trx].status = "SUCCESS"] /\ q = Idle
    BY <1>18 DEF Updates
  <2>2. Continues /\ DOMAIN transactions' \ DOMAIN transactions = {}
    BY <1>4, <2>1, UpdateContinues
  <2>3. PayoutIsBacked'
    BY <1>6, <2>2, PayoutsStayBacked DEF Backed
  <2> QED BY <1>5, <1>9, <1>11, <2>1, <2>2, <2>3
<1> QED
  BY <1>3, <1>12, <1>13, <1>14, <1>15, <1>16, <1>17, <1>18 DEF WalletMove

------------------------------------------------------------------------------
(* What a request starts *)

RepairsForgotten(q) ==
  /\ q.pc = "regenIncome" /\ q.next = "idle"
  /\ q.incomes = {j \in Forgotten : jobs[j] = "FULFILLED"}
  /\ q.compensations = {j \in Forgotten : ImpactedOf[j] # NoOwner}
  /\ MayStart("regen")

Starts(q) ==
  \/ RepairsForgotten(q)
  \/ /\ NothingToRepair(q)
     /\ \/ q.pc = "savePayouts" /\ q.ids = Debitable /\ MayStart("schedule")
        \/ /\ q.pc = "readLines" /\ MayStart("upload")
           /\ \A r \in q.rows : payouts[r].status = "SCHEDULED"
        \/ q.pc = "saveMarked" /\ MayStart("mark")
        \/ q.pc = "saveStatus" /\ q.status \in NewStatus /\ MayStart("update")
           /\ \E x \in DOMAIN payouts : q.rows = {x}
        \/ q.pc = "saveSettled" /\ MayStart("settle")

\* A request starts a call on a thread, which reads, or publishes what a saga reacts to.
Started(t) ==
  /\ thread[t].pc = "idle" /\ UNCHANGED <<jobs, todo>>
  /\ \E q \in Memory : Become(t, q) /\ Starts(q)

Published ==
  /\ UNCHANGED thread
  /\ \/ \E j \in Job : Fulfil(j) \/ TestFulfilled(j) \/ Fail(j)
     \/ \E x \in DOMAIN payouts : Patch(x)

\* A request changes no transaction and no payout: it announces or starts something.
LEMMA RequestStarts ==
  ASSUME Working, Request
  PROVE  /\ UNCHANGED <<wallets, transactions, payouts>>
         /\ Published \/ \E t \in Thread : Started(t)
<1> USE DEF Working
<1>0. /\ Idle.ids = {} /\ Idle.rows = {} /\ Idle.status = "SCHEDULED"
      /\ Idle.incomes = {} /\ Idle.compensations = {} /\ Idle.next = "idle" /\ Idle \in Memory
  <2>1. /\ Idle.ids = {} /\ Idle.rows = {} /\ Idle.status = "SCHEDULED"
        /\ Idle.incomes = {} /\ Idle.compensations = {} /\ Idle.next = "idle"
    BY DEF Idle
  <2> QED BY <2>1, IdleNow
<1>a. DOMAIN payouts \in SUBSET PayoutId
  BY WalletAssumption DEF RowsOK, PayoutId
<1> DEFINE Goal == /\ UNCHANGED <<wallets, transactions, payouts>>
                   /\ Published \/ \E t \in Thread : Started(t)
<1>1. ASSUME NEW t \in Thread, StartRegen(t) PROVE Goal
  <2>1. UNCHANGED <<jobs, wallets, transactions, payouts, todo>> /\ thread[t].pc = "idle"
        /\ MayStart("regen")
    BY <1>1 DEF StartRegen, Regen, Running
  <2>2. PICK q : q = [Idle EXCEPT !.pc = "regenIncome",
                            !.incomes = {j \in Forgotten : jobs[j] = "FULFILLED"},
                            !.compensations = {j \in Forgotten : ImpactedOf[j] # NoOwner}]
    OBVIOUS
  <2>3. /\ {j \in Forgotten : jobs[j] = "FULFILLED"} \in SUBSET Job
        /\ {j \in Forgotten : ImpactedOf[j] # NoOwner} \in SUBSET Impacted
    BY DEF Forgotten, Impacted
  <2>4. /\ q \in Memory /\ q.pc = "regenIncome" /\ q.next = "idle"
        /\ q.incomes = {j \in Forgotten : jobs[j] = "FULFILLED"}
        /\ q.compensations = {j \in Forgotten : ImpactedOf[j] # NoOwner}
    BY <2>2, <2>3, <1>0 DEF Memory, WalletPC
  <2>5. Become(t, q)
    BY <1>1, <2>2 DEF StartRegen, Regen
  <2>6. Starts(q)
    BY <2>1, <2>4 DEF Starts, RepairsForgotten
  <2> QED BY <2>1, <2>4, <2>5, <2>6 DEF Started
<1> DEFINE To(pc, ids, rws, status) ==
             [Idle EXCEPT !.pc = pc, !.ids = ids, !.rows = rws, !.status = status]
<1>7. ASSUME NEW t \in Thread, NEW pc \in PayoutPC, NEW ids \in SUBSET Nat,
             NEW rws \in SUBSET PayoutId, NEW status \in PayoutStatus, NEW call,
             Start(t, call, To(pc, ids, rws, status)), UNCHANGED rows, UNCHANGED todo,
             \/ pc = "savePayouts" /\ ids = Debitable /\ call = "schedule"
             \/ /\ pc = "readLines" /\ call = "upload"
                /\ \A r \in rws : payouts[r].status = "SCHEDULED"
             \/ pc = "saveMarked" /\ call = "mark"
             \/ pc = "saveStatus" /\ status \in NewStatus /\ call = "update"
                /\ \E x \in DOMAIN payouts : rws = {x}
             \/ pc = "saveSettled" /\ call = "settle"
      PROVE  Goal
  <2>1. UNCHANGED <<jobs, wallets, transactions, payouts, todo>>
    BY <1>7 DEF rows
  <2>2. PICK q : q = To(pc, ids, rws, status)
    OBVIOUS
  <2>3. Become(t, q) /\ MayStart(call) /\ thread[t].pc = "idle"
    BY <1>7, <2>2 DEF Start, Running
  <2>4. /\ q \in Memory /\ NothingToRepair(q)
        /\ q.pc = pc /\ q.ids = ids /\ q.rows = rws /\ q.status = status
    BY <2>2, <1>0 DEF Memory, NothingToRepair
  <2>5. Starts(q)
    BY <1>7, <2>3, <2>4 DEF Starts
  <2>6. Started(t)
    BY <2>1, <2>3, <2>4, <2>5 DEF Started
  <2> QED BY <2>1, <2>6
<1>8. ASSUME NEW pc, NEW ids, NEW rws, NEW status
      PROVE  /\ [Idle EXCEPT !.pc = pc, !.ids = ids] = To(pc, ids, {}, "SCHEDULED")
             /\ [Idle EXCEPT !.pc = pc, !.rows = rws] = To(pc, {}, rws, "SCHEDULED")
             /\ [Idle EXCEPT !.pc = pc, !.rows = rws, !.status = status] = To(pc, {}, rws, status)
             /\ [Idle EXCEPT !.pc = pc, !.ids = ids, !.rows = rws] = To(pc, ids, rws, "SCHEDULED")
  <2>1. [Idle EXCEPT !.pc = pc, !.ids = ids] = To(pc, ids, {}, "SCHEDULED")
    BY <1>0 DEF Memory
  <2>2. [Idle EXCEPT !.pc = pc, !.rows = rws] = To(pc, {}, rws, "SCHEDULED")
    BY <1>0 DEF Memory
  <2>3. [Idle EXCEPT !.pc = pc, !.rows = rws, !.status = status] = To(pc, {}, rws, status)
    BY <1>0 DEF Memory
  <2>4. [Idle EXCEPT !.pc = pc, !.ids = ids, !.rows = rws] = To(pc, ids, rws, "SCHEDULED")
    BY <1>0 DEF Memory
  <2> QED BY <2>1, <2>2, <2>3, <2>4
<1>9. {} \in SUBSET Nat /\ {} \in SUBSET PayoutId /\ "SCHEDULED" \in PayoutStatus
  BY DEF PayoutStatus
<1> HIDE DEF Goal, To
<1>2. ASSUME NEW t \in Thread, Schedule(t) PROVE Goal
  <2>1. Start(t, "schedule", To("savePayouts", Debitable, {}, "SCHEDULED"))
    BY <1>2, <1>8 DEF Schedule
  <2>2. UNCHANGED rows /\ UNCHANGED todo
    BY <1>2 DEF Schedule
  <2>3. Debitable \in SUBSET Nat
    BY DEF Debitable, Credits, RowsOK
  <2>4. "savePayouts" \in PayoutPC
    BY DEF PayoutPC
  <2> QED BY <1>7, <1>9, <2>1, <2>2, <2>3, <2>4
<1>3. ASSUME NEW t \in Thread, Upload(t) PROVE Goal
  <2>1. PICK S : S = {p \in DOMAIN payouts : payouts[p].status = "SCHEDULED"}
    OBVIOUS
  <2>2. Start(t, "upload", To("readLines", {}, S, "SCHEDULED"))
    BY <1>3, <1>8, <2>1 DEF Upload
  <2>3. UNCHANGED rows /\ UNCHANGED todo
    BY <1>3 DEF Upload
  <2>4. S \in SUBSET PayoutId /\ \A r \in S : payouts[r].status = "SCHEDULED"
    BY <1>a, <2>1
  <2>5. "readLines" \in PayoutPC
    BY DEF PayoutPC
  <2> QED BY <1>7, <1>9, <2>2, <2>3, <2>4, <2>5
<1>4. ASSUME NEW t \in Thread, Settle(t) PROVE Goal
  <2>1. PICK B : B = {b \in DOMAIN batches : batches[b] = "IN_TRANSIT"}
    OBVIOUS
  <2>2. PICK S : S = {p \in DOMAIN payouts : payouts[p].batch \in B}
    OBVIOUS
  <2>3. Start(t, "settle", To("saveSettled", B, S, "SCHEDULED"))
    <3>1. Start(t, "settle", [Idle EXCEPT !.pc = "saveSettled", !.ids = B, !.rows = S])
      BY <1>4, <2>1, <2>2 DEF Settle
    <3>2. [Idle EXCEPT !.pc = "saveSettled", !.ids = B, !.rows = S]
            = To("saveSettled", B, S, "SCHEDULED")
      BY <1>0 DEF Memory, To
    <3> QED BY <3>1, <3>2
  <2>4. UNCHANGED rows /\ UNCHANGED todo
    BY <1>4 DEF Settle
  <2>5. B \in SUBSET Nat /\ S \in SUBSET PayoutId
    BY <1>a, <2>1, <2>2 DEF RowsOK
  <2>6. "saveSettled" \in PayoutPC
    BY DEF PayoutPC
  <2> QED BY <1>7, <1>9, <2>3, <2>4, <2>5, <2>6
<1>5. ASSUME NEW t \in Thread, NEW j \in Job, NEW o \in Owner, Mark(t, j, o) PROVE Goal
  <2>1. PICK S : S = {l \in DOMAIN lines : lines[l].job = j /\ lines[l].owner = o}
    OBVIOUS
  <2>2. Start(t, "mark", To("saveMarked", S, {}, "SCHEDULED"))
    BY <1>5, <1>8, <2>1 DEF Mark
  <2>3. UNCHANGED rows /\ UNCHANGED todo
    BY <1>5 DEF Mark
  <2>4. S \in SUBSET Nat
    BY <2>1 DEF RowsOK
  <2>5. "saveMarked" \in PayoutPC
    BY DEF PayoutPC
  <2> QED BY <1>7, <1>9, <2>2, <2>3, <2>4, <2>5
<1>6. ASSUME NEW t \in Thread, NEW p \in DOMAIN payouts, NEW s \in NewStatus, Update(t, p, s)
      PROVE  Goal
  <2>1. Start(t, "update", To("saveStatus", {}, {p}, s))
    <3>1. Start(t, "update", [Idle EXCEPT !.pc = "saveStatus", !.rows = {p}, !.status = s])
      BY <1>6 DEF Update
    <3>2. [Idle EXCEPT !.pc = "saveStatus", !.rows = {p}, !.status = s]
            = To("saveStatus", {}, {p}, s)
      BY <1>0 DEF Memory, To
    <3> QED BY <3>1, <3>2
  <2>2. UNCHANGED rows /\ UNCHANGED todo
    BY <1>6 DEF Update
  <2>3. s \in PayoutStatus /\ {p} \in SUBSET PayoutId
    BY <1>a, PayoutAssumption DEF PayoutStatus
  <2>4. "saveStatus" \in PayoutPC
    BY DEF PayoutPC
  <2> QED BY <1>6, <1>7, <1>9, <2>1, <2>2, <2>3, <2>4
<1>10. ASSUME (\E j \in Job : Fulfil(j) \/ TestFulfilled(j) \/ Fail(j)) \/ \E x \in DOMAIN payouts : Patch(x)
       PROVE  Goal
  <2>1. UNCHANGED thread /\ UNCHANGED <<wallets, transactions, payouts>>
    BY <1>10 DEF Fulfil, TestFulfilled, Announce, Fail, Patch, rows
  <2> QED BY <1>10, <2>1 DEF Published, Goal
<1>11. Goal
  BY <1>1, <1>2, <1>3, <1>4, <1>5, <1>6, <1>10 DEF Request
<1> QED BY <1>11 DEF Goal

------------------------------------------------------------------------------
(* Payouts are backed *)

\* Creating payouts: each is of the credits that its owner had unpaid.
LEMMA SavePayoutsBacked ==
  ASSUME Working, Working', Backed, NEW t \in Thread, SavePayouts(t)
  PROVE  Backed'
<1> USE DEF Working
<1>1. PICK p : p = thread[t]
  OBVIOUS
<1>2. p \in Memory /\ ProcessOK(p) /\ p.pc = "savePayouts" /\ Remembered(p)
  BY <1>1 DEF ThreadsOK, SavePayouts, Running, Backed
<1>3. p.ids \subseteq Debitable /\ p.ids \subseteq Credits
  BY <1>2 DEF Remembered, ProcessOK
<1>4. thread[t].ids \subseteq Credits
  BY <1>1, <1>3
<1>5. PICK Row \in [Payees(t) -> DOMAIN payouts' \ DOMAIN payouts] : PayoutsAre(t, Row)
  BY <1>4, PayoutsAppended
<1>6. PICK S : S = Payees(t)
  OBVIOUS
<1>7. /\ Row \in [S -> DOMAIN payouts' \ DOMAIN payouts]
      /\ DOMAIN payouts \subseteq DOMAIN payouts'
      /\ \A x \in DOMAIN payouts : payouts'[x] = payouts[x]
      /\ \A o \in S : payouts'[Row[o]].owner = o
      /\ transactions' = [i \in DOMAIN transactions |->
                            IF i \in p.ids /\ transactions[i].owner \in Payable
                            THEN [transactions[i] EXCEPT !.payout = Row[transactions[i].owner]]
                            ELSE transactions[i]]
      /\ Become(t, [p EXCEPT !.pc = "saveLines", !.rows = {Row[o] : o \in S}])
  BY <1>1, <1>5, <1>6, Zenon DEF PayoutsAre
<1>8. \A x \in DOMAIN payouts' \ DOMAIN payouts : \E o \in S :
         /\ x = Row[o]
         /\ payouts'[x].amount = Amount(transactions, {i \in p.ids : transactions[i].owner = o})
  BY <1>1, <1>5, <1>6 DEF PayoutsAre
<1>9. \A i \in p.ids : transactions[i].owner \in Payable <=> transactions[i].owner \in S
  BY <1>1, <1>6 DEF Payees, Owners
<1>10. DOMAIN transactions' = DOMAIN transactions
  BY <1>7
<1>11. ASSUME NEW i \in DOMAIN transactions
       PROVE  /\ transactions'[i].type = transactions[i].type
              /\ transactions'[i].owner = transactions[i].owner
              /\ transactions'[i].amount = transactions[i].amount
              /\ transactions'[i].payout = IF i \in p.ids /\ transactions[i].owner \in S
                                           THEN Row[transactions[i].owner]
                                           ELSE transactions[i].payout
              /\ transactions[i].payout \in DOMAIN payouts \cup {0}
  <2>1. PICK r : r = transactions[i]
    OBVIOUS
  <2>2. r \in Transaction /\ EntryOK(r)
    BY <2>1 DEF RowsOK
  <2>3. PICK n : n = Row[r.owner]
    OBVIOUS
  <2>4. transactions'[i] = IF i \in p.ids /\ r.owner \in S THEN [r EXCEPT !.payout = n] ELSE r
    BY <1>7, <1>9, <2>1, <2>3
  <2> QED BY <2>1, <2>2, <2>3, <2>4 DEF Transaction, EntryOK
<1>12. \A i \in p.ids : i \in DOMAIN transactions /\ transactions[i].payout = 0
                        /\ transactions[i].type \in CreditType
  BY <1>3 DEF Debitable, Credits
<1>13. 0 \notin DOMAIN payouts /\ 0 \notin DOMAIN payouts'
  BY DEF RowsOK
<1>14. ASSUME NEW x \in DOMAIN payouts'
       PROVE  /\ payouts'[x].amount = Amount(transactions, CreditsOf(x))'
              /\ \A i \in CreditsOf(x)' : transactions'[i].owner = payouts'[x].owner
  <2>1. CreditsOf(x)' = {i \in DOMAIN transactions :
                           transactions'[i].type \in CreditType /\ transactions'[i].payout = x}
    BY <1>10 DEF CreditsOf, Credits
  <2>2. PICK T : T = CreditsOf(x)'
    OBVIOUS
  <2>3. Amount(transactions, CreditsOf(x))' = Amount(transactions', T)
    BY <2>2, Zenon DEF Amount, MapThenSumSet, MapThenFoldSet
  <2>4. ASSUME NEW U, T = U, U \subseteq DOMAIN transactions
        PROVE  Amount(transactions', T) = Amount(transactions, U)
    <3>1. IsFiniteSet(U)
      BY <2>4, OwnersFinite
    <3>2. PICK seq, rqs : seq = transactions /\ rqs = transactions'
      OBVIOUS
    <3>3. \A i \in U : seq[i].amount = rqs[i].amount
      BY <1>11, <2>4, <3>2
    <3>4. Amount(seq, U) = Amount(rqs, U)
      BY <3>1, <3>3, AmountsAgree
    <3> QED BY <2>4, <3>2, <3>4
  <2>5. CASE x \in DOMAIN payouts
    <3>1. CreditsOf(x) = T
      <4>1. \A i \in DOMAIN transactions : transactions'[i].payout = x <=> transactions[i].payout = x
        BY <1>7, <1>11, <1>12, <1>13, <2>5
      <4> QED BY <1>11, <2>1, <2>2, <4>1 DEF CreditsOf, Credits
    <3>2. CreditsOf(x) \subseteq DOMAIN transactions
      BY DEF CreditsOf, Credits
    <3>3. Amount(transactions', T) = Amount(transactions, CreditsOf(x))
      BY <2>4, <3>1, <3>2
    <3>4. payouts'[x] = payouts[x]
      BY <1>7, <2>5
    <3>5. payouts[x].amount = Amount(transactions, CreditsOf(x))
          /\ \A i \in CreditsOf(x) : transactions[i].owner = payouts[x].owner
      BY <2>5 DEF Backed, PayoutIsBacked
    <3> QED BY <1>11, <2>2, <2>3, <3>1, <3>2, <3>3, <3>4, <3>5
  <2>6. CASE x \notin DOMAIN payouts
    <3>1. PICK o \in S :
            /\ x = Row[o]
            /\ payouts'[x].amount
                 = Amount(transactions, {i \in p.ids : transactions[i].owner = o})
      BY <1>8, <2>6
    <3>2. PICK U : U = {i \in p.ids : transactions[i].owner = o}
      OBVIOUS
    <3>3. U \subseteq DOMAIN transactions
      BY <1>12, <3>2
    <3>4. ASSUME NEW i \in DOMAIN transactions, transactions'[i].payout = x PROVE i \in U
      <4>1. i \in p.ids /\ transactions[i].owner \in S /\ x = Row[transactions[i].owner]
        BY <1>11, <1>13, <2>6, <3>4
      <4>2. transactions[i].owner = o
        BY <1>7, <3>1, <4>1
      <4> QED BY <3>2, <4>1, <4>2
    <3>5. \A i \in U : transactions'[i].payout = x /\ transactions'[i].type \in CreditType
      BY <1>11, <1>12, <3>1, <3>2
    <3>6. T = U
      BY <2>1, <2>2, <3>3, <3>4, <3>5
    <3>7. Amount(transactions', T) = Amount(transactions, U)
      BY <2>4, <3>3, <3>6
    <3>8. payouts'[x].owner = o
      BY <1>7, <3>1
    <3>9. \A i \in U : transactions'[i].owner = o
      BY <1>11, <3>2, <3>3
    <3> QED BY <2>2, <2>3, <3>1, <3>2, <3>6, <3>7, <3>8, <3>9
  <2> QED BY <2>5, <2>6
<1>15. ASSUME NEW i \in Of("PAYOUT")'
       PROVE  /\ transactions'[i].amount = -payouts'[transactions'[i].payout].amount
              /\ transactions'[i].owner = payouts'[transactions'[i].payout].owner
  <2>1. i \in DOMAIN transactions /\ transactions'[i].type = "PAYOUT"
    BY <1>10 DEF Of
  <2>2. transactions[i].type = "PAYOUT" /\ i \in Of("PAYOUT")
    BY <1>11, <2>1 DEF Of
  <2>3. i \notin p.ids
    BY <1>12, <2>2 DEF CreditType
  <2>4. EntryOK(transactions[i])
    BY <2>1 DEF RowsOK
  <2>5. transactions[i].payout \in DOMAIN payouts
    BY <2>2, <2>4 DEF EntryOK
  <2> QED BY <1>7, <1>11, <2>1, <2>2, <2>3, <2>5 DEF Backed, PayoutIsBacked
<1>16. PayoutIsBacked'
  BY <1>14, <1>15 DEF PayoutIsBacked
<1>17. ASSUME NEW u \in Thread, u # t PROVE Remembered(thread[u])' /\ ~Running(u, "savePayouts")'
  <2>1. PICK r : r = thread[u]
    OBVIOUS
  <2>2. thread'[u] = r
    BY <1>7, <1>17, <2>1 DEF ThreadsOK, Become
  <2>3. r \in Memory /\ ProcessOK(r) /\ Remembered(r) /\ r.pc # "savePayouts"
    BY <1>1, <1>2, <1>17, <2>1 DEF ThreadsOK, Backed, Running
  <2>4. r.pc \in WithTransaction => EntryOK(r.entry) /\ BackedEntry(r.entry)
    BY <2>3 DEF ProcessOK, Remembered
  <2>5. r.pc \in WithTransaction => BackedEntry(r.entry)'
    BY <1>7, <2>4 DEF EntryOK, BackedEntry
  <2>6. Remembered(r)'
    BY <2>3, <2>5 DEF Remembered
  <2> QED BY <2>2, <2>3, <2>6 DEF Remembered, BackedEntry, Debitable, Credits, Running
<1>18. Remembered(thread[t])' /\ ~Running(t, "savePayouts")'
  <2>1. thread'[t].pc = "saveLines"
    BY <1>2, <1>7 DEF ThreadsOK, Become, Memory
  <2> QED BY <2>1 DEF Remembered, Running, WithTransaction
<1> QED BY <1>16, <1>17, <1>18 DEF Backed

\* Backed is inductive where schedules do not overlap anything.
LEMMA Backing == "schedule" \notin Overlapping => (Spec => []Backed)
<1>1. Init => Backed
  <2> SUFFICES ASSUME Init PROVE Backed
    OBVIOUS
  <2>1. Idle.pc = "idle"
    BY DEF Idle
  <2>2. PayoutIsBacked
    BY DEF Init, PayoutIsBacked, Of
  <2>3. \A t \in Thread : thread[t] = Idle
    BY DEF Init
  <2> QED BY <2>1, <2>2, <2>3 DEF Backed, Remembered, Running, WithTransaction
<1>2. ASSUME "schedule" \notin Overlapping, Typed, Typed', Backed, [Next]_vars
      PROVE  Backed'
  <2>1. Working /\ Working'
    BY <1>2 DEF Typed, Working
  <2>2. RowsOK /\ \A i \in DOMAIN transactions' : EntryOK(transactions[i])'
    BY <2>1 DEF Working, RowsOK
  <2>3. ASSUME UNCHANGED <<transactions, payouts>> PROVE Continues /\ PayoutIsBacked'
    <3>1. Continues
      BY <2>3, SameContinues
    <3>2. DOMAIN transactions' \ DOMAIN transactions = {}
      BY <2>3
    <3> QED BY <1>2, <2>2, <3>1, <3>2, PayoutsStayBacked DEF Backed
  <2>4. CASE Request
    <3>1. UNCHANGED <<wallets, transactions, payouts>>
      BY <2>1, <2>4, RequestStarts
    <3>2. CASE Published
      BY <1>2, <2>1, <2>3, <3>1, <3>2, NobodyBacked DEF Published
    <3>3. ASSUME NEW t \in Thread, Started(t) PROVE Backed'
      <4>1. PICK q \in Memory : Become(t, q) /\ Starts(q)
        BY <3>3 DEF Started
      <4>2. q.pc \notin WithTransaction
        BY <4>1 DEF Starts, RepairsForgotten, WithTransaction
      <4>3. ASSUME q.pc = "savePayouts"
            PROVE q.ids = Debitable /\ \A u \in Thread : ~Running(u, "savePayouts")
        <5>1. q.ids = Debitable /\ MayStart("schedule")
          BY <4>1, <4>3 DEF Starts, RepairsForgotten
        <5>2. Quiet
          BY <1>2, <5>1 DEF MayStart
        <5> QED BY <5>1, <5>2 DEF Quiet, Running
      <4>4. Debitable' = Debitable
        BY <3>1 DEF Debitable, Credits
      <4>5. Remembered(q)'
        BY <4>2, <4>3, <4>4 DEF Remembered
      <4> QED BY <1>2, <2>1, <2>3, <3>1, <4>1, <4>3, <4>5, ThreadBacked
    <3> QED BY <2>1, <2>4, <3>2, <3>3, RequestStarts
  <2>5. CASE Command
    <3>1. ASSUME NEW t \in Thread, WalletStep(t) PROVE Backed'
      BY <1>2, <2>1, <3>1, StepMoves, MovesBacked
    <3>2. ASSUME NEW j \in Job, DismissCompensation(j) PROVE Backed'
      <4>1. UNCHANGED <<transactions, payouts>> /\ UNCHANGED thread
        BY <3>2 DEF DismissCompensation
      <4> QED BY <1>2, <2>1, <2>3, <4>1, NobodyBacked
    <3> QED BY <2>5, <3>1, <3>2 DEF Command
  <2>6. ASSUME NEW t \in Thread, PayoutStep(t) PROVE Backed'
    <3>1. CASE SavePayouts(t)
      BY <1>2, <2>1, <3>1, SavePayoutsBacked
    <3>2. CASE ~SavePayouts(t)
      <4>1. SameDebts
        BY <2>1, <2>6, <3>2, DebtsStay
      <4>2. Continues
        BY <4>1, SameContinues
      <4>3. DOMAIN transactions' \ DOMAIN transactions = {}
        BY <4>1 DEF SameDebts
      <4>4. PayoutIsBacked'
        BY <1>2, <2>2, <4>2, <4>3, PayoutsStayBacked DEF Backed
      <4>5. PICK q \in Memory : Become(t, q) /\ PayoutMove(thread[t], q)
        BY <2>1, <2>6, PayoutMoves
      <4>6. q.pc \notin WithTransaction /\ q.pc # "savePayouts"
        BY <4>5, IdleFields DEF PayoutMove, PayoutPC, WithTransaction
      <4>7. Remembered(q)'
        BY <4>6 DEF Remembered
      <4> QED BY <1>2, <2>1, <4>2, <4>4, <4>5, <4>6, <4>7, ThreadBacked
    <3> QED BY <3>1, <3>2
  <2>7. CASE Crash
    <3>1. UNCHANGED <<transactions, payouts>> /\ thread' = [t \in Thread |-> Idle]
      BY <2>7 DEF Crash, rows
    <3>2. \A t \in Thread : thread'[t].pc = "idle"
      BY <3>1, IdleFields
    <3> QED BY <2>3, <3>1, <3>2 DEF Backed, Remembered, Running, WithTransaction
  <2>8. CASE UNCHANGED vars
    <3>1. UNCHANGED <<transactions, payouts>> /\ UNCHANGED thread
      BY <2>8 DEF vars, rows
    <3> QED BY <1>2, <2>1, <2>3, <3>1, NobodyBacked
  <2> QED BY <1>2, <2>4, <2>5, <2>6, <2>7, <2>8 DEF Next, Program
<1>3. ASSUME "schedule" \notin Overlapping
      PROVE  Typed /\ Typed' /\ Backed /\ [Next]_vars => Backed'
  BY <1>2, <1>3
<1>4. ASSUME "schedule" \notin Overlapping PROVE Spec => []Backed
  BY <1>1, <1>3, <1>4, Typing, PTL DEF Spec
<1> QED BY <1>4

\* A payout pays exactly the credits that point at it, all of one owner, where no
\* schedule overlaps other calls: schedulePayoutsFromWalletTransactions reads the
\* credits before it saves the payouts, and nothing is locked in between.
THEOREM PayoutsAreBacked == "schedule" \notin Overlapping => (Spec => []PayoutIsBacked)
<1>1. Backed => PayoutIsBacked
  BY DEF Backed
<1> QED BY <1>1, Backing, PTL

------------------------------------------------------------------------------
(* What was released was paid *)

UploadPC  == {"readLines", "saveBatch", "send", "saveSentLines", "closeBatch"}
ReleasePC == {"findPending", "compareRelease", "writeRelease"}
InsertPC  == {"checkCompensation", "findWallet", "compareEntry", "writeEntry"}

IsPaid(x) == payouts[x].status = "PAID"

\* A release is of a payout that is paid, and a transaction that is inserted for a
\* payout is pending.
PaidCall(p) ==
  /\ p.pc \in ReleasePC => p.entry.type = "PAYOUT" /\ IsPaid(p.entry.payout)
  /\ p.pc \in ReleasePC \ {"findPending"} => p.trx \in OfPayout(p.entry.payout)
  /\ p.pc \in InsertPC => (p.entry.type = "PAYOUT" => p.entry.status = "PENDING")
  /\ p.pc = "saveStatus" => p.status = "PAID"

\* An upload is alone, with payouts that are only scheduled.
Uploads ==
  \A t \in Thread : thread[t].pc \in UploadPC =>
    /\ alone
    /\ \A u \in Thread \ {t} : Running(u, "idle")
    /\ \A k \in Task : todo[k] = 0
    /\ \A r \in thread[t].rows : payouts[r].status = "SCHEDULED"

ReleaseTask == [name : {"release"}, id : PayoutId]

PaidFirst ==
  /\ ReleasedIsPaid
  /\ \A k \in ReleaseTask : todo[k] > 0 => IsPaid(k.id)
  /\ \A t \in Thread : PaidCall(thread[t])
  /\ Uploads

\* What is paid stays paid.
PaidStays ==
  /\ DOMAIN payouts \subseteq DOMAIN payouts'
  /\ \A x \in DOMAIN payouts : payouts[x].status = "PAID" => payouts'[x].status = "PAID"

\* Transactions of payouts are about the same payouts.
PaymentsStay ==
  /\ DOMAIN transactions \subseteq DOMAIN transactions'
  /\ \A i \in DOMAIN transactions : transactions[i].type = "PAYOUT" =>
       /\ transactions'[i].type = "PAYOUT"
       /\ transactions'[i].payout = transactions[i].payout

\* An upload goes on with the same payouts, whose status it leaves alone until it ends.
LEMMA UploadGoesOn ==
  ASSUME Working, NEW t \in Thread, PayoutStep(t), thread'[t].pc \in UploadPC
  PROVE  /\ thread[t].pc \in UploadPC /\ thread'[t].rows = thread[t].rows
         /\ UNCHANGED <<alone, todo>>
         /\ \A r \in DOMAIN payouts : payouts'[r].status = payouts[r].status
<1> USE DEF Working
<1>1. PICK p : p = thread[t]
  OBVIOUS
<1>2. p \in Memory
  BY <1>1 DEF ThreadsOK
<1>3. \A q : Become(t, q) => thread'[t] = q
  BY DEF Become, ThreadsOK
<1>4. Idle.pc \notin UploadPC
  BY DEF Idle, UploadPC
<1>5. ~Become(t, Idle)
  BY <1>3, <1>4
<1>6. \A pc : Goto(t, pc) => thread'[t] = [p EXCEPT !.pc = pc]
  BY <1>1 DEF Goto, ThreadsOK
<1>7. \A pc : [p EXCEPT !.pc = pc].pc = pc /\ [p EXCEPT !.pc = pc].rows = p.rows
  BY <1>2 DEF Memory
<1>8. \A pc : Goto(t, pc) => pc \in UploadPC /\ thread'[t].rows = p.rows
  BY <1>6, <1>7
<1>9. CASE SavePayouts(t)
  <2>1. thread[t].ids \subseteq Credits
    BY <1>1, <1>9 DEF ThreadsOK, ProcessOK, SavePayouts, Running
  <2>2. PICK Row \in [Payees(t) -> DOMAIN payouts' \ DOMAIN payouts] : PayoutsAre(t, Row)
    BY <1>9, <2>1, PayoutsAppended
  <2>3. PICK rws : Become(t, [p EXCEPT !.pc = "saveLines", !.rows = rws])
    BY <1>1, <2>2 DEF PayoutsAre
  <2>4. thread'[t].pc = "saveLines"
    BY <1>2, <1>3, <2>3 DEF Memory
  <2> QED BY <2>4 DEF UploadPC
<1>10. CASE SaveLines(t) \/ CloseBatch(t) \/ SavePaid(t) \/ SaveStatus(t) \/ SaveSettled(t)
  BY <1>5, <1>10 DEF SaveLines, CloseBatch, SavePaid, SaveStatus, SaveSettled, Finish
<1>11. CASE SaveMarked(t) \/ CheckPaid(t)
  BY <1>5, <1>8, <1>11 DEF SaveMarked, CheckPaid, Finish, UploadPC
<1>12. CASE Increment(t)
  <2>1. PICK rws : Become(t, [p EXCEPT !.pc = "checkPaid", !.rows = rws])
    BY <1>1, <1>12 DEF Increment
  <2>2. thread'[t].pc = "checkPaid"
    BY <1>2, <1>3, <2>1 DEF Memory
  <2> QED BY <2>2 DEF UploadPC
<1>13. CASE ReadLines(t)
  <2>1. PICK ids, status : Become(t, [p EXCEPT !.pc = "saveBatch", !.ids = ids, !.status = status])
    BY <1>1, <1>5, <1>13 DEF ReadLines
  <2>2. thread'[t].rows = p.rows
    BY <1>2, <1>3, <2>1 DEF Memory
  <2>3. p.pc = "readLines" /\ UNCHANGED <<alone, todo, payouts>>
    BY <1>1, <1>13 DEF ReadLines, Running, rows
  <2> QED BY <1>1, <2>2, <2>3 DEF UploadPC
<1>14. CASE Send(t)
  <2>1. thread'[t].rows = p.rows
    <3>1. CASE Become(t, [thread[t] EXCEPT !.pc = "closeBatch", !.status = "FAILED"])
      BY <1>1, <1>2, <1>3, <3>1 DEF Memory
    <3>2. ASSUME NEW pc, Become(t, [thread[t] EXCEPT !.sent = TRUE, !.pc = pc])
          PROVE  thread'[t].rows = p.rows
      BY <1>1, <1>2, <1>3, <3>2 DEF Memory
    <3> QED BY <1>14, <3>1, <3>2 DEF Send
  <2>2. p.pc = "send" /\ UNCHANGED <<alone, todo, payouts>>
    BY <1>1, <1>14 DEF Send, Running, rows
  <2> QED BY <1>1, <2>1, <2>2 DEF UploadPC
<1>15. CASE SaveSentLines(t)
  <2>1. Goto(t, "closeBatch") /\ p.pc = "saveSentLines" /\ UNCHANGED <<alone, todo, payouts>>
    BY <1>1, <1>15 DEF SaveSentLines, Running
  <2> QED BY <1>1, <1>8, <2>1 DEF UploadPC
<1>16. CASE SaveBatch(t)
  <2>1. Goto(t, "send") /\ p.pc = "saveBatch" /\ UNCHANGED <<alone, todo>>
    BY <1>1, <1>16 DEF SaveBatch, Running
  <2>2. payouts' = [x \in DOMAIN payouts |->
                     IF x \in p.rows THEN [payouts[x] EXCEPT !.batch = Len(batches')]
                                     ELSE payouts[x]]
    BY <1>1, <1>16 DEF SaveBatch
  <2>3. ASSUME NEW x \in DOMAIN payouts PROVE payouts'[x].status = payouts[x].status
    <3>1. PICK r : r = payouts[x]
      OBVIOUS
    <3>2. r \in PayoutRow
      BY <3>1 DEF RowsOK
    <3>3. payouts'[x] = r \/ payouts'[x] = [r EXCEPT !.batch = Len(batches')]
      BY <2>2, <3>1
    <3> QED BY <3>1, <3>2, <3>3 DEF PayoutRow
  <2> QED BY <1>1, <1>8, <2>1, <2>3 DEF UploadPC
<1> QED
  BY <1>9, <1>10, <1>11, <1>12, <1>13, <1>14, <1>15, <1>16 DEF PayoutStep

\* Nothing else starts while a call is alone, and it alone goes on.
LEMMA UploadsStep ==
  ASSUME "upload" \notin Overlapping, Working, Working', Uploads, Next
  PROVE  Uploads'
<1> USE DEF Working
<1>1. SUFFICES ASSUME NEW t \in Thread, thread'[t].pc \in UploadPC
               PROVE  /\ alone'
                      /\ \A u \in Thread \ {t} : thread'[u].pc = "idle"
                      /\ \A k \in Task : todo'[k] = 0
                      /\ \A r \in thread'[t].rows : payouts'[r].status = "SCHEDULED"
  BY DEF Uploads, Running
<1>2. \A u \in Thread : \A q : Become(u, q) =>
         \A v \in Thread : thread'[v] = IF v = u THEN q ELSE thread[v]
  BY DEF Become, ThreadsOK
<1>3. ASSUME thread[t].pc \in UploadPC
      PROVE  /\ alone /\ ~Quiet
             /\ \A u \in Thread \ {t} : thread[u].pc = "idle"
             /\ \A k \in Task : todo[k] = 0
             /\ \A r \in thread[t].rows : payouts[r].status = "SCHEDULED"
  <2>1. ~Quiet
    BY <1>3 DEF Quiet, Running, UploadPC
  <2> QED BY <1>3, <2>1 DEF Uploads, Running
<1>4. ASSUME thread[t].pc \in UploadPC, NEW call, MayStart(call) PROVE FALSE
  BY <1>3, <1>4 DEF MayStart
<1>5. CASE Request
  <2>1. UNCHANGED payouts /\ (Published \/ \E u \in Thread : Started(u))
    BY <1>5, RequestStarts
  <2>2. CASE Published
    <3>1. \E call : MayStart(call)
      BY <2>2 DEF Published, Fulfil, TestFulfilled, Announce, Fail, Patch
    <3> QED BY <1>1, <1>4, <2>2, <3>1 DEF Published
  <2>3. ASSUME NEW u \in Thread, Started(u)
        PROVE  /\ alone'
               /\ \A v \in Thread \ {t} : thread'[v].pc = "idle"
               /\ \A k \in Task : todo'[k] = 0
               /\ \A r \in thread'[t].rows : payouts'[r].status = "SCHEDULED"
    <3>1. PICK q \in Memory : Become(u, q) /\ Starts(q)
      BY <2>3 DEF Started
    <3>2. \E call : MayStart(call)
      BY <3>1 DEF Starts, RepairsForgotten
    <3>3. u = t /\ q = thread'[t]
      BY <1>1, <1>2, <1>4, <3>1, <3>2
    <3>4. MayStart("upload") /\ \A r \in q.rows : payouts[r].status = "SCHEDULED"
      BY <1>1, <3>1, <3>3 DEF Starts, RepairsForgotten, UploadPC
    <3>5. Quiet /\ alone' = TRUE
      BY <3>4 DEF MayStart
    <3>6. \A v \in Thread \ {t} : thread'[v].pc = "idle"
      BY <1>2, <3>1, <3>3, <3>5 DEF Quiet, Running
    <3>7. \A k \in Task : todo'[k] = 0
      BY <2>3, <3>5 DEF Started, Quiet
    <3> QED BY <2>1, <3>3, <3>4, <3>5, <3>6, <3>7
  <2> QED BY <2>1, <2>2, <2>3
<1>6. CASE Command
  <2>1. UNCHANGED alone
    BY <1>6 DEF Command
  <2>2. ASSUME NEW j \in Job, DismissCompensation(j) PROVE FALSE
    <3>1. UNCHANGED thread /\ Take("compensation", j)
      BY <2>2 DEF DismissCompensation
    <3>2. [name |-> "compensation", id |-> j] \in Task
      BY DEF Task
    <3>3. todo[[name |-> "compensation", id |-> j]] > 0
      BY <3>1 DEF Take
    <3> QED BY <1>1, <1>3, <3>1, <3>2, <3>3
  <2>3. ASSUME NEW u \in Thread, WalletStep(u) PROVE FALSE
    <3>1. PICK q \in Memory : Become(u, q) /\ WalletMove(thread[u], q)
      BY <2>3, StepMoves DEF Moves
    <3>2. thread[u].pc \notin UploadPC
      BY <2>3 DEF WalletStep, Income, Compensate, Hold, Release, CheckCompensation, FindWallet,
                  FindPending, CompareEntry, CompareRelease, Compare, WriteEntry, WriteRelease,
                  RegenIncome, RegenCompensation, Running, UploadPC
    <3>3. q.pc \notin UploadPC
      <4>1. thread[u] \in Memory
        BY DEF ThreadsOK
      <4>2. thread[u].next \in {"idle", "regenIncome", "regenCompensation"}
        BY <4>1 DEF Memory
      <4> QED BY <3>1, <4>2, IdleFields
           DEF WalletMove, Stops, ReadsIncome, ReadsCompensation, ReadsForgotten, FindsNone,
               BeginsHold, BeginsRelease, FindsWallet, FindsPending, Compares,
               TurnsToCompensations, Inserts, Updates, UploadPC
    <3>4. u # t /\ thread[t].pc \in UploadPC
      BY <1>1, <1>2, <3>1, <3>3
    <3>5. thread[u].pc = "idle" /\ \A k \in Task : todo[k] = 0
      BY <1>3, <3>4
    <3>6. \E k \in Task : todo[k] > 0
      <4>1. (\E j \in Job : Income(u, j) \/ Compensate(u, j))
            \/ \E x \in PayoutId : Hold(u, x) \/ Release(u, x)
        BY <2>3, <3>5 DEF WalletStep, CheckCompensation, FindWallet, FindPending, CompareEntry,
             CompareRelease, Compare, WriteEntry, WriteRelease, RegenIncome, RegenCompensation,
             Running
      <4>2. PICK k \in Task : Take(k.name, k.id)
        <5>1. ASSUME NEW j \in Job, NEW name \in {"income", "compensation"}, Take(name, j)
              PROVE  \E k \in Task : Take(k.name, k.id)
          <6>1. PICK k : k = [name |-> name, id |-> j]
            OBVIOUS
          <6>2. k \in Task /\ k.name = name /\ k.id = j
            BY <6>1 DEF Task
          <6> QED BY <5>1, <6>2
        <5>2. ASSUME NEW x \in PayoutId, NEW name \in {"hold", "release"}, Take(name, x)
              PROVE  \E k \in Task : Take(k.name, k.id)
          <6>1. PICK k : k = [name |-> name, id |-> x]
            OBVIOUS
          <6>2. k \in Task /\ k.name = name /\ k.id = x
            BY <6>1 DEF Task
          <6> QED BY <5>2, <6>2
        <5> QED BY <4>1, <5>1, <5>2 DEF Income, Compensate, Hold, Release
      <4>3. k = [name |-> k.name, id |-> k.id]
        BY DEF Task
      <4> QED BY <4>2, <4>3 DEF Take
    <3> QED BY <3>5, <3>6 DEF TodoOK
  <2> QED BY <1>6, <2>2, <2>3 DEF Command
<1>7. ASSUME NEW u \in Thread, PayoutStep(u)
      PROVE  /\ alone'
             /\ \A v \in Thread \ {t} : thread'[v].pc = "idle"
             /\ \A k \in Task : todo'[k] = 0
             /\ \A r \in thread'[t].rows : payouts'[r].status = "SCHEDULED"
  <2>1. PICK q \in Memory : Become(u, q) /\ PayoutMove(thread[u], q)
    BY <1>7, PayoutMoves
  <2>2. u = t
    <3>1. ASSUME u # t PROVE FALSE
      <4>1. thread[t].pc \in UploadPC
        BY <1>1, <1>2, <2>1, <3>1
      <4>2. thread[u].pc = "idle"
        BY <1>3, <3>1, <4>1
      <4> QED BY <2>1, <4>2 DEF PayoutMove, PayoutPC
    <3> QED BY <3>1
  <2>3. /\ thread[t].pc \in UploadPC /\ thread'[t].rows = thread[t].rows
        /\ UNCHANGED <<alone, todo>>
        /\ \A r \in DOMAIN payouts : payouts'[r].status = payouts[r].status
    BY <1>1, <1>7, <2>2, UploadGoesOn
  <2>4. thread[t].rows \subseteq DOMAIN payouts
    BY DEF ThreadsOK, ProcessOK
  <2>5. \A v \in Thread \ {t} : thread'[v] = thread[v]
    BY <1>2, <2>1, <2>2
  <2> QED BY <1>3, <2>3, <2>4, <2>5
<1>8. CASE Crash
  BY <1>1, <1>8, IdleFields DEF Crash, UploadPC
<1> QED BY <1>5, <1>6, <1>7, <1>8 DEF Next, Program

\* What the calls on payouts do to what is paid and to the releases that are due.
LEMMA PayoutStepPaid ==
  ASSUME Working, PaidFirst, NEW t \in Thread, PayoutStep(t)
  PROVE  /\ PaidStays
         /\ \A k \in ReleaseTask : todo'[k] > 0 =>
              todo[k] > 0 \/ (k.id \in DOMAIN payouts /\ payouts'[k.id].status = "PAID")
<1> USE DEF Working
<1>1. PICK p : p = thread[t]
  OBVIOUS
<1>2. p \in Memory /\ p.rows \subseteq DOMAIN payouts /\ PaidCall(p)
  BY <1>1 DEF ThreadsOK, ProcessOK, PaidFirst
<1> DEFINE Due == \A k \in ReleaseTask : todo'[k] > 0 =>
                    todo[k] > 0 \/ (k.id \in DOMAIN payouts /\ payouts'[k.id].status = "PAID")
<1>3. UNCHANGED todo => Due
  OBVIOUS
<1>4. ReleaseTask \subseteq Task
  BY DEF Task, ReleaseTask
<1>5. ASSUME NEW S \in SUBSET DOMAIN payouts, Publish(Tasks("release", S)),
             \A x \in S : payouts'[x].status = "PAID"
      PROVE  Due
  <2>1. \A k \in Task : k \in Tasks("release", S) \/ todo'[k] = todo[k]
    BY <1>5 DEF Publish
  <2>2. \A k \in Tasks("release", S) : k.id \in S
    BY DEF Tasks
  <2> QED BY <1>4, <1>5, <2>1, <2>2
<1>6. UNCHANGED payouts => PaidStays
  BY DEF PaidStays
<1>7. ASSUME NEW S \in SUBSET DOMAIN payouts, NEW status \in PayoutStatus,
             payouts' = SetStatus(S, status),
             status = "PAID" \/ \A r \in S : payouts[r].status # "PAID"
      PROVE  PaidStays /\ (status = "PAID" => \A x \in S : payouts'[x].status = "PAID")
  <2>1. payouts' = [x \in DOMAIN payouts |->
                      IF x \in S THEN [payouts[x] EXCEPT !.status = status] ELSE payouts[x]]
    BY <1>7 DEF SetStatus
  <2>2. ASSUME NEW x \in DOMAIN payouts
        PROVE  payouts'[x].status = IF x \in S THEN status ELSE payouts[x].status
    <3>1. PICK r : r = payouts[x]
      OBVIOUS
    <3>2. r \in PayoutRow
      BY <3>1 DEF RowsOK
    <3>3. payouts'[x] = IF x \in S THEN [r EXCEPT !.status = status] ELSE r
      BY <2>1, <3>1
    <3> QED BY <3>1, <3>2, <3>3 DEF PayoutRow
  <2> QED BY <1>7, <2>1, <2>2 DEF PaidStays
<1>8. CASE SavePayouts(t)
  <2>1. UNCHANGED todo
    BY <1>8 DEF SavePayouts
  <2>2. thread[t].ids \subseteq Credits
    BY <1>1, <1>8 DEF ThreadsOK, ProcessOK, SavePayouts, Running
  <2>3. PICK Row \in [Payees(t) -> DOMAIN payouts' \ DOMAIN payouts] : PayoutsAre(t, Row)
    BY <1>8, <2>2, PayoutsAppended
  <2>4. PaidStays
    BY <2>3 DEF PayoutsAre, PaidStays
  <2> QED BY <1>3, <2>1, <2>4
<1>9. CASE CloseBatch(t)
  <2>1. UNCHANGED todo /\ p.pc = "closeBatch"
    BY <1>1, <1>9 DEF CloseBatch, Running
  <2>2. \A r \in p.rows : payouts[r].status # "PAID"
    BY <1>1, <2>1 DEF PaidFirst, Uploads, UploadPC
  <2>3. UNCHANGED payouts \/ payouts' = SetStatus(p.rows, "IN_TRANSIT")
    BY <1>1, <1>9 DEF CloseBatch
  <2> QED BY <1>2, <1>3, <1>6, <1>7, <2>1, <2>2, <2>3 DEF PayoutStatus
<1>10. CASE SaveStatus(t)
  <2>1. /\ payouts' = SetStatus(p.rows, p.status) /\ Publish(Tasks("release", p.rows))
        /\ p.pc = "saveStatus"
    BY <1>1, <1>10 DEF SaveStatus, Running
  <2>2. p.status = "PAID"
    BY <1>2, <2>1 DEF PaidCall
  <2> QED BY <1>2, <1>5, <1>7, <2>1, <2>2 DEF PayoutStatus
<1>11. CASE SaveSettled(t)
  <2>1. payouts' = SetStatus(p.rows, "PAID") /\ Publish(Tasks("release", p.rows))
    BY <1>1, <1>11 DEF SaveSettled, PayoutPaid
  <2> QED BY <1>2, <1>5, <1>7, <2>1 DEF PayoutStatus
<1>12. CASE SavePaid(t)
  <2>1. PICK x \in p.rows : /\ payouts' = [payouts EXCEPT ![x].status = "PAID",
                                                          ![x].processed = payouts[x].amount]
                            /\ Publish(Tasks("release", {x}))
    BY <1>1, <1>12 DEF SavePaid, PayoutPaid
  <2>2. PICK r : r = payouts[x]
    OBVIOUS
  <2>3. r \in PayoutRow /\ x \in DOMAIN payouts
    BY <1>2, <2>1, <2>2 DEF RowsOK
  <2>4. PICK s : s = [r EXCEPT !.status = "PAID", !.processed = r.amount]
    OBVIOUS
  <2>5. payouts' = [payouts EXCEPT ![x] = s] /\ s.status = "PAID"
    BY <2>1, <2>2, <2>3, <2>4 DEF PayoutRow
  <2>6. PaidStays /\ payouts'[x].status = "PAID"
    BY <2>3, <2>5 DEF PaidStays
  <2> QED BY <1>5, <2>1, <2>3, <2>6
<1>13. CASE Increment(t)
  <2>1. PICK x : payouts' = [payouts EXCEPT ![x].processed = @ + Amount(lines, p.ids)]
    BY <1>1, <1>13 DEF Increment
  <2>2. PICK r, n : r = payouts[x] /\ n = payouts[x].processed + Amount(lines, p.ids)
    OBVIOUS
  <2>3. payouts' = [payouts EXCEPT ![x] = [r EXCEPT !.processed = n]]
    BY <2>1, <2>2
  <2>4. PICK s : s = [r EXCEPT !.processed = n]
    OBVIOUS
  <2>5. x \in DOMAIN payouts => s.status = payouts[x].status
    <3>1. x \in DOMAIN payouts => r \in PayoutRow
      BY <2>2 DEF RowsOK
    <3> QED BY <2>2, <2>4, <3>1 DEF PayoutRow
  <2>6. PaidStays
    BY <2>3, <2>4, <2>5 DEF PaidStays
  <2> QED BY <1>3, <1>13, <2>6 DEF Increment
<1>14. CASE SaveBatch(t)
  <2>1. payouts' = [x \in DOMAIN payouts |->
                     IF x \in p.rows THEN [payouts[x] EXCEPT !.batch = Len(batches')]
                                     ELSE payouts[x]]
    BY <1>1, <1>14 DEF SaveBatch
  <2>2. ASSUME NEW x \in DOMAIN payouts PROVE payouts'[x].status = payouts[x].status
    <3>1. PICK r : r = payouts[x]
      OBVIOUS
    <3>2. r \in PayoutRow
      BY <3>1 DEF RowsOK
    <3>3. payouts'[x] = r \/ payouts'[x] = [r EXCEPT !.batch = Len(batches')]
      BY <2>1, <3>1
    <3> QED BY <3>1, <3>2, <3>3 DEF PayoutRow
  <2>3. PaidStays
    BY <2>1, <2>2 DEF PaidStays
  <2> QED BY <1>3, <1>14, <2>3 DEF SaveBatch
<1>15. CASE SaveLines(t)
  <2>1. UNCHANGED payouts
    BY <1>15 DEF SaveLines
  <2>2. UNCHANGED todo \/ Publish(Tasks("hold", p.rows))
    BY <1>1, <1>15 DEF SaveLines, PayoutScheduled
  <2>3. \A k \in ReleaseTask : k \notin Tasks("hold", p.rows)
    BY DEF ReleaseTask, Tasks
  <2>4. Publish(Tasks("hold", p.rows)) => Due
    BY <1>4, <2>3 DEF Publish
  <2> QED BY <1>3, <1>6, <2>1, <2>2, <2>4
<1>16. CASE ReadLines(t) \/ Send(t) \/ CheckPaid(t)
  BY <1>3, <1>6, <1>16 DEF ReadLines, Send, CheckPaid, rows
<1>17. CASE SaveSentLines(t) \/ SaveMarked(t)
  BY <1>3, <1>6, <1>17 DEF SaveSentLines, SaveMarked
<1> QED
  BY <1>8, <1>9, <1>10, <1>11, <1>12, <1>13, <1>14, <1>15, <1>16, <1>17 DEF PayoutStep

\* What the calls on payouts do to transactions.
LEMMA PayoutStepPayments ==
  ASSUME Working, NEW t \in Thread, PayoutStep(t)
  PROVE  /\ DOMAIN transactions' = DOMAIN transactions
         /\ \A i \in DOMAIN transactions :
              /\ transactions'[i].type = transactions[i].type
              /\ transactions'[i].owner = transactions[i].owner
              /\ transactions'[i].job = transactions[i].job
              /\ transactions'[i].amount = transactions[i].amount
              /\ transactions'[i].status = transactions[i].status
              /\ transactions[i].type = "PAYOUT" =>
                   transactions'[i].payout = transactions[i].payout
<1> USE DEF Working
<1>1. CASE ~SavePayouts(t)
  <2>1. UNCHANGED transactions
    BY <1>1, DebtsStay DEF SameDebts
  <2> QED BY <2>1
<1>2. CASE SavePayouts(t)
  <2>1. PICK p : p = thread[t]
    OBVIOUS
  <2>2. p.ids \subseteq Credits
    BY <1>2, <2>1 DEF ThreadsOK, ProcessOK, SavePayouts, Running
  <2>3. PICK Row \in [Payees(t) -> DOMAIN payouts' \ DOMAIN payouts] : PayoutsAre(t, Row)
    BY <1>2, <2>1, <2>2, PayoutsAppended
  <2>4. transactions' = [i \in DOMAIN transactions |->
                          IF i \in p.ids /\ transactions[i].owner \in Payable
                          THEN [transactions[i] EXCEPT !.payout = Row[transactions[i].owner]]
                          ELSE transactions[i]]
    BY <2>1, <2>3, Zenon DEF PayoutsAre
  <2>5. ASSUME NEW i \in DOMAIN transactions
        PROVE  /\ transactions'[i].type = transactions[i].type
               /\ transactions'[i].owner = transactions[i].owner
               /\ transactions'[i].job = transactions[i].job
               /\ transactions'[i].amount = transactions[i].amount
               /\ transactions'[i].status = transactions[i].status
               /\ transactions[i].type = "PAYOUT" =>
                    transactions'[i].payout = transactions[i].payout
    <3>1. PICK r, n : r = transactions[i] /\ n = Row[transactions[i].owner]
      OBVIOUS
    <3>2. r \in Transaction
      BY <3>1 DEF RowsOK
    <3>3. transactions'[i] = [r EXCEPT !.payout = n] \/ transactions'[i] = r
      BY <2>4, <3>1
    <3>4. r.type = "PAYOUT" => transactions'[i] = r
      BY <2>2, <2>4, <3>1 DEF Credits, CreditType
    <3> QED BY <3>1, <3>2, <3>3, <3>4 DEF Transaction
  <2> QED BY <2>4, <2>5
<1> QED BY <1>1, <1>2

\* What a call knows of payouts that were paid stays true.
LEMMA KeptCall ==
  ASSUME PaidStays, PaymentsStay, NEW p \in Memory, ProcessOK(p), PaidCall(p)
  PROVE  PaidCall(p)'
<1>1. ASSUME p.pc \in ReleasePC
      PROVE  p.entry.type = "PAYOUT" /\ p.entry.payout \in DOMAIN payouts
             /\ IsPaid(p.entry.payout) /\ IsPaid(p.entry.payout)'
  <2>1. EntryOK(p.entry)
    BY <1>1 DEF ProcessOK, ReleasePC, WithTransaction
  <2>2. p.entry.type = "PAYOUT" /\ IsPaid(p.entry.payout)
    BY <1>1 DEF PaidCall
  <2>3. p.entry.payout \in DOMAIN payouts
    BY <2>1, <2>2 DEF EntryOK
  <2> QED BY <2>2, <2>3 DEF PaidStays, IsPaid
<1>2. \A x : OfPayout(x) \subseteq OfPayout(x)'
  BY DEF OfPayout, Of, PaymentsStay
<1> QED BY <1>1, <1>2 DEF PaidCall

\* One thread moves on to q.
LEMMA OnePaidCall ==
  ASSUME Working, PaidStays, PaymentsStay, PaidFirst,
         NEW t \in Thread, NEW q \in Memory, Become(t, q), PaidCall(q)'
  PROVE  \A u \in Thread : PaidCall(thread[u])'
<1>1. thread \in [Thread -> Memory] /\ \A u \in Thread : ProcessOK(thread[u])
  BY DEF Working, ThreadsOK
<1>2. \A u \in Thread : thread'[u] = IF u = t THEN q ELSE thread[u]
  BY <1>1 DEF Become
<1> SUFFICES ASSUME NEW u \in Thread PROVE PaidCall(thread[u])'
  OBVIOUS
<1>3. PICK p : p = thread'[u]
  OBVIOUS
<1>4. CASE p = q
  BY <1>3, <1>4 DEF PaidCall, IsPaid, OfPayout, Of
<1>5. CASE p = thread[u]
  <2>1. p \in Memory /\ ProcessOK(p) /\ PaidCall(p)
    BY <1>1, <1>5 DEF PaidFirst
  <2>2. PaidCall(p)'
    BY <2>1, KeptCall
  <2> QED BY <1>3, <2>2 DEF PaidCall, IsPaid, OfPayout, Of
<1> QED BY <1>2, <1>3, <1>4, <1>5

\* No thread moves on.
LEMMA SamePaidCalls ==
  ASSUME Working, PaidStays, PaymentsStay, PaidFirst, UNCHANGED thread
  PROVE  \A u \in Thread : PaidCall(thread[u])'
<1> SUFFICES ASSUME NEW u \in Thread PROVE PaidCall(thread[u])'
  OBVIOUS
<1>1. PICK p : p = thread[u] /\ p = thread'[u]
  OBVIOUS
<1>2. p \in Memory /\ ProcessOK(p) /\ PaidCall(p)
  BY <1>1 DEF Working, ThreadsOK, PaidFirst
<1>3. PaidCall(p)'
  BY <1>2, KeptCall
<1> QED BY <1>1, <1>3 DEF PaidCall, IsPaid, OfPayout, Of

\* A transaction that is released was before, or its payout is paid.
LEMMA ReleasedStaysPaid ==
  ASSUME RowsOK, ReleasedIsPaid, PaidStays,
         \A i \in DOMAIN transactions' :
           transactions'[i].type = "PAYOUT" /\ transactions'[i].status = "SUCCESS" =>
             \/ /\ i \in DOMAIN transactions /\ transactions[i].type = "PAYOUT"
                /\ transactions[i].status = "SUCCESS"
                /\ transactions'[i].payout = transactions[i].payout
             \/ payouts'[transactions'[i].payout].status = "PAID"
  PROVE  ReleasedIsPaid'
<1>1. ASSUME NEW x \in DOMAIN payouts', NEW i \in OfPayout(x)',
             transactions'[i].status = "SUCCESS"
      PROVE  payouts'[x].status = "PAID"
  <2>1. i \in DOMAIN transactions' /\ transactions'[i].type = "PAYOUT"
        /\ transactions'[i].payout = x
    BY DEF OfPayout, Of
  <2>2. CASE /\ i \in DOMAIN transactions /\ transactions[i].type = "PAYOUT"
             /\ transactions[i].status = "SUCCESS"
             /\ transactions'[i].payout = transactions[i].payout
    <3>1. EntryOK(transactions[i]) /\ i \in OfPayout(x)
      BY <2>1, <2>2 DEF RowsOK, OfPayout, Of
    <3>2. x \in DOMAIN payouts
      BY <2>1, <2>2, <3>1 DEF EntryOK
    <3>3. payouts[x].status = "PAID"
      BY <2>2, <3>1, <3>2 DEF ReleasedIsPaid, IsReleased
    <3> QED BY <3>2, <3>3 DEF PaidStays
  <2> QED BY <1>1, <2>1, <2>2
<1> QED BY <1>1 DEF ReleasedIsPaid, IsReleased

\* The handlers of a wallet release only what a task asks for, and tasks are taken.
LEMMA MovesPaid ==
  ASSUME Working, Working', PaidFirst, NEW t \in Thread, Moves(t)
  PROVE  /\ ReleasedIsPaid'
         /\ \A k \in ReleaseTask : todo'[k] > 0 => payouts'[k.id].status = "PAID"
         /\ \A u \in Thread : PaidCall(thread[u])'
<1> USE DEF Working
<1>1. PICK p : p = thread[t]
  OBVIOUS
<1>2. p \in Memory /\ ProcessOK(p) /\ PaidCall(p)
  BY <1>1 DEF ThreadsOK, PaidFirst
<1>3. PICK q \in Memory : Become(t, q) /\ WalletMove(p, q)
  BY <1>1 DEF Moves
<1>4. UNCHANGED payouts /\ PaidStays
  BY DEF Moves, PaidStays
<1>5. \A name, id : Take(name, id) => \A k \in Task : todo'[k] <= todo[k]
  BY DEF Take, TodoOK
<1>6. ReleaseTask \subseteq Task /\ todo \in [Task -> Nat] /\ todo' \in [Task -> Nat]
  BY DEF Task, ReleaseTask, TodoOK
<1> DEFINE Goal == /\ ReleasedIsPaid'
                   /\ \A k \in ReleaseTask : todo'[k] > 0 => payouts'[k.id].status = "PAID"
                   /\ \A u \in Thread : PaidCall(thread[u])'
<1>7. ASSUME \A k \in Task : todo'[k] <= todo[k], PaymentsStay, ReleasedIsPaid', PaidCall(q)'
      PROVE  Goal
  <2>1. \A u \in Thread : PaidCall(thread[u])'
    <3> HIDE DEF Working
    <3> QED BY <1>3, <1>4, <1>7, OnePaidCall
  <2>2. \A k \in ReleaseTask : todo'[k] > 0 => todo[k] > 0
    BY <1>6, <1>7
  <2>3. \A k \in ReleaseTask : todo'[k] > 0 => payouts'[k.id].status = "PAID"
    BY <1>4, <2>2 DEF PaidFirst, IsPaid
  <2> QED BY <1>7, <2>1, <2>3
<1>8. ASSUME UNCHANGED transactions PROVE PaymentsStay /\ ReleasedIsPaid'
  <2>1. PaymentsStay
    BY <1>8 DEF PaymentsStay
  <2>2. ReleasedIsPaid'
    BY <1>4, <1>8 DEF PaidFirst, ReleasedIsPaid, IsReleased, OfPayout, Of
  <2> QED BY <2>1, <2>2
<1>9. UNCHANGED todo => \A k \in Task : todo'[k] <= todo[k]
  BY <1>6
<1>10. ASSUME q.pc \notin ReleasePC, q.pc \notin InsertPC, q.pc # "saveStatus"
       PROVE PaidCall(q)'
  BY <1>10 DEF PaidCall
<1>11. Idle.pc \notin ReleasePC /\ Idle.pc \notin InsertPC /\ Idle.pc # "saveStatus"
  BY IdleFields DEF ReleasePC, InsertPC
<1> SUFFICES Goal
  OBVIOUS
<1> HIDE DEF Goal
<1>12. CASE Stops(q)
  BY <1>5, <1>7, <1>8, <1>9, <1>10, <1>11, <1>12 DEF Stops
<1>13. CASE ReadsIncome(p, q) \/ ReadsCompensation(p, q) \/ ReadsForgotten(p, q)
  <2>1. q.pc \in {"compareEntry", "checkCompensation"} /\ UNCHANGED transactions
    BY <1>13 DEF ReadsIncome, ReadsCompensation, ReadsForgotten
  <2>2. \A k \in Task : todo'[k] <= todo[k]
    BY <1>5, <1>9, <1>13 DEF ReadsIncome, ReadsCompensation, ReadsForgotten
  <2>3. p.incomes \subseteq Job /\ p.compensations \subseteq Job
    BY <1>2 DEF Memory, Impacted
  <2>4. \E type \in CreditType, j \in Job : q.entry = CreditEntry(type, j)
    BY <1>13, <2>3 DEF ReadsIncome, ReadsCompensation, ReadsForgotten, CreditType, Impacted
  <2>5. q.entry.type # "PAYOUT"
    BY <2>4, EntriesBacked DEF CreditType
  <2>6. PaidCall(q)'
    BY <2>1, <2>5 DEF PaidCall, ReleasePC
  <2> QED BY <1>7, <1>8, <2>1, <2>2, <2>6
<1>14. CASE FindsNone(p, q) \/ FindsWallet(p, q)
  <2>1. q.pc = "compareEntry" /\ UNCHANGED <<transactions, todo>> /\ p.pc \in InsertPC
        /\ q.entry = p.entry
    BY <1>14 DEF FindsNone, FindsWallet, InsertPC
  <2>2. PaidCall(q)'
    BY <1>2, <2>1 DEF PaidCall, ReleasePC
  <2> QED BY <1>7, <1>8, <1>9, <2>1, <2>2
<1>15. CASE BeginsHold(p, q)
  <2>1. PICK x \in DOMAIN payouts : Take("hold", x) /\ q.entry = PayoutEntry(x)
    BY <1>15 DEF BeginsHold
  <2>2. q.entry.status = "PENDING"
    BY <2>1 DEF PayoutEntry
  <2>3. PaidCall(q)'
    BY <1>15, <2>2 DEF BeginsHold, PaidCall, ReleasePC
  <2>4. UNCHANGED transactions
    BY <1>15 DEF BeginsHold
  <2> QED BY <1>5, <1>7, <1>8, <2>1, <2>3, <2>4
<1>16. CASE BeginsRelease(p, q)
  <2>1. PICK x \in DOMAIN payouts : Take("release", x) /\ q.entry = PayoutEntry(x)
    BY <1>16 DEF BeginsRelease
  <2>2. PICK k : k = [name |-> "release", id |-> x]
    OBVIOUS
  <2>3. k \in ReleaseTask /\ k.id = x
    <3>1. DOMAIN payouts = 1..Len(payouts) /\ Len(payouts) \in Nat /\ Len(payouts) <= MaxPayouts
      BY DEF RowsOK
    <3>2. x \in PayoutId
      BY <3>1, WalletAssumption DEF PayoutId
    <3> QED BY <2>2, <3>2 DEF ReleaseTask
  <2>4. todo[k] > 0
    BY <2>1, <2>2 DEF Take
  <2>5. IsPaid(x)
    BY <2>3, <2>4 DEF PaidFirst
  <2>6. q.entry.type = "PAYOUT" /\ q.entry.payout = x
    BY <2>1 DEF PayoutEntry
  <2>7. PaidCall(q)'
    BY <1>4, <1>16, <2>5, <2>6 DEF BeginsRelease, PaidCall, InsertPC, IsPaid
  <2>8. UNCHANGED transactions
    BY <1>16 DEF BeginsRelease
  <2> QED BY <1>5, <1>7, <1>8, <2>1, <2>7, <2>8
<1>17. CASE FindsPending(p, q) \/ (Compares(p, q) /\ p.pc = "compareRelease")
  <2>1. /\ q.pc \in {"compareRelease", "writeRelease"} /\ UNCHANGED <<transactions, todo>>
        /\ p.pc \in ReleasePC /\ q.entry = p.entry
    BY <1>17 DEF FindsPending, Compares, ReleasePC
  <2>2. q.trx \in OfPayout(p.entry.payout)
    BY <1>2, <1>17 DEF FindsPending, Compares, PaidCall, ReleasePC
  <2>3. q.trx \in OfPayout(q.entry.payout)'
    BY <2>1, <2>2 DEF OfPayout, Of
  <2>4. PaidCall(q)'
    BY <1>2, <1>4, <2>1, <2>3 DEF PaidCall, InsertPC, IsPaid
  <2> QED BY <1>7, <1>8, <1>9, <2>1, <2>4
<1>18. CASE Compares(p, q) /\ p.pc = "compareEntry"
  <2>1. q.pc = "writeEntry" /\ UNCHANGED <<transactions, todo>> /\ p.pc \in InsertPC
        /\ q.entry = p.entry
    BY <1>18 DEF Compares, InsertPC
  <2>2. PaidCall(q)'
    BY <1>2, <2>1 DEF PaidCall, ReleasePC
  <2> QED BY <1>7, <1>8, <1>9, <2>1, <2>2
<1>19. CASE TurnsToCompensations(p, q)
  <2>1. q.pc = "regenCompensation" /\ UNCHANGED <<transactions, todo>>
    BY <1>19 DEF TurnsToCompensations
  <2>2. PaidCall(q)'
    BY <2>1 DEF PaidCall, ReleasePC, InsertPC
  <2> QED BY <1>7, <1>8, <1>9, <2>1, <2>2
<1>20. CASE Inserts(p, q)
  <2>1. transactions' = Append(transactions, p.entry) /\ p.pc = "writeEntry" /\ q.pc = p.next
        /\ UNCHANGED todo
    BY <1>20 DEF Inserts
  <2>2. EntryOK(p.entry) /\ p.entry \in Transaction
    BY <1>2, <2>1 DEF ProcessOK, EntryOK, WithTransaction
  <2>3. q.pc \notin ReleasePC /\ q.pc \notin InsertPC /\ q.pc # "saveStatus"
    BY <1>2, <2>1 DEF Memory, ReleasePC, InsertPC
  <2>4. /\ DOMAIN transactions' = DOMAIN transactions \cup {Len(transactions) + 1}
        /\ transactions'[Len(transactions) + 1] = p.entry
        /\ \A i \in DOMAIN transactions : transactions'[i] = transactions[i]
    BY <1>4, <2>1, <2>2, InsertContinues
  <2>5. PaymentsStay
    BY <2>4 DEF PaymentsStay
  <2>6. p.entry.type = "PAYOUT" => p.entry.status # "SUCCESS"
    BY <1>2, <2>1 DEF PaidCall, InsertPC
  <2>7. \A i \in DOMAIN transactions' :
           transactions'[i].type = "PAYOUT" /\ transactions'[i].status = "SUCCESS" =>
             /\ i \in DOMAIN transactions /\ transactions[i].type = "PAYOUT"
             /\ transactions[i].status = "SUCCESS"
             /\ transactions'[i].payout = transactions[i].payout
    BY <2>4, <2>6
  <2>8. ReleasedIsPaid'
    BY <1>4, <2>7, ReleasedStaysPaid DEF PaidFirst
  <2> QED BY <1>7, <1>9, <1>10, <2>1, <2>3, <2>5, <2>8
<1>21. CASE Updates(p, q)
  <2>1. transactions' = [transactions EXCEPT ![p.trx].status = "SUCCESS"] /\ q = Idle
        /\ p.pc = "writeRelease" /\ UNCHANGED todo
    BY <1>21 DEF Updates
  <2>2. /\ Continues /\ DOMAIN transactions' = DOMAIN transactions
        /\ \A i \in DOMAIN transactions :
             transactions'[i].status = IF i = p.trx THEN "SUCCESS" ELSE transactions[i].status
    BY <1>4, <2>1, UpdateContinues
  <2>3. PaymentsStay
    BY <2>2 DEF PaymentsStay, Continues
  <2>4. p.trx \in OfPayout(p.entry.payout) /\ IsPaid(p.entry.payout)
    BY <1>2, <2>1 DEF PaidCall, ReleasePC
  <2>5. transactions[p.trx].payout = p.entry.payout /\ p.trx \in DOMAIN transactions
    BY <2>4 DEF OfPayout, Of
  <2>6. payouts'[transactions'[p.trx].payout].status = "PAID"
    BY <1>4, <2>2, <2>4, <2>5 DEF Continues, IsPaid
  <2>7. \A i \in DOMAIN transactions' :
          transactions'[i].type = "PAYOUT" /\ transactions'[i].status = "SUCCESS" =>
             \/ /\ i \in DOMAIN transactions /\ transactions[i].type = "PAYOUT"
                /\ transactions[i].status = "SUCCESS"
                /\ transactions'[i].payout = transactions[i].payout
             \/ payouts'[transactions'[i].payout].status = "PAID"
    BY <2>2, <2>6 DEF Continues
  <2>8. ReleasedIsPaid'
    BY <1>4, <2>7, ReleasedStaysPaid DEF PaidFirst
  <2> QED BY <1>7, <1>9, <1>10, <1>11, <2>1, <2>3, <2>8
<1>22. Compares(p, q) => p.pc = "compareRelease" \/ p.pc = "compareEntry"
  BY DEF Compares
<1> QED
  BY <1>3, <1>12, <1>13, <1>14, <1>15, <1>16, <1>17, <1>18, <1>19, <1>20, <1>21, <1>22
     DEF WalletMove

\* Where the bank's answer is the only one that an administrator gives (PAID), and no
\* upload overlaps other calls, nothing is released before it is paid.
LEMMA PaidInvariant ==
  "upload" \notin Overlapping /\ NewStatus \subseteq {"PAID"} => (Spec => []PaidFirst)
<1>1. Init => PaidFirst
  <2> SUFFICES ASSUME Init PROVE PaidFirst
    OBVIOUS
  <2>1. \A t \in Thread : thread[t] = Idle
    BY DEF Init
  <2>2. Idle.pc \notin ReleasePC \cup InsertPC \cup UploadPC /\ Idle.pc # "saveStatus"
    BY IdleFields DEF ReleasePC, InsertPC, UploadPC
  <2>3. \A t \in Thread : PaidCall(thread[t])
    BY <2>1, <2>2 DEF PaidCall
  <2>4. Uploads
    BY <2>1, <2>2 DEF Uploads
  <2>5. ReleasedIsPaid /\ \A k \in ReleaseTask : ~(todo[k] > 0)
    BY DEF Init, ReleasedIsPaid, ReleaseTask, Task
  <2> QED BY <2>3, <2>4, <2>5 DEF PaidFirst
<1>2. ASSUME "upload" \notin Overlapping /\ NewStatus \subseteq {"PAID"},
             Typed, Typed', PaidFirst, [Next]_vars
      PROVE  PaidFirst'
  <2>1. Working /\ Working'
    BY <1>2 DEF Typed, Working
  <2>2. Uploads'
    <3>1. CASE Next
      BY <1>2, <2>1, <3>1, UploadsStep DEF PaidFirst
    <3>2. CASE UNCHANGED vars
      BY <1>2, <3>2 DEF PaidFirst, Uploads, Running, vars, rows
    <3> QED BY <1>2, <3>1, <3>2
  <2> DEFINE Due   == \A k \in ReleaseTask : todo'[k] > 0 => payouts'[k.id].status = "PAID"
             Told  == \A u \in Thread : PaidCall(thread[u])'
             Rest  == ReleasedIsPaid' /\ Due /\ Told
  <2>3. Rest => PaidFirst'
    BY <2>2 DEF PaidFirst, IsPaid
  <2>4. ASSUME UNCHANGED <<transactions, payouts>> PROVE PaidStays /\ PaymentsStay /\ ReleasedIsPaid'
    <3>1. PaidStays /\ PaymentsStay
      BY <2>4 DEF PaidStays, PaymentsStay
    <3>2. ReleasedIsPaid'
      BY <1>2, <2>4 DEF PaidFirst, ReleasedIsPaid, IsReleased, OfPayout, Of
    <3> QED BY <3>1, <3>2
  <2>5. ASSUME UNCHANGED payouts, \A k \in ReleaseTask : todo'[k] > 0 => todo[k] > 0
        PROVE  Due
    BY <1>2, <2>5 DEF PaidFirst, IsPaid
  <2>6. UNCHANGED todo => \A k \in ReleaseTask : todo'[k] > 0 => todo[k] > 0
    OBVIOUS
  <2>7. todo \in [Task -> Nat] /\ ReleaseTask \subseteq Task
    BY <2>1 DEF Working, TodoOK, Task, ReleaseTask
  <2>8. CASE Request
    <3>1. UNCHANGED <<transactions, payouts>>
      BY <2>1, <2>8, RequestStarts
    <3>2. CASE Published
      <4>1. ASSUME NEW S, Publish(S), S \cap ReleaseTask = {}
            PROVE  \A k \in ReleaseTask : todo'[k] > 0 => todo[k] > 0
        BY <2>7, <4>1 DEF Publish
      <4>2. \A name, S : name # "release" => Tasks(name, S) \cap ReleaseTask = {}
        BY DEF Tasks, ReleaseTask
      <4>3. \A k \in ReleaseTask : todo'[k] > 0 => todo[k] > 0
        <5>1. ASSUME NEW j \in Job, Fulfil(j) \/ TestFulfilled(j)
              PROVE \E S : Publish(S) /\ S \cap ReleaseTask = {}
          BY <4>2, <5>1 DEF Fulfil, TestFulfilled, Announce, ServiceRequestFulfilled
        <5>2. ASSUME NEW j \in Job, Fail(j) PROVE \E S : Publish(S) /\ S \cap ReleaseTask = {}
          BY <4>2, <5>2 DEF Fail, ServiceRequestRevoked
        <5>3. ASSUME NEW x \in DOMAIN payouts, Patch(x)
              PROVE \E S : Publish(S) /\ S \cap ReleaseTask = {}
          BY <4>2, <5>3 DEF Patch
        <5> QED BY <3>2, <4>1, <5>1, <5>2, <5>3 DEF Published
      <4>4. Told
        BY <1>2, <2>1, <2>4, <3>1, <3>2, SamePaidCalls DEF Published
      <4> QED BY <2>3, <2>4, <2>5, <3>1, <4>3, <4>4
    <3>3. ASSUME NEW t \in Thread, Started(t) PROVE Rest
      <4>1. PICK q \in Memory : Become(t, q) /\ Starts(q)
        BY <3>3 DEF Started
      <4>2. q.pc \notin ReleasePC /\ q.pc \notin InsertPC
        BY <4>1 DEF Starts, RepairsForgotten, ReleasePC, InsertPC
      <4>3. q.pc = "saveStatus" => q.status = "PAID"
        BY <1>2, <4>1 DEF Starts, RepairsForgotten
      <4>4. PaidCall(q)'
        BY <4>2, <4>3 DEF PaidCall
      <4>5. Told
        BY <1>2, <2>1, <2>4, <3>1, <4>1, <4>4, OnePaidCall
      <4> QED BY <2>4, <2>5, <2>6, <3>1, <3>3, <4>5 DEF Started
    <3> QED BY <2>1, <2>3, <2>8, <3>2, <3>3, RequestStarts
  <2>9. CASE Command
    <3>1. ASSUME NEW t \in Thread, WalletStep(t) PROVE Rest
      <4>1. Moves(t)
        BY <2>1, <3>1, StepMoves
      <4> QED BY <1>2, <2>1, <4>1, MovesPaid
    <3>2. ASSUME NEW j \in Job, DismissCompensation(j) PROVE Rest
      <4>1. UNCHANGED <<transactions, payouts>> /\ UNCHANGED thread
        BY <3>2 DEF DismissCompensation
      <4>2. \A k \in ReleaseTask : todo'[k] > 0 => todo[k] > 0
        BY <2>7, <3>2 DEF DismissCompensation, Take, ReleaseTask
      <4>3. Told
        BY <1>2, <2>1, <2>4, <4>1, SamePaidCalls
      <4> QED BY <2>4, <2>5, <4>1, <4>2, <4>3
    <3> QED BY <2>3, <2>9, <3>1, <3>2 DEF Command
  <2>10. ASSUME NEW t \in Thread, PayoutStep(t) PROVE Rest
    <3>1. PaidStays
      BY <1>2, <2>1, <2>10, PayoutStepPaid
    <3>2. \A k \in ReleaseTask : todo'[k] > 0 =>
              todo[k] > 0 \/ (k.id \in DOMAIN payouts /\ payouts'[k.id].status = "PAID")
      BY <1>2, <2>1, <2>10, PayoutStepPaid
    <3>3. Due
      <4>1. ASSUME NEW k \in ReleaseTask, todo[k] > 0 PROVE payouts'[k.id].status = "PAID"
        <5>1. k.id \in DOMAIN payouts
          BY <2>1, <4>1 DEF Working, TodoOK, ReleaseTask
        <5> QED BY <1>2, <3>1, <4>1, <5>1 DEF PaidFirst, IsPaid, PaidStays
      <4> QED BY <3>2, <4>1
    <3>4. /\ DOMAIN transactions' = DOMAIN transactions
          /\ \A i \in DOMAIN transactions :
               /\ transactions'[i].type = transactions[i].type
               /\ transactions'[i].status = transactions[i].status
               /\ transactions[i].type = "PAYOUT" =>
                    transactions'[i].payout = transactions[i].payout
      BY <2>1, <2>10, PayoutStepPayments
    <3>5. PaymentsStay
      BY <3>4 DEF PaymentsStay
    <3>6. ReleasedIsPaid'
      BY <1>2, <2>1, <3>1, <3>4, ReleasedStaysPaid DEF Working, PaidFirst
    <3>7. PICK q \in Memory : Become(t, q) /\ PayoutMove(thread[t], q)
      BY <2>1, <2>10, PayoutMoves
    <3>8. q.pc \notin ReleasePC /\ q.pc \notin InsertPC /\ q.pc # "saveStatus"
      BY <3>7, IdleFields DEF PayoutMove, PayoutPC, ReleasePC, InsertPC
    <3>9. PaidCall(q)'
      BY <3>8 DEF PaidCall
    <3>10. Told
      BY <1>2, <2>1, <3>1, <3>5, <3>7, <3>9, OnePaidCall
    <3> QED BY <3>3, <3>6, <3>10
  <2>11. CASE Crash
    <3>1. UNCHANGED <<transactions, payouts>> /\ thread' = [t \in Thread |-> Idle]
          /\ todo' = [k \in Task |-> 0]
      BY <2>11 DEF Crash, rows
    <3>2. \A t \in Thread : thread'[t].pc = "idle"
      BY <3>1, IdleFields
    <3>3. Told
      BY <3>2 DEF PaidCall, ReleasePC, InsertPC
    <3>4. Due
      BY <2>7, <3>1
    <3> QED BY <2>3, <2>4, <3>1, <3>3, <3>4
  <2>12. CASE UNCHANGED vars
    <3>1. UNCHANGED <<transactions, payouts, thread, todo>>
      BY <2>12 DEF vars, rows
    <3>2. Told
      BY <1>2, <2>1, <2>4, <3>1, SamePaidCalls
    <3> QED BY <2>3, <2>4, <2>5, <2>6, <3>1, <3>2
  <2> QED BY <1>2, <2>3, <2>8, <2>9, <2>10, <2>11, <2>12 DEF Next, Program
<1>3. ASSUME "upload" \notin Overlapping /\ NewStatus \subseteq {"PAID"}
      PROVE  Typed /\ Typed' /\ PaidFirst /\ [Next]_vars => PaidFirst'
  BY <1>2, <1>3
<1>4. ASSUME "upload" \notin Overlapping /\ NewStatus \subseteq {"PAID"}
      PROVE  Spec => []PaidFirst
  BY <1>1, <1>3, <1>4, Typing, PTL DEF Spec
<1> QED BY <1>4

\* A held balance is released only of a payout that is paid, where an administrator
\* sets payouts to PAID only and no upload overlaps other calls: UpdatePayoutHandler
\* releases whatever the new status is, and an upload marks the payouts that it read
\* as IN_TRANSIT minutes later.
THEOREM ReleasedWasPaid ==
  "upload" \notin Overlapping /\ NewStatus \subseteq {"PAID"} => (Spec => []ReleasedIsPaid)
<1>1. PaidFirst => ReleasedIsPaid
  BY DEF PaidFirst
<1> QED BY <1>1, PaidInvariant, PTL

------------------------------------------------------------------------------
(* The wallets implement the ledger *)

InsertsPC == {"compareEntry", "writeEntry"}

\* No two calls in progress are at work on the wallet of one owner.
OneCallPerOwner ==
  \A t, u \in Thread :
    t # u /\ thread[t].pc \in WithTransaction /\ thread[u].pc \in WithTransaction
      => thread[t].entry.owner # thread[u].entry.owner

IsCredited(type, j) ==
  \E i \in DOMAIN transactions : transactions[i].type = type /\ transactions[i].job = j

\* A payout's transaction, saved or to be saved, is of its owner and of its amount.
MatchesPayout(e) ==
  e.type = "PAYOUT" => /\ e.amount = -payouts[e.payout].amount
                       /\ e.owner = payouts[e.payout].owner

\* There is one such transaction at most, and a credit is of whom it is due to.
PaymentsMatch ==
  /\ \A i \in DOMAIN transactions : MatchesPayout(transactions[i])
  /\ \A i, k \in Of("PAYOUT") : transactions[i].payout = transactions[k].payout => i = k
  /\ \A i \in Credits : transactions[i].owner = CreditedTo(transactions[i].type,
                                                         transactions[i].job)

\* What is credited: what is due, on top of what the wallet still is.
CreditCall(p) ==
  p.entry.type \in CreditType /\ p.pc \in InsertsPC \cup {"checkCompensation"} =>
    /\ p.entry = CreditEntry(p.entry.type, p.entry.job)
    /\ p.wallet = Debited(WalletOf(p), p.entry.amount)
    /\ p.pc \in InsertsPC /\ p.entry.type # "INCOME" => ~IsCredited(p.entry.type, p.entry.job)
    /\ p.entry.type = "INCOME" => p.entry.job \notin p.incomes
    /\ p.entry.type # "INCOME" => p.entry.job \notin p.compensations

\* What is held and released.
PaymentCall(p) ==
  /\ p.pc \in WithTransaction => MatchesPayout(p.entry)
  /\ p.pc = "checkCompensation" => p.entry.type \in CreditType
  /\ p.pc \in ReleasePC \cup {"findWallet"} => p.entry.type = "PAYOUT"
  /\ p.pc \in InsertsPC \cup {"findWallet"} /\ p.entry.type = "PAYOUT" =>
       p.entry.status = "PENDING" /\ OfPayout(p.entry.payout) = {}
  /\ p.pc \in InsertsPC /\ p.entry.type = "PAYOUT" =>
       p.wallet = Held(WalletOf(p), -p.entry.amount)
  /\ p.pc \in ReleasePC => p.wallet = Released(WalletOf(p), -p.entry.amount)
  /\ p.pc \in {"compareRelease", "writeRelease"} =>
       p.trx \in OfPayout(p.entry.payout) /\ transactions[p.trx].status = "PENDING"

WrittenCall(p) ==
  p.pc \in {"writeEntry", "writeRelease"} => p.changed = Differing(p.wallet, WalletOf(p))

\* What the repair has still to do was not done.
RepairCall(p) ==
  /\ \A j \in p.incomes : ~IsCredited("INCOME", j) /\ announced[j] > 0
  /\ \A j \in p.compensations : ~IsCredited("RESCHEDULE_SURCHARGE_COMPENSATION", j)

LedgerCall(p) == CreditCall(p) /\ PaymentCall(p) /\ WrittenCall(p) /\ RepairCall(p)

Repairs(p) == p.pc \in {"regenIncome", "regenCompensation"} \/ p.next # "idle"

\* The repair is alone.
RepairsAlone ==
  \A t \in Thread :
    /\ ~Repairs(thread[t]) => NothingToRepair(thread[t])
    /\ Repairs(thread[t]) => /\ alone /\ ~Running(t, "idle")
                             /\ \A u \in Thread \ {t} : Running(u, "idle")
                             /\ \A k \in Task : todo[k] = 0

\* An income is credited; it is asked for; a call is about to credit it.
Incomes(j)    == CreditsFor(<<"INCOME", j>>)
IncomeTask(j) == [name |-> "income", id |-> j]
HasInHand(p, j) == /\ p.pc \in InsertsPC \cup {"checkCompensation"}
                   /\ p.entry.type = "INCOME" /\ p.entry.job = j
Hands(j) == {t \in Thread : HasInHand(thread[t], j)}

\* Each of these goes back to an announcement of the job's end of its own.
IncomeCounted(j) ==
  /\ Cardinality(Incomes(j)) + todo[IncomeTask(j)] + Cardinality(Hands(j)) <= announced[j]
  /\ jobs[j] = "FULFILLED" => announced[j] > 0

IncomesCounted == announced \in [Job -> Nat] /\ \A j \in Job : IncomeCounted(j)

Kept == /\ PaymentsMatch /\ RepairsAlone /\ IncomesCounted
        /\ \A t \in Thread : LedgerCall(thread[t])

\* A repair is of incomes that were announced and that nobody credits, and holds and
\* releases are of payouts.
AskedCall(p) ==
  /\ \A j \in p.incomes : /\ announced[j] > 0
                          /\ ~IsCredited("INCOME", j) /\ ~HasInHand(p, j)
  /\ p.pc \in ReleasePC \cup {"findWallet"} => p.entry.type = "PAYOUT"

\* What counts the incomes, however many calls are at work on a wallet.
Asked == /\ RepairsAlone /\ IncomesCounted
         /\ \A t \in Thread : AskedCall(thread[t])

\* It is part of what keeps the ledger.
LEMMA KeptIsAsked == Kept => Asked
BY DEF Kept, Asked, AskedCall, LedgerCall, CreditCall, PaymentCall, RepairCall, HasInHand,
   CreditType

PayoutsStay ==
  /\ DOMAIN payouts \subseteq DOMAIN payouts'
  /\ \A x \in DOMAIN payouts : /\ payouts'[x].owner = payouts[x].owner
                               /\ payouts'[x].amount = payouts[x].amount

AnnouncedStay ==
  /\ announced \in [Job -> Nat] /\ announced' \in [Job -> Nat]
  /\ \A j \in Job : announced[j] <= announced'[j]

\* A step that changes no wallet, and of transactions only which payout pays a credit.
Steady ==
  /\ UNCHANGED wallets /\ PayoutsStay /\ AnnouncedStay
  /\ DOMAIN transactions' = DOMAIN transactions
  /\ \A i \in DOMAIN transactions :
       /\ transactions'[i].type = transactions[i].type
       /\ transactions'[i].owner = transactions[i].owner
       /\ transactions'[i].job = transactions[i].job
       /\ transactions'[i].amount = transactions[i].amount
       /\ transactions'[i].status = transactions[i].status
       /\ transactions[i].type = "PAYOUT" => transactions'[i].payout = transactions[i].payout

\* The two steps that are not: what a handler saves.
Writes(t) == \E q \in Memory :
  /\ Become(t, q) /\ (Inserts(thread[t], q) \/ Updates(thread[t], q))
  /\ UNCHANGED <<jobs, payouts>> /\ AnnouncedStay

\* A step that leaves the rows of wallets and transactions alone is steady.
LEMMA UnchangedSteady ==
  UNCHANGED <<wallets, transactions, payouts>> /\ AnnouncedStay => Steady
BY DEF Steady, PayoutsStay

\* So is the creation of payouts: it only says which payout pays a credit.
LEMMA SavePayoutsSteady ==
  ASSUME Working, AnnouncedStay, NEW t \in Thread, SavePayouts(t)
  PROVE  Steady
<1> USE DEF Working
<1>1. PICK p : p = thread[t]
  OBVIOUS
<1>2. p \in Memory /\ ProcessOK(p) /\ p.pc = "savePayouts"
  BY <1>1 DEF ThreadsOK, SavePayouts, Running
<1>3. p.ids \subseteq Credits /\ thread[t].ids \subseteq Credits
  BY <1>1, <1>2 DEF ProcessOK
<1>4. PICK Row \in [Payees(t) -> DOMAIN payouts' \ DOMAIN payouts] : PayoutsAre(t, Row)
  BY <1>3, PayoutsAppended
<1>5. /\ DOMAIN payouts \subseteq DOMAIN payouts'
      /\ \A x \in DOMAIN payouts : payouts'[x] = payouts[x]
      /\ transactions' = [i \in DOMAIN transactions |->
                            IF i \in p.ids /\ transactions[i].owner \in Payable
                            THEN [transactions[i] EXCEPT !.payout = Row[transactions[i].owner]]
                            ELSE transactions[i]]
  BY <1>1, <1>4, Zenon DEF PayoutsAre
<1>6. UNCHANGED <<jobs, wallets>>
  BY DEF SavePayouts
<1>7. DOMAIN transactions' = DOMAIN transactions
  BY <1>5
<1>8. ASSUME NEW i \in DOMAIN transactions
      PROVE  /\ transactions'[i].type = transactions[i].type
             /\ transactions'[i].owner = transactions[i].owner
             /\ transactions'[i].job = transactions[i].job
             /\ transactions'[i].amount = transactions[i].amount
             /\ transactions'[i].status = transactions[i].status
             /\ transactions[i].type = "PAYOUT" => transactions'[i].payout = transactions[i].payout
  <2>1. PICK r : r = transactions[i]
    OBVIOUS
  <2>2. r \in Transaction
    BY <2>1 DEF RowsOK
  <2>3. PICK n : n = Row[r.owner]
    OBVIOUS
  <2>4. transactions'[i] = IF i \in p.ids /\ r.owner \in Payable
                           THEN [r EXCEPT !.payout = n] ELSE r
    BY <1>5, <2>1, <2>3
  <2>5. r.type = "PAYOUT" => i \notin p.ids
    BY <1>3, <2>1 DEF Credits, CreditType
  <2> QED BY <2>1, <2>2, <2>4, <2>5 DEF Transaction
<1> QED BY <1>5, <1>6, <1>7, <1>8 DEF Steady, PayoutsStay

\* No step takes back what was announced.
LEMMA AnnouncedStays ==
  ASSUME announced \in [Job -> Nat], Next
  PROVE  AnnouncedStay
<1>1. ASSUME NEW j \in Job, Fulfil(j) \/ TestFulfilled(j) PROVE AnnouncedStay
  <2>1. announced' = [announced EXCEPT ![j] = @ + 1]
    BY <1>1 DEF Fulfil, TestFulfilled, Announce
  <2> QED BY <2>1 DEF AnnouncedStay
<1>2. UNCHANGED announced => AnnouncedStay
  BY DEF AnnouncedStay
<1> QED BY <1>1, <1>2, AnnouncedBy

\* A step of the system is steady, or a handler saves a transaction and its wallet.
LEMMA StepWrites ==
  ASSUME Working, announced \in [Job -> Nat], Next
  PROVE  Steady \/ \E t \in Thread : Writes(t)
<1>0. AnnouncedStay
  BY AnnouncedStays
<1>1. CASE Request
  <2>1. UNCHANGED <<wallets, transactions, payouts>>
    BY <1>1, RequestStarts
  <2> QED BY <1>0, <2>1, UnchangedSteady
<1>2. CASE Command
  <2>1. ASSUME NEW j \in Job, DismissCompensation(j) PROVE Steady
    BY <1>0, <2>1, UnchangedSteady DEF DismissCompensation
  <2>2. ASSUME NEW t \in Thread, WalletStep(t) PROVE Steady \/ Writes(t)
    <3>1. PICK q \in Memory : Become(t, q) /\ WalletMove(thread[t], q)
      BY <2>2, StepMoves DEF Moves
    <3>2. UNCHANGED <<jobs, payouts>>
      BY <2>2, StepMoves DEF Moves
    <3>3. Inserts(thread[t], q) \/ Updates(thread[t], q) \/ UNCHANGED <<wallets, transactions>>
      BY <3>1 DEF WalletMove, Stops, ReadsIncome, ReadsCompensation, ReadsForgotten, FindsNone,
         BeginsHold, BeginsRelease, FindsWallet, FindsPending, Compares, TurnsToCompensations
    <3> QED BY <1>0, <3>1, <3>2, <3>3, UnchangedSteady DEF Writes
  <2> QED BY <1>2, <2>1, <2>2 DEF Command
<1>3. ASSUME NEW t \in Thread, PayoutStep(t) PROVE Steady
  <2>1. CASE SavePayouts(t)
    BY <1>0, <2>1, SavePayoutsSteady
  <2>2. CASE ~SavePayouts(t)
    <3>1. SameDebts
      BY <1>3, <2>2, DebtsStay
    <3>2. UNCHANGED <<jobs, wallets>>
      BY <1>3, PayoutMoves DEF PayoutMove
    <3> QED BY <1>0, <3>1, <3>2 DEF Steady, SameDebts, PayoutsStay
  <2> QED BY <2>1, <2>2
<1>4. CASE Crash
  BY <1>0, <1>4, UnchangedSteady DEF Crash, rows
<1> QED BY <1>1, <1>2, <1>3, <1>4 DEF Next, Program


\* What the ledger's variables are: the accounts, the claims credited, the payments.
Accounts == [o \in Owner |-> [available |-> wallets[o].available, hold |-> wallets[o].hold]]
CreditedCounts == [c \in Claims |-> Cardinality(CreditsFor(c))]
DueCounts == [c \in Claims |-> IF c[1] = "INCOME" THEN announced[c[2]] ELSE 1]
Payment(i) == [payout |-> transactions[i].payout, owner |-> transactions[i].owner,
               amount |-> -transactions[i].amount,
               released |-> transactions[i].status = "SUCCESS"]
Payments == {Payment(i) : i \in Of("PAYOUT")}

\* The credits of a claim can be counted.
LEMMA CreditsFinite ==
  ASSUME Working, NEW c
  PROVE  IsFiniteSet(CreditsFor(c)) /\ Cardinality(CreditsFor(c)) \in Nat
<1>1. DOMAIN transactions = 1..Len(transactions) /\ Len(transactions) \in Nat
  BY DEF Working, RowsOK
<1>2. IsFiniteSet(DOMAIN transactions)
  BY <1>1, FS_Interval
<1>3. CreditsFor(c) \subseteq DOMAIN transactions
  BY DEF CreditsFor, Of
<1> QED BY <1>2, <1>3, FS_Subset, FS_CardinalityType

\* So can the calls that are about to credit an income.
LEMMA HandsFinite ==
  ASSUME NEW j
  PROVE  IsFiniteSet(Hands(j)) /\ Cardinality(Hands(j)) \in Nat
<1>1. Hands(j) \subseteq Thread
  BY DEF Hands
<1> QED BY <1>1, WalletAssumption, FS_Subset, FS_CardinalityType

\* Transactions that keep their type and their job credit what they credited.
LEMMA SameCredits ==
  ASSUME DOMAIN transactions' = DOMAIN transactions,
         \A i \in DOMAIN transactions : /\ transactions'[i].type = transactions[i].type
                                       /\ transactions'[i].job = transactions[i].job,
         NEW c
  PROVE  CreditsFor(c)' = CreditsFor(c)
BY DEF CreditsFor, Of

\* A transaction that is inserted is one more credit of its claim, and of no other.
LEMMA InsertedCredit ==
  ASSUME Working, NEW t \in Thread, NEW p, p = thread[t], NEW q, Inserts(p, q), NEW c,
         c = <<c[1], c[2]>>
  PROVE  Cardinality(CreditsFor(c))' = IF c = <<p.entry.type, p.entry.job>>
                                       THEN Cardinality(CreditsFor(c)) + 1
                                       ELSE Cardinality(CreditsFor(c))
<1> USE DEF Working
<1>1. p \in Memory /\ ProcessOK(p)
  BY DEF ThreadsOK
<1>2. p.pc = "writeEntry" /\ transactions' = Append(transactions, p.entry)
  BY DEF Inserts
<1>3. PICK e, n : e = p.entry /\ n = Len(transactions) + 1
  OBVIOUS
<1>4. EntryOK(e) /\ e \in Transaction
  BY <1>1, <1>2, <1>3 DEF ProcessOK, WithTransaction, EntryOK
<1>5. /\ DOMAIN transactions' = DOMAIN transactions \cup {n} /\ transactions'[n] = e
      /\ \A i \in DOMAIN transactions : transactions'[i] = transactions[i]
  BY <1>2, <1>3, <1>4, InsertContinues
<1>6. n \notin DOMAIN transactions
  BY <1>3 DEF RowsOK
<1>7. n \notin CreditsFor(c)
  BY <1>6 DEF CreditsFor, Of
<1>8. CreditsFor(c)' = IF e.type = c[1] /\ e.job = c[2] THEN CreditsFor(c) \cup {n}
                                                       ELSE CreditsFor(c)
  BY <1>5, <1>6 DEF CreditsFor, Of
<1>9. c = <<e.type, e.job>> <=> e.type = c[1] /\ e.job = c[2]
  OBVIOUS
<1>10. Cardinality(CreditsFor(c) \cup {n}) = Cardinality(CreditsFor(c)) + 1
  BY <1>7, CreditsFinite, FS_AddElement
<1> QED BY <1>3, <1>8, <1>9, <1>10

\* A steady step changes nothing of the ledger, but for what falls due.
LEMMA SteadyStutters ==
  ASSUME Steady
  PROVE  UNCHANGED <<Accounts, CreditedCounts, Payments>>
<1>1. Of("PAYOUT")' = Of("PAYOUT") /\ Credits' = Credits
  BY DEF Steady, Of, Credits
<1>2. Of("PAYOUT") \subseteq DOMAIN transactions /\ Credits \subseteq DOMAIN transactions
  BY DEF Of, Credits
<1>3. ASSUME NEW i \in Of("PAYOUT") PROVE Payment(i)' = Payment(i)
  BY <1>2 DEF Payment, Of, Steady
<1>4. Payments' = Payments
  BY <1>1, <1>3 DEF Payments
<1>5. \A c : CreditsFor(c)' = CreditsFor(c)
  BY SameCredits DEF Steady
<1>6. CreditedCounts' = CreditedCounts
  BY <1>5 DEF CreditedCounts
<1>7. Accounts' = Accounts
  BY DEF Steady, Accounts
<1> QED BY <1>4, <1>6, <1>7

\* What was compared is what is written.
LEMMA MergedWallet ==
  ASSUME NEW w \in WalletRow, NEW row \in WalletRow
  PROVE  /\ Merged(w, row, Differing(w, row)).available = w.available
         /\ Merged(w, row, Differing(w, row)).hold = w.hold
<1>1. DOMAIN row = {"exists", "available", "hold"}
  BY DEF WalletRow
<1> QED BY <1>1 DEF Merged, Differing

\* What a handler writes: both balances as it computed them, of the one wallet.
LEMMA WrittenWallet ==
  ASSUME Working, NEW t \in Thread, NEW p, p = thread[t], WrittenCall(p),
         p.pc \in {"writeEntry", "writeRelease"},
         wallets' = [wallets EXCEPT ![p.entry.owner] =
                       IF p.wallet.exists \/ p.pc = "writeRelease"
                       THEN Merged(p.wallet, WalletOf(p), p.changed)
                       ELSE [p.wallet EXCEPT !.exists = TRUE]]
  PROVE  /\ p.entry.owner \in Owner
         /\ \A o \in Owner \ {p.entry.owner} : wallets'[o] = wallets[o]
         /\ Accounts' = [Accounts EXCEPT ![p.entry.owner] =
                           [available |-> p.wallet.available, hold |-> p.wallet.hold]]
<1> USE DEF Working
<1>1. p \in Memory /\ ProcessOK(p)
  BY DEF ThreadsOK
<1>2. EntryOK(p.entry) /\ p.wallet \in WalletRow
  BY <1>1 DEF ProcessOK, WithTransaction, Memory
<1>3. p.entry.owner \in Owner
  BY <1>2 DEF EntryOK, Transaction
<1>4. WalletOf(p) \in WalletRow
  BY <1>3 DEF WalletOf, RowsOK
<1>5. PICK m : m = Merged(p.wallet, WalletOf(p), p.changed)
  OBVIOUS
<1>6. m.available = p.wallet.available /\ m.hold = p.wallet.hold
  BY <1>2, <1>4, <1>5, MergedWallet DEF WrittenCall
<1>7. PICK n : n = [p.wallet EXCEPT !.exists = TRUE]
  OBVIOUS
<1>8. n.available = p.wallet.available /\ n.hold = p.wallet.hold
  BY <1>2, <1>7 DEF WalletRow
<1>9. wallets \in [Owner -> WalletRow]
  BY DEF RowsOK
<1>10. PICK new : new = IF p.wallet.exists \/ p.pc = "writeRelease" THEN m ELSE n
  OBVIOUS
<1>11. new.available = p.wallet.available /\ new.hold = p.wallet.hold
  BY <1>6, <1>8, <1>10
<1>12. wallets' = [wallets EXCEPT ![p.entry.owner] = new]
  BY <1>5, <1>7, <1>10
<1>13. \A o \in Owner : wallets'[o] = IF o = p.entry.owner THEN new ELSE wallets[o]
  BY <1>9, <1>12
<1>14. Accounts' = [Accounts EXCEPT ![p.entry.owner] =
                      [available |-> p.wallet.available, hold |-> p.wallet.hold]]
  <2>1. Accounts' = [o \in Owner |-> [available |-> wallets'[o].available,
                                      hold |-> wallets'[o].hold]]
    BY DEF Accounts
  <2>2. ASSUME NEW o \in Owner
        PROVE  Accounts'[o] = IF o = p.entry.owner
                              THEN [available |-> p.wallet.available, hold |-> p.wallet.hold]
                              ELSE Accounts[o]
    BY <1>11, <1>13, <2>1 DEF Accounts
  <2> QED BY <2>1, <2>2 DEF Accounts
<1> QED BY <1>3, <1>13, <1>14

\* A credit that is saved is a credit of the ledger.
LEMMA CreditSimulated ==
  ASSUME Working, Kept, NEW t \in Thread, NEW p, p = thread[t], NEW q, Inserts(p, q),
         UNCHANGED <<payouts, announced>>, p.entry.type \in CreditType
  PROVE  L!Next
<1> USE DEF Working
<1>1. p \in Memory /\ ProcessOK(p) /\ LedgerCall(p)
  BY DEF ThreadsOK, Kept
<1>2. p.pc = "writeEntry" /\ transactions' = Append(transactions, p.entry)
  BY DEF Inserts
<1>3. PICK e : e = p.entry
  OBVIOUS
<1>4. EntryOK(e) /\ e \in Transaction
  BY <1>1, <1>2, <1>3 DEF ProcessOK, WithTransaction, EntryOK
<1>5. e.job \in Job /\ e.owner \in Owner /\ e.amount \in Int /\ e.type \in CreditType
  BY <1>3, <1>4 DEF EntryOK, Transaction
<1>6. /\ e.owner = CreditedTo(e.type, e.job) /\ e.amount = DueFor(e.type, e.job)
      /\ e.type # "INCOME" => ~IsCredited(e.type, e.job)
      /\ p.wallet = Debited(wallets[e.owner], e.amount)
  <2>1. /\ e = CreditEntry(e.type, e.job)
        /\ e.type # "INCOME" => ~IsCredited(e.type, e.job)
        /\ p.wallet = Debited(wallets[e.owner], e.amount)
    BY <1>1, <1>2, <1>3, <1>5 DEF LedgerCall, CreditCall, InsertsPC, WalletOf
  <2>2. /\ CreditEntry(e.type, e.job).owner = CreditedTo(e.type, e.job)
        /\ CreditEntry(e.type, e.job).amount = DueFor(e.type, e.job)
    BY DEF CreditEntry
  <2> QED BY <2>1, <2>2
<1>7. PICK c : c = <<e.type, e.job>>
  OBVIOUS
<1>8. c \in Claims /\ c[1] = e.type /\ c[2] = e.job
  BY <1>5, <1>6, <1>7, WalletAssumption DEF Claims
<1>9. /\ DOMAIN transactions' = DOMAIN transactions \cup {Len(transactions) + 1}
      /\ transactions'[Len(transactions) + 1] = e
      /\ \A i \in DOMAIN transactions : transactions'[i] = transactions[i]
  BY <1>2, <1>3, <1>4, InsertContinues
<1>10. Cardinality(CreditsFor(c)) < IF c[1] = "INCOME" THEN announced[c[2]] ELSE 1
  <2>1. CASE e.type = "INCOME"
    <3>1. PICK j \in Job : j = e.job
      BY <1>5
    <3>2. HasInHand(p, j)
      BY <1>2, <1>3, <2>1, <3>1 DEF HasInHand, InsertsPC
    <3>3. t \in Hands(j)
      BY <3>2 DEF Hands
    <3>4. Cardinality(Hands(j)) \in Nat /\ Cardinality(Hands(j)) # 0
      BY <3>3, HandsFinite, FS_EmptySet
    <3>5. CreditsFor(c) = Incomes(j)
      BY <1>7, <2>1, <3>1 DEF Incomes
    <3>6. Cardinality(CreditsFor(c)) \in Nat
      BY CreditsFinite
    <3>7. IncomeTask(j) \in Task
      BY DEF IncomeTask, Task
    <3>8. todo[IncomeTask(j)] \in Nat
      BY <3>7 DEF TodoOK
    <3>9. announced[j] \in Nat
      BY DEF Kept, IncomesCounted
    <3>10. Cardinality(CreditsFor(c)) + todo[IncomeTask(j)] + Cardinality(Hands(j)) <= announced[j]
      BY <3>5 DEF Kept, IncomesCounted, IncomeCounted
    <3>11. Cardinality(CreditsFor(c)) < announced[j]
      BY <3>4, <3>6, <3>8, <3>9, <3>10
    <3> QED BY <1>8, <2>1, <3>1, <3>11
  <2>2. CASE e.type # "INCOME"
    <3>1. CreditsFor(c) = {}
      BY <1>6, <1>8, <2>2 DEF CreditsFor, Of, IsCredited
    <3> QED BY <1>8, <2>2, <3>1, FS_EmptySet
  <2> QED BY <2>1, <2>2
<1>11. /\ CreditedCounts' = [CreditedCounts EXCEPT ![c] = @ + 1] /\ DueCounts' = DueCounts
       /\ CreditedCounts[c] < DueCounts[c]
  <2>1. ASSUME NEW d \in Claims
        PROVE  Cardinality(CreditsFor(d))' = IF d = c THEN Cardinality(CreditsFor(d)) + 1
                                             ELSE Cardinality(CreditsFor(d))
    <3>1. d = <<d[1], d[2]>>
      BY DEF Claims
    <3> QED BY <1>3, <1>7, <3>1, InsertedCredit
  <2>2. CreditedCounts' = [d \in Claims |-> Cardinality(CreditsFor(d))']
    BY DEF CreditedCounts
  <2>3. CreditedCounts' = [CreditedCounts EXCEPT ![c] = @ + 1]
    BY <1>8, <2>1, <2>2 DEF CreditedCounts
  <2>4. DueCounts' = DueCounts
    BY DEF DueCounts
  <2>5. CreditedCounts[c] < DueCounts[c]
    BY <1>8, <1>10 DEF CreditedCounts, DueCounts
  <2> QED BY <2>3, <2>4, <2>5
<1>12. Payments' = Payments
  <2>1. Of("PAYOUT")' = Of("PAYOUT")
    BY <1>5, <1>9 DEF Of, CreditType
  <2>2. \A i \in Of("PAYOUT") : transactions'[i] = transactions[i]
    BY <1>9 DEF Of
  <2>3. \A i \in Of("PAYOUT") : Payment(i)' = Payment(i)
    BY <2>2 DEF Payment
  <2> QED BY <2>1, <2>3 DEF Payments
<1>13. Accounts' = [Accounts EXCEPT ![e.owner] =
                      [available |-> p.wallet.available, hold |-> p.wallet.hold]]
  BY <1>1, <1>2, <1>3, WrittenWallet DEF Inserts, LedgerCall
<1>14. wallets[e.owner] \in WalletRow
  BY <1>5 DEF RowsOK
<1>15. p.wallet.available = wallets[e.owner].available + e.amount
       /\ p.wallet.hold = wallets[e.owner].hold
  BY <1>6, <1>14 DEF Debited, WalletRow
<1>16. Accounts' = [Accounts EXCEPT ![e.owner].available = @ + e.amount]
  <2>1. Accounts[e.owner] = [available |-> wallets[e.owner].available,
                             hold |-> wallets[e.owner].hold]
    BY <1>5 DEF Accounts
  <2>2. PICK a : a = Accounts[e.owner]
    OBVIOUS
  <2>3. [a EXCEPT !.available = a.available + e.amount]
          = [available |-> p.wallet.available, hold |-> p.wallet.hold]
    BY <1>15, <2>1, <2>2
  <2> QED BY <1>13, <2>2, <2>3
<1>17. [d \in Claims |-> CreditedTo(d[1], d[2])][c] = e.owner
       /\ [d \in Claims |-> DueFor(d[1], d[2])][c] = e.amount
  BY <1>6, <1>8
<1>18. L!Credit(c)
  BY <1>11, <1>12, <1>16, <1>17, Zenon
     DEF L!Credit, Accounts, CreditedCounts, DueCounts, Payments, Payment
<1> QED BY <1>8, <1>18, Zenon DEF L!Next

\* Taking an amount from one balance of an account and adding it to the other.
Shifted(A, o, m) == [A EXCEPT ![o].available = @ - m, ![o].hold = @ + m]

\* Both balances change at once.
LEMMA TwoBalances ==
  ASSUME NEW A, NEW o \in DOMAIN A, NEW x \in Int, NEW y \in Int, NEW m \in Int,
         A[o] = [available |-> x, hold |-> y]
  PROVE  Shifted(A, o, m) = [A EXCEPT ![o] = [available |-> x - m, hold |-> y + m]]
<1>1. PICK a : a = A[o]
  OBVIOUS
<1>2. PICK b : b = [a EXCEPT !.available = a.available - m]
  OBVIOUS
<1>3. b = [available |-> x - m, hold |-> y]
  BY <1>1, <1>2
<1>4. PICK c : c = [b EXCEPT !.hold = b.hold + m]
  OBVIOUS
<1>5. c = [available |-> x - m, hold |-> y + m]
  BY <1>3, <1>4
<1>6. PICK B : B = [A EXCEPT ![o] = b]
  OBVIOUS
<1>7. B = [A EXCEPT ![o].available = @ - m]
  BY <1>1, <1>2, <1>6
<1>8. B[o] = b
  BY <1>6
<1>9. [A EXCEPT ![o].available = @ - m, ![o].hold = @ + m] = [B EXCEPT ![o].hold = @ + m]
  BY <1>7
<1>10. [B EXCEPT ![o].hold = @ + m] = [B EXCEPT ![o] = c]
  BY <1>4, <1>8
<1>11. [B EXCEPT ![o] = c] = [A EXCEPT ![o] = c]
  BY <1>6
<1> QED BY <1>5, <1>9, <1>10, <1>11 DEF Shifted

\* A payout's transaction that is saved holds its amount.
LEMMA HoldSimulated ==
  ASSUME Working, Kept, NEW t \in Thread, NEW p, p = thread[t], NEW q, Inserts(p, q),
         UNCHANGED <<payouts, announced>>, p.entry.type = "PAYOUT"
  PROVE  L!Next
<1> USE DEF Working
<1>1. p \in Memory /\ ProcessOK(p) /\ LedgerCall(p)
  BY DEF ThreadsOK, Kept
<1>2. p.pc = "writeEntry" /\ transactions' = Append(transactions, p.entry)
  BY DEF Inserts
<1>3. PICK e : e = p.entry
  OBVIOUS
<1>4. EntryOK(e) /\ e \in Transaction
  BY <1>1, <1>2, <1>3 DEF ProcessOK, WithTransaction, EntryOK
<1>5. e.owner \in Owner /\ e.amount \in Int /\ e.type = "PAYOUT" /\ e.payout # 0
  BY <1>3, <1>4 DEF EntryOK, Transaction
<1>6. /\ e.status = "PENDING" /\ OfPayout(e.payout) = {}
      /\ p.wallet = Held(wallets[e.owner], -e.amount)
  BY <1>1, <1>2, <1>3, <1>5 DEF LedgerCall, PaymentCall, InsertsPC, WalletOf
<1>7. PICK r : r = [payout |-> e.payout, owner |-> e.owner, amount |-> -e.amount,
                    released |-> FALSE]
  OBVIOUS
<1>9. /\ DOMAIN transactions' = DOMAIN transactions \cup {Len(transactions) + 1}
      /\ transactions'[Len(transactions) + 1] = e
      /\ \A i \in DOMAIN transactions : transactions'[i] = transactions[i]
  BY <1>2, <1>3, <1>4, InsertContinues
<1>10. \A i \in Of("PAYOUT") : transactions[i].payout # r.payout
  BY <1>6, <1>7 DEF OfPayout
<1>11. \A m \in Payments : m.payout # r.payout
  BY <1>10 DEF Payments, Payment
<1>12. CreditedCounts' = CreditedCounts /\ DueCounts' = DueCounts
  <2>1. ASSUME NEW d \in Claims
        PROVE  Cardinality(CreditsFor(d))' = Cardinality(CreditsFor(d))
    <3>1. d = <<d[1], d[2]>> /\ d[1] \in CreditType
      BY DEF Claims
    <3>2. d # <<p.entry.type, p.entry.job>>
      BY <3>1 DEF CreditType
    <3> QED BY <3>1, <3>2, InsertedCredit
  <2>2. CreditedCounts' = [d \in Claims |-> Cardinality(CreditsFor(d))']
    BY DEF CreditedCounts
  <2>3. CreditedCounts' = CreditedCounts
    BY <2>1, <2>2 DEF CreditedCounts
  <2> QED BY <2>3 DEF DueCounts
<1>13. Payments' = Payments \cup {r}
  <2>1. PICK n : n = Len(transactions) + 1
    OBVIOUS
  <2>2. Of("PAYOUT")' = Of("PAYOUT") \cup {n}
    BY <1>5, <1>9, <2>1 DEF Of
  <2>3. \A i \in Of("PAYOUT") : transactions'[i] = transactions[i]
    BY <1>9 DEF Of
  <2>4. \A i \in Of("PAYOUT") : Payment(i)' = Payment(i)
    BY <2>3 DEF Payment
  <2>5. transactions'[n] = e
    BY <1>9, <2>1
  <2>6. Payment(n)' = r
    BY <1>6, <1>7, <2>5 DEF Payment
  <2> QED BY <2>2, <2>4, <2>6 DEF Payments
<1>14. Accounts' = [Accounts EXCEPT ![e.owner] =
                      [available |-> p.wallet.available, hold |-> p.wallet.hold]]
  BY <1>1, <1>2, <1>3, WrittenWallet DEF Inserts, LedgerCall
<1>15. wallets[e.owner] \in WalletRow
  BY <1>5 DEF RowsOK
<1>16. p.wallet.available = wallets[e.owner].available - r.amount
       /\ p.wallet.hold = wallets[e.owner].hold + r.amount
  BY <1>6, <1>7, <1>15 DEF Held, WalletRow
<1>17. Accounts' = [Accounts EXCEPT ![r.owner].available = @ - r.amount,
                                    ![r.owner].hold = @ + r.amount]
  <2>1. Accounts[e.owner] = [available |-> wallets[e.owner].available,
                             hold |-> wallets[e.owner].hold]
    BY <1>5 DEF Accounts
  <2>2. PICK A : A = Accounts
    OBVIOUS
  <2>3. e.owner \in DOMAIN A /\ r.owner = e.owner /\ r.amount \in Int
    BY <1>5, <1>7, <2>2 DEF Accounts
  <2>4. wallets[e.owner].available \in Int /\ wallets[e.owner].hold \in Int
    BY <1>15 DEF WalletRow
  <2>5. PICK o, m, x, y : /\ o = e.owner /\ m = r.amount
                          /\ x = wallets[e.owner].available /\ y = wallets[e.owner].hold
    OBVIOUS
  <2>6. o \in DOMAIN A /\ x \in Int /\ y \in Int /\ m \in Int
        /\ A[o] = [available |-> x, hold |-> y]
    BY <2>1, <2>2, <2>3, <2>4, <2>5
  <2>7. Shifted(A, o, m) = [A EXCEPT ![o] = [available |-> x - m, hold |-> y + m]]
    BY <2>6, TwoBalances
  <2>8. Accounts' = [A EXCEPT ![o] = [available |-> x - m, hold |-> y + m]]
    BY <1>14, <1>16, <2>2, <2>5
  <2>9. Accounts' = Shifted(A, o, m)
    BY <2>7, <2>8
  <2>10. Accounts' = Shifted(Accounts, r.owner, r.amount)
    BY <2>2, <2>3, <2>5, <2>9
  <2> QED BY <2>10, Zenon DEF Shifted
<1>18. L!Hold(r) /\ r \in Payments'
  <2>1. ~r.released /\ r \in Payments'
    BY <1>7, <1>13
  <2> QED BY <1>11, <1>12, <1>13, <1>17, <2>1, Zenon
          DEF L!Hold, Accounts, CreditedCounts, DueCounts, Payments, Payment
<1> QED BY <1>18, Zenon DEF L!Next, Payments, Payment


\* A payout's transaction that is updated releases what was held for it.
LEMMA ReleaseSimulated ==
  ASSUME Working, Kept, NEW t \in Thread, NEW p, p = thread[t], NEW q, Updates(p, q),
         UNCHANGED <<payouts, announced>>
  PROVE  L!Next
<1> USE DEF Working
<1>1. p \in Memory /\ ProcessOK(p) /\ LedgerCall(p)
  BY DEF ThreadsOK, Kept
<1>2. p.pc = "writeRelease" /\ transactions' = [transactions EXCEPT ![p.trx].status = "SUCCESS"]
  BY DEF Updates
<1>3. PICK e, n : e = p.entry /\ n = p.trx
  OBVIOUS
<1>4. EntryOK(e) /\ e \in Transaction
  BY <1>1, <1>2, <1>3 DEF ProcessOK, WithTransaction, EntryOK
<1>5. /\ e.type = "PAYOUT" /\ MatchesPayout(e)
      /\ p.wallet = Released(wallets[e.owner], -e.amount)
      /\ n \in OfPayout(e.payout) /\ transactions[n].status = "PENDING"
  BY <1>1, <1>2, <1>3 DEF LedgerCall, PaymentCall, ReleasePC, WithTransaction, WalletOf
<1>6. /\ n \in Of("PAYOUT") /\ n \in DOMAIN transactions /\ transactions[n].type = "PAYOUT"
      /\ transactions[n].payout = e.payout
  BY <1>5 DEF OfPayout, Of
<1>7. transactions[n].amount = e.amount /\ transactions[n].owner = e.owner
  BY <1>5, <1>6 DEF Kept, PaymentsMatch, MatchesPayout
<1>8. e.owner \in Owner /\ e.amount \in Int
  BY <1>4 DEF Transaction
<1>9. PICK r, s : r = Payment(n) /\ s = [r EXCEPT !.released = TRUE]
  OBVIOUS
<1>10. /\ r.payout = e.payout /\ r.owner = e.owner /\ r.amount = -e.amount /\ r.released = FALSE
       /\ s = [payout |-> e.payout, owner |-> e.owner, amount |-> -e.amount, released |-> TRUE]
  BY <1>5, <1>6, <1>7, <1>9 DEF Payment
<1>11. ASSUME NEW i \in DOMAIN transactions
       PROVE  /\ transactions'[i].type = transactions[i].type
              /\ transactions'[i].owner = transactions[i].owner
              /\ transactions'[i].job = transactions[i].job
              /\ transactions'[i].amount = transactions[i].amount
              /\ transactions'[i].payout = transactions[i].payout
              /\ transactions'[i].status = IF i = n THEN "SUCCESS" ELSE transactions[i].status
  <2>1. PICK a : a = transactions[i]
    OBVIOUS
  <2>2. a \in Transaction
    BY <2>1 DEF RowsOK
  <2>3. transactions'[i] = IF i = n THEN [a EXCEPT !.status = "SUCCESS"] ELSE a
    BY <1>2, <1>3, <2>1
  <2> QED BY <2>1, <2>2, <2>3 DEF Transaction
<1>12. DOMAIN transactions' = DOMAIN transactions
  BY <1>2
<1>13. Of("PAYOUT")' = Of("PAYOUT") /\ Credits' = Credits /\ Of("PAYOUT") \subseteq DOMAIN transactions
       /\ Credits \subseteq DOMAIN transactions
  BY <1>11, <1>12 DEF Of, Credits
<1>14. CreditedCounts' = CreditedCounts /\ DueCounts' = DueCounts
  <2>1. \A c : CreditsFor(c)' = CreditsFor(c)
    BY <1>11, <1>12, SameCredits
  <2> QED BY <2>1 DEF CreditedCounts, DueCounts
<1>15. \A i \in Of("PAYOUT") \ {n} : Payment(i)' = Payment(i) /\ Payment(i) # r
  <2>1. ASSUME NEW i \in Of("PAYOUT"), i # n PROVE Payment(i)' = Payment(i)
    BY <1>11, <1>13, <2>1 DEF Payment
  <2>2. ASSUME NEW i \in Of("PAYOUT"), i # n PROVE Payment(i) # r
    <3>1. transactions[i].payout # transactions[n].payout
      BY <1>6, <2>2 DEF Kept, PaymentsMatch
    <3>2. Payment(i).payout = transactions[i].payout
      BY DEF Payment
    <3> QED BY <1>6, <1>10, <3>1, <3>2
  <2> QED BY <2>1, <2>2
<1>16. Payment(n)' = s
  BY <1>6, <1>7, <1>10, <1>11 DEF Payment
<1>17. Payments' = (Payments \ {r}) \cup {s} /\ r \in Payments
  <2>1. PICK S : S = Of("PAYOUT")
    OBVIOUS
  <2>2. Payments = {Payment(i) : i \in S} /\ Payments' = {Payment(i)' : i \in S} /\ n \in S
    BY <1>6, <1>13, <2>1 DEF Payments
  <2>3. r \in Payments
    BY <1>9, <2>2
  <2>4. ASSUME NEW m \in Payments' PROVE m \in (Payments \ {r}) \cup {s}
    BY <1>15, <1>16, <2>1, <2>2
  <2>5. ASSUME NEW m \in Payments, m # r PROVE m \in Payments'
    BY <1>9, <1>15, <2>1, <2>2, <2>5
  <2>6. s \in Payments'
    BY <1>16, <2>2
  <2> QED BY <2>3, <2>4, <2>5, <2>6
<1>18. Accounts' = [Accounts EXCEPT ![e.owner] =
                      [available |-> p.wallet.available, hold |-> p.wallet.hold]]
  <2>1. wallets' = [wallets EXCEPT ![p.entry.owner] =
                      IF p.wallet.exists \/ p.pc = "writeRelease"
                      THEN Merged(p.wallet, WalletOf(p), p.changed)
                      ELSE [p.wallet EXCEPT !.exists = TRUE]]
    BY <1>2 DEF Updates
  <2> QED BY <1>1, <1>2, <1>3, <2>1, WrittenWallet DEF LedgerCall
<1>19. wallets[e.owner] \in WalletRow
  BY <1>8 DEF RowsOK
<1>20. p.wallet.hold = wallets[e.owner].hold - r.amount
       /\ p.wallet.available = wallets[e.owner].available
  BY <1>5, <1>10, <1>19 DEF Released, WalletRow
<1>21. Accounts' = [Accounts EXCEPT ![r.owner].hold = @ - r.amount]
  <2>1. Accounts[e.owner] = [available |-> wallets[e.owner].available,
                             hold |-> wallets[e.owner].hold]
    BY <1>8 DEF Accounts
  <2>2. PICK a : a = Accounts[e.owner]
    OBVIOUS
  <2>3. [a EXCEPT !.hold = a.hold - r.amount]
          = [available |-> p.wallet.available, hold |-> p.wallet.hold]
    BY <1>20, <2>1, <2>2
  <2> QED BY <1>10, <1>18, <2>2, <2>3
<1>22. L!Release(r)
  BY <1>9, <1>10, <1>14, <1>17, <1>21, Zenon
     DEF L!Release, Accounts, CreditedCounts, DueCounts, Payments, Payment
<1> QED BY <1>17, <1>22, Zenon DEF L!Next, Payments, Payment

\* A job that is announced as fulfilled makes its income due once more.
LEMMA FallDueSimulated ==
  ASSUME Kept, NEW j \in Job, Fulfil(j) \/ TestFulfilled(j)
  PROVE  L!Next
<1>1. PICK c : c = <<"INCOME", j>>
  OBVIOUS
<1>2. c \in Claims /\ c[1] = "INCOME" /\ c[2] = j
  BY <1>1, WalletAssumption DEF Claims, CreditType, CreditedTo
<1>3. /\ announced' = [announced EXCEPT ![j] = @ + 1]
      /\ UNCHANGED <<wallets, transactions, payouts>>
  BY DEF Fulfil, TestFulfilled, Announce
<1>4. announced \in [Job -> Nat]
  BY DEF Kept, IncomesCounted
<1>5. UNCHANGED <<Accounts, CreditedCounts, Payments>>
  <2>1. Accounts' = Accounts
    BY <1>3 DEF Accounts
  <2>2. CreditedCounts' = CreditedCounts
    BY <1>3 DEF CreditedCounts, CreditsFor, Of
  <2>3. Payments' = Payments
    BY <1>3 DEF Payments, Payment, Of
  <2> QED BY <2>1, <2>2, <2>3
<1>6. DueCounts' = [DueCounts EXCEPT ![c] = @ + 1]
  <2>1. DueCounts' = [d \in Claims |-> IF d[1] = "INCOME" THEN announced'[d[2]] ELSE 1]
    BY DEF DueCounts
  <2>2. ASSUME NEW d \in Claims
        PROVE  DueCounts'[d] = IF d = c THEN DueCounts[d] + 1 ELSE DueCounts[d]
    <3>1. d = <<d[1], d[2]>> /\ d[2] \in Job
      BY DEF Claims
    <3>2. d = c <=> d[1] = "INCOME" /\ d[2] = j
      BY <1>1, <3>1
    <3> QED BY <1>3, <1>4, <2>1, <3>1, <3>2 DEF DueCounts
  <2> QED BY <1>2, <2>1, <2>2 DEF DueCounts
<1>7. L!FallDue(c)
  BY <1>5, <1>6, Zenon DEF L!FallDue, Accounts, CreditedCounts, DueCounts, Payments, Payment
<1> QED BY <1>2, <1>7, Zenon DEF L!Next

\* Every step of the system is one of the ledger, or changes nothing of it.
LEMMA StepSimulated ==
  ASSUME Working, Kept, Next
  PROVE  [L!Next]_(L!ledger)
<1>0. announced \in [Job -> Nat]
  BY DEF Kept, IncomesCounted
<1>1. CASE Steady /\ UNCHANGED announced
  <2>1. UNCHANGED <<Accounts, CreditedCounts, Payments>>
    BY <1>1, SteadyStutters
  <2>2. DueCounts' = DueCounts
    BY <1>1 DEF DueCounts
  <2> QED BY <2>1, <2>2, Zenon
          DEF L!ledger, Accounts, CreditedCounts, DueCounts, Payments, Payment
<1>2. ASSUME NEW t \in Thread, Writes(t), UNCHANGED announced PROVE L!Next
  <2>1. PICK p : p = thread[t]
    OBVIOUS
  <2>2. PICK q \in Memory : Inserts(p, q) \/ Updates(p, q)
    BY <1>2, <2>1 DEF Writes
  <2>3. UNCHANGED <<payouts, announced>>
    BY <1>2 DEF Writes
  <2>4. CASE Updates(p, q)
    BY <2>1, <2>3, <2>4, ReleaseSimulated
  <2>5. CASE Inserts(p, q)
    <3>1. p \in Memory /\ ProcessOK(p) /\ p.pc = "writeEntry"
      BY <2>1, <2>5 DEF Working, ThreadsOK, Inserts
    <3>2. p.entry.type \in CreditType \/ p.entry.type = "PAYOUT"
      BY <3>1 DEF ProcessOK, WithTransaction, EntryOK, Transaction
    <3> QED BY <2>1, <2>3, <2>5, <3>2, CreditSimulated, HoldSimulated
  <2> QED BY <2>2, <2>4, <2>5
<1>3. ASSUME NEW j \in Job, Fulfil(j) \/ TestFulfilled(j) PROVE L!Next
  BY <1>3, FallDueSimulated
<1> QED BY <1>0, <1>1, <1>2, <1>3, StepWrites, AnnouncedBy


\* The transactions of payouts go on to match them.
LEMMA MatchStep ==
  ASSUME Working, Kept, Next
  PROVE  PaymentsMatch'
<1> USE DEF Working
<1>1. ASSUME PayoutsStay, DOMAIN transactions' = DOMAIN transactions,
             \A i \in DOMAIN transactions :
               /\ transactions'[i].type = transactions[i].type
               /\ transactions'[i].owner = transactions[i].owner
               /\ transactions'[i].job = transactions[i].job
               /\ transactions'[i].amount = transactions[i].amount
               /\ transactions[i].type = "PAYOUT" => transactions'[i].payout = transactions[i].payout
      PROVE  PaymentsMatch'
  <2>1. ASSUME NEW i \in DOMAIN transactions', transactions'[i].type = "PAYOUT"
        PROVE  /\ transactions'[i].amount = -payouts'[transactions'[i].payout].amount
               /\ transactions'[i].owner = payouts'[transactions'[i].payout].owner
    <3>1. i \in DOMAIN transactions /\ transactions[i].type = "PAYOUT"
      BY <1>1, <2>1
    <3>2. EntryOK(transactions[i]) /\ MatchesPayout(transactions[i])
      BY <3>1 DEF RowsOK, Kept, PaymentsMatch
    <3>3. transactions[i].payout \in DOMAIN payouts
      BY <3>1, <3>2 DEF EntryOK
    <3> QED BY <1>1, <3>1, <3>2, <3>3 DEF MatchesPayout, PayoutsStay
  <2>2. ASSUME NEW i \in Of("PAYOUT")', NEW k \in Of("PAYOUT")',
               transactions'[i].payout = transactions'[k].payout
        PROVE  i = k
    <3>1. i \in Of("PAYOUT") /\ k \in Of("PAYOUT")
      BY <1>1 DEF Of
    <3>2. transactions[i].payout = transactions[k].payout
      BY <1>1, <2>2, <3>1 DEF Of
    <3> QED BY <3>1, <3>2 DEF Kept, PaymentsMatch
  <2>3. ASSUME NEW i \in Credits'
        PROVE  transactions'[i].owner = CreditedTo(transactions'[i].type, transactions'[i].job)
    <3>1. i \in Credits /\ i \in DOMAIN transactions
      BY <1>1 DEF Credits
    <3>2. transactions[i].owner = CreditedTo(transactions[i].type, transactions[i].job)
      BY <3>1 DEF Kept, PaymentsMatch
    <3> QED BY <1>1, <3>1, <3>2 DEF CreditedTo
  <2> QED BY <2>1, <2>2, <2>3 DEF PaymentsMatch, MatchesPayout, CreditedTo
<1>2. CASE Steady
  BY <1>1, <1>2 DEF Steady
<1>3. ASSUME NEW t \in Thread, Writes(t) PROVE PaymentsMatch'
  <2>1. PICK p : p = thread[t]
    OBVIOUS
  <2>2. PICK q \in Memory : Inserts(p, q) \/ Updates(p, q)
    BY <1>3, <2>1 DEF Writes
  <2>3. UNCHANGED payouts /\ PayoutsStay
    BY <1>3 DEF Writes, PayoutsStay
  <2>4. p \in Memory /\ ProcessOK(p) /\ PaymentCall(p)
    BY <2>1 DEF ThreadsOK, Kept, LedgerCall
  <2>5. CASE Updates(p, q)
    <3>1. transactions' = [transactions EXCEPT ![p.trx].status = "SUCCESS"]
      BY <2>5 DEF Updates
    <3>2. Continues /\ DOMAIN transactions' = DOMAIN transactions
      BY <2>3, <3>1, UpdateContinues
    <3>3. ASSUME NEW i \in DOMAIN transactions PROVE transactions'[i].job = transactions[i].job
      <4>1. PICK a : a = transactions[i]
        OBVIOUS
      <4>2. a \in Transaction
        BY <4>1 DEF RowsOK
      <4>3. transactions'[i] = a \/ transactions'[i] = [a EXCEPT !.status = "SUCCESS"]
        BY <3>1, <4>1
      <4> QED BY <4>1, <4>2, <4>3 DEF Transaction
    <3> QED BY <1>1, <2>3, <3>2, <3>3 DEF Continues
  <2>6. CASE Inserts(p, q)
    <3>1. PICK e : e = p.entry
      OBVIOUS
    <3>2. p.pc = "writeEntry" /\ transactions' = Append(transactions, e)
      BY <2>6, <3>1 DEF Inserts
    <3>3. e \in Transaction /\ EntryOK(e)
      BY <2>4, <3>1, <3>2 DEF ProcessOK, WithTransaction, EntryOK
    <3>4. MatchesPayout(e) /\ (e.type = "PAYOUT" => OfPayout(e.payout) = {})
      BY <2>4, <3>1, <3>2 DEF PaymentCall, WithTransaction, InsertsPC
    <3>5. PICK n : n = Len(transactions) + 1
      OBVIOUS
    <3>6. /\ DOMAIN transactions' = DOMAIN transactions \cup {n}
          /\ transactions'[n] = e
          /\ \A i \in DOMAIN transactions : transactions'[i] = transactions[i]
      BY <2>3, <3>2, <3>3, <3>5, InsertContinues
    <3>7. ASSUME NEW i \in DOMAIN transactions', transactions'[i].type = "PAYOUT"
          PROVE  /\ transactions'[i].amount = -payouts'[transactions'[i].payout].amount
                 /\ transactions'[i].owner = payouts'[transactions'[i].payout].owner
      <4>1. CASE i = n
        BY <2>3, <3>4, <3>6, <3>7, <4>1 DEF MatchesPayout
      <4>2. CASE i \in DOMAIN transactions
        BY <2>3, <3>6, <3>7, <4>2 DEF Kept, PaymentsMatch, MatchesPayout
      <4> QED BY <3>6, <4>1, <4>2
    <3>8. ASSUME NEW i \in Of("PAYOUT")', NEW k \in Of("PAYOUT")', i # n,
                 transactions'[i].payout = transactions'[k].payout
          PROVE  i = k
      <4>1. i \in Of("PAYOUT") /\ transactions'[i] = transactions[i]
        BY <3>6, <3>8 DEF Of
      <4>2. CASE k = n
        <5>1. e.type = "PAYOUT" /\ transactions[i].payout = e.payout
          BY <3>6, <3>8, <4>1, <4>2 DEF Of
        <5> QED BY <3>4, <4>1, <5>1 DEF OfPayout
      <4>3. CASE k # n
        <5>1. k \in Of("PAYOUT") /\ transactions'[k] = transactions[k]
          BY <3>6, <4>3 DEF Of
        <5> QED BY <3>8, <4>1, <5>1 DEF Kept, PaymentsMatch
      <4> QED BY <4>2, <4>3
    <3>9. \A i, k \in Of("PAYOUT")' : transactions'[i].payout = transactions'[k].payout => i = k
      BY <3>8
    <3>10. ASSUME NEW i \in Credits'
           PROVE  transactions'[i].owner = CreditedTo(transactions'[i].type, transactions'[i].job)
      <4>1. CASE i = n
        <5>1. e.type \in CreditType
          BY <3>6, <4>1 DEF Credits
        <5>2. e = CreditEntry(e.type, e.job)
          BY <2>1, <3>1, <3>2, <5>1 DEF Kept, LedgerCall, CreditCall, InsertsPC
        <5>3. CreditEntry(e.type, e.job).owner = CreditedTo(e.type, e.job)
          BY DEF CreditEntry
        <5> QED BY <3>6, <4>1, <5>2, <5>3
      <4>2. CASE i # n
        <5>1. i \in Credits /\ transactions'[i] = transactions[i]
          BY <3>6, <4>2 DEF Credits
        <5> QED BY <5>1 DEF Kept, PaymentsMatch
      <4> QED BY <4>1, <4>2
    <3> QED BY <3>7, <3>9, <3>10 DEF PaymentsMatch, MatchesPayout, CreditedTo
  <2> QED BY <2>2, <2>5, <2>6
<1>4. announced \in [Job -> Nat]
  BY DEF Kept, IncomesCounted
<1> QED BY <1>2, <1>3, <1>4, StepWrites

\* A step that spares what the call p has in hand: its owner's wallet, and what was
\* credited, held and released of what it is about.
Spares(p) ==
  /\ PayoutsStay /\ AnnouncedStay
  /\ p.pc \in WithTransaction =>
       /\ wallets'[p.entry.owner] = wallets[p.entry.owner]
       /\ p.entry.type = "PAYOUT" => OfPayout(p.entry.payout)' = OfPayout(p.entry.payout)
       /\ p.entry.type \in CreditType /\ IsCredited(p.entry.type, p.entry.job)'
            => IsCredited(p.entry.type, p.entry.job)
       /\ p.pc \in {"compareRelease", "writeRelease"} =>
            transactions'[p.trx].status = transactions[p.trx].status
  /\ \A j \in p.incomes : IsCredited("INCOME", j)' => IsCredited("INCOME", j)
  /\ \A j \in p.compensations : IsCredited("RESCHEDULE_SURCHARGE_COMPENSATION", j)'
                                  => IsCredited("RESCHEDULE_SURCHARGE_COMPENSATION", j)

\* What such a step spares stays true of the call.
LEMMA SparedCall ==
  ASSUME Working, NEW p \in Memory, ProcessOK(p), LedgerCall(p), Spares(p)
  PROVE  LedgerCall(p)'
<1>1. p.pc \in WithTransaction => WalletOf(p)' = WalletOf(p)
  BY DEF Spares, WalletOf
<1>2. InsertsPC \subseteq WithTransaction /\ ReleasePC \subseteq WithTransaction
      /\ "checkCompensation" \in WithTransaction /\ "findWallet" \in WithTransaction
  BY DEF InsertsPC, ReleasePC, WithTransaction
<1>3. ASSUME p.pc \in WithTransaction, p.entry.type = "PAYOUT"
      PROVE  /\ MatchesPayout(p.entry) => MatchesPayout(p.entry)'
             /\ OfPayout(p.entry.payout)' = OfPayout(p.entry.payout)
  <2>1. p.entry.payout \in DOMAIN payouts
    BY <1>3 DEF ProcessOK, EntryOK
  <2> QED BY <1>3, <2>1 DEF Spares, PayoutsStay, MatchesPayout
<1>4. CreditCall(p)'
  BY <1>1, <1>2 DEF LedgerCall, CreditCall, Spares
<1>5. PaymentCall(p)'
  <2>1. p.pc \in WithTransaction => MatchesPayout(p.entry)'
    BY <1>3 DEF LedgerCall, PaymentCall, MatchesPayout
  <2>2. p.pc \in ReleasePC => p.entry.type = "PAYOUT"
    BY DEF LedgerCall, PaymentCall
  <2>3. p.pc \in {"compareRelease", "writeRelease"} =>
          /\ p.pc \in ReleasePC /\ p.entry.type = "PAYOUT"
          /\ transactions'[p.trx].status = transactions[p.trx].status
    BY <1>2, <2>2 DEF ReleasePC, Spares
  <2>4. p.pc \in {"compareRelease", "writeRelease"} =>
          p.trx \in OfPayout(p.entry.payout)' /\ transactions'[p.trx].status = "PENDING"
    BY <1>2, <1>3, <2>3 DEF LedgerCall, PaymentCall
  <2>5. p.pc \in InsertsPC \cup {"findWallet"} /\ p.entry.type = "PAYOUT" =>
          p.entry.status = "PENDING" /\ OfPayout(p.entry.payout)' = {}
    BY <1>2, <1>3 DEF LedgerCall, PaymentCall
  <2> QED BY <1>1, <1>2, <2>1, <2>4, <2>5 DEF LedgerCall, PaymentCall
<1>6. WrittenCall(p)'
  BY <1>1 DEF LedgerCall, WrittenCall, WithTransaction
<1>7. RepairCall(p)'
  <2>1. p.incomes \subseteq Job
    BY DEF Memory
  <2> QED BY <2>1 DEF LedgerCall, RepairCall, Spares, AnnouncedStay
<1> QED BY <1>4, <1>5, <1>6, <1>7 DEF LedgerCall

\* A steady step spares every call.
LEMMA SteadySpares ==
  ASSUME Working, Steady, NEW p \in Memory, ProcessOK(p)
  PROVE  Spares(p)
<1>1. \A type, j : IsCredited(type, j)' => IsCredited(type, j)
  BY DEF Steady, IsCredited
<1>2. \A x : OfPayout(x)' = OfPayout(x)
  BY DEF Steady, OfPayout, Of
<1>3. p.pc \in {"compareRelease", "writeRelease"} => p.trx \in DOMAIN transactions
  BY DEF ProcessOK
<1> QED BY <1>1, <1>2, <1>3 DEF Spares, Steady

\* What a handler saves spares the calls of other owners that repair nothing.
LEMMA WriteSpares ==
  ASSUME Working, Kept, NEW t \in Thread, NEW q \in Memory,
         Inserts(thread[t], q) \/ Updates(thread[t], q), UNCHANGED payouts, AnnouncedStay,
         NEW p \in Memory, ProcessOK(p), LedgerCall(p), p.incomes = {}, p.compensations = {},
         p.pc \in WithTransaction => p.entry.owner # thread[t].entry.owner
  PROVE  Spares(p)
<1> USE DEF Working
<1>1. PICK w, e : w = thread[t] /\ e = thread[t].entry
  OBVIOUS
<1>2. w \in Memory /\ ProcessOK(w) /\ LedgerCall(w) /\ w.entry = e
  BY <1>1 DEF ThreadsOK, Kept
<1>3. w.pc \in {"writeEntry", "writeRelease"}
  BY <1>1 DEF Inserts, Updates
<1>4. EntryOK(e) /\ e \in Transaction /\ MatchesPayout(e)
  BY <1>2, <1>3 DEF ProcessOK, WithTransaction, EntryOK, LedgerCall, PaymentCall
<1>5. \A o \in Owner \ {e.owner} : wallets'[o] = wallets[o]
  <2>1. wallets' = [wallets EXCEPT ![e.owner] =
                      IF w.wallet.exists \/ w.pc = "writeRelease"
                      THEN Merged(w.wallet, WalletOf(w), w.changed)
                      ELSE [w.wallet EXCEPT !.exists = TRUE]]
    BY <1>1 DEF Inserts, Updates
  <2> QED BY <1>1, <1>2, <1>3, <2>1, WrittenWallet DEF LedgerCall
<1>6. PayoutsStay /\ AnnouncedStay
  BY DEF PayoutsStay
<1>7. ASSUME p.pc \in WithTransaction
      PROVE  /\ wallets'[p.entry.owner] = wallets[p.entry.owner]
             /\ p.entry.type = "PAYOUT" => OfPayout(p.entry.payout)' = OfPayout(p.entry.payout)
             /\ p.entry.type \in CreditType /\ IsCredited(p.entry.type, p.entry.job)'
                  => IsCredited(p.entry.type, p.entry.job)
             /\ p.pc \in {"compareRelease", "writeRelease"} =>
                  transactions'[p.trx].status = transactions[p.trx].status
  <2>1. EntryOK(p.entry) /\ p.entry \in Transaction /\ p.entry.owner \in Owner
        /\ MatchesPayout(p.entry)
    BY <1>7 DEF ProcessOK, EntryOK, Transaction, LedgerCall, PaymentCall
  <2>2. p.entry.owner # e.owner
    BY <1>1, <1>7
  <2>3. wallets'[p.entry.owner] = wallets[p.entry.owner]
    BY <1>5, <2>1, <2>2
  <2>4. p.pc \in {"compareRelease", "writeRelease"} =>
          /\ p.trx \in DOMAIN transactions /\ transactions[p.trx].type = "PAYOUT"
          /\ transactions[p.trx].owner = p.entry.owner
    <3>1. p.pc \in {"compareRelease", "writeRelease"} =>
            p.trx \in OfPayout(p.entry.payout) /\ p.entry.type = "PAYOUT"
      BY DEF LedgerCall, PaymentCall, ReleasePC
    <3> QED BY <2>1, <3>1 DEF OfPayout, Of, Kept, PaymentsMatch, MatchesPayout
  <2>5. CASE Updates(w, q)
    <3>1. transactions' = [transactions EXCEPT ![w.trx].status = "SUCCESS"]
          /\ w.pc = "writeRelease"
      BY <2>5 DEF Updates
    <3>2. w.trx \in OfPayout(e.payout) /\ e.type = "PAYOUT"
      BY <1>2, <3>1 DEF LedgerCall, PaymentCall, ReleasePC
    <3>3. w.trx \in DOMAIN transactions /\ transactions[w.trx].owner = e.owner
      BY <1>4, <3>2 DEF OfPayout, Of, Kept, PaymentsMatch, MatchesPayout
    <3>4. \A i \in DOMAIN transactions : i # w.trx => transactions'[i] = transactions[i]
      BY <3>1
    <3>5. p.pc \in {"compareRelease", "writeRelease"} =>
            transactions'[p.trx].status = transactions[p.trx].status
      BY <2>2, <2>4, <3>3, <3>4
    <3>6. PICK a : a = transactions[w.trx]
      OBVIOUS
    <3>7. a \in Transaction /\ transactions'[w.trx] = [a EXCEPT !.status = "SUCCESS"]
      BY <3>1, <3>3, <3>6 DEF RowsOK
    <3>8. \A i \in DOMAIN transactions : /\ transactions'[i].type = transactions[i].type
                                         /\ transactions'[i].job = transactions[i].job
                                         /\ transactions'[i].payout = transactions[i].payout
      BY <3>4, <3>6, <3>7 DEF Transaction
    <3>9. DOMAIN transactions' = DOMAIN transactions
      BY <3>1
    <3> QED BY <2>3, <3>5, <3>8, <3>9 DEF IsCredited, OfPayout, Of
  <2>6. CASE Inserts(w, q)
    <3>1. PICK n : n = Len(transactions) + 1
      OBVIOUS
    <3>2. transactions' = Append(transactions, e) /\ w.pc = "writeEntry"
      BY <1>2, <2>6 DEF Inserts
    <3>3. /\ DOMAIN transactions' = DOMAIN transactions \cup {n} /\ transactions'[n] = e
          /\ \A i \in DOMAIN transactions : transactions'[i] = transactions[i]
      BY <1>4, <3>1, <3>2, InsertContinues
    <3>4. ASSUME p.entry.type = "PAYOUT"
          PROVE  OfPayout(p.entry.payout)' = OfPayout(p.entry.payout)
      <4>1. ~(e.type = "PAYOUT" /\ e.payout = p.entry.payout)
        BY <1>4, <2>1, <2>2, <3>4 DEF MatchesPayout
      <4> QED BY <3>3, <4>1 DEF OfPayout, Of
    <3>5. ASSUME p.entry.type \in CreditType, IsCredited(p.entry.type, p.entry.job)'
          PROVE  IsCredited(p.entry.type, p.entry.job)
      <4>1. PICK i \in DOMAIN transactions' : transactions'[i].type = p.entry.type
                                              /\ transactions'[i].job = p.entry.job
        BY <3>5 DEF IsCredited
      <4>2. ASSUME e.type = p.entry.type, e.job = p.entry.job PROVE FALSE
        <5>1. e = CreditEntry(e.type, e.job)
          BY <1>2, <3>2, <3>5, <4>2 DEF LedgerCall, CreditCall, InsertsPC
        <5>2. p.entry = CreditEntry(p.entry.type, p.entry.job)
          <6>1. p.pc \in InsertsPC \cup {"checkCompensation"}
            <7>1. p.entry.type # "PAYOUT"
              BY <3>5 DEF CreditType
            <7> QED BY <1>7, <7>1
                DEF LedgerCall, PaymentCall, WithTransaction, InsertsPC, ReleasePC
          <6> QED BY <3>5, <6>1 DEF LedgerCall, CreditCall
        <5>3. e = p.entry
          BY <4>2, <5>1, <5>2
        <5> QED BY <2>2, <5>3
      <4> QED BY <3>3, <4>1, <4>2 DEF IsCredited
    <3>6. p.pc \in {"compareRelease", "writeRelease"} =>
            transactions'[p.trx].status = transactions[p.trx].status
      BY <2>4, <3>3
    <3> QED BY <2>3, <3>4, <3>5, <3>6
  <2> QED BY <1>1, <2>5, <2>6
<1> QED BY <1>6, <1>7 DEF Spares


\* A call that has no transaction in hand and repairs nothing keeps nothing.
LEMMA NothingInHand ==
  ASSUME NEW q, q.pc \notin WithTransaction, q.incomes = {}, q.compensations = {}
  PROVE  LedgerCall(q) /\ LedgerCall(q)'
<1>1. /\ q.pc \notin InsertsPC /\ q.pc \notin ReleasePC /\ q.pc # "checkCompensation"
      /\ q.pc # "findWallet" /\ q.pc # "compareRelease" /\ q.pc # "writeRelease"
      /\ q.pc # "writeEntry"
  BY DEF WithTransaction, InsertsPC, ReleasePC
<1> QED BY <1>1 DEF LedgerCall, CreditCall, PaymentCall, WrittenCall, RepairCall

\* A call that has a credit in hand.
LEMMA CreditInHand ==
  ASSUME Working, NEW q, NEW type \in CreditType, NEW j \in Job,
         type = "INCOME" \/ ImpactedOf[j] # NoOwner,
         q.pc \in {"compareEntry", "checkCompensation"},
         q.entry = CreditEntry(type, j), q.wallet = Debited(WalletOf(q), q.entry.amount),
         q.pc = "compareEntry" /\ type # "INCOME" => ~IsCredited(type, j),
         type = "INCOME" => j \notin q.incomes,
         type # "INCOME" => j \notin q.compensations,
         RepairCall(q)
  PROVE  LedgerCall(q)
<1>1. q.entry.type = type /\ q.entry.job = j
  BY CreditEntryType
<1>2. CreditCall(q)
  BY <1>1 DEF CreditCall, InsertsPC
<1>3. q.entry.type # "PAYOUT"
  BY <1>1 DEF CreditType
<1>4. PaymentCall(q)
  BY <1>1, <1>3 DEF PaymentCall, MatchesPayout, ReleasePC
<1>5. WrittenCall(q)
  BY DEF WrittenCall
<1> QED BY <1>2, <1>4, <1>5 DEF LedgerCall

\* What is credited has a transaction of whom it is due to.
LEMMA CreditedOwner ==
  ASSUME Kept, NEW type \in CreditType, NEW j, IsCredited(type, j)
  PROVE  \E i \in Of(type) : transactions[i].owner = CreditedTo(type, j) /\ transactions[i].job = j
<1>1. PICK i \in DOMAIN transactions : transactions[i].type = type /\ transactions[i].job = j
  BY DEF IsCredited
<1>2. i \in Credits /\ i \in Of(type)
  BY <1>1 DEF Credits, Of
<1>3. transactions[i].owner = CreditedTo(transactions[i].type, transactions[i].job)
  BY <1>2 DEF Kept, PaymentsMatch
<1> QED BY <1>1, <1>2, <1>3

\* What a handler of a wallet goes on with, where it read and wrote nothing.
LEMMA ReadCall ==
  ASSUME Working, Kept, NEW t \in Thread, NEW p, p = thread[t], NEW q \in Memory,
         WalletMove(p, q), ~Inserts(p, q), ~Updates(p, q)
  PROVE  LedgerCall(q)
<1> USE DEF Working
<1>1. p \in Memory /\ ProcessOK(p) /\ LedgerCall(p) /\ (~Repairs(p) => NothingToRepair(p))
  BY DEF ThreadsOK, Kept, RepairsAlone
<1>2. CreditCall(p) /\ PaymentCall(p) /\ WrittenCall(p) /\ RepairCall(p)
  BY <1>1 DEF LedgerCall
<1>3. KeptAway(p, q) => RepairCall(q)
  BY <1>2 DEF KeptAway, RepairCall
<1>4. NothingToRepair(q) => RepairCall(q) /\ q.incomes = {} /\ q.compensations = {}
  BY DEF NothingToRepair, RepairCall
<1>5. CASE Stops(q)
  BY <1>5, IdleFields, NothingInHand DEF Stops, WithTransaction, NothingToRepair
<1>6. CASE ReadsIncome(p, q)
  <2>1. PICK j \in Job : Take("income", j) /\ q.entry = CreditEntry("INCOME", j)
    BY <1>6 DEF ReadsIncome
  <2>4. /\ q.pc = "compareEntry" /\ NothingToRepair(q)
        /\ q.wallet = Debited(WalletOf(q), q.entry.amount)
    BY <1>6 DEF ReadsIncome
  <2>5. "INCOME" \in CreditType
    BY DEF CreditType
  <2> QED BY <1>4, <2>1, <2>4, <2>5, CreditInHand
<1>7. CASE ReadsCompensation(p, q)
  <2>1. PICK j \in Impacted : q.entry = CreditEntry("RESCHEDULE_SURCHARGE_COMPENSATION", j)
    BY <1>7 DEF ReadsCompensation
  <2>2. j \in Job /\ ImpactedOf[j] # NoOwner
    BY DEF Impacted
  <2>3. /\ q.pc = "checkCompensation" /\ NothingToRepair(q)
        /\ q.wallet = Debited(WalletOf(q), q.entry.amount)
    BY <1>7 DEF ReadsCompensation
  <2>4. "RESCHEDULE_SURCHARGE_COMPENSATION" \in CreditType
    BY DEF CreditType
  <2> QED BY <1>4, <2>1, <2>2, <2>3, <2>4, CreditInHand
<1>8. CASE ReadsForgotten(p, q)
  <2>1. /\ q.pc = "compareEntry" /\ q.wallet = Debited(WalletOf(q), q.entry.amount)
        /\ p.incomes \subseteq Job /\ p.compensations \subseteq Impacted
    BY <1>1, <1>8 DEF ReadsForgotten, Memory
  <2>2. q.incomes \subseteq p.incomes /\ q.compensations \subseteq p.compensations
    BY <1>8 DEF ReadsForgotten
  <2>3. RepairCall(q)
    BY <1>2, <2>2 DEF RepairCall
  <2>4. CASE p.pc = "regenIncome"
    <3>1. PICK j \in p.incomes : q.entry = CreditEntry("INCOME", j) /\ q.incomes = p.incomes \ {j}
      BY <1>8, <2>4 DEF ReadsForgotten
    <3>2. j \in Job /\ j \notin q.incomes
      BY <1>2, <2>1, <3>1 DEF RepairCall
    <3>3. "INCOME" \in CreditType
      BY DEF CreditType
    <3> QED BY <2>1, <2>3, <3>1, <3>2, <3>3, CreditInHand
  <2>5. CASE p.pc = "regenCompensation"
    <3>1. PICK j \in p.compensations :
            /\ q.entry = CreditEntry("RESCHEDULE_SURCHARGE_COMPENSATION", j)
            /\ q.compensations = p.compensations \ {j}
      BY <1>8, <2>5 DEF ReadsForgotten
    <3>2. /\ ~IsCredited("RESCHEDULE_SURCHARGE_COMPENSATION", j) /\ j \in Job
          /\ j \notin q.compensations /\ ImpactedOf[j] # NoOwner
      BY <1>2, <2>1, <3>1 DEF RepairCall, Impacted
    <3>3. "RESCHEDULE_SURCHARGE_COMPENSATION" \in CreditType
      BY DEF CreditType
    <3> QED BY <2>1, <2>3, <3>1, <3>2, <3>3, CreditInHand
  <2> QED BY <1>8, <2>4, <2>5 DEF ReadsForgotten
<1>9. CASE FindsNone(p, q)
  <2>1. /\ p.pc = "checkCompensation" /\ q.pc = "compareEntry" /\ KeptAway(p, q)
        /\ q.entry = p.entry /\ q.wallet = p.wallet
    BY <1>9 DEF FindsNone
  <2>2. EntryOK(p.entry) /\ p.entry.type \in CreditType
    BY <1>1, <1>2, <2>1 DEF ProcessOK, WithTransaction, PaymentCall
  <2>3. PICK type, j : type = p.entry.type /\ j = p.entry.job
    OBVIOUS
  <2>4. /\ p.entry = CreditEntry(type, j) /\ p.wallet = Debited(WalletOf(p), p.entry.amount)
        /\ type = "INCOME" => j \notin p.incomes
        /\ type # "INCOME" => j \notin p.compensations
        /\ type \in CreditType /\ j \in Job
    BY <1>2, <2>1, <2>2, <2>3 DEF CreditCall, EntryOK
  <2>5. p.entry.owner = CreditedTo(type, j)
    <3>1. CreditEntry(type, j).owner = CreditedTo(type, j)
      BY DEF CreditEntry
    <3> QED BY <2>4, <3>1
  <2>6. ~IsCredited(type, j)
    <3>1. ASSUME IsCredited(type, j) PROVE FALSE
      <4>1. PICK i \in Of(type) : transactions[i].owner = CreditedTo(type, j)
                                  /\ transactions[i].job = j
        BY <2>4, <3>1, CreditedOwner
      <4>2. \A k \in Of(type) : \/ transactions[k].owner # p.entry.owner
                                \/ transactions[k].job # j
        BY <1>9, <2>3 DEF FindsNone
      <4> QED BY <2>5, <4>1, <4>2
    <3> QED BY <3>1
  <2>7. type = "INCOME" \/ ImpactedOf[j] # NoOwner
    BY <2>2, <2>4, <2>5, WalletAssumption DEF EntryOK, Transaction, CreditedTo
  <2>8. WalletOf(q) = WalletOf(p) /\ RepairCall(q)
    BY <1>3, <2>1 DEF WalletOf
  <2> QED BY <2>1, <2>4, <2>6, <2>7, <2>8, CreditInHand DEF KeptAway
<1>10. CASE BeginsHold(p, q)
  <2>1. PICK x \in DOMAIN payouts : OfPayout(x) = {} /\ q.entry = PayoutEntry(x)
    BY <1>10 DEF BeginsHold
  <2>2. q.pc = "findWallet" /\ NothingToRepair(q)
    BY <1>10 DEF BeginsHold
  <2>3. q.entry.type = "PAYOUT" /\ q.entry.payout = x /\ MatchesPayout(q.entry)
    BY <2>1, PayoutEntryType DEF MatchesPayout
  <2>4. q.entry.status = "PENDING"
    BY <2>1 DEF PayoutEntry
  <2>5. PaymentCall(q) /\ CreditCall(q) /\ WrittenCall(q)
    BY <2>1, <2>2, <2>3, <2>4 DEF PaymentCall, CreditCall, WrittenCall, InsertsPC, ReleasePC
  <2> QED BY <1>4, <2>2, <2>5 DEF LedgerCall
<1>11. CASE BeginsRelease(p, q)
  <2>1. PICK x \in DOMAIN payouts : q.entry = PayoutEntry(x)
    BY <1>11 DEF BeginsRelease
  <2>2. /\ q.pc = "findPending" /\ NothingToRepair(q)
        /\ q.wallet = Released(WalletOf(q), -q.entry.amount)
    BY <1>11 DEF BeginsRelease
  <2>3. q.entry.type = "PAYOUT" /\ MatchesPayout(q.entry)
    BY <2>1, PayoutEntryType DEF MatchesPayout
  <2>4. PaymentCall(q) /\ CreditCall(q) /\ WrittenCall(q)
    BY <2>2, <2>3 DEF PaymentCall, CreditCall, WrittenCall, InsertsPC
  <2> QED BY <1>4, <2>2, <2>4 DEF LedgerCall
<1>12. CASE FindsWallet(p, q)
  <2>1. /\ p.pc = "findWallet" /\ q.pc = "compareEntry" /\ KeptAway(p, q) /\ q.entry = p.entry
        /\ q.wallet = Held(WalletOf(q), -q.entry.amount)
    BY <1>12 DEF FindsWallet, WalletOf
  <2>2. /\ p.entry.type = "PAYOUT" /\ p.entry.status = "PENDING" /\ MatchesPayout(p.entry)
        /\ OfPayout(p.entry.payout) = {}
    BY <1>2, <2>1 DEF PaymentCall, WithTransaction
  <2>3. PaymentCall(q) /\ CreditCall(q) /\ WrittenCall(q)
    BY <2>1, <2>2 DEF PaymentCall, CreditCall, WrittenCall, ReleasePC, CreditType
  <2> QED BY <1>3, <2>1, <2>3 DEF LedgerCall
<1>13. CASE FindsPending(p, q)
  <2>1. /\ p.pc = "findPending" /\ q.pc = "compareRelease" /\ KeptAway(p, q)
        /\ q.entry = p.entry /\ q.wallet = p.wallet /\ WalletOf(q) = WalletOf(p)
        /\ q.trx \in OfPayout(q.entry.payout) /\ transactions[q.trx].status = "PENDING"
    BY <1>13 DEF FindsPending, WalletOf
  <2>2. /\ p.entry.type = "PAYOUT" /\ MatchesPayout(p.entry)
        /\ p.wallet = Released(WalletOf(p), -p.entry.amount)
    BY <1>2, <2>1 DEF PaymentCall, WithTransaction, ReleasePC
  <2>3. PaymentCall(q) /\ CreditCall(q) /\ WrittenCall(q)
    BY <2>1, <2>2 DEF PaymentCall, CreditCall, WrittenCall, InsertsPC
  <2> QED BY <1>3, <2>1, <2>3 DEF LedgerCall
<1>14. CASE Compares(p, q)
  <2>1. /\ KeptAway(p, q) /\ q.entry = p.entry /\ q.wallet = p.wallet /\ q.trx = p.trx
        /\ WalletOf(q) = WalletOf(p) /\ q.changed = Differing(q.wallet, WalletOf(q))
    BY <1>14 DEF Compares, WalletOf
  <2>2. WrittenCall(q)
    BY <2>1 DEF WrittenCall
  <2>3. CASE p.pc = "compareEntry" /\ q.pc = "writeEntry"
    <3>1. CreditCall(q)
      BY <1>2, <2>1, <2>3 DEF CreditCall, InsertsPC, KeptAway
    <3>2. PaymentCall(q)
      BY <1>2, <2>1, <2>3 DEF PaymentCall, InsertsPC, ReleasePC, WithTransaction
    <3> QED BY <1>3, <2>1, <2>2, <3>1, <3>2 DEF LedgerCall
  <2>4. CASE p.pc = "compareRelease" /\ q.pc = "writeRelease"
    <3>1. CreditCall(q)
      BY <2>4 DEF CreditCall, InsertsPC
    <3>2. PaymentCall(q)
      BY <1>2, <2>1, <2>4 DEF PaymentCall, InsertsPC, ReleasePC, WithTransaction
    <3> QED BY <1>3, <2>1, <2>2, <3>1, <3>2 DEF LedgerCall
  <2> QED BY <1>14, <2>3, <2>4 DEF Compares
<1>15. CASE TurnsToCompensations(p, q)
  <2>1. q.pc = "regenCompensation" /\ KeptAway(p, q)
    BY <1>15 DEF TurnsToCompensations
  <2>2. PaymentCall(q) /\ CreditCall(q) /\ WrittenCall(q)
    BY <2>1 DEF PaymentCall, CreditCall, WrittenCall, InsertsPC, ReleasePC, WithTransaction
  <2> QED BY <1>3, <2>1, <2>2 DEF LedgerCall
<1> QED
  BY <1>5, <1>6, <1>7, <1>8, <1>9, <1>10, <1>11, <1>12, <1>13, <1>14, <1>15 DEF WalletMove

\* A call without a transaction in hand only keeps what it has to repair.
LEMMA OnlyRepairs ==
  ASSUME NEW q, q.pc \notin WithTransaction, RepairCall(q)'
  PROVE  LedgerCall(q)'
<1>1. /\ q.pc \notin InsertsPC /\ q.pc \notin ReleasePC /\ q.pc # "checkCompensation"
      /\ q.pc # "findWallet" /\ q.pc # "compareRelease" /\ q.pc # "writeRelease"
      /\ q.pc # "writeEntry"
  BY DEF WithTransaction, InsertsPC, ReleasePC
<1> QED BY <1>1 DEF LedgerCall, CreditCall, PaymentCall, WrittenCall

\* After its insert, a handler has no transaction in hand, and the others that the
\* repair has to credit are not credited by it.
LEMMA InsertedCall ==
  ASSUME Working, Kept, NEW t \in Thread, NEW p, p = thread[t], NEW q \in Memory,
         Inserts(p, q), UNCHANGED payouts, AnnouncedStay
  PROVE  LedgerCall(q)'
<1> USE DEF Working
<1>1. p \in Memory /\ ProcessOK(p) /\ CreditCall(p) /\ RepairCall(p)
  BY DEF ThreadsOK, Kept, LedgerCall
<1>2. PICK e : e = p.entry
  OBVIOUS
<1>3. /\ p.pc = "writeEntry" /\ q.pc = p.next /\ q.incomes = p.incomes
      /\ q.compensations = p.compensations /\ transactions' = Append(transactions, e)
  BY <1>2 DEF Inserts
<1>4. EntryOK(e) /\ e \in Transaction
  BY <1>1, <1>2, <1>3 DEF ProcessOK, WithTransaction, EntryOK
<1>5. PICK n : n = Len(transactions) + 1
  OBVIOUS
<1>6. /\ DOMAIN transactions' = DOMAIN transactions \cup {n} /\ transactions'[n] = e
      /\ \A i \in DOMAIN transactions : transactions'[i] = transactions[i]
  BY <1>3, <1>4, <1>5, InsertContinues
<1>7. \A type, j : IsCredited(type, j)' => IsCredited(type, j) \/ (e.type = type /\ e.job = j)
  BY <1>6 DEF IsCredited
<1>8. /\ e.type = "INCOME" => e.job \notin p.incomes
      /\ e.type = "RESCHEDULE_SURCHARGE_COMPENSATION" => e.job \notin p.compensations
  BY <1>1, <1>2, <1>3 DEF CreditCall, InsertsPC, CreditType
<1>9. RepairCall(q)'
  BY <1>1, <1>3, <1>7, <1>8 DEF RepairCall, AnnouncedStay, Memory
<1>10. q.pc \notin WithTransaction
  BY <1>1, <1>3 DEF Memory, WithTransaction
<1> QED BY <1>9, <1>10, OnlyRepairs

\* One thread moves on to q, and the calls of the others are spared.
LEMMA OneLedgerCall ==
  ASSUME Working, Kept, NEW t \in Thread, NEW q \in Memory, Become(t, q), LedgerCall(q)',
         \A u \in Thread \ {t} : \A p \in Memory : p = thread[u] => Spares(p)
  PROVE  \A u \in Thread : LedgerCall(thread[u])'
<1>1. thread \in [Thread -> Memory] /\ \A u \in Thread : ProcessOK(thread[u])
  BY DEF Working, ThreadsOK
<1>2. \A u \in Thread : thread'[u] = IF u = t THEN q ELSE thread[u]
  BY <1>1 DEF Become
<1> SUFFICES ASSUME NEW u \in Thread PROVE LedgerCall(thread[u])'
  OBVIOUS
<1>3. PICK p : p = thread'[u]
  OBVIOUS
<1>4. LedgerCall(p)'
  <2>1. CASE u = t
    BY <1>2, <1>3, <2>1
  <2>2. CASE u # t
    <3>1. p \in Memory /\ ProcessOK(p) /\ LedgerCall(p) /\ Spares(p)
      BY <1>1, <1>2, <1>3, <2>2 DEF Kept
    <3> QED BY <3>1, SparedCall
  <2> QED BY <2>1, <2>2
<1> QED BY <1>3, <1>4 DEF LedgerCall, CreditCall, PaymentCall, WrittenCall, RepairCall, IsCredited,
           OfPayout, Of, MatchesPayout, WalletOf

\* No thread moves on, and the step is steady.
LEMMA SameLedgerCalls ==
  ASSUME Working, Kept, Steady, UNCHANGED thread
  PROVE  \A u \in Thread : LedgerCall(thread[u])'
<1> SUFFICES ASSUME NEW u \in Thread PROVE LedgerCall(thread[u])'
  OBVIOUS
<1>1. PICK p : p = thread[u] /\ p = thread'[u]
  OBVIOUS
<1>2. p \in Memory /\ ProcessOK(p) /\ LedgerCall(p)
  BY <1>1 DEF Working, ThreadsOK, Kept
<1>3. Spares(p)
  BY <1>2, SteadySpares
<1>4. LedgerCall(p)'
  BY <1>2, <1>3, SparedCall
<1> QED BY <1>1, <1>4 DEF LedgerCall, CreditCall, PaymentCall, WrittenCall, RepairCall, IsCredited,
           OfPayout, Of, MatchesPayout, WalletOf

\* A move of a wallet's handler keeps what every call has in hand.
LEMMA MoveLedgerCalls ==
  ASSUME Working, Kept, OneCallPerOwner, AnnouncedStay, NEW t \in Thread, Moves(t)
  PROVE  \A u \in Thread : LedgerCall(thread[u])'
<1>1. PICK p : p = thread[t]
  OBVIOUS
<1>2. PICK q \in Memory : Become(t, q) /\ WalletMove(p, q)
  BY <1>1 DEF Moves
<1>3. UNCHANGED <<jobs, payouts>>
  BY DEF Moves
<1>4. p \in Memory
  BY <1>1 DEF Working, ThreadsOK
<1>5. CASE Inserts(p, q) \/ Updates(p, q)
  <2>1. p.pc \in WithTransaction /\ p.pc # "idle"
    BY <1>5 DEF Inserts, Updates, WithTransaction
  <2>2. LedgerCall(q)'
    <3>1. CASE Inserts(p, q)
      BY <1>1, <1>3, <3>1, InsertedCall
    <3>2. CASE Updates(p, q)
      <4>1. q = Idle
        BY <3>2 DEF Updates
      <4> QED BY <4>1, IdleFields, NothingInHand DEF WithTransaction, NothingToRepair
    <3> QED BY <1>5, <3>1, <3>2
  <2>3. ASSUME NEW u \in Thread \ {t}, NEW m \in Memory, m = thread[u] PROVE Spares(m)
    <3>1. ~Repairs(m)
      BY <1>1, <2>1, <2>3 DEF Kept, RepairsAlone, Running
    <3>2. NothingToRepair(m)
      BY <2>3, <3>1 DEF Kept, RepairsAlone
    <3>3. m.incomes = {} /\ m.compensations = {}
      BY <3>2 DEF NothingToRepair
    <3>4. ProcessOK(m) /\ LedgerCall(m)
      BY <2>3 DEF Working, ThreadsOK, Kept
    <3>5. m.pc \in WithTransaction => m.entry.owner # thread[t].entry.owner
      BY <1>1, <2>1, <2>3 DEF OneCallPerOwner
    <3> QED BY <1>1, <1>3, <1>5, <3>3, <3>4, <3>5, WriteSpares
  <2> QED BY <1>2, <2>2, <2>3, OneLedgerCall
<1>6. CASE ~Inserts(p, q) /\ ~Updates(p, q)
  <2>1. UNCHANGED <<wallets, transactions>>
    BY <1>2, <1>6 DEF WalletMove, Stops, ReadsIncome, ReadsCompensation, ReadsForgotten, FindsNone,
         BeginsHold, BeginsRelease, FindsWallet, FindsPending, Compares, TurnsToCompensations
  <2>2. Steady
    BY <1>3, <2>1, UnchangedSteady
  <2>3. LedgerCall(q)
    BY <1>1, <1>2, <1>6, ReadCall
  <2>4. LedgerCall(q)'
    <3>1. RepairCall(q)'
      BY <2>1, <2>3 DEF LedgerCall, RepairCall, IsCredited, AnnouncedStay, Memory
    <3>2. CreditCall(q)' /\ PaymentCall(q)' /\ WrittenCall(q)'
      BY <1>3, <2>1, <2>3 DEF LedgerCall, CreditCall, PaymentCall, WrittenCall,
           IsCredited, OfPayout, Of, MatchesPayout, WalletOf
    <3> QED BY <3>1, <3>2 DEF LedgerCall
  <2>5. ASSUME NEW u \in Thread, NEW m \in Memory, m = thread[u] PROVE Spares(m)
    <3>1. ProcessOK(m)
      BY <2>5 DEF Working, ThreadsOK
    <3> QED BY <2>2, <3>1, SteadySpares
  <2> QED BY <1>2, <2>4, <2>5, OneLedgerCall
<1> QED BY <1>5, <1>6

\* What a request starts, or a call on payouts goes on with, keeps it too.
LEMMA OtherLedgerCalls ==
  ASSUME Working, Kept, Steady, NEW t \in Thread, NEW q \in Memory, Become(t, q),
         \/ q = Idle
         \/ PayoutMove(thread[t], q)
         \/ Starts(q) /\ UNCHANGED <<jobs, transactions>>
  PROVE  \A u \in Thread : LedgerCall(thread[u])'
<1>1. PICK p : p = thread[t]
  OBVIOUS
<1>2. \A type, j : IsCredited(type, j)' => IsCredited(type, j)
  BY DEF Steady, IsCredited
<1>3. LedgerCall(q)'
  <2>1. CASE q = Idle
    BY <2>1, IdleFields, NothingInHand DEF WithTransaction, NothingToRepair
  <2>2. CASE PayoutMove(p, q) /\ q # Idle
    <3>1. q.pc \in PayoutPC /\ KeptAway(p, q)
      BY <2>2 DEF PayoutMove
    <3>2. q.pc \notin WithTransaction
      BY <3>1 DEF PayoutPC, WithTransaction
    <3>3. p \in Memory /\ RepairCall(p)
      BY <1>1 DEF Working, ThreadsOK, Kept, LedgerCall
    <3>4. RepairCall(q)'
      BY <1>2, <3>1, <3>3 DEF RepairCall, KeptAway, Steady, AnnouncedStay, Memory
    <3> QED BY <3>2, <3>4, OnlyRepairs
  <2>3. CASE Starts(q) /\ UNCHANGED <<jobs, transactions>>
    <3>1. q.pc \notin WithTransaction
      BY <2>3 DEF Starts, RepairsForgotten, WithTransaction
    <3>2. CASE NothingToRepair(q)
      BY <3>1, <3>2, NothingInHand DEF NothingToRepair
    <3>3. CASE RepairsForgotten(q)
      <4>1. \A j \in q.incomes \cup q.compensations : j \in Forgotten
        BY <3>3 DEF RepairsForgotten
      <4>2. \A j \in Forgotten : \A type : ~IsCredited(type, j)
        BY DEF Forgotten, IsCredited
      <4>3. \A j \in q.incomes : announced[j] > 0 /\ j \in Job
        BY <3>3, <4>1 DEF RepairsForgotten, Forgotten, Kept, IncomesCounted, IncomeCounted
      <4>4. \A j \in q.incomes : announced'[j] > 0
        BY <4>3 DEF Steady, AnnouncedStay
      <4>5. RepairCall(q)'
        BY <1>2, <4>1, <4>2, <4>4 DEF RepairCall
      <4> QED BY <3>1, <4>5, OnlyRepairs
    <3> QED BY <2>3, <3>2, <3>3 DEF Starts
  <2> QED BY <1>1, <2>1, <2>2, <2>3
<1>4. ASSUME NEW u \in Thread, NEW m \in Memory, m = thread[u] PROVE Spares(m)
  <2>1. ProcessOK(m)
    BY <1>4 DEF Working, ThreadsOK
  <2> QED BY <2>1, SteadySpares
<1> QED BY <1>3, <1>4, OneLedgerCall

\* Every step keeps what every call has in hand.
LEMMA LedgerCallsStep ==
  ASSUME Working, Kept, OneCallPerOwner, Next
  PROVE  \A u \in Thread : LedgerCall(thread[u])'
<1>0. AnnouncedStay
  BY AnnouncedStays DEF Kept, IncomesCounted
<1>1. CASE Request
  <2>1. UNCHANGED <<wallets, transactions, payouts>>
    BY <1>1, RequestStarts
  <2>2. CASE Published
    <3>3. Steady
      BY <1>0, <2>1, UnchangedSteady
    <3> QED BY <2>2, <3>3, SameLedgerCalls DEF Published
  <2>3. ASSUME NEW t \in Thread, Started(t) PROVE \A u \in Thread : LedgerCall(thread[u])'
    <3>1. PICK q \in Memory : Become(t, q) /\ Starts(q)
      BY <2>3 DEF Started
    <3>2. UNCHANGED jobs
      BY <2>3 DEF Started
    <3>3. Steady
      BY <1>0, <2>1, UnchangedSteady
    <3> QED BY <2>1, <3>1, <3>2, <3>3, OtherLedgerCalls
  <2> QED BY <1>1, <2>2, <2>3, RequestStarts
<1>2. CASE Command
  <2>1. ASSUME NEW t \in Thread, WalletStep(t) PROVE \A u \in Thread : LedgerCall(thread[u])'
    BY <1>0, <2>1, StepMoves, MoveLedgerCalls
  <2>2. ASSUME NEW j \in Job, DismissCompensation(j) PROVE \A u \in Thread : LedgerCall(thread[u])'
    <3>1. UNCHANGED <<jobs, wallets, transactions, payouts>> /\ UNCHANGED thread
      BY <2>2 DEF DismissCompensation
    <3> QED BY <1>0, <3>1, UnchangedSteady, SameLedgerCalls
  <2> QED BY <1>2, <2>1, <2>2 DEF Command
<1>3. ASSUME NEW t \in Thread, PayoutStep(t) PROVE \A u \in Thread : LedgerCall(thread[u])'
  <2>1. PICK q \in Memory : Become(t, q) /\ PayoutMove(thread[t], q)
    BY <1>3, PayoutMoves
  <2>2. Steady
    <3>1. CASE SavePayouts(t)
      BY <1>0, <3>1, SavePayoutsSteady
    <3>2. CASE ~SavePayouts(t)
      <4>1. SameDebts
        BY <1>3, <3>2, DebtsStay
      <4>2. UNCHANGED <<jobs, wallets>>
        BY <2>1 DEF PayoutMove
      <4> QED BY <1>0, <4>1, <4>2 DEF Steady, SameDebts, PayoutsStay
    <3> QED BY <3>1, <3>2
  <2> QED BY <2>1, <2>2, OtherLedgerCalls
<1>4. CASE Crash
  <2>1. \A u \in Thread : thread'[u] = Idle
    BY <1>4 DEF Crash
  <2>2. LedgerCall(Idle)'
    BY IdleFields, NothingInHand DEF WithTransaction, NothingToRepair
  <2>3. ASSUME NEW u \in Thread PROVE LedgerCall(thread[u])'
    <3>1. PICK q : q = thread'[u] /\ q = Idle
      BY <2>1
    <3>2. LedgerCall(q)'
      BY <3>1, IdleFields, NothingInHand DEF WithTransaction, NothingToRepair
    <3> QED BY <3>1, <3>2 DEF LedgerCall, CreditCall, PaymentCall, WrittenCall, RepairCall,
             IsCredited, OfPayout, Of, MatchesPayout, WalletOf
  <2> QED BY <2>3
<1> QED BY <1>1, <1>2, <1>3, <1>4 DEF Next, Program

\* The call of t is the only thing in progress, and nothing else may start.
Sole(t) == /\ alone /\ ~Running(t, "idle")
           /\ \A u \in Thread \ {t} : Running(u, "idle")
           /\ \A k \in Task : todo[k] = 0

\* A command that is taken was asked for.
LEMMA TakenTask ==
  ASSUME Working,
         \/ \E k \in Task : Take(k.name, k.id)
         \/ \E j \in Job : Take("income", j) \/ Take("compensation", j)
         \/ \E x \in PayoutId : Take("hold", x) \/ Take("release", x)
  PROVE  \E k \in Task : todo[k] > 0
<1>1. ASSUME NEW j \in Job, NEW name \in {"income", "compensation"}, Take(name, j)
      PROVE  \E k \in Task : todo[k] > 0
  <2>1. [name |-> name, id |-> j] \in Task
    BY DEF Task
  <2> QED BY <1>1, <2>1 DEF Take
<1>2. ASSUME NEW x \in PayoutId, NEW name \in {"hold", "release"}, Take(name, x)
      PROVE  \E k \in Task : todo[k] > 0
  <2>1. [name |-> name, id |-> x] \in Task
    BY DEF Task
  <2> QED BY <1>2, <2>1 DEF Take
<1>3. ASSUME NEW k \in Task, Take(k.name, k.id)
      PROVE  \E i \in Task : todo[i] > 0
  <2>1. k = [name |-> k.name, id |-> k.id]
    BY DEF Task
  <2> QED BY <1>3, <2>1 DEF Take
<1> QED BY <1>1, <1>2, <1>3

\* While it is, every step is one of its own, or a restart.
LEMMA SoleActs ==
  ASSUME Working, Next, ~Crash, NEW t \in Thread, Sole(t)
  PROVE  /\ UNCHANGED alone
         /\ WalletStep(t) \/ PayoutStep(t)
<1> USE DEF Working
<1>1. ~Quiet /\ \A k \in Task : ~(todo[k] > 0)
  BY DEF Quiet, Sole, TodoOK
<1>2. \A call : ~MayStart(call)
  BY <1>1 DEF MayStart, Sole
<1>3. ~Request
  <2>1. ASSUME Request PROVE FALSE
    <3>1. Published \/ \E u \in Thread : Started(u)
      BY <2>1, RequestStarts
    <3>2. \E call : MayStart(call)
      BY <3>1 DEF Published, Fulfil, TestFulfilled, Announce, Fail, Patch, Started, Starts,
         RepairsForgotten
    <3> QED BY <1>2, <3>2
  <2> QED BY <2>1
<1>4. ASSUME NEW j \in Job, DismissCompensation(j) PROVE FALSE
  BY <1>1, <1>4, TakenTask DEF DismissCompensation
<1>5. ASSUME NEW u \in Thread, WalletStep(u) PROVE u = t
  <2>1. ASSUME Running(u, "idle") PROVE FALSE
    <3>1. (\E j \in Job : Income(u, j) \/ Compensate(u, j))
          \/ \E x \in PayoutId : Hold(u, x) \/ Release(u, x)
      BY <1>5, <2>1 DEF WalletStep, CheckCompensation, FindWallet, FindPending, CompareEntry,
           CompareRelease, Compare, WriteEntry, WriteRelease, RegenIncome, RegenCompensation,
           Running
    <3> QED BY <1>1, <3>1, TakenTask DEF Income, Compensate, Hold, Release
  <2> QED BY <2>1 DEF Sole
<1>6. ASSUME NEW u \in Thread, PayoutStep(u) PROVE u = t
  <2>1. thread[u].pc \in PayoutPC
    BY <1>6, PayoutMoves DEF PayoutMove
  <2>2. ~Running(u, "idle")
    BY <2>1 DEF Running, PayoutPC
  <2> QED BY <2>2 DEF Sole
<1>7. CASE Command
  BY <1>4, <1>5, <1>7 DEF Command
<1>8. CASE \E u \in Thread : PayoutStep(u)
  <2>1. PayoutStep(t)
    BY <1>6, <1>8
  <2>2. UNCHANGED alone
    BY <2>1 DEF PayoutStep, SavePayouts, SaveLines, ReadLines, SaveBatch, Send, SaveSentLines,
         CloseBatch, SaveMarked, Increment, CheckPaid, SavePaid, SaveStatus, SaveSettled
  <2> QED BY <2>1, <2>2
<1> QED BY <1>3, <1>7, <1>8 DEF Next, Program

\* What its call becomes by that step.
LEMMA SoleStep ==
  ASSUME Working, Next, ~Crash, NEW t \in Thread, Sole(t)
  PROVE  /\ UNCHANGED alone
         /\ \E q \in Memory : /\ Become(t, q)
                              /\ \/ WalletMove(thread[t], q)
                                 \/ PayoutMove(thread[t], q) /\ (q = Idle \/ UNCHANGED todo)
<1>1. CASE WalletStep(t)
  BY <1>1, SoleActs, StepMoves DEF Moves
<1>2. CASE PayoutStep(t)
  BY <1>2, SoleActs, PayoutMoves DEF PayoutMove
<1> QED BY <1>1, <1>2, SoleActs

\* The repair goes on alone.
LEMMA RepairGoesOn ==
  ASSUME Working, RepairsAlone, Next, ~Crash, NEW t \in Thread, Repairs(thread[t])
  PROVE  RepairsAlone'
<1> USE DEF Working
<1>1. Sole(t)
  BY DEF RepairsAlone, Sole
<1>2. PICK q \in Memory : /\ Become(t, q)
                          /\ \/ WalletMove(thread[t], q)
                             \/ PayoutMove(thread[t], q) /\ (q = Idle \/ UNCHANGED todo)
  BY <1>1, SoleStep
<1>3. alone'
  BY <1>1, SoleStep DEF Sole
<1>4. PICK p : p = thread[t]
  OBVIOUS
<1>5. p \in Memory /\ p.pc # "idle" /\ Repairs(p)
  BY <1>1, <1>4 DEF ThreadsOK, Sole, Running
<1>6. q = Idle \/ (Repairs(q) /\ q.pc # "idle" /\ UNCHANGED todo)
  <2>1. CASE Stops(q) \/ Updates(p, q)
    BY <2>1 DEF Stops, Updates
  <2>2. CASE ReadsForgotten(p, q)
    BY <1>5, <2>2 DEF ReadsForgotten, Repairs
  <2>3. CASE Inserts(p, q)
    BY <1>5, <2>3 DEF Inserts, Repairs, Memory
  <2>4. CASE TurnsToCompensations(p, q)
    BY <1>5, <2>4 DEF TurnsToCompensations, Repairs
  <2>5. CASE FindsNone(p, q) \/ FindsWallet(p, q) \/ FindsPending(p, q) \/ Compares(p, q)
    BY <1>5, <2>5 DEF FindsNone, FindsWallet, FindsPending, Compares, KeptAway, Repairs
  <2>6. CASE PayoutMove(p, q) /\ q # Idle
    BY <1>2, <1>5, <2>6 DEF PayoutMove, KeptAway, Repairs, PayoutPC
  <2>7. ~ReadsIncome(p, q) /\ ~ReadsCompensation(p, q) /\ ~BeginsHold(p, q)
        /\ ~BeginsRelease(p, q)
    BY <1>5 DEF ReadsIncome, ReadsCompensation, BeginsHold, BeginsRelease
  <2> QED BY <1>2, <1>4, <2>1, <2>2, <2>3, <2>4, <2>5, <2>6, <2>7 DEF WalletMove
<1>7. \A u \in Thread : thread'[u] = IF u = t THEN q ELSE thread[u]
  BY <1>2 DEF Become, ThreadsOK
<1>8. ASSUME NEW u \in Thread \ {t}
      PROVE  /\ thread'[u].pc = "idle"
             /\ NothingToRepair(thread'[u]) /\ ~Repairs(thread'[u])
  <2>1. thread'[u] = thread[u] /\ thread[u].pc = "idle"
    BY <1>1, <1>7 DEF Sole, Running
  <2>2. ~Repairs(thread[u])
    BY <1>5, <1>4, <1>8, <2>1 DEF RepairsAlone, Running
  <2>3. NothingToRepair(thread[u])
    BY <1>8, <2>2 DEF RepairsAlone
  <2> QED BY <2>1, <2>2, <2>3
<1>9. q = Idle => ~Repairs(q) /\ NothingToRepair(q)
  BY IdleFields DEF Repairs, NothingToRepair
<1>10. ASSUME NEW u \in Thread, NEW m, m = thread'[u]
       PROVE  /\ ~Repairs(m) => NothingToRepair(m)
              /\ Repairs(m) => /\ alone' /\ thread'[u].pc # "idle"
                               /\ \A v \in Thread \ {u} : thread'[v].pc = "idle"
                               /\ \A k \in Task : todo'[k] = 0
  <2>1. CASE u = t
    <3>1. m = q /\ \A v \in Thread \ {u} : thread'[v].pc = "idle"
      BY <1>7, <1>8, <1>10, <2>1
    <3>2. UNCHANGED todo => \A k \in Task : todo'[k] = 0
      BY <1>1 DEF Sole
    <3> QED BY <1>3, <1>6, <1>9, <1>10, <3>1, <3>2
  <2>2. CASE u # t
    BY <1>8, <1>10, <2>2
  <2> QED BY <2>1, <2>2
<1> QED BY <1>10 DEF RepairsAlone, Repairs, NothingToRepair, Running

\* A call that repairs nothing does not begin to.
LEMMA NoRepairMove ==
  ASSUME NEW p \in Memory, NEW q \in Memory, NothingToRepair(p), ~Repairs(p),
         WalletMove(p, q) \/ PayoutMove(p, q)
  PROVE  NothingToRepair(q) /\ ~Repairs(q)
<1>1. CASE q = Idle
  BY <1>1, IdleFields DEF Repairs, NothingToRepair
<1>2. CASE ReadsIncome(p, q) \/ ReadsCompensation(p, q) \/ BeginsHold(p, q) \/ BeginsRelease(p, q)
  BY <1>2 DEF ReadsIncome, ReadsCompensation, BeginsHold, BeginsRelease, Repairs, NothingToRepair
<1>3. CASE FindsNone(p, q) \/ FindsWallet(p, q) \/ FindsPending(p, q) \/ Compares(p, q)
  BY <1>3 DEF FindsNone, FindsWallet, FindsPending, Compares, KeptAway, Repairs, NothingToRepair
<1>4. CASE Inserts(p, q)
  BY <1>4 DEF Inserts, Repairs, NothingToRepair
<1>5. CASE PayoutMove(p, q) /\ q # Idle
  BY <1>5 DEF PayoutMove, KeptAway, PayoutPC, Repairs, NothingToRepair
<1>6. ~ReadsForgotten(p, q) /\ ~TurnsToCompensations(p, q)
  BY DEF ReadsForgotten, TurnsToCompensations, Repairs
<1>7. Stops(q) \/ Updates(p, q) => q = Idle
  BY DEF Stops, Updates
<1> QED BY <1>1, <1>2, <1>3, <1>4, <1>5, <1>6, <1>7 DEF WalletMove

\* A repair begins when all is quiet, and alone.
LEMMA RepairsStep ==
  ASSUME "regen" \notin Overlapping, Working, RepairsAlone, Next
  PROVE  RepairsAlone'
<1> USE DEF Working
<1>1. CASE Crash
  <2>1. \A u \in Thread : thread'[u] = Idle
    BY <1>1 DEF Crash
  <2>2. NothingToRepair(Idle) /\ ~Repairs(Idle)
    BY IdleFields DEF Repairs, NothingToRepair
  <2>3. \A u \in Thread : NothingToRepair(thread'[u]) /\ ~Repairs(thread'[u])
    BY <2>1, <2>2
  <2> QED BY <2>3 DEF RepairsAlone, Repairs, NothingToRepair
<1>2. CASE ~Crash /\ \E t \in Thread : Repairs(thread[t])
  BY <1>2, RepairGoesOn
<1>3. CASE ~Crash /\ \A t \in Thread : ~Repairs(thread[t])
  <2>1. \A t \in Thread : NothingToRepair(thread[t]) /\ ~Repairs(thread[t])
    BY <1>3 DEF RepairsAlone
  <2>2. \A t \in Thread : thread[t] \in Memory
    BY DEF ThreadsOK
  <2>3. ASSUME \A u \in Thread : \A m : m = thread'[u] => NothingToRepair(m) /\ ~Repairs(m)
        PROVE  RepairsAlone'
    BY <2>3 DEF RepairsAlone, Repairs, NothingToRepair
  <2>4. ASSUME UNCHANGED thread PROVE RepairsAlone'
    BY <2>1, <2>3, <2>4
  <2>5. ASSUME NEW t \in Thread, NEW q, Become(t, q), NothingToRepair(q), ~Repairs(q)
        PROVE  RepairsAlone'
    <3>1. \A u \in Thread : thread'[u] = IF u = t THEN q ELSE thread[u]
      BY <2>5 DEF Become, ThreadsOK
    <3> QED BY <2>1, <2>3, <2>5, <3>1
  <2>6. ASSUME NEW t \in Thread, NEW q \in Memory, Become(t, q),
               WalletMove(thread[t], q) \/ PayoutMove(thread[t], q)
        PROVE  RepairsAlone'
    BY <2>1, <2>2, <2>5, <2>6, NoRepairMove
  <2>7. CASE Request
    <3>1. Published \/ \E u \in Thread : Started(u)
      BY <2>7, RequestStarts
    <3>2. ASSUME NEW t \in Thread, Started(t) PROVE RepairsAlone'
      <4>1. PICK q \in Memory : Become(t, q) /\ Starts(q)
        BY <3>2 DEF Started
      <4>2. UNCHANGED todo
        BY <3>2 DEF Started
      <4>3. CASE ~RepairsForgotten(q)
        <5>1. NothingToRepair(q) /\ ~Repairs(q)
          BY <4>1, <4>3 DEF Starts, NothingToRepair, Repairs
        <5> QED BY <2>5, <4>1, <5>1
      <4>4. CASE RepairsForgotten(q)
        <5>1. Quiet /\ alone' /\ q.pc = "regenIncome"
          BY <4>4 DEF RepairsForgotten, MayStart
        <5>2. \A u \in Thread : thread'[u] = IF u = t THEN q ELSE thread[u]
          BY <4>1 DEF Become, ThreadsOK
        <5>3. \A u \in Thread \ {t} : thread'[u].pc = "idle"
          BY <5>1, <5>2 DEF Quiet, Running
        <5>4. \A k \in Task : todo'[k] = 0
          BY <4>2, <5>1 DEF Quiet
        <5>5. Repairs(q)
          BY <5>1 DEF Repairs
        <5>6. ASSUME NEW u \in Thread, NEW m, m = thread'[u]
              PROVE  /\ ~Repairs(m) => NothingToRepair(m)
                     /\ Repairs(m) => /\ alone' /\ thread'[u].pc # "idle"
                                      /\ \A v \in Thread \ {u} : thread'[v].pc = "idle"
                                      /\ \A k \in Task : todo'[k] = 0
          <6>1. CASE u = t
            BY <5>1, <5>2, <5>3, <5>4, <5>5, <5>6, <6>1
          <6>2. CASE u # t
            <7>1. m = thread[u]
              BY <5>2, <5>6, <6>2
            <7> QED BY <2>1, <7>1
          <6> QED BY <6>1, <6>2
        <5> QED BY <5>6 DEF RepairsAlone, Repairs, NothingToRepair, Running
      <4> QED BY <4>3, <4>4
    <3> QED BY <2>4, <3>1, <3>2 DEF Published
  <2>8. CASE Command
    <3>1. ASSUME NEW t \in Thread, WalletStep(t) PROVE RepairsAlone'
      BY <2>6, <3>1, StepMoves DEF Moves
    <3> QED BY <2>4, <2>8, <3>1 DEF Command, DismissCompensation
  <2>9. ASSUME NEW t \in Thread, PayoutStep(t) PROVE RepairsAlone'
    BY <2>6, <2>9, PayoutMoves
  <2> QED BY <1>3, <2>7, <2>8, <2>9 DEF Next, Program
<1> QED BY <1>1, <1>2, <1>3

\* What is counted of one income stays below what was announced.
LEMMA CountGoesOn ==
  ASSUME NEW j \in Job, IncomeCounted(j), AnnouncedStay,
         NEW c \in Nat, c = Cardinality(Incomes(j))', NEW n \in Nat, n = todo'[IncomeTask(j)],
         NEW h \in Nat, h = Cardinality(Hands(j))', c + n + h <= announced[j],
         jobs'[j] = "FULFILLED" => jobs[j] = "FULFILLED"
  PROVE  IncomeCounted(j)'
<1>1. announced[j] \in Nat /\ announced'[j] \in Nat /\ announced[j] <= announced'[j]
  BY DEF AnnouncedStay
<1>2. c + n + h <= announced'[j]
  BY <1>1
<1>3. jobs'[j] = "FULFILLED" => announced'[j] > 0
  BY <1>1 DEF IncomeCounted
<1>4. IncomeTask(j)' = IncomeTask(j)
  BY DEF IncomeTask
<1> QED BY <1>2, <1>3, <1>4 DEF IncomeCounted

\* The numbers that are counted of an income.
LEMMA IncomeAdds ==
  ASSUME Working, Asked, NEW j \in Job
  PROVE  \E c, n, h, a \in Nat :
           /\ c = Cardinality(Incomes(j)) /\ n = todo[IncomeTask(j)]
           /\ h = Cardinality(Hands(j)) /\ a = announced[j] /\ c + n + h <= a
<1>1. IncomeTask(j) \in Task
  BY DEF IncomeTask, Task
<1>2. todo[IncomeTask(j)] \in Nat
  BY <1>1 DEF Working, TodoOK
<1>3. Cardinality(Incomes(j)) \in Nat
  BY CreditsFinite DEF Incomes
<1>4. Cardinality(Hands(j)) \in Nat
  BY HandsFinite
<1>5. /\ announced[j] \in Nat
      /\ Cardinality(Incomes(j)) + todo[IncomeTask(j)] + Cardinality(Hands(j)) <= announced[j]
  BY DEF Asked, IncomesCounted, IncomeCounted
<1> QED BY <1>2, <1>3, <1>4, <1>5

\* A command that is taken is asked for once less; the others stay.
LEMMA TakeOne ==
  ASSUME Working, NEW j \in Job, NEW name, NEW id, Take(name, id)
  PROVE  IF name = "income" /\ id = j
         THEN todo[IncomeTask(j)] > 0 /\ todo'[IncomeTask(j)] = todo[IncomeTask(j)] - 1
         ELSE todo'[IncomeTask(j)] = todo[IncomeTask(j)]
<1>1. IncomeTask(j) \in Task /\ todo \in [Task -> Nat]
  BY DEF IncomeTask, Task, Working, TodoOK
<1>2. PICK k : k = [name |-> name, id |-> id]
  OBVIOUS
<1>3. todo[k] > 0 /\ todo' = [todo EXCEPT ![k] = @ - 1]
  BY <1>2 DEF Take
<1>4. k = IncomeTask(j) <=> name = "income" /\ id = j
  BY <1>2 DEF IncomeTask
<1> QED BY <1>1, <1>3, <1>4

\* Calls on payouts ask for no income.
LEMMA PayoutsAskNoIncome ==
  ASSUME Working, NEW t \in Thread, PayoutStep(t), NEW j \in Job
  PROVE  todo'[IncomeTask(j)] = todo[IncomeTask(j)]
<1>1. IncomeTask(j) \in Task
  BY DEF IncomeTask, Task
<1>2. ASSUME NEW S, NEW name \in {"hold", "release"}, Publish(Tasks(name, S))
      PROVE  todo'[IncomeTask(j)] = todo[IncomeTask(j)]
  <2>1. IncomeTask(j) \notin Tasks(name, S)
    BY DEF IncomeTask, Tasks
  <2> QED BY <1>1, <1>2, <2>1 DEF Publish
<1>3. CASE SaveLines(t)
  BY <1>2, <1>3 DEF SaveLines, PayoutScheduled
<1>4. CASE SavePaid(t) \/ SaveStatus(t) \/ SaveSettled(t)
  BY <1>2, <1>4 DEF SavePaid, SaveStatus, SaveSettled, PayoutPaid
<1>5. CASE ~SaveLines(t) /\ ~SavePaid(t) /\ ~SaveStatus(t) /\ ~SaveSettled(t)
  BY <1>5 DEF PayoutStep, SavePayouts, ReadLines, SaveBatch, Send, SaveSentLines,
              CloseBatch, SaveMarked, Increment, CheckPaid
<1> QED BY <1>3, <1>4, <1>5

\* A thread that moves on takes an income in hand, or puts it down, or neither.
LEMMA HandsMove ==
  ASSUME Working, NEW t \in Thread, NEW p, p = thread[t], NEW q \in Memory, Become(t, q),
         NEW j
  PROVE  Cardinality(Hands(j))' =
           IF HasInHand(p, j) THEN IF HasInHand(q, j) THEN Cardinality(Hands(j))
                                                      ELSE Cardinality(Hands(j)) - 1
                              ELSE IF HasInHand(q, j) THEN Cardinality(Hands(j)) + 1
                                                      ELSE Cardinality(Hands(j))
<1>1. \A u \in Thread : thread'[u] = IF u = t THEN q ELSE thread[u]
  BY DEF Become, Working, ThreadsOK
<1>2. Hands(j)' = {u \in Thread : HasInHand(thread'[u], j)}
  BY DEF Hands, HasInHand
<1>3. \A u \in Thread : u \in Hands(j) <=> HasInHand(thread[u], j)
  BY DEF Hands
<1>4. t \in Hands(j) <=> HasInHand(p, j)
  BY <1>3
<1>5. \A u : u \in Hands(j) => u \in Thread
  BY DEF Hands
<1>6. Hands(j)' = IF HasInHand(q, j) THEN Hands(j) \cup {t} ELSE Hands(j) \ {t}
  BY <1>1, <1>2, <1>3, <1>5
<1>7. /\ Cardinality(Hands(j) \cup {t}) = IF t \in Hands(j) THEN Cardinality(Hands(j))
                                          ELSE Cardinality(Hands(j)) + 1
      /\ Cardinality(Hands(j) \ {t}) = IF t \in Hands(j) THEN Cardinality(Hands(j)) - 1
                                       ELSE Cardinality(Hands(j))
  BY HandsFinite, FS_AddElement, FS_RemoveElement
<1> QED BY <1>4, <1>6, <1>7

\* A handler has an income in hand when it was asked for or forgotten.
LEMMA TakenInHand ==
  ASSUME Working, Asked, NEW t \in Thread, NEW p, p = thread[t], NEW q \in Memory,
         WalletMove(p, q), NEW j \in Job, HasInHand(q, j), ~HasInHand(p, j)
  PROVE  \/ Take("income", j)
         \/ /\ todo[IncomeTask(j)] = 0 /\ Incomes(j) = {} /\ Hands(j) = {}
            /\ announced[j] > 0 /\ UNCHANGED todo
<1>1. p \in Memory /\ AskedCall(p)
  BY DEF Working, ThreadsOK, Asked
<1>3. q # Idle
  BY IdleFields DEF HasInHand, InsertsPC
<1>4. CASE ReadsIncome(p, q)
  <2>1. PICK i \in Job : Take("income", i) /\ q.entry = CreditEntry("INCOME", i)
    BY <1>4 DEF ReadsIncome
  <2>2. i = j
    BY <2>1 DEF HasInHand, CreditEntry
  <2> QED BY <2>1, <2>2
<1>5. CASE ReadsCompensation(p, q)
  <2>1. q.entry.type = "RESCHEDULE_SURCHARGE_COMPENSATION"
    BY <1>5 DEF ReadsCompensation, CreditEntry
  <2> QED BY <2>1 DEF HasInHand
<1>6. CASE ReadsForgotten(p, q)
  <2>1. p.pc \in {"regenIncome", "regenCompensation"} /\ UNCHANGED todo
    BY <1>6 DEF ReadsForgotten
  <2>2. todo[IncomeTask(j)] = 0
    <3>1. IncomeTask(j) \in Task
      BY DEF IncomeTask, Task
    <3> QED BY <2>1, <3>1 DEF Asked, RepairsAlone, Repairs
  <2>3. q.entry.type = "INCOME"
    BY DEF HasInHand
  <2>4. p.pc = "regenIncome"
    <3>1. \A i : CreditEntry("RESCHEDULE_SURCHARGE_COMPENSATION", i).type # "INCOME"
      BY DEF CreditEntry
    <3>2. p.pc = "regenCompensation" =>
            \E i : q.entry = CreditEntry("RESCHEDULE_SURCHARGE_COMPENSATION", i)
      BY <1>6 DEF ReadsForgotten
    <3> QED BY <2>1, <2>3, <3>1, <3>2
  <2>5. PICK i \in p.incomes : q.entry = CreditEntry("INCOME", i)
    BY <1>6, <2>4 DEF ReadsForgotten
  <2>6. i = j
    BY <2>5 DEF HasInHand, CreditEntry
  <2>7. announced[j] > 0 /\ ~IsCredited("INCOME", j)
    BY <1>1, <2>5, <2>6 DEF AskedCall
  <2>8. Incomes(j) = {}
    BY <2>7 DEF Incomes, CreditsFor, Of, IsCredited
  <2>9. \A u \in Thread \ {t} : thread[u].pc = "idle"
    BY <2>1 DEF Asked, RepairsAlone, Repairs, Running
  <2>10. \A u \in Thread : ~HasInHand(thread[u], j)
    BY <2>9 DEF HasInHand, InsertsPC
  <2>11. Hands(j) = {}
    BY <2>10 DEF Hands
  <2> QED BY <2>1, <2>2, <2>7, <2>8, <2>11
<1>7. CASE FindsNone(p, q) \/ Compares(p, q)
  <2>1. p.pc \in InsertsPC \cup {"checkCompensation"} /\ q.entry = p.entry
    BY <1>7 DEF FindsNone, Compares, HasInHand, InsertsPC
  <2> QED BY <2>1 DEF HasInHand
<1>8. CASE FindsWallet(p, q)
  <2>1. q.entry.type = "PAYOUT"
    BY <1>1, <1>8 DEF FindsWallet, AskedCall
  <2> QED BY <2>1 DEF HasInHand
<1>9. CASE BeginsHold(p, q) \/ BeginsRelease(p, q) \/ FindsPending(p, q)
           \/ TurnsToCompensations(p, q)
  BY <1>9 DEF BeginsHold, BeginsRelease, FindsPending, TurnsToCompensations, HasInHand, InsertsPC
<1>10. CASE Inserts(p, q)
  BY <1>1, <1>10 DEF Inserts, HasInHand, InsertsPC, Memory
<1>11. ~Stops(q) /\ ~Updates(p, q)
  BY <1>3 DEF Stops, Updates
<1> QED BY <1>4, <1>5, <1>6, <1>7, <1>8, <1>9, <1>10, <1>11 DEF WalletMove

\* An income is credited when what a handler has in hand is saved, and only then.
LEMMA CreditedInHand ==
  ASSUME Working, NEW t \in Thread, NEW p, p = thread[t], NEW q \in Memory,
         WalletMove(p, q), NEW j \in Job
  PROVE  Cardinality(Incomes(j))' = IF Inserts(p, q) /\ HasInHand(p, j)
                                    THEN Cardinality(Incomes(j)) + 1
                                    ELSE Cardinality(Incomes(j))
<1> USE DEF Working
<1>1. CASE Inserts(p, q)
  <2>1. PICK c : c = <<"INCOME", j>>
    OBVIOUS
  <2>2. c = <<c[1], c[2]>>
    BY <2>1
  <2>3. Incomes(j) = CreditsFor(c) /\ Incomes(j)' = CreditsFor(c)'
    BY <2>1 DEF Incomes
  <2>4. Cardinality(CreditsFor(c))' = IF c = <<p.entry.type, p.entry.job>>
                                      THEN Cardinality(CreditsFor(c)) + 1
                                      ELSE Cardinality(CreditsFor(c))
    BY <1>1, <2>2, InsertedCredit
  <2>5. c = <<p.entry.type, p.entry.job>> <=> HasInHand(p, j)
    BY <1>1, <2>1 DEF Inserts, HasInHand, InsertsPC
  <2> QED BY <1>1, <2>3, <2>4, <2>5
<1>2. CASE Updates(p, q)
  <2>1. p.pc = "writeRelease"
    BY <1>2 DEF Updates
  <2>2. PICK x : x = p.trx
    OBVIOUS
  <2>3. transactions' = [transactions EXCEPT ![x].status = "SUCCESS"]
    BY <1>2, <2>2 DEF Updates
  <2>4. DOMAIN transactions' = DOMAIN transactions
    BY <2>3
  <2>5. ASSUME NEW i \in DOMAIN transactions
        PROVE  transactions'[i].type = transactions[i].type
               /\ transactions'[i].job = transactions[i].job
    <3>1. PICK r : r = transactions[i]
      OBVIOUS
    <3>2. r \in Transaction
      BY <3>1 DEF RowsOK
    <3>3. transactions'[i] = IF i = x THEN [r EXCEPT !.status = "SUCCESS"] ELSE r
      BY <2>3, <3>1
    <3> QED BY <3>1, <3>2, <3>3 DEF Transaction
  <2>6. Incomes(j)' = Incomes(j)
    BY <2>4, <2>5, SameCredits DEF Incomes
  <2> QED BY <2>1, <2>6 DEF Inserts
<1>3. CASE ~Inserts(p, q) /\ ~Updates(p, q)
  <2>1. UNCHANGED transactions
    BY <1>3 DEF WalletMove, Stops, ReadsIncome, ReadsCompensation, ReadsForgotten, FindsNone,
         BeginsHold, BeginsRelease, FindsWallet, FindsPending, Compares, TurnsToCompensations
  <2> QED BY <1>3, <2>1 DEF Incomes, CreditsFor, Of
<1> QED BY <1>1, <1>2, <1>3

\* A command that a saga started, or a handler, goes on.
LEMMA MoveIncome ==
  ASSUME Working, Asked, AnnouncedStay, NEW t \in Thread, Moves(t), NEW j \in Job
  PROVE  IncomeCounted(j)'
<1>1. PICK p : p = thread[t]
  OBVIOUS
<1>2. PICK q \in Memory : Become(t, q) /\ WalletMove(p, q)
  BY <1>1 DEF Moves
<1>3. UNCHANGED jobs
  BY DEF Moves
<1>4. IncomeCounted(j)
  BY DEF Asked, IncomesCounted
<1>5. UNCHANGED todo \/ \E name, id : Take(name, id)
  BY <1>2 DEF WalletMove, Stops, ReadsIncome, ReadsCompensation, ReadsForgotten, FindsNone,
         BeginsHold, BeginsRelease, FindsWallet, FindsPending, Compares, TurnsToCompensations,
         Inserts, Updates
<1>6. PICK c, n, h, a \in Nat :
        /\ c = Cardinality(Incomes(j)) /\ n = todo[IncomeTask(j)]
        /\ h = Cardinality(Hands(j)) /\ a = announced[j] /\ c + n + h <= a
  BY IncomeAdds
<1>7. PICK m : m = todo'[IncomeTask(j)]
  OBVIOUS
<1>8. m = n \/ (n > 0 /\ m = n - 1)
  BY <1>5, <1>6, <1>7, TakeOne
<1>9. Cardinality(Incomes(j))' = IF Inserts(p, q) /\ HasInHand(p, j) THEN c + 1 ELSE c
  BY <1>1, <1>2, <1>6, CreditedInHand
<1>10. Cardinality(Hands(j))' =
         IF HasInHand(p, j) THEN IF HasInHand(q, j) THEN h ELSE h - 1
                            ELSE IF HasInHand(q, j) THEN h + 1 ELSE h
  BY <1>1, <1>2, <1>6, HandsMove
<1>11. HasInHand(p, j) => h > 0
  <2>1. HasInHand(p, j) => t \in Hands(j)
    BY <1>1 DEF Hands
  <2>2. h = 0 => Hands(j) = {}
    BY <1>6, HandsFinite, FS_EmptySet
  <2> QED BY <1>6, <2>1, <2>2
<1>12. Inserts(p, q) => ~HasInHand(q, j)
  <2>1. p \in Memory
    BY <1>1 DEF Working, ThreadsOK
  <2> QED BY <2>1 DEF Inserts, HasInHand, InsertsPC, Memory
<1>13. CASE ~HasInHand(q, j) \/ HasInHand(p, j)
  <2>1. PICK d, k : d = Cardinality(Incomes(j))' /\ k = Cardinality(Hands(j))'
    OBVIOUS
  <2>2. d \in Nat /\ k \in Nat /\ m \in Nat /\ d + m + k <= a
    BY <1>6, <1>8, <1>9, <1>10, <1>11, <1>12, <1>13, <2>1
  <2> QED BY <1>3, <1>4, <1>6, <1>7, <2>1, <2>2, CountGoesOn
<1>14. CASE HasInHand(q, j) /\ ~HasInHand(p, j)
  <2>1. Cardinality(Incomes(j))' = c /\ Cardinality(Hands(j))' = h + 1
    BY <1>9, <1>10, <1>14
  <2>2. CASE Take("income", j)
    <3>1. n > 0 /\ m = n - 1
      BY <1>6, <1>7, <2>2, TakeOne
    <3>2. m \in Nat /\ h + 1 \in Nat /\ c + m + (h + 1) <= a
      BY <1>6, <3>1
    <3> QED BY <1>3, <1>4, <1>6, <1>7, <2>1, <3>2, CountGoesOn
  <2>3. CASE /\ todo[IncomeTask(j)] = 0 /\ Incomes(j) = {} /\ Hands(j) = {}
             /\ announced[j] > 0 /\ UNCHANGED todo
    <3>1. c = 0 /\ h = 0 /\ n = 0 /\ m = 0 /\ a > 0
      BY <1>6, <1>7, <2>3, FS_EmptySet
    <3>2. m \in Nat /\ h + 1 \in Nat /\ c + m + (h + 1) <= a
      BY <1>6, <3>1
    <3> QED BY <1>3, <1>4, <1>6, <1>7, <2>1, <3>2, CountGoesOn
  <2> QED BY <1>1, <1>2, <1>14, <2>2, <2>3, TakenInHand
<1> QED BY <1>13, <1>14

\* What does not touch the credits, and takes nothing in hand, keeps it.
LEMMA OtherIncome ==
  ASSUME Working, Asked, Steady, NEW j \in Job,
         todo'[IncomeTask(j)] = todo[IncomeTask(j)] \/ todo'[IncomeTask(j)] = 0,
         jobs'[j] = "FULFILLED" => jobs[j] = "FULFILLED",
         \/ UNCHANGED thread
         \/ \E t \in Thread : \E q \in Memory : Become(t, q) /\ q.pc \in PayoutPC \cup {"idle", "regenIncome"}
  PROVE  IncomeCounted(j)'
<1>1. IncomeCounted(j) /\ AnnouncedStay
  BY DEF Asked, IncomesCounted, Steady
<1>2. PICK c, n, h, a \in Nat :
        /\ c = Cardinality(Incomes(j)) /\ n = todo[IncomeTask(j)]
        /\ h = Cardinality(Hands(j)) /\ a = announced[j] /\ c + n + h <= a
  BY IncomeAdds
<1>3. Cardinality(Incomes(j))' = c
  <2>1. Incomes(j)' = Incomes(j)
    BY SameCredits DEF Steady, Incomes
  <2> QED BY <1>2, <2>1
<1>4. PICK k : k = Cardinality(Hands(j))'
  OBVIOUS
<1>5. k \in Nat /\ k <= h
  <2>1. CASE UNCHANGED thread
    <3>1. Hands(j)' = Hands(j)
      BY <2>1 DEF Hands
    <3> QED BY <1>2, <1>4, <3>1
  <2>2. ASSUME NEW t \in Thread, NEW q \in Memory, Become(t, q),
               q.pc \in PayoutPC \cup {"idle", "regenIncome"}
        PROVE  k \in Nat /\ k <= h
    <3>1. ~HasInHand(q, j)
      BY <2>2 DEF HasInHand, InsertsPC, PayoutPC
    <3>2. PICK p : p = thread[t]
      OBVIOUS
    <3>3. k = IF HasInHand(p, j) THEN h - 1 ELSE h
      BY <1>2, <1>4, <2>2, <3>1, <3>2, HandsMove
    <3>4. HasInHand(p, j) => h # 0
      <4>1. HasInHand(p, j) => t \in Hands(j)
        BY <3>2 DEF Hands
      <4>2. h = 0 => Hands(j) = {}
        BY <1>2, HandsFinite, FS_EmptySet
      <4> QED BY <4>1, <4>2
    <3> QED BY <1>2, <3>3, <3>4
  <2> QED BY <2>1, <2>2
<1>6. PICK m : m = todo'[IncomeTask(j)]
  OBVIOUS
<1>7. m \in Nat /\ m <= n
  BY <1>2, <1>6
<1>8. c + m + k <= a
  BY <1>2, <1>5, <1>7
<1> QED BY <1>1, <1>2, <1>3, <1>4, <1>5, <1>6, <1>7, <1>8, CountGoesOn

\* The end of a job asks for its income once more.
LEMMA FulfilIncome ==
  ASSUME Working, Asked, NEW i \in Job, Fulfil(i) \/ TestFulfilled(i), NEW j \in Job
  PROVE  IncomeCounted(j)'
<1>1. IncomeCounted(j) /\ announced \in [Job -> Nat]
  BY DEF Asked, IncomesCounted
<1>2. UNCHANGED <<wallets, transactions, payouts>> /\ UNCHANGED thread
  BY DEF Fulfil, TestFulfilled, Announce
<1>3. jobs' = [jobs EXCEPT ![i] = "FULFILLED"] \/ UNCHANGED jobs
  BY DEF Fulfil, TestFulfilled
<1>4. jobs \in [Job -> JobStatus]
  BY DEF Working, RowsOK
<1>5. IncomeTask(j) \in Task /\ todo \in [Task -> Nat]
  BY DEF IncomeTask, Task, Working, TodoOK
<1>6. todo' = [k \in Task |-> IF k \in Tasks("income", {i}) \cup Tasks("compensation", {i})
                              THEN todo[k] + 1 ELSE todo[k]]
  BY DEF Fulfil, TestFulfilled, Announce, ServiceRequestFulfilled, Publish
<1>7. announced' = [announced EXCEPT ![i] = @ + 1]
  BY DEF Fulfil, TestFulfilled, Announce
<1>8. CASE j = i
  <2>1. PICK c, n, h, a \in Nat :
          /\ c = Cardinality(Incomes(j)) /\ n = todo[IncomeTask(j)]
          /\ h = Cardinality(Hands(j)) /\ a = announced[j] /\ c + n + h <= a
    BY IncomeAdds
  <2>2. IncomeTask(j) \in Tasks("income", {i})
    BY <1>8 DEF IncomeTask, Tasks
  <2>3. todo'[IncomeTask(j)] = n + 1
    BY <1>5, <1>6, <2>1, <2>2
  <2>4. announced'[j] = a + 1
    BY <1>1, <1>7, <1>8, <2>1
  <2>5. Cardinality(Incomes(j))' = c /\ Cardinality(Hands(j))' = h
    <3>1. Incomes(j)' = Incomes(j)
      BY <1>2 DEF Incomes, CreditsFor, Of
    <3>2. Hands(j)' = Hands(j)
      BY <1>2 DEF Hands
    <3> QED BY <2>1, <3>1, <3>2
  <2>6. c + (n + 1) + h <= a + 1 /\ a + 1 > 0
    BY <2>1
  <2>7. IncomeTask(j)' = IncomeTask(j)
    BY DEF IncomeTask
  <2> QED BY <2>3, <2>4, <2>5, <2>6, <2>7 DEF IncomeCounted
<1>9. CASE j # i
  <2>1. IncomeTask(j) \notin Tasks("income", {i}) \cup Tasks("compensation", {i})
    BY <1>9 DEF IncomeTask, Tasks
  <2>2. todo'[IncomeTask(j)] = todo[IncomeTask(j)]
    BY <1>5, <1>6, <2>1
  <2>3. Steady
    <3>1. AnnouncedStay
      BY <1>1, <1>7 DEF AnnouncedStay
    <3> QED BY <1>2, <3>1, UnchangedSteady
  <2>4. jobs'[j] = jobs[j]
    BY <1>3, <1>4, <1>9
  <2> QED BY <1>2, <2>2, <2>3, <2>4, OtherIncome
<1> QED BY <1>8, <1>9

\* Every step counts the incomes.
LEMMA IncomesStep ==
  ASSUME Working, Asked, Next
  PROVE  IncomesCounted'
<1> USE DEF Working
<1>0. AnnouncedStay
  BY AnnouncedStays DEF Asked, IncomesCounted
<1>1. SUFFICES ASSUME NEW j \in Job PROVE IncomeCounted(j)'
  BY <1>0 DEF IncomesCounted, AnnouncedStay
<1>2. IncomeTask(j) \in Task /\ todo \in [Task -> Nat]
  BY DEF IncomeTask, Task, TodoOK
<1>3. CASE Request
  <2>1. UNCHANGED <<wallets, transactions, payouts>> /\ (Published \/ \E t \in Thread : Started(t))
    BY <1>3, RequestStarts
  <2>0. Steady
    BY <1>0, <2>1, UnchangedSteady
  <2>2. ASSUME NEW i \in Job, Fail(i) PROVE IncomeCounted(j)'
    <3>1. jobs' = [jobs EXCEPT ![i] = "FAILED"] /\ jobs \in [Job -> JobStatus] /\ UNCHANGED thread
      BY <2>2 DEF Fail, RowsOK
    <3>2. jobs'[j] = "FULFILLED" => jobs[j] = "FULFILLED"
      BY <3>1
    <3>3. IncomeTask(j) \notin Tasks("compensation", {i})
      BY DEF IncomeTask, Tasks
    <3>4. todo'[IncomeTask(j)] = todo[IncomeTask(j)]
      BY <1>2, <2>2, <3>3 DEF Fail, ServiceRequestRevoked, Publish
    <3> QED BY <2>0, <3>1, <3>2, <3>4, OtherIncome
  <2>3. ASSUME NEW x \in DOMAIN payouts, Patch(x) PROVE IncomeCounted(j)'
    <3>1. UNCHANGED jobs /\ UNCHANGED thread
      BY <2>3 DEF Patch, rows
    <3>3. IncomeTask(j) \notin Tasks("hold", {x})
      BY DEF IncomeTask, Tasks
    <3>4. todo'[IncomeTask(j)] = todo[IncomeTask(j)]
      BY <1>2, <2>3, <3>3 DEF Patch, Publish
    <3> QED BY <2>0, <3>1, <3>4, OtherIncome
  <2>4. ASSUME NEW t \in Thread, Started(t) PROVE IncomeCounted(j)'
    <3>1. PICK q \in Memory : Become(t, q) /\ Starts(q)
      BY <2>4 DEF Started
    <3>2. UNCHANGED <<jobs, todo>>
      BY <2>4 DEF Started
    <3>3. q.pc \in PayoutPC \cup {"idle", "regenIncome"}
      BY <3>1 DEF Starts, RepairsForgotten, PayoutPC
    <3> QED BY <2>0, <3>1, <3>2, <3>3, OtherIncome
  <2> QED BY <2>1, <2>2, <2>3, <2>4, FulfilIncome DEF Published
<1>4. CASE Command
  <2>1. ASSUME NEW i \in Job, DismissCompensation(i) PROVE IncomeCounted(j)'
    <3>1. UNCHANGED <<jobs, wallets, transactions, payouts>> /\ UNCHANGED thread
      BY <2>1 DEF DismissCompensation
    <3>2. Take("compensation", i)
      BY <2>1 DEF DismissCompensation
    <3>3. todo'[IncomeTask(j)] = todo[IncomeTask(j)]
      BY <3>2, TakeOne
    <3>4. Steady
      BY <1>0, <3>1, UnchangedSteady
    <3> QED BY <3>1, <3>3, <3>4, OtherIncome
  <2> QED BY <1>0, <1>4, <2>1, StepMoves, MoveIncome DEF Command
<1>5. ASSUME NEW t \in Thread, PayoutStep(t) PROVE IncomeCounted(j)'
  <2>1. PICK q \in Memory : Become(t, q) /\ PayoutMove(thread[t], q)
    BY <1>5, PayoutMoves
  <2>2. q.pc \in PayoutPC \cup {"idle", "regenIncome"}
    BY <2>1, IdleFields DEF PayoutMove
  <2>3. UNCHANGED <<jobs, wallets>>
    BY <2>1 DEF PayoutMove
  <2>4. Steady
    <3>1. CASE SavePayouts(t)
      BY <1>0, <3>1, SavePayoutsSteady
    <3>2. CASE ~SavePayouts(t)
      <4>1. SameDebts
        BY <1>5, <3>2, DebtsStay
      <4> QED BY <1>0, <2>3, <4>1 DEF Steady, SameDebts, PayoutsStay
    <3> QED BY <3>1, <3>2
  <2>5. todo'[IncomeTask(j)] = todo[IncomeTask(j)]
    BY <1>5, PayoutsAskNoIncome
  <2> QED BY <2>1, <2>2, <2>3, <2>4, <2>5, OtherIncome
<1>6. CASE Crash
  <2>1. todo'[IncomeTask(j)] = 0
    BY <1>2, <1>6 DEF Crash
  <2>2. UNCHANGED <<jobs, wallets, transactions, payouts>>
    BY <1>6 DEF Crash, rows
  <2>3. \A u \in Thread : thread'[u] = Idle
    BY <1>6 DEF Crash
  <2>4. \A u \in Thread : ~HasInHand(thread'[u], j)
    BY <2>3, IdleFields DEF HasInHand, InsertsPC
  <2>5. Hands(j)' = {}
    BY <2>4 DEF Hands
  <2>6. Cardinality(Hands(j))' = 0
    BY <2>5, FS_EmptySet
  <2>7. PICK c, n, h, a \in Nat :
          /\ c = Cardinality(Incomes(j)) /\ n = todo[IncomeTask(j)]
          /\ h = Cardinality(Hands(j)) /\ a = announced[j] /\ c + n + h <= a
    BY IncomeAdds
  <2>8. Cardinality(Incomes(j))' = c
    BY <2>2, <2>7 DEF Incomes, CreditsFor, Of
  <2>9. 0 \in Nat /\ c + 0 + 0 <= a
    BY <2>7
  <2>10. IncomeCounted(j)
    BY DEF Asked, IncomesCounted
  <2> QED BY <1>0, <2>1, <2>2, <2>6, <2>7, <2>8, <2>9, <2>10, CountGoesOn
<1> QED BY <1>3, <1>4, <1>5, <1>6 DEF Next, Program

\* At the start nothing was credited, held or asked for.
LEMMA KeptInit == Init => Kept
<1> SUFFICES ASSUME Init PROVE Kept
  OBVIOUS
<1>1. transactions = << >> /\ \A t \in Thread : thread[t] = Idle
  BY DEF Init
<1>2. \A k \in Task : todo[k] = 0
  BY DEF Init
<1>3. \A type, j : ~IsCredited(type, j)
  BY <1>1 DEF IsCredited
<1>4. Of("PAYOUT") = {} /\ Credits = {}
  BY <1>1 DEF Of, Credits
<1>5. /\ Idle.incomes = {} /\ Idle.compensations = {} /\ Idle.next = "idle" /\ Idle.pc = "idle"
      /\ Idle.pc \notin WithTransaction
  BY DEF Idle, WithTransaction
<1>6. PaymentsMatch
  BY <1>1, <1>4 DEF PaymentsMatch
<1>7. RepairsAlone
  BY <1>1, <1>5 DEF RepairsAlone, Repairs, NothingToRepair
<1>8. IncomesCounted
  <2>1. ASSUME NEW j \in Job PROVE IncomeCounted(j)
    <3>1. Hands(j) = {}
      BY <1>1, <1>5 DEF Hands, HasInHand, InsertsPC
    <3>2. Incomes(j) = {}
      BY <1>1 DEF Incomes, CreditsFor, Of
    <3>3. todo[IncomeTask(j)] = 0
      BY <1>2 DEF IncomeTask, Task
    <3>4. Cardinality(Hands(j)) = 0 /\ Cardinality(Incomes(j)) = 0
      BY <3>1, <3>2, FS_EmptySet
    <3>5. announced[j] = 0 /\ jobs[j] = "OPEN"
      BY DEF Init
    <3> QED BY <3>3, <3>4, <3>5 DEF IncomeCounted
  <2>2. announced \in [Job -> Nat]
    BY DEF Init
  <2> QED BY <2>1, <2>2 DEF IncomesCounted
<1>9. \A t \in Thread : LedgerCall(thread[t])
  BY <1>1, <1>5 DEF LedgerCall, CreditCall, PaymentCall, WrittenCall, RepairCall, InsertsPC,
     ReleasePC, WithTransaction
<1> QED BY <1>6, <1>7, <1>8, <1>9 DEF Kept

\* Where a repair is not made beside other calls, and no two calls are at work on one
\* owner's wallet, each step keeps it.
LEMMA KeptStep ==
  ASSUME "regen" \notin Overlapping, Typed, Typed', Kept, OneCallPerOwner, [Next]_vars
  PROVE  Kept'
<1>1. Working /\ Working'
  BY DEF Typed, Working
<1>2. CASE Next
  BY <1>1, <1>2, KeptIsAsked, MatchStep, RepairsStep, IncomesStep, LedgerCallsStep DEF Kept
<1>3. CASE UNCHANGED vars
  <2>1. /\ UNCHANGED <<jobs, wallets, transactions, payouts, todo, alone, announced>>
        /\ UNCHANGED thread
    BY <1>3 DEF vars, rows
  <2>2. Steady
    <3>1. AnnouncedStay
      BY <2>1 DEF Kept, IncomesCounted, AnnouncedStay
    <3> QED BY <2>1, <3>1, UnchangedSteady
  <2>3. \A u \in Thread : LedgerCall(thread[u])'
    BY <1>1, <2>1, <2>2, SameLedgerCalls
  <2>4. PaymentsMatch'
    BY <2>1 DEF Kept, PaymentsMatch, MatchesPayout, Of, Credits
  <2>5. RepairsAlone'
    BY <2>1 DEF Kept, RepairsAlone, Repairs, NothingToRepair, Running
  <2>6. IncomesCounted'
    <3>1. \A j : Incomes(j)' = Incomes(j) /\ Hands(j)' = Hands(j) /\ IncomeTask(j)' = IncomeTask(j)
      BY <2>1 DEF Incomes, CreditsFor, Of, Hands, IncomeTask
    <3> QED BY <2>1, <3>1 DEF Kept, IncomesCounted, IncomeCounted
  <2> QED BY <2>3, <2>4, <2>5, <2>6 DEF Kept
<1> QED BY <1>2, <1>3

\* The first state is one of the ledger's.
LEMMA LedgerInit == Init => L!Init
<1> SUFFICES ASSUME Init PROVE L!Init
  OBVIOUS
<1>1. transactions = << >> /\ wallets = [o \in Owner |-> NewWallet]
  BY DEF Init
<1>2. Of("PAYOUT") = {} /\ Credits = {}
  BY <1>1 DEF Of, Credits
<1>3. NewWallet.available = 0 /\ NewWallet.hold = 0
  BY DEF NewWallet
<1>4. Accounts = [o \in Owner |-> [available |-> 0, hold |-> 0]]
  BY <1>1, <1>3 DEF Accounts
<1>5. CreditedCounts = [c \in Claims |-> 0] /\ Payments = {}
  <2>1. \A c \in Claims : CreditsFor(c) = {}
    BY <1>1 DEF CreditsFor, Of
  <2> QED BY <1>2, <2>1, FS_EmptySet DEF CreditedCounts, Payments
<1>6. DueCounts \in [Claims -> Nat]
  <2>1. ASSUME NEW c \in Claims PROVE DueCounts[c] \in Nat
    <3>1. c[2] \in Job
      BY DEF Claims
    <3>2. announced[c[2]] = 0
      BY <3>1 DEF Init
    <3> QED BY <3>2 DEF DueCounts
  <2> QED BY <2>1 DEF DueCounts
<1> QED BY <1>4, <1>5, <1>6, Zenon
        DEF L!Init, Accounts, CreditedCounts, DueCounts, Payments, Payment

------------------------------------------------------------------------------
(* Which calls are of different owners *)

\* Whose wallet a command will be at work on.
Target(k) == IF k.name = "income" THEN DispatcherOf[k.id]
             ELSE IF k.name = "compensation" THEN ImpactedOf[k.id] ELSE payouts[k.id].owner

OneEach(S) == \A x, y \in S : payouts[x].owner = payouts[y].owner => x = y

\* What is asked for and what is in progress is of different owners; the calls on
\* payouts are on their own.
Apart ==
  /\ \A k \in Task : todo[k] \in {0, 1}
  /\ \A k, l \in Task : todo[k] > 0 /\ todo[l] > 0 /\ Target(k) = Target(l) => k = l
  /\ \A t \in Thread, k \in Task :
       thread[t].pc \in WithTransaction /\ todo[k] > 0 => Target(k) # thread[t].entry.owner
  /\ OneCallPerOwner
  /\ \A t \in Thread : thread[t].pc \in PayoutPC =>
       /\ \A u \in Thread \ {t} : Running(u, "idle")
       /\ \A k \in Task : todo[k] = 0
  /\ \A t \in Thread : thread[t].pc \in {"saveLines", "saveStatus"} => OneEach(thread[t].rows)
  /\ \A t \in Thread : thread[t].pc # "saveSettled"

\* Only the call of t is in progress, and nothing is asked for.
LEMMA ApartCall ==
  ASSUME Working, NEW t \in Thread, NEW q \in Memory, Become(t, q),
         \A u \in Thread \ {t} : Running(u, "idle"), \A k \in Task : todo'[k] = 0,
         q.pc \in {"saveLines", "saveStatus"} => OneEach(q.rows)', q.pc # "saveSettled"
  PROVE  Apart'
<1>1. \A u \in Thread : thread'[u] = IF u = t THEN q ELSE thread[u]
  BY DEF Become, Working, ThreadsOK
<1>2. \A u \in Thread \ {t} : thread'[u].pc = "idle"
  BY <1>1 DEF Running
<1>3. "idle" \notin WithTransaction /\ "idle" \notin PayoutPC
  BY DEF WithTransaction, PayoutPC
<1>4. \A k \in Task : todo'[k] \in {0, 1} /\ ~(todo'[k] > 0)
  OBVIOUS
<1>5. OneCallPerOwner'
  BY <1>2, <1>3 DEF OneCallPerOwner
<1>6. ASSUME NEW u \in Thread, thread'[u].pc \in PayoutPC
      PROVE  \A v \in Thread \ {u} : thread'[v].pc = "idle"
  BY <1>2, <1>3, <1>6
<1>7. ASSUME NEW u \in Thread, thread'[u].pc \in {"saveLines", "saveStatus"}
      PROVE  OneEach(thread[u].rows)'
  <2>1. u = t
    BY <1>2, <1>7
  <2>2. thread'[u].rows = q.rows /\ q.pc \in {"saveLines", "saveStatus"}
    BY <1>1, <1>7, <2>1
  <2> QED BY <2>2 DEF OneEach
<1>8. \A u \in Thread : thread'[u].pc # "saveSettled"
  BY <1>1, <1>2
<1> QED BY <1>4, <1>5, <1>6, <1>7, <1>8 DEF Apart, Running

\* Only commands are asked for, once each and of different owners.
LEMMA ApartTasks ==
  ASSUME \A u \in Thread : thread'[u].pc = "idle", NEW S,
         \A k \in Task : todo'[k] = IF k \in S THEN 1 ELSE 0,
         \A k, l \in S : Target(k)' = Target(l)' => k = l
  PROVE  Apart'
<1>1. "idle" \notin WithTransaction /\ "idle" \notin PayoutPC
  BY DEF WithTransaction, PayoutPC
<1>2. \A k \in Task : todo'[k] \in {0, 1} /\ (todo'[k] > 0 => k \in S)
  OBVIOUS
<1>3. \A k, l \in Task : todo'[k] > 0 /\ todo'[l] > 0 /\ Target(k)' = Target(l)' => k = l
  BY <1>2
<1>4. OneCallPerOwner'
  BY <1>1 DEF OneCallPerOwner
<1> QED BY <1>1, <1>2, <1>3, <1>4 DEF Apart

\* What is asked for when all was quiet.
LEMMA ApartPublished ==
  ASSUME Working, NEW S, Publish(S), \A k \in Task : todo[k] = 0,
         \A u \in Thread : thread'[u].pc = "idle",
         \A k, l \in S : Target(k)' = Target(l)' => k = l
  PROVE  Apart'
<1>1. \A k \in Task : todo'[k] = IF k \in S THEN 1 ELSE 0
  BY DEF Publish
<1> QED BY <1>1, ApartTasks

\* A command that is taken is asked for no more.
LEMMA TakeLess ==
  ASSUME Working, Apart, NEW k \in Task, Take(k.name, k.id)
  PROVE  /\ todo[k] > 0 /\ todo'[k] = 0
         /\ \A l \in Task : l # k => todo'[l] = todo[l]
<1>1. k = [name |-> k.name, id |-> k.id] /\ todo \in [Task -> Nat]
  BY DEF Task, Working, TodoOK
<1>2. todo[k] > 0 /\ todo' = [todo EXCEPT ![k] = @ - 1]
  BY <1>1 DEF Take
<1>3. todo[k] = 1
  <2>1. todo[k] \in {0, 1}
    BY DEF Apart
  <2> QED BY <1>2, <2>1
<1>4. todo'[k] = 0
  BY <1>1, <1>2, <1>3
<1>5. \A l \in Task : l # k => todo'[l] = todo[l]
  BY <1>1, <1>2
<1> QED BY <1>2, <1>4, <1>5

\* What a handler has in hand it had, or was asked for, or is the repair's.
LEMMA TakenCall ==
  ASSUME Working, NEW p \in Memory, NEW q \in Memory, WalletMove(p, q)
  PROVE  /\ UNCHANGED todo \/ \E k \in Task : Take(k.name, k.id)
         /\ q.pc \in WithTransaction =>
              \/ p.pc \in WithTransaction /\ q.entry = p.entry /\ UNCHANGED todo
              \/ \E k \in Task : Take(k.name, k.id) /\ Target(k) = q.entry.owner
              \/ Repairs(p) /\ UNCHANGED todo
         /\ q.pc \notin PayoutPC
         /\ p.pc = "idle" => \/ q = Idle
                             \/ \E k \in Task : Take(k.name, k.id)
<1> USE DEF Working
<1>1. q = Idle => q.pc \notin WithTransaction /\ q.pc \notin PayoutPC
  BY IdleFields DEF WithTransaction, PayoutPC
<1>2. CASE Stops(q)
  BY <1>1, <1>2 DEF Stops
<1>3. CASE Updates(p, q)
  BY <1>1, <1>3 DEF Updates
<1>4. CASE ReadsIncome(p, q)
  <2>1. PICK j \in Job : Take("income", j) /\ q.entry = CreditEntry("INCOME", j)
    BY <1>4 DEF ReadsIncome
  <2>2. q.entry.owner = DispatcherOf[j]
    BY <2>1 DEF CreditEntry, CreditedTo
  <2>3. PICK k : k = [name |-> "income", id |-> j]
    OBVIOUS
  <2>4. k \in Task /\ k.name = "income" /\ k.id = j /\ Take(k.name, k.id)
    BY <2>1, <2>3 DEF Task
  <2>5. Target(k) = q.entry.owner
    BY <2>2, <2>4 DEF Target
  <2> QED BY <1>4, <2>4, <2>5 DEF ReadsIncome, PayoutPC
<1>5. CASE ReadsCompensation(p, q)
  <2>1. PICK j \in Job : /\ Take("compensation", j)
                         /\ q.entry = CreditEntry("RESCHEDULE_SURCHARGE_COMPENSATION", j)
    BY <1>5 DEF ReadsCompensation, Impacted
  <2>2. q.entry.owner = ImpactedOf[j]
    BY <2>1 DEF CreditEntry, CreditedTo
  <2>3. PICK k : k = [name |-> "compensation", id |-> j]
    OBVIOUS
  <2>4. k \in Task /\ k.name = "compensation" /\ k.id = j /\ Take(k.name, k.id)
    BY <2>1, <2>3 DEF Task
  <2>5. Target(k) = q.entry.owner
    BY <2>2, <2>4 DEF Target
  <2> QED BY <1>5, <2>4, <2>5 DEF ReadsCompensation, PayoutPC
<1>6. CASE BeginsHold(p, q) \/ BeginsRelease(p, q)
  <2>1. PICK x \in DOMAIN payouts, name \in {"hold", "release"} :
          Take(name, x) /\ q.entry = PayoutEntry(x)
    BY <1>6 DEF BeginsHold, BeginsRelease
  <2>2. q.entry.owner = payouts[x].owner
    BY <2>1 DEF PayoutEntry
  <2>3. PICK k : k = [name |-> name, id |-> x]
    OBVIOUS
  <2>4. x \in PayoutId
    <3>1. DOMAIN payouts = 1..Len(payouts) /\ Len(payouts) \in Nat /\ Len(payouts) <= MaxPayouts
      BY DEF RowsOK
    <3> QED BY <3>1, WalletAssumption DEF PayoutId
  <2>5. k \in Task /\ k.name = name /\ k.id = x /\ Take(k.name, k.id)
    BY <2>1, <2>3, <2>4 DEF Task
  <2>6. Target(k) = q.entry.owner
    BY <2>2, <2>5 DEF Target
  <2>7. q.pc \notin PayoutPC
    BY <1>6 DEF BeginsHold, BeginsRelease, PayoutPC
  <2> QED BY <2>5, <2>6, <2>7
<1>7. CASE ReadsForgotten(p, q)
  BY <1>7 DEF ReadsForgotten, Repairs, PayoutPC
<1>8. CASE FindsNone(p, q) \/ FindsWallet(p, q) \/ FindsPending(p, q) \/ Compares(p, q)
  <2>1. /\ p.pc \in WithTransaction /\ p.pc # "idle" /\ q.entry = p.entry /\ UNCHANGED todo
        /\ q.pc \notin PayoutPC
    BY <1>8 DEF FindsNone, FindsWallet, FindsPending, Compares, WithTransaction, PayoutPC
  <2> QED BY <2>1
<1>9. CASE TurnsToCompensations(p, q)
  BY <1>9 DEF TurnsToCompensations, WithTransaction, PayoutPC
<1>10. CASE Inserts(p, q)
  BY <1>10 DEF Inserts, Memory, WithTransaction, PayoutPC
<1> QED BY <1>2, <1>3, <1>4, <1>5, <1>6, <1>7, <1>8, <1>9, <1>10 DEF WalletMove

\* A handler goes on beside calls for other owners.
LEMMA ApartMove ==
  ASSUME Working, Apart, RepairsAlone, NEW t \in Thread, Moves(t)
  PROVE  Apart'
<1> USE DEF Working
<1>1. PICK p : p = thread[t]
  OBVIOUS
<1>2. PICK q \in Memory : Become(t, q) /\ WalletMove(p, q)
  BY <1>1 DEF Moves
<1>3. p \in Memory
  BY <1>1 DEF ThreadsOK
<1>4. /\ UNCHANGED todo \/ \E k \in Task : Take(k.name, k.id)
      /\ q.pc \in WithTransaction =>
           \/ p.pc \in WithTransaction /\ q.entry = p.entry /\ UNCHANGED todo
           \/ \E k \in Task : Take(k.name, k.id) /\ Target(k) = q.entry.owner
           \/ Repairs(p) /\ UNCHANGED todo
      /\ q.pc \notin PayoutPC
      /\ p.pc = "idle" => q = Idle \/ \E k \in Task : Take(k.name, k.id)
  BY <1>2, <1>3, TakenCall
<1>5. \A u \in Thread : thread'[u] = IF u = t THEN q ELSE thread[u]
  BY <1>2 DEF Become, ThreadsOK
<1>6. \A k \in Task : Target(k)' = Target(k)
  BY DEF Moves, Target
<1>7. \A k \in Task : todo'[k] \in {0, 1} /\ (todo'[k] > 0 => todo[k] > 0)
  <2>1. CASE UNCHANGED todo
    BY <2>1 DEF Apart
  <2>2. ASSUME NEW l \in Task, Take(l.name, l.id)
        PROVE  \A k \in Task : todo'[k] \in {0, 1} /\ (todo'[k] > 0 => todo[k] > 0)
    <3>1. todo'[l] = 0 /\ \A k \in Task : k # l => todo'[k] = todo[k]
      BY <2>2, TakeLess
    <3>2. \A k \in Task : todo[k] \in {0, 1}
      BY DEF Apart
    <3> QED BY <3>1, <3>2
  <2> QED BY <1>4, <2>1, <2>2
<1>8. \A k, l \in Task : todo'[k] > 0 /\ todo'[l] > 0 /\ Target(k)' = Target(l)' => k = l
  BY <1>6, <1>7 DEF Apart
<1>9. ASSUME q.pc \in WithTransaction
      PROVE  /\ \A k \in Task : todo'[k] > 0 => Target(k) # q.entry.owner
             /\ \A u \in Thread \ {t} :
                  thread[u].pc \in WithTransaction => thread[u].entry.owner # q.entry.owner
  <2>1. CASE p.pc \in WithTransaction /\ q.entry = p.entry /\ UNCHANGED todo
    <3>1. \A k \in Task : todo'[k] > 0 => Target(k) # q.entry.owner
      BY <1>1, <1>7, <2>1 DEF Apart
    <3>2. \A u \in Thread \ {t} :
            thread[u].pc \in WithTransaction => thread[u].entry.owner # p.entry.owner
      BY <1>1, <2>1 DEF Apart, OneCallPerOwner
    <3> QED BY <2>1, <3>1, <3>2
  <2>2. ASSUME NEW l \in Task, Take(l.name, l.id), Target(l) = q.entry.owner
        PROVE  /\ \A k \in Task : todo'[k] > 0 => Target(k) # q.entry.owner
               /\ \A u \in Thread \ {t} :
                    thread[u].pc \in WithTransaction => thread[u].entry.owner # q.entry.owner
    <3>1. todo[l] > 0 /\ todo'[l] = 0
      BY <2>2, TakeLess
    <3>2. ASSUME NEW k \in Task, todo'[k] > 0 PROVE Target(k) # Target(l)
      <4>1. k # l
        BY <3>1, <3>2
      <4>2. todo[k] > 0
        BY <1>7, <3>2
      <4> QED BY <3>1, <4>1, <4>2 DEF Apart
    <3>3. \A u \in Thread \ {t} :
            thread[u].pc \in WithTransaction => Target(l) # thread[u].entry.owner
      BY <3>1 DEF Apart
    <3> QED BY <2>2, <3>2, <3>3
  <2>3. CASE Repairs(p) /\ UNCHANGED todo
    <3>1. /\ \A u \in Thread \ {t} : thread[u].pc = "idle"
          /\ \A k \in Task : todo[k] = 0
      BY <1>1, <2>3 DEF RepairsAlone, Running
    <3>2. "idle" \notin WithTransaction
      BY DEF WithTransaction
    <3>3. \A k \in Task : ~(todo'[k] > 0)
      BY <2>3, <3>1
    <3> QED BY <3>1, <3>2, <3>3
  <2> QED BY <1>4, <1>9, <2>1, <2>2, <2>3
<1>10. ASSUME NEW u \in Thread, NEW k \in Task, thread'[u].pc \in WithTransaction, todo'[k] > 0
       PROVE  Target(k)' # thread'[u].entry.owner
  <2>1. CASE u = t
    <3>1. thread'[u] = q
      BY <1>5, <2>1
    <3> QED BY <1>6, <1>9, <1>10, <3>1
  <2>2. CASE u # t
    <3>1. thread'[u] = thread[u] /\ todo[k] > 0
      BY <1>5, <1>7, <1>10, <2>2
    <3>2. Target(k) # thread[u].entry.owner
      BY <1>10, <3>1 DEF Apart
    <3> QED BY <1>6, <3>1, <3>2
  <2> QED BY <2>1, <2>2
<1>11. OneCallPerOwner'
  <2>1. SUFFICES ASSUME NEW u \in Thread, NEW v \in Thread, u # v,
                        thread'[u].pc \in WithTransaction, thread'[v].pc \in WithTransaction
                 PROVE  thread'[u].entry.owner # thread'[v].entry.owner
    BY DEF OneCallPerOwner
  <2>2. CASE u = t
    BY <1>5, <1>9, <2>1, <2>2
  <2>3. CASE v = t
    BY <1>5, <1>9, <2>1, <2>3
  <2>4. CASE u # t /\ v # t
    BY <1>5, <2>1, <2>4 DEF Apart, OneCallPerOwner
  <2> QED BY <2>2, <2>3, <2>4
<1>12. ASSUME NEW u \in Thread, thread'[u].pc \in PayoutPC
       PROVE  /\ \A v \in Thread \ {u} : thread'[v].pc = "idle"
              /\ \A k \in Task : todo'[k] = 0
  <2>1. u # t /\ thread[u].pc \in PayoutPC
    BY <1>4, <1>5, <1>12
  <2>2. /\ \A v \in Thread \ {u} : thread[v].pc = "idle"
        /\ \A k \in Task : todo[k] = 0
    BY <2>1 DEF Apart, Running
  <2>3. ~\E k \in Task : Take(k.name, k.id)
    <3>1. \A k \in Task : ~(todo[k] > 0)
      BY <2>2
    <3> QED BY <3>1, TakeLess
  <2>4. p.pc = "idle"
    BY <1>1, <2>1, <2>2
  <2>5. q = Idle /\ UNCHANGED todo
    BY <1>4, <2>3, <2>4
  <2> QED BY <1>5, <2>2, <2>5, IdleFields
<1>13. ASSUME NEW u \in Thread, thread'[u].pc \in {"saveLines", "saveStatus"}
       PROVE  OneEach(thread[u].rows)'
  <2>1. u # t
    BY <1>4, <1>5, <1>13 DEF PayoutPC
  <2>2. thread'[u] = thread[u] /\ UNCHANGED payouts
    BY <1>5, <2>1 DEF Moves
  <2>3. OneEach(thread[u].rows)
    BY <1>13, <2>2 DEF Apart
  <2> QED BY <2>2, <2>3 DEF OneEach
<1>14. \A u \in Thread : thread'[u].pc # "saveSettled"
  BY <1>4, <1>5 DEF Apart, PayoutPC
<1> QED BY <1>7, <1>8, <1>10, <1>11, <1>12, <1>13, <1>14 DEF Apart, Running

\* Only the creation of payouts leads to that of lines, and nothing to a settlement.
LEMMA PayoutGoesOn ==
  ASSUME Working, NEW t \in Thread, PayoutStep(t)
  PROVE  /\ thread'[t].pc = "saveLines" => SavePayouts(t)
         /\ thread'[t].pc # "saveSettled"
<1> DEFINE Other == thread'[t].pc \notin {"saveLines", "saveSettled"}
<1>1. PICK p : p = thread[t]
  OBVIOUS
<1>2. p \in Memory /\ thread \in [Thread -> Memory]
  BY <1>1 DEF Working, ThreadsOK
<1>3. Become(t, Idle) => Other
  BY <1>2, IdleFields DEF Become
<1>4. \A pc : Goto(t, pc) => thread'[t].pc = pc
  BY <1>1, <1>2 DEF Goto, Memory
<1>5. \A m : Become(t, m) => thread'[t] = m
  BY <1>2 DEF Become
<1>6. CASE SaveBatch(t) \/ SaveSentLines(t) \/ SaveMarked(t)
  BY <1>4, <1>6 DEF SaveBatch, SaveSentLines, SaveMarked
<1>7. CASE CloseBatch(t) \/ CheckPaid(t) \/ SaveLines(t) \/ SavePaid(t) \/ SaveStatus(t)
           \/ SaveSettled(t)
  BY <1>3, <1>4, <1>7 DEF CloseBatch, CheckPaid, SaveLines, SavePaid, SaveStatus, SaveSettled,
     Finish
<1>8. CASE ReadLines(t)
  <2>1. \/ Become(t, Idle)
        \/ \E ids, status :
             Become(t, [p EXCEPT !.pc = "saveBatch", !.ids = ids, !.status = status])
    BY <1>1, <1>8 DEF ReadLines
  <2>2. ASSUME NEW ids, NEW status,
               Become(t, [p EXCEPT !.pc = "saveBatch", !.ids = ids, !.status = status])
        PROVE  thread'[t].pc = "saveBatch"
    BY <1>2, <1>5, <2>2 DEF Memory
  <2> QED BY <1>3, <2>1, <2>2
<1>9. CASE Send(t)
  <2>1. CASE Become(t, [thread[t] EXCEPT !.pc = "closeBatch", !.status = "FAILED"])
    BY <1>1, <1>2, <1>5, <2>1 DEF Memory
  <2>2. CASE Become(t, [thread[t] EXCEPT !.sent = TRUE,
                                         !.pc = IF thread[t].status = "IN_TRANSIT"
                                                THEN "saveSentLines" ELSE "closeBatch"])
    <3>1. PICK pc \in {"saveSentLines", "closeBatch"} :
            Become(t, [p EXCEPT !.sent = TRUE, !.pc = pc])
      BY <1>1, <2>2
    <3> QED BY <1>2, <1>5, <3>1 DEF Memory
  <2> QED BY <1>9, <2>1, <2>2 DEF Send
<1>10. CASE Increment(t)
  <2>1. PICK rws : Become(t, [p EXCEPT !.pc = "checkPaid", !.rows = rws])
    BY <1>1, <1>10 DEF Increment
  <2> QED BY <1>2, <1>5, <2>1 DEF Memory
<1>11. CASE SavePayouts(t)
  <2>1. p.ids \subseteq Credits /\ RowsOK
    BY <1>1, <1>11 DEF Working, ThreadsOK, ProcessOK, SavePayouts, Running
  <2>2. PICK Row \in [Payees(t) -> DOMAIN payouts' \ DOMAIN payouts] : PayoutsAre(t, Row)
    BY <1>1, <1>11, <2>1, PayoutsAppended
  <2>3. PICK rws : Become(t, [p EXCEPT !.pc = "saveLines", !.rows = rws])
    BY <1>1, <2>2 DEF PayoutsAre
  <2>4. thread'[t].pc = "saveLines"
    BY <1>2, <1>5, <2>3 DEF Memory
  <2> QED BY <1>11, <2>4
<1> QED BY <1>6, <1>7, <1>8, <1>9, <1>10, <1>11 DEF PayoutStep

\* A call on payouts goes on alone, and when it ends asks for commands.
LEMMA ApartPayoutStep ==
  ASSUME Working, Apart, NEW t \in Thread, PayoutStep(t)
  PROVE  Apart'
<1> USE DEF Working
<1>1. PICK p : p = thread[t]
  OBVIOUS
<1>2. PICK q \in Memory : Become(t, q) /\ PayoutMove(p, q)
  BY <1>1, PayoutMoves
<1>3. p.pc \in PayoutPC /\ (q = Idle \/ q.pc # "saveStatus")
  BY <1>2 DEF PayoutMove
<1>4. (\A u \in Thread \ {t} : Running(u, "idle")) /\ \A k \in Task : todo[k] = 0
  BY <1>1, <1>3 DEF Apart
<1>5. \A u \in Thread : thread'[u] = IF u = t THEN q ELSE thread[u]
  BY <1>2 DEF Become, ThreadsOK
<1>6. ASSUME Become(t, Idle), NEW S, NEW name \in {"hold", "release"}, Publish(Tasks(name, S)),
             OneEach(S)'
      PROVE  Apart'
  <2>1. \A u \in Thread : thread'[u].pc = "idle"
    BY <1>4, <1>6, IdleFields DEF Become, ThreadsOK, Running
  <2>2. \A k, l \in Tasks(name, S) : Target(k)' = Target(l)' => k = l
    <3> SUFFICES ASSUME NEW k \in Tasks(name, S), NEW l \in Tasks(name, S),
                        Target(k)' = Target(l)'
                 PROVE  k = l
      OBVIOUS
    <3>1. /\ k = [name |-> name, id |-> k.id] /\ k.id \in S
          /\ l = [name |-> name, id |-> l.id] /\ l.id \in S
      BY DEF Tasks
    <3>2. payouts'[k.id].owner = payouts'[l.id].owner
      BY <3>1 DEF Target
    <3> QED BY <1>6, <3>1, <3>2 DEF OneEach
  <2> QED BY <1>4, <1>6, <2>1, <2>2, ApartPublished
<1>7. ASSUME UNCHANGED todo, q.pc = "saveLines" => OneEach(q.rows)' PROVE Apart'
  <2>1. \A k \in Task : todo'[k] = 0
    BY <1>4, <1>7
  <2>2. q.pc # "saveStatus" /\ q.pc # "saveSettled"
    BY <1>3, <1>5, IdleFields, PayoutGoesOn
  <2> QED BY <1>2, <1>4, <1>7, <2>1, <2>2, ApartCall
<1>8. CASE SavePayouts(t)
  <2>1. p.ids \subseteq Credits
    BY <1>1, <1>8 DEF ThreadsOK, ProcessOK, SavePayouts, Running
  <2>2. PICK Row \in [Payees(t) -> DOMAIN payouts' \ DOMAIN payouts] : PayoutsAre(t, Row)
    BY <1>1, <1>8, <2>1, PayoutsAppended
  <2>3. Become(t, [p EXCEPT !.pc = "saveLines", !.rows = {Row[o] : o \in Payees(t)}])
    BY <1>1, <2>2 DEF PayoutsAre
  <2>4. q.rows = {Row[o] : o \in Payees(t)}
    <3>1. p \in Memory
      BY <1>1 DEF ThreadsOK
    <3>2. q = [p EXCEPT !.pc = "saveLines", !.rows = {Row[o] : o \in Payees(t)}]
      BY <1>5, <2>3 DEF Become, ThreadsOK
    <3> QED BY <3>1, <3>2 DEF Memory
  <2>5. \A o \in Payees(t) : payouts'[Row[o]].owner = o
    BY <2>2 DEF PayoutsAre
  <2>6. OneEach(q.rows)'
    BY <2>4, <2>5 DEF OneEach
  <2>7. UNCHANGED todo
    BY <1>8 DEF SavePayouts
  <2> QED BY <1>7, <2>6, <2>7
<1>9. CASE SaveLines(t)
  <2>1. Become(t, Idle) /\ UNCHANGED payouts /\ p.pc = "saveLines"
    BY <1>1, <1>9 DEF SaveLines, Finish, Running
  <2>2. q.pc # "saveLines"
    <3>1. q = Idle
      BY <1>5, <2>1 DEF Become, ThreadsOK
    <3> QED BY <3>1, IdleFields
  <2>3. OneEach(p.rows)
    BY <1>1, <2>1 DEF Apart
  <2>4. OneEach(p.rows)'
    BY <2>1, <2>3 DEF OneEach
  <2>5. UNCHANGED todo \/ Publish(Tasks("hold", p.rows))
    BY <1>1, <1>9 DEF SaveLines, PayoutScheduled
  <2> QED BY <1>6, <1>7, <2>1, <2>2, <2>4, <2>5
<1>10. CASE SavePaid(t)
  <2>1. PICK x \in p.rows : Publish(Tasks("release", {x}))
    BY <1>1, <1>10 DEF SavePaid, PayoutPaid
  <2>2. Become(t, Idle)
    BY <1>10 DEF SavePaid, Finish
  <2>3. OneEach({x})'
    BY DEF OneEach
  <2> QED BY <1>6, <2>1, <2>2, <2>3
<1>11. CASE SaveStatus(t)
  <2>1. /\ payouts' = SetStatus(p.rows, p.status) /\ Publish(Tasks("release", p.rows))
        /\ Become(t, Idle) /\ p.pc = "saveStatus"
    BY <1>1, <1>11 DEF SaveStatus, Running, Finish
  <2>2. OneEach(p.rows)
    BY <1>1, <2>1 DEF Apart
  <2>3. p.rows \subseteq DOMAIN payouts
    BY <1>1 DEF ThreadsOK, ProcessOK
  <2>4. SameDebts
    <3>1. ~SavePayouts(t)
      BY <1>1, <2>1 DEF SavePayouts, Running
    <3> QED BY <3>1, DebtsStay
  <2>5. OneEach(p.rows)'
    BY <2>2, <2>3, <2>4 DEF OneEach, SameDebts
  <2> QED BY <1>6, <2>1, <2>5
<1>12. ~SaveSettled(t)
  BY DEF SaveSettled, Running, Apart
<1>13. CASE ReadLines(t) \/ SaveBatch(t) \/ Send(t) \/ SaveSentLines(t) \/ CloseBatch(t)
            \/ SaveMarked(t) \/ Increment(t) \/ CheckPaid(t)
  <2>1. UNCHANGED todo
    BY <1>13 DEF ReadLines, SaveBatch, Send, SaveSentLines, CloseBatch, SaveMarked, Increment,
         CheckPaid
  <2>2. ~SavePayouts(t)
    BY <1>13 DEF ReadLines, SaveBatch, Send, SaveSentLines, CloseBatch, SaveMarked, Increment,
       CheckPaid, SavePayouts, Running
  <2>3. q.pc # "saveLines"
    BY <1>5, <2>2, PayoutGoesOn
  <2> QED BY <1>7, <2>1, <2>3
<1> QED BY <1>8, <1>9, <1>10, <1>11, <1>12, <1>13 DEF PayoutStep

\* Where calls exclude each other, and none settles all payouts at once, commands and
\* calls are of different owners.
LEMMA ApartStep ==
  ASSUME Overlapping = {}, "settle" \notin Calls,
         \A j \in Job : DispatcherOf[j] # ImpactedOf[j],
         Working, Apart, RepairsAlone, Next
  PROVE  Apart'
<1> USE DEF Working
<1>1. \A call : MayStart(call) => Quiet
  BY DEF MayStart
<1>2. CASE Request
  <2>1. UNCHANGED payouts /\ (Published \/ \E t \in Thread : Started(t))
    BY <1>2, RequestStarts
  <2>2. ASSUME NEW S, Publish(S), Quiet, UNCHANGED thread,
               \A k, l \in S : Target(k) = Target(l) => k = l
        PROVE  Apart'
    <3>1. (\A u \in Thread : thread'[u].pc = "idle") /\ \A k \in Task : todo[k] = 0
      BY <2>2 DEF Quiet, Running
    <3>2. \A k, l \in S : Target(k)' = Target(l)' => k = l
      BY <2>1, <2>2 DEF Target
    <3> QED BY <2>2, <3>1, <3>2, ApartPublished
  <2>3. ASSUME NEW j \in Job, Fulfil(j) \/ TestFulfilled(j) PROVE Apart'
    <3>1. PICK k, l : /\ k = [name |-> "income", id |-> j]
                      /\ l = [name |-> "compensation", id |-> j]
      OBVIOUS
    <3>2. Target(k) = DispatcherOf[j] /\ Target(l) = ImpactedOf[j]
      BY <3>1 DEF Target
    <3>3. Tasks("income", {j}) \cup Tasks("compensation", {j}) = {k, l}
      BY <3>1 DEF Tasks
    <3>4. \A m, n \in {k, l} : Target(m) = Target(n) => m = n
      BY <3>2
    <3>5. Publish({k, l}) /\ Quiet /\ UNCHANGED thread
      BY <1>1, <2>3, <3>3 DEF Fulfil, TestFulfilled, Announce, ServiceRequestFulfilled
    <3> QED BY <2>2, <3>4, <3>5
  <2>4. ASSUME NEW j \in Job, Fail(j) PROVE Apart'
    <3>1. \A k, l \in Tasks("compensation", {j}) : k = l
      BY DEF Tasks
    <3>2. Publish(Tasks("compensation", {j})) /\ Quiet /\ UNCHANGED thread
      BY <1>1, <2>4 DEF Fail, ServiceRequestRevoked
    <3> QED BY <2>2, <3>1, <3>2
  <2>5. ASSUME NEW x \in DOMAIN payouts, Patch(x) PROVE Apart'
    <3>1. \A k, l \in Tasks("hold", {x}) : k = l
      BY DEF Tasks
    <3>2. Publish(Tasks("hold", {x})) /\ Quiet /\ UNCHANGED thread
      BY <1>1, <2>5 DEF Patch
    <3> QED BY <2>2, <3>1, <3>2
  <2>6. ASSUME NEW t \in Thread, Started(t) PROVE Apart'
    <3>1. PICK q \in Memory : Become(t, q) /\ Starts(q)
      BY <2>6 DEF Started
    <3>2. Quiet /\ UNCHANGED todo
      BY <1>1, <2>6, <3>1 DEF Started, Starts, RepairsForgotten
    <3>3. (\A u \in Thread \ {t} : Running(u, "idle")) /\ \A k \in Task : todo'[k] = 0
      BY <3>2 DEF Quiet
    <3>4. q.pc # "saveLines" /\ q.pc # "saveSettled"
      BY <3>1 DEF Starts, RepairsForgotten, MayStart
    <3>5. q.pc = "saveStatus" => \E x : q.rows = {x}
      BY <3>1 DEF Starts, RepairsForgotten
    <3>6. q.pc = "saveStatus" => OneEach(q.rows)'
      BY <3>5 DEF OneEach
    <3> QED BY <3>1, <3>3, <3>4, <3>6, ApartCall
  <2> QED BY <2>1, <2>3, <2>4, <2>5, <2>6 DEF Published
<1>3. CASE Command
  <2>1. ASSUME NEW j \in Job, DismissCompensation(j) PROVE Apart'
    <3>1. UNCHANGED <<payouts, thread>> /\ Take("compensation", j)
      BY <2>1 DEF DismissCompensation
    <3>2. PICK i : i = [name |-> "compensation", id |-> j]
      OBVIOUS
    <3>3. i \in Task /\ i.name = "compensation" /\ i.id = j
      BY <3>2 DEF Task
    <3>4. todo'[i] = 0 /\ \A k \in Task : k # i => todo'[k] = todo[k]
      BY <3>1, <3>3, TakeLess
    <3>5. \A k \in Task : todo[k] \in {0, 1}
      BY DEF Apart
    <3>6. \A k \in Task : todo'[k] \in {0, 1} /\ (todo'[k] > 0 => todo[k] > 0)
                           /\ (todo[k] = 0 => todo'[k] = 0)
      BY <3>4, <3>5
    <3>7. \A k \in Task : Target(k)' = Target(k)
      BY <3>1 DEF Target
    <3>8. \A k, l \in Task : todo'[k] > 0 /\ todo'[l] > 0 /\ Target(k)' = Target(l)' => k = l
      BY <3>6, <3>7 DEF Apart
    <3>9. \A t \in Thread, k \in Task :
            thread'[t].pc \in WithTransaction /\ todo'[k] > 0 => Target(k)' # thread'[t].entry.owner
      <4>1. \A t \in Thread, k \in Task :
              thread[t].pc \in WithTransaction /\ todo[k] > 0 => Target(k) # thread[t].entry.owner
        BY DEF Apart
      <4> QED BY <3>1, <3>6, <3>7, <4>1
    <3>10. OneCallPerOwner'
      BY <3>1 DEF Apart, OneCallPerOwner
    <3>11. \A t \in Thread : thread'[t].pc \in PayoutPC =>
             /\ \A u \in Thread \ {t} : thread'[u].pc = "idle"
             /\ \A k \in Task : todo'[k] = 0
      BY <3>1, <3>6 DEF Apart, Running
    <3>12. \A t \in Thread : /\ thread'[t].pc \in {"saveLines", "saveStatus"} =>
                                 OneEach(thread[t].rows)'
                             /\ thread'[t].pc # "saveSettled"
      BY <3>1 DEF Apart, OneEach
    <3> QED BY <3>6, <3>8, <3>9, <3>10, <3>11, <3>12 DEF Apart, Running
  <2> QED BY <1>3, <2>1, StepMoves, ApartMove DEF Command
<1>4. ASSUME NEW t \in Thread, PayoutStep(t) PROVE Apart'
  BY <1>4, ApartPayoutStep
<1>5. CASE Crash
  <2>1. \A u \in Thread : thread'[u] = Idle
    BY <1>5 DEF Crash
  <2>2. \A u \in Thread : thread'[u].pc = "idle"
    BY <2>1, IdleFields
  <2>3. \A k \in Task : todo'[k] = IF k \in {} THEN 1 ELSE 0
    BY <1>5 DEF Crash
  <2> QED BY <2>2, <2>3, ApartTasks
<1> QED BY <1>2, <1>3, <1>4, <1>5 DEF Next, Program

\* Then no two calls are at work on the wallet of one owner.
LEMMA CallsApart ==
  Overlapping = {} /\ "settle" \notin Calls /\ (\A j \in Job : DispatcherOf[j] # ImpactedOf[j])
    => (Spec => []OneCallPerOwner)
<1> DEFINE IApart == Apart /\ RepairsAlone
<1>1. Init => IApart
  <2> SUFFICES ASSUME Init PROVE IApart
    OBVIOUS
  <2>1. \A t \in Thread : thread[t] = Idle
    BY DEF Init
  <2>2. \A t \in Thread : thread[t].pc = "idle"
    BY <2>1, IdleFields
  <2>3. \A k \in Task : todo[k] \in {0, 1} /\ ~(todo[k] > 0)
    BY DEF Init
  <2>4. "idle" \notin WithTransaction /\ "idle" \notin PayoutPC
    BY DEF WithTransaction, PayoutPC
  <2>5. OneCallPerOwner
    BY <2>2, <2>4 DEF OneCallPerOwner
  <2>6. Apart
    BY <2>2, <2>3, <2>4, <2>5 DEF Apart
  <2> QED BY <2>6, KeptInit DEF Kept
<1>2. ASSUME Overlapping = {}, "settle" \notin Calls,
             \A j \in Job : DispatcherOf[j] # ImpactedOf[j], Typed, IApart, [Next]_vars
      PROVE  IApart'
  <2>1. Working
    BY <1>2 DEF Typed, Working
  <2>2. CASE Next
    <3>1. "regen" \notin Overlapping
      BY <1>2
    <3> QED BY <1>2, <2>1, <2>2, <3>1, ApartStep, RepairsStep
  <2>3. CASE UNCHANGED vars
    <3>1. UNCHANGED <<payouts, todo, thread, alone>>
      BY <2>3 DEF vars, rows
    <3>2. Apart'
      BY <1>2, <3>1 DEF Apart, OneCallPerOwner, Target, OneEach, Running
    <3>3. RepairsAlone'
      BY <1>2, <3>1 DEF RepairsAlone, Repairs, NothingToRepair, Running
    <3> QED BY <3>2, <3>3
  <2> QED BY <1>2, <2>2, <2>3
<1>3. ASSUME Overlapping = {}, "settle" \notin Calls,
             \A j \in Job : DispatcherOf[j] # ImpactedOf[j]
      PROVE  Typed /\ IApart /\ [Next]_vars => IApart'
  BY <1>2, <1>3
<1>4. IApart => OneCallPerOwner
  BY DEF Apart
<1>5. ASSUME Overlapping = {}, "settle" \notin Calls,
             \A j \in Job : DispatcherOf[j] # ImpactedOf[j]
      PROVE  Spec => []OneCallPerOwner
  <2> HIDE DEF IApart
  <2> QED BY <1>1, <1>3, <1>4, <1>5, Typing, PTL DEF Spec
<1> QED BY <1>5

------------------------------------------------------------------------------
\* The wallets implement the ledger as long as no two calls are at work on the wallet
\* of one owner: each handler reads the row, and saves the columns that it changed,
\* without a lock.  The repair of forgotten transactions excludes other calls.
THEOREM LedgerIsKept ==
  "regen" \notin Overlapping => (Spec /\ []OneCallPerOwner => LedgerSpec)
<1>1. ASSUME "regen" \notin Overlapping
      PROVE  Typed /\ Typed' /\ Kept /\ OneCallPerOwner /\ [Next]_vars => Kept'
  BY <1>1, KeptStep
<1>2. Typed /\ Kept /\ [Next]_vars => [L!Next]_(L!ledger)
  <2>1. Typed /\ Kept /\ Next => [L!Next]_(L!ledger)
    BY StepSimulated DEF Typed, Working
  <2>2. UNCHANGED vars => UNCHANGED L!ledger
    <3> SUFFICES ASSUME UNCHANGED vars PROVE UNCHANGED L!ledger
      OBVIOUS
    <3>1. UNCHANGED <<wallets, transactions, payouts, announced>>
      BY DEF vars, rows
    <3>2. UNCHANGED Accounts /\ UNCHANGED Payments
      BY <3>1 DEF Accounts, Payments, Payment, Of
    <3>3. UNCHANGED CreditedCounts
      BY <3>1 DEF CreditedCounts, CreditsFor, Of
    <3>4. UNCHANGED DueCounts
      BY <3>1 DEF DueCounts
    <3> QED BY <3>2, <3>3, <3>4 DEF L!ledger, Accounts, CreditedCounts, DueCounts, Payments, Payment
  <2> QED BY <2>1, <2>2
<1>3. ASSUME "regen" \notin Overlapping PROVE Spec /\ []OneCallPerOwner => LedgerSpec
  BY <1>1, <1>2, <1>3, Typing, KeptInit, LedgerInit, PTL DEF Spec, LedgerSpec, L!Spec
<1> QED BY <1>3

\* So they do where calls exclude each other (what the sagas start for one of them still
\* overlaps), no call settles all payouts at once, and a job is not compensated to the
\* provider who is paid for it.
THEOREM SeparateCallsKeepTheLedger ==
  Overlapping = {} /\ "settle" \notin Calls /\ (\A j \in Job : DispatcherOf[j] # ImpactedOf[j])
    => (Spec => LedgerSpec)
<1>1. Overlapping = {} => "regen" \notin Overlapping
  OBVIOUS
<1> QED BY <1>1, CallsApart, LedgerIsKept

\* And where one command is handled after the other, whatever the calls are.
THEOREM OneThreadKeepsTheLedger ==
  "regen" \notin Overlapping /\ (\A t, u \in Thread : t = u) => (Spec => LedgerSpec)
<1>1. ASSUME \A t, u \in Thread : t = u
      PROVE  OneCallPerOwner
  BY <1>1 DEF OneCallPerOwner
<1>2. ASSUME \A t, u \in Thread : t = u
      PROVE  Spec => []OneCallPerOwner
  BY <1>1, <1>2, PTL
<1> QED BY <1>2, LedgerIsKept
===============================================================================
