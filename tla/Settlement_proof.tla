--------------------------- MODULE Settlement_proof ---------------------------
(***************************************************************************)
(* A theorem about Payout that goes on from those of Payout_proof: what    *)
(* the bank paid in full is paid, and released, for any owners, jobs,      *)
(* amounts, threads, payouts and batches, however the reports overlap.     *)
(***************************************************************************)
EXTENDS Payout_proof

------------------------------------------------------------------------------
(* Sums of parts, and of values that are numbered anew                        *)

\* The sum of the values of g over S, as MapThenSumSet forms it.
Summed(g, S) == MapThenSumSet(LAMBDA i : g[i], S)

\* What MapThenSumSet returns for a function: the sum of its values.
LEMMA MapThenSumSums ==
  ASSUME NEW S, IsFiniteSet(S), NEW g
  PROVE  \E f : Sums(f, g, S) /\ Summed(g, S) = f[S]
<1> DEFINE c == CHOOSE f : IsRecursive(f, g, S)
<1>1. IsRecursive(c, g, S)
  BY SumsExist, Zenon
<1>2. Summed(g, S) = c[S]
  BY Zenon DEF Summed, MapThenSumSet, MapThenFoldSet, IsRecursive, One
<1> HIDE DEF c
<1>3. Sums(c, g, S)
  BY <1>1 DEF Sums, IsRecursive
<1> QED
  BY <1>2, <1>3

\* Whichever element comes first, the sum is the same.
AnyFirst(f, g, S) ==
  \A s \in SUBSET S : \A x \in s : f[s] = g[x] + f[s \ {x}]

\* Any element may be the first of a sum of integers.
LEMMA SumOfOneMore ==
  ASSUME NEW S, IsFiniteSet(S), NEW g, \A x \in S : g[x] \in Int, NEW f, Sums(f, g, S)
  PROVE  AnyFirst(f, g, S)
<1> SUFFICES \A s \in SUBSET S : \A x \in s : f[s] = g[x] + f[s \ {x}]
  BY Zenon DEF AnyFirst
<1> DEFINE Bad == {s \in SUBSET S : \E x \in s : f[s] # g[x] + f[s \ {x}]}
<1>1. SUFFICES ASSUME Bad # {} PROVE FALSE
  OBVIOUS
<1>2. PICK m \in Bad : \A s \in Bad : s \subseteq m => s = m
  <2>1. Bad \subseteq SUBSET S
    OBVIOUS
  <2> HIDE DEF Bad
  <2> QED BY <1>1, <2>1, SmallestSubset
<1>3. PICK x \in m : f[m] # g[x] + f[m \ {x}]
  BY <1>2
<1>4. PICK y : y = One(m)
  OBVIOUS
<1>5. y \in m /\ f[m] = g[y] + f[m \ {y}]
  BY <1>2, <1>3, <1>4 DEF One, Sums
<1>6. y # x
  BY <1>3, <1>5
<1>7. m \ {x} \notin Bad /\ m \ {y} \notin Bad
  BY <1>2, <1>3, <1>5
<1>8. f[m \ {x}] = g[y] + f[(m \ {x}) \ {y}]
  BY <1>2, <1>5, <1>6, <1>7
<1>9. f[m \ {y}] = g[x] + f[(m \ {y}) \ {x}]
  BY <1>2, <1>3, <1>6, <1>7
<1>10. (m \ {x}) \ {y} = (m \ {y}) \ {x}
  OBVIOUS
<1>11. g[x] \in Int /\ g[y] \in Int /\ f[(m \ {y}) \ {x}] \in Int
  <2>1. (m \ {y}) \ {x} \in SUBSET S /\ x \in S /\ y \in S
    BY <1>2, <1>3, <1>5
  <2> QED BY <2>1, SumsAreIntegers
<1>12. f[m] = g[y] + (g[x] + f[(m \ {y}) \ {x}])
  BY <1>5, <1>9
<1>13. f[m \ {x}] = g[y] + f[(m \ {y}) \ {x}]
  BY <1>8, <1>10
<1> HIDE DEF Bad
<1>14. f[m] = g[x] + f[m \ {x}]
  BY <1>11, <1>12, <1>13
<1> QED
  BY <1>3, <1>14

\* Sums over disjoint sets add up.
LEMMA SumOfUnion ==
  ASSUME NEW S, IsFiniteSet(S), NEW g, \A x \in S : g[x] \in Int, NEW f, Sums(f, g, S),
         NEW A \in SUBSET S
  PROVE  \A B \in SUBSET S : A \cap B = {} => f[A \cup B] = f[A] + f[B]
<1>0. \A s \in SUBSET S : \A z \in s : f[s] = g[z] + f[s \ {z}]
  <2>1. AnyFirst(f, g, S)
    BY SumOfOneMore
  <2> QED BY <2>1, Zenon DEF AnyFirst
<1> DEFINE Bad == {B \in SUBSET S : A \cap B = {} /\ f[A \cup B] # f[A] + f[B]}
<1>1. SUFFICES ASSUME Bad # {} PROVE FALSE
  OBVIOUS
<1>2. PICK m \in Bad : \A s \in Bad : s \subseteq m => s = m
  <2>1. Bad \subseteq SUBSET S
    OBVIOUS
  <2> HIDE DEF Bad
  <2> QED BY <1>1, <2>1, SmallestSubset
<1>3. \A s \in SUBSET S : f[s] \in Int
  BY SumsAreIntegers
<1>4. m # {}
  <2>1. SUFFICES ASSUME m = {} PROVE FALSE
    OBVIOUS
  <2>2. f[m] = 0
    BY <2>1, <1>2 DEF Sums
  <2>3. A \cup m = A
    BY <2>1
  <2>4. f[A \cup m] = f[A] /\ f[A] \in Int
    BY <2>3, <1>3, Zenon
  <2>5. f[A \cup m] = f[A] + f[m]
    <3> HIDE DEF Bad
    <3> QED BY <2>2, <2>4
  <2> QED BY <1>2, <2>5
<1>5. PICK x \in m : TRUE
  BY <1>4
<1>6. m \ {x} \notin Bad /\ A \cap (m \ {x}) = {} /\ m \ {x} \in SUBSET S
  BY <1>2, <1>5
<1>7. f[A \cup (m \ {x})] = f[A] + f[m \ {x}]
  BY <1>6
<1>8. f[m] = g[x] + f[m \ {x}]
  BY <1>0, <1>2, <1>5
<1>9. (A \cup m) \ {x} = A \cup (m \ {x}) /\ x \in A \cup m /\ A \cup m \in SUBSET S /\ x \in S
  BY <1>2, <1>5
<1>10. f[A \cup m] = g[x] + f[A \cup (m \ {x})]
  <2>1. f[A \cup m] = g[x] + f[(A \cup m) \ {x}]
    BY <1>0, <1>9
  <2> QED BY <2>1, <1>9
<1>11. f[A] \in Int /\ f[m \ {x}] \in Int /\ g[x] \in Int
  BY <1>3, <1>6, <1>9
<1> QED
  BY <1>2, <1>7, <1>8, <1>10, <1>11

\* Of any two disjoint parts the sums add up.
Additive(f, S) == \A A \in SUBSET S : \A B \in SUBSET S : A \cap B = {} => f[A \cup B] = f[A] + f[B]

\* A function that sums integers adds up.
LEMMA SumsAddUp ==
  ASSUME NEW S, IsFiniteSet(S), NEW g, \A x \in S : g[x] \in Int, NEW f, Sums(f, g, S)
  PROVE  Additive(f, S)
<1>1. ASSUME NEW A \in SUBSET S
      PROVE  \A B \in SUBSET S : A \cap B = {} => f[A \cup B] = f[A] + f[B]
  BY SumOfUnion
<1> QED BY <1>1, Zenon DEF Additive

\* The sum over a part of a set.
LEMMA SummedPart ==
  ASSUME NEW S, IsFiniteSet(S), NEW g, NEW f, Sums(f, g, S), NEW T, T \subseteq S
  PROVE  Summed(g, T) = f[T]
<1>1. IsFiniteSet(T)
  BY FS_Subset
<1>2. PICK e : Sums(e, g, T) /\ Summed(g, T) = e[T]
  BY <1>1, MapThenSumSums
<1>3. Sums(f, g, T)
  BY DEF Sums
<1>4. \A s \in SUBSET T : e[s] = f[s]
  BY <1>1, <1>2, <1>3, SumsAgree
<1> QED BY <1>2, <1>4

\* v has the sums of u over what h maps to each element of T.
Fibers(u, v, h, S, T) == \A y \in T : v[y] = Summed(u, {x \in S : h[x] = y})

\* The sum over S is the sum, over T, of the sums over what h maps to each element.
LEMMA SumOfFibers ==
  ASSUME NEW S, IsFiniteSet(S), NEW T, IsFiniteSet(T), NEW u, NEW v, NEW h,
         \A x \in S : u[x] \in Int /\ h[x] \in T, Fibers(u, v, h, S, T)
  PROVE  Summed(u, S) = Summed(v, T)
<1> DEFINE Over(t) == {x \in S : h[x] \in t}
<1>1. PICK f : Sums(f, u, S) /\ Summed(u, S) = f[S]
  BY MapThenSumSums
<1>2. PICK e : Sums(e, v, T) /\ Summed(v, T) = e[T]
  BY MapThenSumSums
<1>3. \A y \in T : v[y] = f[Over({y})]
  <2>1. ASSUME NEW y \in T PROVE v[y] = f[Over({y})]
    <3>1. PICK F : F = {x \in S : h[x] = y}
      OBVIOUS
    <3>2. F \subseteq S /\ F = Over({y}) /\ v[y] = Summed(u, F)
      BY <3>1 DEF Fibers
    <3>3. Summed(u, F) = f[F]
      BY <1>1, <3>2, SummedPart
    <3> QED BY <3>2, <3>3
  <2> QED BY <2>1
<1>4. \A s \in SUBSET S : f[s] \in Int
  BY <1>1, SumsAreIntegers
<1>5. \A y \in T : v[y] \in Int
  BY <1>3, <1>4
<1>6. Additive(f, S)
  BY <1>1, SumsAddUp
<1>7. \A A, B \in SUBSET S : A \cap B = {} => f[A \cup B] = f[A] + f[B]
  BY <1>6, Zenon DEF Additive
<1> DEFINE Bad == {t \in SUBSET T : f[Over(t)] # e[t]}
<1>8. ASSUME Bad # {} PROVE FALSE
  <2>1. PICK m \in Bad : \A s \in Bad : s \subseteq m => s = m
    <3>1. Bad \subseteq SUBSET T
      OBVIOUS
    <3> HIDE DEF Bad
    <3> QED BY <1>8, <3>1, SmallestSubset
  <2>2. CASE m = {}
    <3>1. Over(m) = {}
      BY <2>2
    <3>2. f[{}] = 0 /\ e[{}] = 0
      <4>1. {} \in SUBSET S /\ {} \in SUBSET T
        OBVIOUS
      <4> QED BY <1>1, <1>2, <4>1 DEF Sums
    <3> QED BY <2>1, <2>2, <3>1, <3>2
  <2>3. CASE m # {}
    <3>1. PICK y : y = One(m)
      OBVIOUS
    <3>2. y \in m /\ e[m] = v[y] + e[m \ {y}]
      BY <1>2, <2>1, <2>3, <3>1 DEF Sums, One
    <3>3. m \ {y} \in SUBSET T /\ m \ {y} \notin Bad
      BY <2>1, <3>2
    <3>4. f[Over(m \ {y})] = e[m \ {y}]
      BY <3>3
    <3>5. Over(m) = Over({y}) \cup Over(m \ {y}) /\ Over({y}) \cap Over(m \ {y}) = {}
      BY <3>2
    <3>6. Over({y}) \in SUBSET S /\ Over(m \ {y}) \in SUBSET S
      OBVIOUS
    <3>7. f[Over(m)] = f[Over({y})] + f[Over(m \ {y})]
      <4> HIDE DEF Over
      <4> QED BY <1>7, <3>5, <3>6
    <3>8. y \in T
      BY <2>1, <3>2
    <3>9. f[Over(m)] = e[m]
      <4> HIDE DEF Over
      <4> QED BY <1>3, <3>2, <3>4, <3>7, <3>8
    <3> QED BY <2>1, <3>9
  <2> QED BY <2>2, <2>3
<1>9. f[Over(T)] = e[T]
  BY <1>8
<1>10. Over(T) = S
  OBVIOUS
<1> QED BY <1>1, <1>2, <1>9, <1>10

\* The sum of one value.
LEMMA SumOfSingle ==
  ASSUME NEW g, NEW x, g[x] \in Int
  PROVE  Summed(g, {x}) = g[x]
<1>1. IsFiniteSet({x})
  BY FS_Singleton
<1>2. PICK f : Sums(f, g, {x}) /\ Summed(g, {x}) = f[{x}]
  BY <1>1, MapThenSumSums
<1>3. {x} \in SUBSET {x} /\ {} \in SUBSET {x} /\ {x} \ {x} = {}
  OBVIOUS
<1>4. One({x}) = x
  BY DEF One
<1>5. f[{}] = 0
  BY <1>2, <1>3 DEF Sums
<1>6. f[{x}] = g[x] + f[{}]
  BY <1>2, <1>3, <1>4 DEF Sums
<1> QED BY <1>2, <1>5, <1>6

\* Values that are numbered anew, each by one number, sum to the same.
LEMMA SumOfImage ==
  ASSUME NEW S, IsFiniteSet(S), NEW T, IsFiniteSet(T), NEW u, NEW v, NEW h,
         \A x \in S : u[x] \in Int /\ h[x] \in T /\ v[h[x]] = u[x],
         \A x, y \in S : h[x] = h[y] => x = y,
         \A y \in T : \E x \in S : h[x] = y
  PROVE  Summed(u, S) = Summed(v, T)
<1>1. ASSUME NEW y \in T PROVE v[y] = Summed(u, {x \in S : h[x] = y})
  <2>1. PICK x \in S : h[x] = y
    OBVIOUS
  <2>2. {z \in S : h[z] = y} = {x}
    BY <2>1
  <2>3. Summed(u, {x}) = u[x]
    BY SumOfSingle
  <2> QED BY <2>1, <2>2, <2>3
<1>2. Fibers(u, v, h, S, T)
  BY <1>1, Zenon DEF Fibers
<1>3. \A x \in S : u[x] \in Int /\ h[x] \in T
  OBVIOUS
<1> QED BY <1>2, <1>3, SumOfFibers

------------------------------------------------------------------------------
(* What is credited, and to whom                                              *)

\* No reschedule is paid for: a job pays its dispatcher only.
NobodyCompensated == \A j \in Job : ImpactedOf[j] = NoOwner

\* What is credited, if anything, is an income of no negative amount.
FairEntry(e) == e.type \in CreditType => e.type = "INCOME" /\ e.amount >= 0

\* Such are the transactions there are, and those that calls have in hand.
Fair == /\ \A i \in DOMAIN transactions : FairEntry(transactions[i])
        /\ \A t \in Thread : /\ thread[t].pc \in WithTransaction => FairEntry(thread[t].entry)
                             /\ thread[t].pc # "checkCompensation"

\* No income is credited twice.
EarnedOnce ==
  \A i, k \in Of("INCOME") : transactions[i].job = transactions[k].job => i = k

\* Announcements are counted.
AnnouncedOK == announced \in [Job -> Nat]

\* Whoever is credited has a wallet, and a call that read one finds it when it saves.
WalletCall(p) ==
  /\ p.pc \in InsertsPC /\ p.wallet.exists => WalletOf(p).exists
  /\ p.pc \in InsertsPC /\ p.entry.type = "PAYOUT" => p.wallet.exists

\* Whoever has a credit has a wallet.
WalletsThere ==
  /\ \A i \in Credits : wallets[transactions[i].owner].exists
  /\ \A t \in Thread : WalletCall(thread[t])

\* What a step makes of the call of one thread.
Turn(t, q) ==
  /\ Become(t, q)
  /\ \/ WalletMove(thread[t], q) \/ PayoutMove(thread[t], q)
     \/ thread[t].pc = "idle" /\ Starts(q) /\ UNCHANGED <<jobs, todo>>

\* Transactions are about the same; a handler inserts the one that it has in hand.
SameFacts ==
  /\ DOMAIN transactions' = DOMAIN transactions
  /\ \A i \in DOMAIN transactions :
       /\ transactions'[i].type = transactions[i].type
       /\ transactions'[i].owner = transactions[i].owner
       /\ transactions'[i].job = transactions[i].job
       /\ transactions'[i].amount = transactions[i].amount

\* Thread t inserts transaction n, which is e, and changes no other.
Enters(t, n, e) ==
  /\ thread[t].pc = "writeEntry" /\ thread[t].entry = e
  /\ n \notin DOMAIN transactions /\ DOMAIN transactions' = DOMAIN transactions \cup {n}
  /\ transactions'[n] = e
  /\ \A i \in DOMAIN transactions : transactions'[i] = transactions[i]
  /\ \E q \in Memory : Become(t, q) /\ Inserts(thread[t], q)
  /\ UNCHANGED <<jobs, payouts>>

\* Each step is of one thread at most, or a restart.
LEMMA Turns ==
  ASSUME Working, Next
  PROVE  UNCHANGED thread \/ Crash \/ \E t \in Thread : \E q \in Memory : Turn(t, q)
<1>1. CASE Request
  <2>1. ASSUME NEW t \in Thread, Started(t) PROVE \E q \in Memory : Turn(t, q)
    BY <2>1 DEF Started, Turn
  <2> QED BY <1>1, <2>1, RequestStarts DEF Published
<1>2. ASSUME NEW t \in Thread, WalletStep(t) PROVE \E q \in Memory : Turn(t, q)
  BY <1>2, StepMoves DEF Moves, Turn
<1>3. ASSUME NEW t \in Thread, PayoutStep(t) PROVE \E q \in Memory : Turn(t, q)
  BY <1>3, PayoutMoves DEF Turn
<1>4. CASE Command
  BY <1>2, <1>4 DEF Command, DismissCompensation
<1> QED BY <1>1, <1>3, <1>4 DEF Next, Program

\* What a handler writes is one of these.
LEMMA WritesEnter ==
  ASSUME Working, NEW t \in Thread, Writes(t)
  PROVE  SameFacts \/ \E n : Enters(t, n, thread[t].entry)
<1> USE DEF Working
<1>1. PICK p : p = thread[t]
  OBVIOUS
<1>2. PICK q \in Memory : Become(t, q) /\ (Inserts(p, q) \/ Updates(p, q))
  BY <1>1 DEF Writes
<1>3. UNCHANGED <<jobs, payouts>>
  BY DEF Writes
<1>4. CASE Inserts(p, q)
  <2>1. PICK e : e = p.entry
    OBVIOUS
  <2>2. p.pc = "writeEntry" /\ transactions' = Append(transactions, e)
    BY <1>4, <2>1 DEF Inserts
  <2>3. e \in Transaction
    BY <1>1, <2>1, <2>2 DEF ThreadsOK, ProcessOK, WithTransaction, EntryOK
  <2>4. PICK n : n = Len(transactions) + 1
    OBVIOUS
  <2>5. /\ DOMAIN transactions' = DOMAIN transactions \cup {n} /\ transactions'[n] = e
        /\ \A i \in DOMAIN transactions : transactions'[i] = transactions[i]
        /\ DOMAIN transactions = 1..Len(transactions) /\ Len(transactions) \in Nat
    BY <1>3, <2>2, <2>3, <2>4, InsertContinues
  <2>6. n \notin DOMAIN transactions
    BY <2>4, <2>5
  <2> QED BY <1>1, <1>2, <1>3, <1>4, <2>1, <2>2, <2>5, <2>6 DEF Enters
<1>5. CASE Updates(p, q)
  <2>1. PICK x : x = p.trx
    OBVIOUS
  <2>2. transactions' = [transactions EXCEPT ![x].status = "SUCCESS"]
    BY <1>5, <2>1 DEF Updates
  <2>3. ASSUME NEW i \in DOMAIN transactions
        PROVE  /\ transactions'[i].type = transactions[i].type
               /\ transactions'[i].owner = transactions[i].owner
               /\ transactions'[i].job = transactions[i].job
               /\ transactions'[i].amount = transactions[i].amount
    <3>1. PICK a : a = transactions[i]
      OBVIOUS
    <3>2. a \in Transaction
      BY <3>1 DEF RowsOK
    <3>3. transactions'[i] = a \/ transactions'[i] = [a EXCEPT !.status = "SUCCESS"]
      BY <2>2, <3>1
    <3> QED BY <3>1, <3>2, <3>3 DEF Transaction
  <2> QED BY <2>2, <2>3 DEF SameFacts
<1> QED BY <1>2, <1>4, <1>5

\* A step inserts a transaction, or changes what they are about in none.
LEMMA TablesMove ==
  ASSUME Working, AnnouncedOK, Next
  PROVE  \/ Steady /\ SameFacts
         \/ \E t \in Thread : Writes(t) /\ (SameFacts \/ \E n : Enters(t, n, thread[t].entry))
BY StepWrites, WritesEnter DEF Steady, SameFacts, AnnouncedOK

\* No call takes anything in hand but incomes and payments.
LEMMA FairTurn ==
  ASSUME NobodyCompensated, NEW t \in Thread, NEW p \in Memory, p = thread[t],
         p.pc \in WithTransaction => FairEntry(p.entry),
         NEW q \in Memory, Turn(t, q), q.pc \in WithTransaction
  PROVE  FairEntry(q.entry)
<1>0. Impacted = {}
  BY DEF NobodyCompensated, Impacted
<1>1. ASSUME NEW j \in Job PROVE FairEntry(CreditEntry("INCOME", j))
  <2>1. DueFor("INCOME", j) \in Nat
    BY WalletAssumption DEF DueFor
  <2>2. CreditEntry("INCOME", j).type = "INCOME"
        /\ CreditEntry("INCOME", j).amount = DueFor("INCOME", j)
    BY DEF CreditEntry
  <2> QED BY <2>1, <2>2 DEF FairEntry
<1>2. \A x : FairEntry(PayoutEntry(x))
  BY DEF PayoutEntry, FairEntry, CreditType
<1>3. CASE ReadsIncome(p, q)
  BY <1>1, <1>3 DEF ReadsIncome
<1>4. ~ReadsCompensation(p, q)
  BY <1>0 DEF ReadsCompensation
<1>5. CASE ReadsForgotten(p, q)
  <2>1. p.incomes \subseteq Job /\ p.compensations = {}
    BY <1>0 DEF Memory
  <2>2. PICK j \in p.incomes : q.entry = CreditEntry("INCOME", j)
    BY <1>5, <2>1 DEF ReadsForgotten
  <2> QED BY <1>1, <2>1, <2>2
<1>6. CASE FindsNone(p, q) \/ FindsWallet(p, q) \/ FindsPending(p, q) \/ Compares(p, q)
  BY <1>6 DEF FindsNone, FindsWallet, FindsPending, Compares, WithTransaction
<1>7. CASE BeginsHold(p, q) \/ BeginsRelease(p, q)
  BY <1>2, <1>7 DEF BeginsHold, BeginsRelease
<1>8. ~Stops(q) /\ ~Updates(p, q)
  BY IdleFields DEF Stops, Updates, WithTransaction
<1>9. ~Inserts(p, q)
  BY DEF Inserts, Memory, WithTransaction
<1>10. ~TurnsToCompensations(p, q) /\ ~PayoutMove(p, q) /\ ~Starts(q)
  BY IdleFields DEF TurnsToCompensations, PayoutMove, PayoutPC, Starts, RepairsForgotten,
     WithTransaction
<1> QED
  BY <1>3, <1>4, <1>5, <1>6, <1>7, <1>8, <1>9, <1>10 DEF Turn, WalletMove

\* None is at work on a compensation.
LEMMA NoCompensationTurn ==
  ASSUME NobodyCompensated, NEW t \in Thread, NEW p \in Memory, p = thread[t],
         NEW q \in Memory, Turn(t, q)
  PROVE  q.pc # "checkCompensation"
<1>1. ~ReadsCompensation(p, q)
  BY DEF NobodyCompensated, Impacted, ReadsCompensation
<1>2. Stops(q) \/ Updates(p, q) \/ PayoutMove(p, q) \/ Starts(q) => q.pc # "checkCompensation"
  BY IdleFields DEF Stops, Updates, PayoutMove, PayoutPC, Starts, RepairsForgotten
<1>3. Inserts(p, q) => q.pc # "checkCompensation"
  BY DEF Inserts, Memory
<1> QED
  BY <1>1, <1>2, <1>3 DEF Turn, WalletMove, ReadsIncome, ReadsForgotten, FindsNone,
     BeginsHold, BeginsRelease, FindsWallet, FindsPending, Compares, TurnsToCompensations

\* What is credited are incomes, and none is negative.
LEMMA FairStep ==
  ASSUME NobodyCompensated, Working, AnnouncedOK, Fair, Next
  PROVE  Fair'
<1> USE DEF Working
<1>1. ASSUME NEW i \in DOMAIN transactions' PROVE FairEntry(transactions'[i])
  <2>1. CASE SameFacts
    BY <2>1 DEF SameFacts, Fair, FairEntry
  <2>2. ASSUME NEW t \in Thread, NEW n, Enters(t, n, thread[t].entry)
        PROVE  FairEntry(transactions'[i])
    <3>1. FairEntry(thread[t].entry)
      BY <2>2 DEF Fair, Enters, WithTransaction
    <3>2. i = n => transactions'[i] = thread[t].entry
      BY <2>2 DEF Enters
    <3>3. i # n => i \in DOMAIN transactions /\ transactions'[i] = transactions[i]
      BY <2>2 DEF Enters
    <3> QED BY <3>1, <3>2, <3>3 DEF Fair
  <2> QED BY <2>1, <2>2, TablesMove
<1>2. ASSUME NEW u \in Thread, thread'[u].pc \in WithTransaction
      PROVE  FairEntry(thread'[u].entry) /\ thread'[u].pc # "checkCompensation"
  <2>1. CASE UNCHANGED thread
    BY <1>2, <2>1 DEF Fair
  <2>2. ~Crash
    BY <1>2, IdleFields DEF Crash, WithTransaction
  <2>3. ASSUME NEW t \in Thread, NEW q \in Memory, Turn(t, q)
        PROVE  FairEntry(thread'[u].entry) /\ thread'[u].pc # "checkCompensation"
    <3>1. thread'[u] = IF u = t THEN q ELSE thread[u]
      BY <2>3 DEF Turn, Become, ThreadsOK
    <3>2. CASE u = t
      <4>1. thread[t] \in Memory /\ (thread[t].pc \in WithTransaction => FairEntry(thread[t].entry))
        BY DEF Fair, ThreadsOK
      <4>2. q.pc \in WithTransaction /\ thread'[u] = q
        BY <1>2, <3>1, <3>2
      <4>3. FairEntry(q.entry) /\ q.pc # "checkCompensation"
        BY <2>3, <4>1, <4>2, FairTurn, NoCompensationTurn
      <4> QED BY <4>2, <4>3
    <3>3. CASE u # t
      <4>1. thread'[u] = thread[u]
        BY <3>1, <3>3
      <4> QED BY <1>2, <4>1 DEF Fair
    <3> QED BY <3>2, <3>3
  <2> QED BY <2>1, <2>2, <2>3, Turns
<1> QED BY <1>1, <1>2 DEF Fair, FairEntry, WithTransaction

\* No wallet is ever deleted.
LEMMA WalletsStay ==
  ASSUME Working, AnnouncedOK, Next
  PROVE  \A o \in Owner : wallets[o].exists => wallets'[o].exists
<1> USE DEF Working
<1>1. CASE Steady
  BY <1>1 DEF Steady
<1>2. ASSUME NEW t \in Thread, Writes(t), NEW o \in Owner, wallets[o].exists
      PROVE  wallets'[o].exists
  <2>1. PICK p : p = thread[t]
    OBVIOUS
  <2>2. PICK q \in Memory : Inserts(p, q) \/ Updates(p, q)
    BY <1>2, <2>1 DEF Writes
  <2>3. p \in Memory /\ wallets \in [Owner -> WalletRow]
    BY <2>1 DEF ThreadsOK, RowsOK
  <2>4. PICK w, c, a : w = p.wallet /\ c = p.changed /\ a = p.entry.owner
    OBVIOUS
  <2>5. w \in WalletRow /\ "exists" \notin c
    BY <2>3, <2>4 DEF Memory, Columns
  <2>6. PICK row : row = wallets[o]
    OBVIOUS
  <2>7. row \in WalletRow /\ row.exists
    BY <1>2, <2>3, <2>6
  <2>8. Merged(w, row, c).exists
    BY <2>5, <2>7 DEF Merged, WalletRow
  <2>9. [w EXCEPT !.exists = TRUE].exists
    BY <2>5 DEF WalletRow
  <2>10. wallets' = [wallets EXCEPT ![a] = IF w.exists THEN Merged(w, wallets[a], c)
                                                       ELSE [w EXCEPT !.exists = TRUE]]
         \/ wallets' = [wallets EXCEPT ![a] = Merged(w, wallets[a], c)]
    BY <2>2, <2>4 DEF Inserts, Updates, WalletOf
  <2>11. wallets'[o] = row \/ wallets'[o] = Merged(w, row, c)
         \/ wallets'[o] = [w EXCEPT !.exists = TRUE]
    BY <2>3, <2>6, <2>10
  <2> QED BY <2>7, <2>8, <2>9, <2>11
<1> QED BY <1>1, <1>2, StepWrites DEF AnnouncedOK

\* What a call read of a wallet is there when it saves.
LEMMA WalletTurn ==
  ASSUME Working, Working', Fair, NEW t \in Thread, NEW p, p = thread[t], AskedCall(p),
         WalletCall(p),
         \A o \in Owner : wallets[o].exists => wallets'[o].exists,
         NEW q \in Memory, Turn(t, q)
  PROVE  WalletCall(q)'
<1> USE DEF Working
<1>0. p.pc # "checkCompensation"
  BY DEF Fair
<1>a. \A w, m : w \in WalletRow => Debited(w, m).exists = w.exists /\ Held(w, m).exists = w.exists
  BY DEF Debited, Held, WalletRow
<1>b. ASSUME q.pc \in InsertsPC
      PROVE  q.entry.owner \in Owner /\ WalletOf(q) \in WalletRow /\ (WalletOf(q).exists => WalletOf(q)'.exists)
  <2>1. thread'[t] = q
    BY DEF Turn, Become, ThreadsOK
  <2>2. EntryOK(q.entry)'
    BY <1>b, <2>1 DEF ThreadsOK, ProcessOK, InsertsPC, WithTransaction
  <2>3. q.entry.owner \in Owner
    BY <2>2 DEF EntryOK, Transaction
  <2> QED BY <2>3 DEF WalletOf, RowsOK
<1>1. CASE ReadsIncome(p, q) \/ ReadsForgotten(p, q)
  <2>1. q.pc = "compareEntry" /\ q.wallet = Debited(WalletOf(q), q.entry.amount)
    BY <1>1 DEF ReadsIncome, ReadsForgotten
  <2>2. \E j, type : type # "PAYOUT" /\ q.entry = CreditEntry(type, j)
    BY <1>1 DEF ReadsIncome, ReadsForgotten
  <2>3. q.entry.type # "PAYOUT"
    BY <2>2 DEF CreditEntry
  <2>4. q.wallet.exists = WalletOf(q).exists
    BY <1>a, <1>b, <2>1 DEF InsertsPC
  <2> QED BY <1>b, <2>3, <2>4 DEF WalletCall, InsertsPC
<1>2. CASE FindsWallet(p, q)
  <2>1. q.pc = "compareEntry" /\ q.wallet = Held(WalletOf(p), -p.entry.amount) /\ q.entry = p.entry
        /\ WalletOf(p).exists
    BY <1>2 DEF FindsWallet
  <2>2. WalletOf(p) = WalletOf(q)
    BY <2>1 DEF WalletOf
  <2>3. q.wallet.exists /\ WalletOf(q)'.exists
    BY <1>a, <1>b, <2>1, <2>2 DEF InsertsPC
  <2> QED BY <2>3 DEF WalletCall
<1>3. CASE Compares(p, q)
  <2>1. q.wallet = p.wallet /\ q.entry = p.entry /\ (q.pc \in InsertsPC => p.pc \in InsertsPC)
    BY <1>3 DEF Compares, InsertsPC
  <2>2. WalletOf(p) = WalletOf(q)
    BY <2>1 DEF WalletOf
  <2>3. q.pc \in InsertsPC /\ q.wallet.exists => WalletOf(q)'.exists
    BY <1>b, <2>1, <2>2 DEF WalletCall
  <2> QED BY <2>1, <2>3 DEF WalletCall
<1>4. CASE q.pc \notin InsertsPC
  BY <1>4 DEF WalletCall
<1>5. q.pc \in InsertsPC => ReadsIncome(p, q) \/ ReadsForgotten(p, q) \/ FindsWallet(p, q) \/ Compares(p, q)
  <2>1. ~FindsNone(p, q)
    BY <1>0 DEF FindsNone
  <2>2. Inserts(p, q) => q.pc \notin InsertsPC
    BY DEF Inserts, Memory, InsertsPC, ThreadsOK
  <2>3. Stops(q) \/ Updates(p, q) => q.pc \notin InsertsPC
    BY IdleFields DEF Stops, Updates, InsertsPC
  <2>4. ReadsCompensation(p, q) \/ BeginsHold(p, q) \/ BeginsRelease(p, q) \/ FindsPending(p, q)
        \/ TurnsToCompensations(p, q) => q.pc \notin InsertsPC
    BY DEF ReadsCompensation, BeginsHold, BeginsRelease, FindsPending, TurnsToCompensations,
       InsertsPC
  <2>5. PayoutMove(p, q) \/ Starts(q) => q.pc \notin InsertsPC
    BY IdleFields DEF PayoutMove, PayoutPC, Starts, RepairsForgotten, InsertsPC
  <2> QED BY <2>1, <2>2, <2>3, <2>4, <2>5 DEF Turn, WalletMove
<1> QED BY <1>1, <1>2, <1>3, <1>4, <1>5

\* So every credit is of somebody who has a wallet.
LEMMA WalletsThereStep ==
  ASSUME Working, Working', AnnouncedOK, Fair, Asked, WalletsThere, Next
  PROVE  WalletsThere'
<1> USE DEF Working
<1>1. \A o \in Owner : wallets[o].exists => wallets'[o].exists
  BY WalletsStay
<1>2. ASSUME NEW i \in Credits' PROVE wallets'[transactions'[i].owner].exists
  <2>1. CASE SameFacts
    <3>1. i \in Credits /\ transactions'[i].owner = transactions[i].owner
      BY <2>1 DEF SameFacts, Credits
    <3>2. EntryOK(transactions[i])
      BY <3>1 DEF RowsOK, Credits
    <3>3. transactions[i].owner \in Owner
      BY <3>2 DEF EntryOK, Transaction
    <3> QED BY <1>1, <3>1, <3>3 DEF WalletsThere
  <2>2. ASSUME NEW t \in Thread, NEW n, Enters(t, n, thread[t].entry)
        PROVE  wallets'[transactions'[i].owner].exists
    <3>1. CASE i # n
      <4>1. i \in Credits /\ transactions'[i] = transactions[i]
        BY <2>2, <3>1 DEF Enters, Credits
      <4>2. EntryOK(transactions[i])
        BY <4>1 DEF RowsOK, Credits
      <4>3. transactions[i].owner \in Owner
        BY <4>2 DEF EntryOK, Transaction
      <4> QED BY <1>1, <4>1, <4>3 DEF WalletsThere
    <3>2. CASE i = n
      <4>1. PICK p : p = thread[t]
        OBVIOUS
      <4>2. PICK q \in Memory : Inserts(p, q)
        BY <2>2, <4>1 DEF Enters
      <4>3. p.pc = "writeEntry" /\ transactions'[i] = p.entry
        BY <2>2, <3>2, <4>1 DEF Enters
      <4>4. EntryOK(p.entry) /\ WalletCall(p) /\ p \in Memory
        BY <4>1, <4>3 DEF ThreadsOK, ProcessOK, WithTransaction, WalletsThere
      <4>5. PICK o : o = p.entry.owner
        OBVIOUS
      <4>6. o \in Owner
        BY <4>4, <4>5 DEF EntryOK, Transaction
      <4>7. CASE p.wallet.exists
        <5>1. wallets[o].exists
          BY <4>3, <4>4, <4>5, <4>7 DEF WalletCall, WalletOf, InsertsPC
        <5> QED BY <1>1, <4>3, <4>5, <4>6, <5>1
      <4>8. CASE ~p.wallet.exists
        <5>1. wallets' = [wallets EXCEPT ![o] = [p.wallet EXCEPT !.exists = TRUE]]
          BY <4>2, <4>5, <4>8 DEF Inserts
        <5>2. wallets'[o] = [p.wallet EXCEPT !.exists = TRUE]
          BY <4>6, <5>1 DEF RowsOK
        <5>3. p.wallet \in WalletRow
          BY <4>4 DEF Memory
        <5>4. wallets'[o].exists
          BY <5>2, <5>3 DEF WalletRow
        <5> QED BY <4>3, <4>5, <5>4
      <4> QED BY <4>7, <4>8
    <3> QED BY <3>1, <3>2
  <2> QED BY <2>1, <2>2, TablesMove
<1>3. ASSUME NEW u \in Thread PROVE WalletCall(thread[u])'
  <2>1. ASSUME thread'[u] = thread[u] PROVE WalletCall(thread[u])'
    <3>1. PICK p : p = thread[u]
      OBVIOUS
    <3>2. p.pc \in InsertsPC => p.entry.owner \in Owner
      <4>1. p.pc \in InsertsPC => EntryOK(p.entry)
        BY <3>1 DEF ThreadsOK, ProcessOK, InsertsPC, WithTransaction
      <4> QED BY <4>1 DEF EntryOK, Transaction
    <3>3. WalletCall(p)
      BY <3>1 DEF WalletsThere
    <3>4. WalletCall(p)'
      BY <1>1, <3>2, <3>3 DEF WalletCall, WalletOf
    <3> QED BY <2>1, <3>1, <3>4 DEF WalletCall, WalletOf
  <2>2. ASSUME NEW t \in Thread, NEW q \in Memory, Turn(t, q) PROVE WalletCall(thread[u])'
    <3>1. thread'[u] = IF u = t THEN q ELSE thread[u]
      BY <2>2 DEF Turn, Become, ThreadsOK
    <3>2. CASE u = t
      <4>1. AskedCall(thread[t]) /\ WalletCall(thread[t])
        BY DEF Asked, WalletsThere
      <4>2. WalletCall(q)'
        BY <1>1, <2>2, <4>1, WalletTurn
      <4>3. thread'[u] = q
        BY <3>1, <3>2
      <4> QED BY <4>2, <4>3 DEF WalletCall, WalletOf
    <3> QED BY <2>1, <3>1, <3>2
  <2>3. CASE Crash
    <3>1. thread'[u] = Idle /\ Idle.pc \notin InsertsPC
      BY <2>3, IdleFields DEF Crash, InsertsPC
    <3> QED BY <3>1 DEF WalletCall
  <2> QED BY <2>1, <2>2, <2>3, Turns
<1> QED BY <1>2, <1>3 DEF WalletsThere

------------------------------------------------------------------------------
(* What was announced is credited                                             *)

\* What a call is to repair, it has not in hand, and nobody credited it.
LEMMA AskedTurn ==
  ASSUME IncomesCounted, NEW t \in Thread, NEW p \in Memory, p = thread[t], AskedCall(p),
         NEW q \in Memory, Turn(t, q)
  PROVE  AskedCall(q)
<1>1. \A x : PayoutEntry(x).type = "PAYOUT"
  BY DEF PayoutEntry
<1>2. q.pc \in ReleasePC \cup {"findWallet"} => q.entry.type = "PAYOUT"
  <2>1. CASE BeginsHold(p, q) \/ BeginsRelease(p, q)
    BY <1>1, <2>1 DEF BeginsHold, BeginsRelease
  <2>2. CASE FindsPending(p, q) \/ Compares(p, q)
    BY <2>2 DEF FindsPending, Compares, AskedCall, ReleasePC
  <2>3. ReadsIncome(p, q) \/ ReadsCompensation(p, q) \/ ReadsForgotten(p, q) \/ FindsNone(p, q)
        \/ FindsWallet(p, q) \/ TurnsToCompensations(p, q) => q.pc \notin ReleasePC \cup {"findWallet"}
    BY DEF ReadsIncome, ReadsCompensation, ReadsForgotten, FindsNone, FindsWallet,
       TurnsToCompensations, ReleasePC
  <2>4. Stops(q) \/ Updates(p, q) \/ Inserts(p, q) => q.pc \notin ReleasePC \cup {"findWallet"}
    BY IdleFields DEF Stops, Updates, Inserts, Memory, ReleasePC
  <2>5. PayoutMove(p, q) \/ Starts(q) => q.pc \notin ReleasePC \cup {"findWallet"}
    BY IdleFields DEF PayoutMove, PayoutPC, Starts, RepairsForgotten, ReleasePC
  <2> QED BY <2>1, <2>2, <2>3, <2>4, <2>5 DEF Turn, WalletMove
<1> DEFINE Unpaid == \A j \in q.incomes : /\ announced[j] > 0
                                          /\ ~IsCredited("INCOME", j) /\ ~HasInHand(q, j)
<1> SUFFICES Unpaid
  BY <1>2 DEF AskedCall
<1>3. ASSUME q.incomes \subseteq p.incomes, \A j \in q.incomes : HasInHand(q, j) => HasInHand(p, j)
      PROVE  Unpaid
  BY <1>3 DEF AskedCall
<1>4. ASSUME q.incomes = {} PROVE Unpaid
  BY <1>4
<1>5. CASE RepairsForgotten(q)
  <2>1. \A j : ~HasInHand(q, j)
    BY <1>5 DEF RepairsForgotten, HasInHand, InsertsPC
  <2>2. ASSUME NEW j \in q.incomes PROVE announced[j] > 0 /\ ~IsCredited("INCOME", j)
    <3>1. j \in Forgotten /\ jobs[j] = "FULFILLED"
      BY <1>5 DEF RepairsForgotten
    <3>2. j \in Job /\ ~IsCredited("INCOME", j)
      BY <3>1 DEF Forgotten, IsCredited
    <3> QED BY <3>1, <3>2 DEF IncomesCounted, IncomeCounted
  <2> QED BY <2>1, <2>2
<1>6. CASE ReadsForgotten(p, q)
  <2>1. CASE p.pc = "regenIncome"
    <3>1. PICK i \in p.incomes : q.entry = CreditEntry("INCOME", i) /\ q.incomes = p.incomes \ {i}
      BY <1>6, <2>1 DEF ReadsForgotten
    <3>2. \A j : HasInHand(q, j) => j = i
      BY <3>1 DEF HasInHand, CreditEntry
    <3> QED BY <3>1, <3>2 DEF AskedCall
  <2>2. CASE p.pc # "regenIncome"
    <3>1. q.incomes = p.incomes
          /\ \E j : q.entry = CreditEntry("RESCHEDULE_SURCHARGE_COMPENSATION", j)
      BY <1>6, <2>2 DEF ReadsForgotten
    <3>2. q.entry.type # "INCOME"
      BY <3>1 DEF CreditEntry
    <3>3. \A j : ~HasInHand(q, j)
      BY <3>2 DEF HasInHand
    <3> QED BY <1>3, <3>1, <3>3
  <2> QED BY <2>1, <2>2
<1>7. CASE Compares(p, q)
  <2>1. \A j : HasInHand(q, j) => HasInHand(p, j)
    BY <1>7 DEF Compares, HasInHand, InsertsPC
  <2> QED BY <1>3, <1>7, <2>1 DEF Compares, KeptAway
<1>8. CASE FindsNone(p, q)
  <2>1. \A j : HasInHand(q, j) => HasInHand(p, j)
    BY <1>8 DEF FindsNone, HasInHand, InsertsPC
  <2> QED BY <1>3, <1>8, <2>1 DEF FindsNone, KeptAway
<1>9. CASE FindsWallet(p, q)
  <2>1. q.entry.type = "PAYOUT" /\ q.incomes = p.incomes
    BY <1>9 DEF FindsWallet, AskedCall, KeptAway
  <2>2. \A j : ~HasInHand(q, j)
    BY <2>1 DEF HasInHand
  <2> QED BY <1>3, <2>1, <2>2
<1>10. CASE FindsPending(p, q) \/ TurnsToCompensations(p, q) \/ Inserts(p, q)
  <2>1. q.pc \notin InsertsPC \cup {"checkCompensation"} /\ q.incomes = p.incomes
    BY <1>10 DEF FindsPending, TurnsToCompensations, KeptAway, Inserts, Memory, InsertsPC
  <2> QED BY <1>3, <2>1 DEF HasInHand
<1>11. CASE PayoutMove(p, q) /\ q # Idle
  <2>1. q.pc \notin InsertsPC \cup {"checkCompensation"} /\ q.incomes \subseteq p.incomes
    BY <1>11 DEF PayoutMove, KeptAway, PayoutPC, InsertsPC
  <2> QED BY <1>3, <2>1 DEF HasInHand
<1>12. CASE \/ q = Idle \/ ReadsIncome(p, q) \/ ReadsCompensation(p, q) \/ BeginsHold(p, q)
            \/ BeginsRelease(p, q) \/ (Starts(q) /\ ~RepairsForgotten(q))
  <2>1. NothingToRepair(q)
    BY <1>12, IdleFields DEF ReadsIncome, ReadsCompensation, BeginsHold, BeginsRelease, Starts
  <2> QED BY <1>4, <2>1 DEF NothingToRepair
<1> QED
  BY <1>5, <1>6, <1>7, <1>8, <1>9, <1>10, <1>11, <1>12 DEF Turn, WalletMove, Stops, Updates

\* A repair stays one of incomes that nobody credits, where it is not made beside other
\* calls.
LEMMA AskedStep ==
  ASSUME "regen" \notin Overlapping, Working, AnnouncedOK, Asked, Next
  PROVE  Asked'
<1> USE DEF Working
<1>1. \A j \in Job : announced[j] > 0 => announced'[j] > 0
  BY AnnouncedStays DEF AnnouncedOK, AnnouncedStay
<1>2. ASSUME NEW u \in Thread, NEW j, IsCredited("INCOME", j)', ~IsCredited("INCOME", j)
      PROVE  j \notin thread'[u].incomes
  <2>1. ~SameFacts
    BY <1>2 DEF SameFacts, IsCredited
  <2>2. PICK t \in Thread : \E n : Enters(t, n, thread[t].entry)
    BY <2>1, TablesMove
  <2>3. PICK p, e, n : p = thread[t] /\ e = p.entry /\ Enters(t, n, e)
    BY <2>2
  <2>4. e.type = "INCOME" /\ e.job = j
    BY <1>2, <2>3 DEF Enters, IsCredited
  <2>5. HasInHand(p, j)
    BY <2>3, <2>4 DEF Enters, HasInHand, InsertsPC
  <2>6. j \notin p.incomes
    BY <2>3, <2>5 DEF Asked, AskedCall
  <2>7. thread'[u].incomes = thread[u].incomes
    <3>1. PICK q \in Memory : Become(t, q) /\ Inserts(p, q)
      BY <2>3 DEF Enters
    <3>2. thread'[u] = IF u = t THEN q ELSE thread[u]
      BY <3>1 DEF Become, ThreadsOK
    <3> QED BY <2>3, <3>1, <3>2 DEF Inserts
  <2>8. CASE u # t
    <3>1. ~Running(t, "idle")
      BY <2>3 DEF Enters, Running
    <3>2. NothingToRepair(thread[u])
      BY <2>8, <3>1 DEF Asked, RepairsAlone
    <3> QED BY <2>7, <3>2 DEF NothingToRepair
  <2> QED BY <2>3, <2>6, <2>7, <2>8
<1>3. ASSUME NEW u \in Thread
      PROVE  AskedCall(thread'[u]) /\ thread'[u].incomes \subseteq Job
  <2>1. AskedCall(thread[u]) /\ thread[u].incomes \subseteq Job
    BY DEF Asked, ThreadsOK, Memory
  <2>2. ASSUME NEW t \in Thread, NEW q \in Memory, Turn(t, q)
        PROVE  AskedCall(thread'[u]) /\ thread'[u].incomes \subseteq Job
    <3>1. thread'[u] = IF u = t THEN q ELSE thread[u]
      BY <2>2 DEF Turn, Become, ThreadsOK
    <3>2. PICK p \in Memory : p = thread[t] /\ AskedCall(p)
      BY DEF Asked, ThreadsOK
    <3>3. AskedCall(q)
      BY <2>2, <3>2, AskedTurn DEF Asked
    <3>4. q.incomes \subseteq Job
      BY DEF Memory
    <3> QED BY <2>1, <3>1, <3>3, <3>4
  <2>3. CASE Crash
    <3>1. thread'[u] = Idle
      BY <2>3 DEF Crash
    <3>2. Idle.incomes = {} /\ Idle.pc \notin ReleasePC \cup {"findWallet"}
      BY IdleFields DEF NothingToRepair, ReleasePC
    <3> QED BY <3>1, <3>2 DEF AskedCall
  <2> QED BY <2>1, <2>2, <2>3, Turns
<1>4. ASSUME NEW u \in Thread PROVE AskedCall(thread[u])'
  <2>1. PICK m : m = thread'[u]
    OBVIOUS
  <2>2. AskedCall(m) /\ m.incomes \subseteq Job
    BY <1>3, <2>1
  <2>3. ASSUME NEW j \in m.incomes
        PROVE  announced'[j] > 0 /\ ~IsCredited("INCOME", j)' /\ ~HasInHand(m, j)
    <3>1. announced[j] > 0 /\ ~IsCredited("INCOME", j) /\ ~HasInHand(m, j)
      BY <2>2, <2>3 DEF AskedCall
    <3>2. j \in Job
      BY <2>2, <2>3
    <3>3. announced'[j] > 0
      BY <1>1, <3>1, <3>2
    <3>4. ~IsCredited("INCOME", j)'
      BY <1>2, <2>1, <2>3, <3>1
    <3> QED BY <3>1, <3>3, <3>4
  <2>4. m.pc \in ReleasePC \cup {"findWallet"} => m.entry.type = "PAYOUT"
    BY <2>2 DEF AskedCall
  <2> QED BY <2>1, <2>3, <2>4 DEF AskedCall, HasInHand
<1>5. RepairsAlone' /\ IncomesCounted'
  BY RepairsStep, IncomesStep DEF Asked
<1> QED BY <1>4, <1>5 DEF Asked

\* A job that was announced once is paid for once.
LEMMA PaidForOnce ==
  ASSUME Working, IncomesCounted, \A j \in Job : announced[j] <= 1
  PROVE  EarnedOnce
<1> USE DEF Working
<1>1. SUFFICES ASSUME NEW i \in Of("INCOME"), NEW k \in Of("INCOME"),
                      transactions[i].job = transactions[k].job, i # k
               PROVE  FALSE
  BY DEF EarnedOnce
<1>2. PICK j : j = transactions[i].job
  OBVIOUS
<1>3. j \in Job
  <2>1. EntryOK(transactions[i]) /\ transactions[i].type = "INCOME"
    BY DEF RowsOK, Of
  <2> QED BY <1>2, <2>1 DEF EntryOK, CreditType
<1>4. i \in Incomes(j) /\ k \in Incomes(j)
  BY <1>1, <1>2 DEF Incomes, CreditsFor
<1>5. IsFiniteSet(Incomes(j)) /\ Cardinality(Incomes(j)) \in Nat
  BY CreditsFinite DEF Incomes
<1>6. Cardinality(Incomes(j)) <= 1
  <2>1. Cardinality(Hands(j)) \in Nat
    BY HandsFinite
  <2>2. todo[IncomeTask(j)] \in Nat
    BY <1>3 DEF TodoOK, IncomeTask, Task
  <2>3. Cardinality(Incomes(j)) + todo[IncomeTask(j)] + Cardinality(Hands(j)) <= announced[j]
    BY <1>3 DEF IncomesCounted, IncomeCounted
  <2>4. announced[j] \in Nat /\ announced[j] <= 1
    BY <1>3 DEF IncomesCounted
  <2> QED BY <1>5, <2>1, <2>2, <2>3, <2>4
<1>7. IsFiniteSet({i, k}) /\ Cardinality({i, k}) = 2
  <2>1. IsFiniteSet({i}) /\ Cardinality({i}) = 1
    BY FS_Singleton
  <2>2. {i, k} = {i} \cup {k} /\ k \notin {i}
    BY <1>1
  <2> QED BY <2>1, <2>2, FS_AddElement
<1>8. Cardinality({i, k}) <= Cardinality(Incomes(j))
  BY <1>4, <1>5, FS_Subset
<1> QED BY <1>5, <1>6, <1>7, <1>8

------------------------------------------------------------------------------
(* Lines pay credits                                                          *)

\* Line l pays credit i.
PaysFor(l, i) ==
  /\ lines[l].job = transactions[i].job /\ lines[l].amount = transactions[i].amount
  /\ lines[l].payout = transactions[i].payout

\* Each line pays a credit, no job has two lines, and a payout has all of its lines or none.
Mirrored ==
  /\ \A l \in DOMAIN lines : \E i \in Credits : PaysFor(l, i)
  /\ \A l, k \in DOMAIN lines : lines[l].job = lines[k].job => l = k
  /\ \A x \in DOMAIN payouts : LinesOf(x) # {} =>
       \A i \in CreditsOf(x) : \E l \in LinesOf(x) : PaysFor(l, i)

\* A schedule that saved its payouts has all of their credits in hand, and no line yet.
Drafted(p) ==
  /\ \A r \in p.rows : /\ LinesOf(r) = {} /\ CreditsOf(r) \subseteq p.ids
                       /\ payouts[r].status = "SCHEDULED"
  /\ \A i \in p.ids : transactions[i].owner \in Payable => transactions[i].payout \in p.rows
  /\ \A r, s \in p.rows : payouts[r].owner = payouts[s].owner => r = s

\* What a schedule does once it read the credits.
SchedulePC == {"savePayouts", "saveLines"}

\* A schedule under way is alone, and its drafts are as it saved them.
Schedules == \A t \in Thread :
  /\ thread[t].pc \in SchedulePC => Sole(t)
  /\ thread[t].pc = "saveLines" => Drafted(thread[t])

\* The lines are of the same jobs, amounts and payouts.
LinesStay ==
  /\ DOMAIN lines' = DOMAIN lines
  /\ \A l \in DOMAIN lines : /\ lines'[l].job = lines[l].job /\ lines'[l].owner = lines[l].owner
                             /\ lines'[l].amount = lines[l].amount
                             /\ lines'[l].payout = lines[l].payout

\* A credit that a payout pays stays the same credit of that payout.
CreditsStay ==
  /\ \A i \in Credits : /\ i \in Credits'
                        /\ transactions'[i].job = transactions[i].job
                        /\ transactions'[i].amount = transactions[i].amount
                        /\ transactions[i].payout # 0 => transactions'[i].payout = transactions[i].payout
  /\ \A i \in Credits' : transactions'[i].payout \in DOMAIN payouts =>
       i \in Credits /\ transactions'[i].payout = transactions[i].payout

\* Lines that are given a status keep what they pay.
LEMMA SetLinesStay ==
  ASSUME RowsOK, NEW S, NEW status, lines' = SetLines(S, status)
  PROVE  LinesStay /\ \A l \in DOMAIN lines :
           lines'[l].status = IF l \in S THEN status ELSE lines[l].status
<1>1. DOMAIN lines' = DOMAIN lines
  BY DEF SetLines
<1>2. ASSUME NEW l \in DOMAIN lines
      PROVE  /\ lines'[l].job = lines[l].job /\ lines'[l].owner = lines[l].owner
             /\ lines'[l].amount = lines[l].amount /\ lines'[l].payout = lines[l].payout
             /\ lines'[l].status = IF l \in S THEN status ELSE lines[l].status
  <2>1. PICK r : r = lines[l]
    OBVIOUS
  <2>2. r \in Line
    BY <2>1 DEF RowsOK
  <2>3. lines'[l] = IF l \in S THEN [r EXCEPT !.status = status] ELSE r
    BY <2>1 DEF SetLines
  <2> QED BY <2>1, <2>2, <2>3 DEF Line
<1> QED BY <1>1, <1>2 DEF LinesStay

\* Only a schedule makes lines.
LEMMA LinesMove ==
  ASSUME Working, Next, \A t \in Thread : ~SaveLines(t)
  PROVE  LinesStay
<1> USE DEF Working
<1>1. UNCHANGED lines => LinesStay
  BY DEF LinesStay
<1>2. CASE Request
  <2>1. UNCHANGED lines
    BY <1>2 DEF Request, Fulfil, TestFulfilled, Announce, Fail, StartRegen, Schedule, Upload,
       Settle, Mark, Update, Patch, rows
  <2> QED BY <1>1, <2>1
<1>3. ASSUME NEW t \in Thread, PayoutStep(t) PROVE LinesStay
  <2>1. CASE SaveMarked(t) \/ SaveSentLines(t)
    BY <2>1, SetLinesStay DEF SaveMarked, SaveSentLines
  <2>2. CASE ~SaveMarked(t) /\ ~SaveSentLines(t)
    <3>1. UNCHANGED lines
      BY <1>3, <2>2 DEF PayoutStep, SavePayouts, ReadLines, SaveBatch, Send, CloseBatch,
         Increment, CheckPaid, SavePaid, SaveStatus, SaveSettled, rows
    <3> QED BY <1>1, <3>1
  <2> QED BY <2>1, <2>2
<1>4. CASE Command \/ Crash
  BY <1>1, <1>4 DEF Command, Crash, rows
<1> QED BY <1>2, <1>3, <1>4 DEF Next, Program

\* A schedule saves rows R[o] for the owners o in S, and points at them the credits in hand.
DraftsRows(t, R, S) ==
   /\ R \in [S -> DOMAIN payouts' \ DOMAIN payouts]
   /\ DOMAIN payouts \subseteq DOMAIN payouts' /\ 0 \notin DOMAIN payouts'
   /\ \A x \in DOMAIN payouts : payouts'[x] = payouts[x]
   /\ \A o \in S : payouts'[R[o]].owner = o
   /\ \A x \in DOMAIN payouts' \ DOMAIN payouts :
        /\ \E o \in S : x = R[o]
        /\ payouts'[x].status = "SCHEDULED" /\ payouts'[x].processed = 0
   /\ thread[t].pc = "savePayouts" /\ thread[t].ids \subseteq Debitable
   /\ thread' = [thread EXCEPT ![t] = [thread[t] EXCEPT !.pc = "saveLines",
                                                        !.rows = {R[o] : o \in S}]]
   /\ DOMAIN transactions' = DOMAIN transactions
   /\ \A i \in DOMAIN transactions :
        /\ transactions'[i].type = transactions[i].type
        /\ transactions'[i].owner = transactions[i].owner
        /\ transactions'[i].job = transactions[i].job
        /\ transactions'[i].amount = transactions[i].amount
        /\ transactions'[i].payout = IF i \in thread[t].ids /\ transactions[i].owner \in S
                                     THEN R[transactions[i].owner]
                                     ELSE transactions[i].payout
   /\ \A i \in thread[t].ids : transactions[i].owner \in Payable => transactions[i].owner \in S

\* What a schedule saves points credits that nothing paid at new payouts.
LEMMA DraftRows ==
  ASSUME Working, Backed, NEW t \in Thread, SavePayouts(t)
  PROVE  \E R, S : DraftsRows(t, R, S)
<1> USE DEF Working
<1>1. PICK p : p = thread[t]
  OBVIOUS
<1>2. p \in Memory /\ ProcessOK(p) /\ p.pc = "savePayouts" /\ Remembered(p)
  BY <1>1 DEF ThreadsOK, SavePayouts, Running, Backed
<1>3. p.ids \subseteq Debitable /\ p.ids \subseteq Credits
  BY <1>2 DEF Remembered, ProcessOK
<1>4. thread[t].ids \subseteq Credits
  BY <1>1, <1>3
<1>5. PICK Row \in [Payees(t) -> DOMAIN payouts' \ DOMAIN payouts] : PayoutsAre(t, Row)
  BY <1>4, PayoutsAppended
<1>6. PICK S : S = Payees(t)
  OBVIOUS
<1>7. /\ Row \in [S -> DOMAIN payouts' \ DOMAIN payouts]
      /\ DOMAIN payouts \subseteq DOMAIN payouts'
      /\ \A x \in DOMAIN payouts : payouts'[x] = payouts[x]
      /\ \A o \in S : payouts'[Row[o]].owner = o
      /\ payouts' \in Seq(PayoutRow)
      /\ transactions' = [i \in DOMAIN transactions |->
                            IF i \in p.ids /\ transactions[i].owner \in Payable
                            THEN [transactions[i] EXCEPT !.payout = Row[transactions[i].owner]]
                            ELSE transactions[i]]
      /\ Become(t, [p EXCEPT !.pc = "saveLines", !.rows = {Row[o] : o \in S}])
  BY <1>1, <1>5, <1>6, Zenon DEF PayoutsAre
<1>8. \A x \in DOMAIN payouts' \ DOMAIN payouts :
        /\ \E o \in S : x = Row[o]
        /\ payouts'[x].status = "SCHEDULED" /\ payouts'[x].processed = 0
  BY <1>5, <1>6 DEF PayoutsAre
<1>9. \A i \in p.ids : transactions[i].owner \in Payable <=> transactions[i].owner \in S
  BY <1>1, <1>6 DEF Payees, Owners
<1>10. DOMAIN transactions' = DOMAIN transactions
  BY <1>7
<1>11. ASSUME NEW i \in DOMAIN transactions
       PROVE  /\ transactions'[i].type = transactions[i].type
              /\ transactions'[i].owner = transactions[i].owner
              /\ transactions'[i].job = transactions[i].job
              /\ transactions'[i].amount = transactions[i].amount
              /\ transactions'[i].payout = IF i \in p.ids /\ transactions[i].owner \in S
                                           THEN Row[transactions[i].owner]
                                           ELSE transactions[i].payout
  <2>1. PICK r : r = transactions[i]
    OBVIOUS
  <2>2. r \in Transaction
    BY <2>1 DEF RowsOK
  <2>3. PICK n : n = Row[r.owner]
    OBVIOUS
  <2>4. transactions'[i] = IF i \in p.ids /\ r.owner \in S THEN [r EXCEPT !.payout = n] ELSE r
    BY <1>7, <1>9, <2>1, <2>3
  <2> QED BY <2>1, <2>2, <2>3, <2>4 DEF Transaction
<1>12. 0 \notin DOMAIN payouts'
  <2>1. DOMAIN payouts' = 1..Len(payouts')
    BY <1>7
  <2> QED BY <2>1
<1>13. thread' = [thread EXCEPT ![t] = [thread[t] EXCEPT !.pc = "saveLines",
                                                        !.rows = {Row[o] : o \in S}]]
  BY <1>1, <1>7 DEF Become
<1>14. /\ \A i \in DOMAIN transactions :
                /\ transactions'[i].type = transactions[i].type
                /\ transactions'[i].owner = transactions[i].owner
                /\ transactions'[i].job = transactions[i].job
                /\ transactions'[i].amount = transactions[i].amount
                /\ transactions'[i].payout = IF i \in thread[t].ids /\ transactions[i].owner \in S
                                             THEN Row[transactions[i].owner]
                                             ELSE transactions[i].payout
       /\ \A i \in thread[t].ids : transactions[i].owner \in Payable => transactions[i].owner \in S
  BY <1>1, <1>9, <1>11
<1>15. thread[t].pc = "savePayouts" /\ thread[t].ids \subseteq Debitable
  BY <1>1, <1>2, <1>3
<1> HIDE DEF Working
<1>16. Row \in [S -> DOMAIN payouts' \ DOMAIN payouts]
  BY <1>7
<1>17. /\ DOMAIN payouts \subseteq DOMAIN payouts'
       /\ \A x \in DOMAIN payouts : payouts'[x] = payouts[x]
       /\ \A o \in S : payouts'[Row[o]].owner = o
  BY <1>7
<1>18. DraftsRows(t, Row, S)
  BY <1>8, <1>10, <1>12, <1>13, <1>14, <1>15, <1>16, <1>17, Zenon DEF DraftsRows
<1> QED BY <1>18

\* No step takes a credit from its payout, and new credits are part of none.
LEMMA CreditsMove ==
  ASSUME Working, AnnouncedOK, Backed, Next
  PROVE  CreditsStay
<1> USE DEF Working
<1>1. UNCHANGED transactions => CreditsStay
  BY DEF CreditsStay, Credits
<1>2. 0 \notin DOMAIN payouts
  BY DEF RowsOK
<1>3. ASSUME NEW t \in Thread, Writes(t) PROVE CreditsStay
  <2>1. CASE SameFacts
    <3>1. PICK q \in Memory : Inserts(thread[t], q) \/ Updates(thread[t], q)
      BY <1>3 DEF Writes
    <3>2. UNCHANGED payouts
      BY <1>3 DEF Writes
    <3>3. PICK x, e : x = thread[t].trx /\ e = thread[t].entry
      OBVIOUS
    <3>4. CASE Updates(thread[t], q)
      <4>1. transactions' = [transactions EXCEPT ![x].status = "SUCCESS"]
        BY <3>3, <3>4 DEF Updates
      <4>2. Continues
        BY <3>2, <4>1, UpdateContinues
      <4> QED BY <2>1, <4>2 DEF CreditsStay, Credits, SameFacts, Continues
    <3>5. CASE Inserts(thread[t], q)
      <4>1. transactions' = Append(transactions, e) /\ thread[t].pc = "writeEntry"
        BY <3>3, <3>5 DEF Inserts
      <4>2. e \in Transaction
        BY <3>3, <4>1 DEF ThreadsOK, ProcessOK, WithTransaction, EntryOK
      <4>3. /\ DOMAIN transactions' = DOMAIN transactions \cup {Len(transactions) + 1}
            /\ Len(transactions) \in Nat /\ DOMAIN transactions = 1..Len(transactions)
        BY <3>2, <4>1, <4>2, InsertContinues
      <4>4. Len(transactions) + 1 \notin DOMAIN transactions
        BY <4>3
      <4> QED BY <2>1, <4>3, <4>4 DEF SameFacts
    <3> QED BY <3>1, <3>4, <3>5
  <2>2. ASSUME NEW n, NEW e, Enters(t, n, e) PROVE CreditsStay
    <3>1. e.type \in CreditType => e.payout = 0
      BY <2>2 DEF Enters, Backed, Remembered, WithTransaction, BackedEntry
    <3>2. /\ DOMAIN transactions' = DOMAIN transactions \cup {n} /\ transactions'[n] = e
          /\ \A i \in DOMAIN transactions : transactions'[i] = transactions[i]
      BY <2>2 DEF Enters
    <3>3. n \in Credits' => transactions'[n].payout \notin DOMAIN payouts
      BY <1>2, <3>1, <3>2 DEF Credits
    <3>4. \A i \in DOMAIN transactions : i \in Credits' <=> i \in Credits
      BY <3>2 DEF Credits
    <3>5. Credits \subseteq DOMAIN transactions /\ Credits' \subseteq DOMAIN transactions \cup {n}
      BY <3>2 DEF Credits
    <3> QED BY <3>2, <3>3, <3>4, <3>5 DEF CreditsStay
  <2> QED BY <1>3, <2>1, <2>2, WritesEnter
<1>4. ASSUME NEW t \in Thread, SavePayouts(t) PROVE CreditsStay
  <2>0. PICK R, S : DraftsRows(t, R, S)
    BY <1>4, DraftRows
  <2>1. /\ R \in [S -> DOMAIN payouts' \ DOMAIN payouts]
        /\ thread[t].ids \subseteq Debitable
        /\ DOMAIN transactions' = DOMAIN transactions
        /\ \A i \in DOMAIN transactions :
             /\ transactions'[i].type = transactions[i].type
             /\ transactions'[i].job = transactions[i].job
             /\ transactions'[i].amount = transactions[i].amount
             /\ transactions'[i].payout = IF i \in thread[t].ids /\ transactions[i].owner \in S
                                          THEN R[transactions[i].owner]
                                          ELSE transactions[i].payout
    BY <2>0, Zenon DEF DraftsRows
  <2>2. \A i \in thread[t].ids : transactions[i].payout = 0
    BY <2>1 DEF Debitable
  <2>3. \A i \in DOMAIN transactions : i \in Credits' <=> i \in Credits
    BY <2>1 DEF Credits
  <2>4. Credits \subseteq DOMAIN transactions /\ Credits' \subseteq DOMAIN transactions
    BY <2>1 DEF Credits
  <2>5. \A o \in S : R[o] \notin DOMAIN payouts
    BY <2>1
  <2> QED BY <2>1, <2>2, <2>3, <2>4, <2>5 DEF CreditsStay
<1>5. CASE Request
  BY <1>1, <1>5, RequestStarts
<1>6. ASSUME NEW t \in Thread, WalletStep(t) PROVE CreditsStay
  <2>1. PICK q \in Memory : Become(t, q) /\ WalletMove(thread[t], q)
    BY <1>6, StepMoves DEF Moves
  <2>2. UNCHANGED <<jobs, payouts>>
    BY <1>6, StepMoves DEF Moves
  <2>3. Inserts(thread[t], q) \/ Updates(thread[t], q) \/ UNCHANGED <<wallets, transactions>>
    BY <2>1 DEF WalletMove, Stops, ReadsIncome, ReadsCompensation, ReadsForgotten, FindsNone,
       BeginsHold, BeginsRelease, FindsWallet, FindsPending, Compares, TurnsToCompensations
  <2>4. AnnouncedStay
    BY AnnouncedStays DEF AnnouncedOK
  <2> QED BY <1>1, <1>3, <2>1, <2>2, <2>3, <2>4 DEF Writes
<1>7. CASE Command
  BY <1>1, <1>6, <1>7 DEF Command, DismissCompensation
<1>8. ASSUME NEW t \in Thread, PayoutStep(t), ~SavePayouts(t) PROVE CreditsStay
  BY <1>1, <1>8, DebtsStay DEF SameDebts
<1>9. CASE Crash
  BY <1>1, <1>9 DEF Crash, rows
<1> QED BY <1>4, <1>5, <1>7, <1>8, <1>9 DEF Next, Program

\* Row r is a new line of credit i.
NewLine(r, i) ==
  /\ r.job = transactions[i].job /\ r.owner = transactions[i].owner
  /\ r.amount = transactions[i].amount /\ r.payout = transactions[i].payout
  /\ r.status = "SCHEDULED"

\* The lines that a step made.
NewLines == DOMAIN lines' \ DOMAIN lines

\* A line is added for each of some credits, one for a job.
LinesOfCredits(S) ==
  /\ DOMAIN lines \subseteq DOMAIN lines'
  /\ \A l \in DOMAIN lines : lines'[l] = lines[l]
  /\ \A l \in NewLines : \E i \in S : NewLine(lines'[l], i)
  /\ \A i \in S : \E l \in NewLines : NewLine(lines'[l], i)
  /\ \A l, k \in NewLines : lines'[l].job = lines'[k].job => l = k

\* A schedule adds a line for each credit that it has in hand, or none at all.
LEMMA LinesSaved ==
  ASSUME Working, Backed, Fair, EarnedOnce, NEW t \in Thread, SaveLines(t), Drafted(thread[t])
  PROVE  \/ UNCHANGED <<lines, todo>>
         \/ /\ LinesOfCredits(thread[t].ids) /\ Owners(thread[t].ids) \subseteq Payable
            /\ Publish(Tasks("hold", thread[t].rows))
<1>1. PICK p : p = thread[t]
  OBVIOUS
<1>2. ProcessOK(p) /\ p.pc = "saveLines" /\ Drafted(p)
  BY <1>1 DEF Working, ThreadsOK, SaveLines, Running
<1>3. p.ids \subseteq Credits /\ p.ids \subseteq DOMAIN transactions /\ p.rows \subseteq DOMAIN payouts
  BY <1>2 DEF ProcessOK, Credits
<1>4. \A i \in p.ids : transactions[i].type = "INCOME"
  BY <1>3 DEF Credits, Fair, FairEntry
<1>5. CASE ~(Owners(p.ids) \subseteq Payable)
  BY <1>1, <1>5 DEF SaveLines
<1>6. CASE Owners(p.ids) \subseteq Payable
  <2>1. PICK last, seq : LinesAre(t, last, seq)
    BY <1>1, <1>6, LinesAppended
  <2>2. /\ last \in [{transactions[i].job : i \in p.ids} -> p.ids]
        /\ \A j \in DOMAIN last : transactions[last[j]].job = j
        /\ seq \in Seq(p.ids) /\ Len(seq) \in Nat /\ DOMAIN seq = 1..Len(seq)
        /\ Len(lines) \in Nat
        /\ DOMAIN lines = 1..Len(lines) /\ DOMAIN lines' = 1..(Len(lines) + Len(seq))
        /\ \A l \in DOMAIN lines : lines'[l] = lines[l]
        /\ \A n \in DOMAIN seq : lines'[Len(lines) + n] = LineFor(t, seq[n], last)
    BY <1>1, <2>1, Zenon DEF LinesAre
  <2>3. /\ \A i \in p.ids : \E n \in DOMAIN seq : seq[n] = i
        /\ \A m, n \in DOMAIN seq : seq[m] = seq[n] => m = n
    <3>1. PICK a, b, T : /\ a = SetToSeq(T) /\ T = {i \in p.ids : transactions[i].type = "INCOME"}
                         /\ b = SetToSeq({i \in p.ids : transactions[i].type # "INCOME"})
                         /\ seq = a \o b
      BY <1>1, <2>1 DEF LinesAre
    <3>2. T = p.ids /\ {i \in p.ids : transactions[i].type # "INCOME"} = {}
      BY <1>4, <3>1
    <3>3. IsFiniteSet(T) /\ IsFiniteSet({})
      BY <1>3, <3>2, OwnersFinite, FS_EmptySet DEF Working
    <3>4. a \in Seq(T) /\ b \in Seq({})
      BY <3>1, <3>2, <3>3, SetToSeqLists
    <3>5. b = << >>
      BY <3>4
    <3>6. seq = a \o << >>
      BY <3>1, <3>5
    <3>7. a \o << >> = a
      BY <3>4
    <3>8. /\ \A x \in T : \E n \in DOMAIN a : a[n] = x
          /\ \A m, n \in DOMAIN a : a[m] = a[n] => m = n
      <4>1. /\ \A x \in T : \E n \in DOMAIN SetToSeq(T) : SetToSeq(T)[n] = x
            /\ \A m, n \in DOMAIN SetToSeq(T) : SetToSeq(T)[m] = SetToSeq(T)[n] => m = n
        BY <3>3, SetToSeqLists
      <4> QED BY <3>1, <4>1
    <3> QED BY <3>2, <3>6, <3>7, <3>8
  <2>4. ASSUME NEW n \in DOMAIN seq
        PROVE  NewLine(lines'[Len(lines) + n], seq[n])
    <3>1. PICK i, x : i = seq[n] /\ i \in p.ids /\ x = transactions[i].payout
      BY <2>2
    <3>2. last[transactions[i].job] = i
      <4>1. PICK k : k = last[transactions[i].job]
        OBVIOUS
      <4>2. k \in p.ids /\ transactions[k].job = transactions[i].job
        BY <2>2, <3>1, <4>1
      <4>3. i \in Of("INCOME") /\ k \in Of("INCOME")
        BY <1>3, <1>4, <3>1, <4>2 DEF Of
      <4> QED BY <4>1, <4>2, <4>3 DEF EarnedOnce
    <3>3. x \in p.rows
      BY <1>2, <1>6, <3>1 DEF Drafted, Owners
    <3>4. payouts[x].owner = transactions[i].owner
      <4>1. x \in DOMAIN payouts /\ i \in CreditsOf(x)
        BY <1>3, <3>1, <3>3 DEF CreditsOf
      <4> QED BY <4>1 DEF Backed, PayoutIsBacked
    <3>5. \A r \in p.rows : payouts[r].owner = transactions[i].owner => r = x
      BY <1>2, <3>3, <3>4 DEF Drafted
    <3>6. (CHOOSE r \in p.rows : payouts[r].owner = transactions[i].owner) = x
      BY <3>3, <3>4, <3>5
    <3>7. LineFor(t, i, last) = [job |-> transactions[i].job, owner |-> transactions[i].owner,
                                 amount |-> transactions[i].amount, status |-> "SCHEDULED",
                                 payout |-> x]
      BY <1>1, <3>2, <3>6 DEF LineFor
    <3>8. PICK r : r = lines'[Len(lines) + n]
      OBVIOUS
    <3>9. r = [job |-> transactions[i].job, owner |-> transactions[i].owner,
               amount |-> transactions[i].amount, status |-> "SCHEDULED", payout |-> x]
      BY <2>2, <3>1, <3>7, <3>8
    <3> QED BY <3>1, <3>8, <3>9 DEF NewLine
  <2>5. \A l \in NewLines : \E n \in DOMAIN seq : l = Len(lines) + n
    <3>1. ASSUME NEW l \in NewLines PROVE \E n \in DOMAIN seq : l = Len(lines) + n
      <4>1. l - Len(lines) \in DOMAIN seq /\ l = Len(lines) + (l - Len(lines))
        BY <2>2 DEF NewLines
      <4> QED BY <4>1
    <3> QED BY <3>1
  <2>6. \A n \in DOMAIN seq : Len(lines) + n \in NewLines
    BY <2>2 DEF NewLines
  <2>7. DOMAIN lines \subseteq DOMAIN lines'
    BY <2>2
  <2>8. \A n \in DOMAIN seq : seq[n] \in p.ids
    BY <2>2
  <2>9. \A l \in NewLines : \E i \in p.ids : NewLine(lines'[l], i)
    BY <2>4, <2>5, <2>8
  <2>10. \A i \in p.ids : \E l \in NewLines : NewLine(lines'[l], i)
    BY <2>3, <2>4, <2>6
  <2>11. ASSUME NEW l \in NewLines, NEW k \in NewLines, lines'[l].job = lines'[k].job
         PROVE  l = k
    <3>1. PICK m, n \in DOMAIN seq : l = Len(lines) + m /\ k = Len(lines) + n
      BY <2>5
    <3>2. transactions[seq[m]].job = transactions[seq[n]].job
      BY <2>4, <2>11, <3>1 DEF NewLine
    <3>3. seq[m] \in Of("INCOME") /\ seq[n] \in Of("INCOME")
      BY <1>3, <1>4, <2>8 DEF Of
    <3>4. seq[m] = seq[n]
      BY <3>2, <3>3 DEF EarnedOnce
    <3> QED BY <2>3, <3>1, <3>4
  <2>12. LinesOfCredits(p.ids)
    BY <2>2, <2>7, <2>9, <2>10, <2>11 DEF LinesOfCredits
  <2>13. Publish(Tasks("hold", p.rows))
    BY <1>1, <1>6 DEF SaveLines, PayoutScheduled
  <2> QED BY <1>1, <1>6, <2>12, <2>13
<1> QED BY <1>5, <1>6

\* The lines go on paying the credits that they paid.
LEMMA MirrorKept ==
  ASSUME RowsOK, Mirrored, LinesStay, CreditsStay, DOMAIN payouts \subseteq DOMAIN payouts'
  PROVE  Mirrored'
<1>1. ASSUME NEW l \in DOMAIN lines, NEW i \in Credits, PaysFor(l, i)
      PROVE  i \in Credits' /\ PaysFor(l, i)'
  <2>1. transactions[i].payout # 0
    BY <1>1 DEF RowsOK, PaysFor
  <2> QED BY <1>1, <2>1 DEF PaysFor, LinesStay, CreditsStay
<1>2. ASSUME NEW x \in DOMAIN payouts', LinesOf(x)' # {}, NEW i \in CreditsOf(x)'
      PROVE  \E l \in LinesOf(x)' : PaysFor(l, i)'
  <2>1. LinesOf(x)' = LinesOf(x)
    BY DEF LinesOf, LinesStay
  <2>2. x \in DOMAIN payouts
    BY <1>2, <2>1 DEF LinesOf, RowsOK
  <2>3. i \in Credits /\ i \in CreditsOf(x)
    BY <1>2, <2>2 DEF CreditsOf, CreditsStay
  <2>4. PICK l \in LinesOf(x) : PaysFor(l, i)
    BY <1>2, <2>1, <2>2, <2>3 DEF Mirrored
  <2> QED BY <1>1, <2>1, <2>3, <2>4 DEF LinesOf
<1> QED BY <1>1, <1>2 DEF Mirrored, LinesStay

\* Each step leaves each line with the credit that it pays.
LEMMA MirroredStep ==
  ASSUME Working, AnnouncedOK, Backed, Fair, EarnedOnce, Schedules, Mirrored, Next
  PROVE  Mirrored'
<1>1. CASE \A t \in Thread : ~SaveLines(t)
  <2>1. DOMAIN payouts \subseteq DOMAIN payouts'
    BY StepWrites DEF Steady, PayoutsStay, Writes, AnnouncedOK
  <2> QED BY <1>1, <2>1, LinesMove, CreditsMove, MirrorKept DEF Working
<1>2. ASSUME NEW t \in Thread, SaveLines(t) PROVE Mirrored'
  <2>1. PICK p : p = thread[t]
    OBVIOUS
  <2>2. Drafted(p) /\ p.ids \subseteq Credits
    BY <1>2, <2>1 DEF Schedules, SaveLines, Running, Working, ThreadsOK, ProcessOK
  <2>3. UNCHANGED <<transactions, payouts>>
    BY <1>2 DEF SaveLines
  <2>4. CASE UNCHANGED lines
    BY <2>3, <2>4 DEF Mirrored, PaysFor, Credits, CreditsOf, LinesOf
  <2>5. CASE LinesOfCredits(p.ids) /\ Owners(p.ids) \subseteq Payable
    <3>1. Credits' = Credits /\ \A x : CreditsOf(x)' = CreditsOf(x)
      BY <2>3 DEF Credits, CreditsOf
    <3>2. \A l \in DOMAIN lines : \A i : PaysFor(l, i) => PaysFor(l, i)'
      BY <2>3, <2>5 DEF LinesOfCredits, PaysFor
    <3>3. \A l, i : NewLine(lines'[l], i) => PaysFor(l, i)'
      BY <2>3 DEF NewLine, PaysFor
    <3>4. \A l \in DOMAIN lines' : l \in DOMAIN lines \/ l \in NewLines
      BY DEF NewLines
    <3>5. \A i \in p.ids : transactions[i].payout \in p.rows
      BY <2>2, <2>5 DEF Drafted, Owners
    <3>6. \A l \in DOMAIN lines' : \E i \in Credits' : PaysFor(l, i)'
      BY <2>2, <2>5, <3>1, <3>2, <3>3, <3>4 DEF Mirrored, LinesOfCredits
    <3>7. ASSUME NEW l \in DOMAIN lines, NEW k \in NewLines
          PROVE  lines'[l].job # lines'[k].job
      <4>1. PICK i \in Credits : PaysFor(l, i)
        BY DEF Mirrored
      <4>2. PICK c \in p.ids : NewLine(lines'[k], c)
        BY <2>5 DEF LinesOfCredits
      <4>3. i \in Of("INCOME") /\ c \in Of("INCOME")
        BY <2>2 DEF Credits, Fair, FairEntry, Of
      <4>4. lines[l].payout # transactions[c].payout
        BY <2>2, <3>5, <4>2 DEF Drafted, LinesOf
      <4>5. i # c
        BY <4>1, <4>4 DEF PaysFor
      <4>6. transactions[i].job # transactions[c].job
        BY <4>3, <4>5 DEF EarnedOnce
      <4>7. lines'[l] = lines[l]
        BY <2>5 DEF LinesOfCredits
      <4> QED BY <4>1, <4>2, <4>6, <4>7 DEF PaysFor, NewLine
    <3>8. \A l, k \in DOMAIN lines' : lines'[l].job = lines'[k].job => l = k
      <4>1. \A l, k \in DOMAIN lines : lines'[l].job = lines'[k].job => l = k
        BY <2>5 DEF LinesOfCredits, Mirrored
      <4>2. \A l, k \in NewLines : lines'[l].job = lines'[k].job => l = k
        BY <2>5 DEF LinesOfCredits
      <4> QED BY <3>4, <3>7, <4>1, <4>2
    <3>9. ASSUME NEW x \in DOMAIN payouts', LinesOf(x)' # {}, NEW i \in CreditsOf(x)'
          PROVE  \E l \in LinesOf(x)' : PaysFor(l, i)'
      <4>0. x \in DOMAIN payouts /\ i \in CreditsOf(x)
        BY <2>3, <3>1, <3>9
      <4>1. CASE LinesOf(x) # {}
        <5>1. PICK l \in LinesOf(x) : PaysFor(l, i)
          BY <4>0, <4>1 DEF Mirrored
        <5>2. l \in LinesOf(x)' /\ l \in DOMAIN lines
          BY <2>5 DEF LinesOf, LinesOfCredits
        <5> QED BY <3>2, <5>1, <5>2
      <4>2. CASE LinesOf(x) = {}
        <5>1. PICK k \in LinesOf(x)' : k \in NewLines
          BY <2>5, <3>4, <3>9, <4>2 DEF LinesOf, LinesOfCredits
        <5>2. x \in p.rows
          BY <2>5, <3>5, <5>1 DEF LinesOf, LinesOfCredits, NewLine
        <5>3. i \in p.ids
          BY <2>2, <4>0, <5>2 DEF Drafted
        <5>4. PICK l \in NewLines : NewLine(lines'[l], i)
          BY <2>5, <5>3 DEF LinesOfCredits
        <5>5. l \in LinesOf(x)'
          BY <4>0, <5>4 DEF NewLine, LinesOf, NewLines, CreditsOf
        <5> QED BY <3>3, <5>4, <5>5
      <4> QED BY <4>1, <4>2
    <3> QED BY <3>6, <3>8, <3>9 DEF Mirrored
  <2> QED BY <1>2, <2>1, <2>2, <2>4, <2>5, LinesSaved
<1> QED BY <1>1, <1>2

\* What a schedule drafts is all new, with all of its credits in hand.
LEMMA DraftedRows ==
  ASSUME Working, Backed, NEW t \in Thread, SavePayouts(t)
  PROVE  Drafted(thread[t])' /\ thread'[t].pc = "saveLines"
<1>1. PICK R, S : DraftsRows(t, R, S)
  BY DraftRows
<1>2. PICK p, ids, q : p = thread[t] /\ ids = thread[t].ids /\ q = thread'[t]
  OBVIOUS
<1>3. q.ids = ids /\ q.rows = {R[o] : o \in S} /\ q.pc = "saveLines"
  <2>1. p \in Memory
    BY <1>2 DEF Working, ThreadsOK
  <2>2. q = [p EXCEPT !.pc = "saveLines", !.rows = {R[o] : o \in S}]
    BY <1>1, <1>2 DEF DraftsRows, Working, ThreadsOK
  <2> QED BY <1>2, <2>1, <2>2 DEF Memory
<1>4. ASSUME NEW r \in q.rows
      PROVE  /\ LinesOf(r)' = {} /\ CreditsOf(r)' \subseteq ids
             /\ payouts'[r].status = "SCHEDULED"
  <2>1. r \in DOMAIN payouts' \ DOMAIN payouts /\ r # 0
    BY <1>1, <1>3 DEF DraftsRows
  <2>2. UNCHANGED lines
    BY DEF SavePayouts
  <2>3. LinesOf(r)' = {}
    BY <2>1, <2>2 DEF LinesOf, Working, RowsOK
  <2>4. ASSUME NEW i \in CreditsOf(r)', i \notin ids PROVE FALSE
    <3>1. i \in DOMAIN transactions /\ transactions'[i].payout = r
      BY <1>1 DEF CreditsOf, Credits, DraftsRows
    <3>2. transactions[i].payout = r
      BY <1>1, <1>2, <2>4, <3>1 DEF DraftsRows
    <3>3. transactions[i].payout \in DOMAIN payouts \cup {0}
      BY <3>1 DEF Working, RowsOK, EntryOK
    <3> QED BY <2>1, <3>2, <3>3
  <2> QED BY <1>1, <2>1, <2>3, <2>4 DEF DraftsRows
<1>5. ASSUME NEW i \in ids, transactions'[i].owner \in Payable
      PROVE  transactions'[i].payout \in q.rows
  <2>1. i \in DOMAIN transactions
    BY <1>1, <1>2 DEF DraftsRows, Debitable, Credits
  <2> QED BY <1>1, <1>2, <1>3, <1>5, <2>1 DEF DraftsRows
<1>6. \A r, s \in q.rows : payouts'[r].owner = payouts'[s].owner => r = s
  BY <1>1, <1>3 DEF DraftsRows
<1>7. Drafted(q)'
  BY <1>3, <1>4, <1>5, <1>6 DEF Drafted
<1> QED BY <1>2, <1>3, <1>7

\* Only a call of the payout service itself goes on with what it has in hand.
LEMMA OwnStep ==
  ASSUME Working, Next, ~Crash, NEW u \in Thread, thread[u].pc \in PayoutPC
  PROVE  thread'[u] = thread[u] \/ PayoutStep(u)
<1>1. ~WalletStep(u) /\ ~Started(u)
  BY DEF PayoutPC, WalletStep, Income, Compensate, Hold, Release, CheckCompensation,
     FindWallet, FindPending, CompareEntry, CompareRelease, Compare, WriteEntry, WriteRelease,
     RegenIncome, RegenCompensation, Running, Started
<1>2. ASSUME NEW t \in Thread, t # u, WalletStep(t) \/ PayoutStep(t) \/ Started(t)
      PROVE  thread'[u] = thread[u]
  <2>1. \E q : Become(t, q)
    BY <1>2, StepMoves, PayoutMoves DEF Moves, Started
  <2> QED BY <1>2, <2>1 DEF Become, Working, ThreadsOK
<1>3. CASE Request
  BY <1>1, <1>2, <1>3, RequestStarts DEF Published
<1>4. CASE Command
  BY <1>1, <1>2, <1>4 DEF Command, DismissCompensation
<1> QED BY <1>2, <1>3, <1>4 DEF Next, Program

\* A call of the payout service that is in progress alone goes on alone.
LEMMA SoleGoesOn ==
  ASSUME Working, Next, ~Crash, NEW t \in Thread, Sole(t), thread[t].pc \in PayoutPC
  PROVE  /\ PayoutStep(t) /\ UNCHANGED alone
         /\ \A u \in Thread \ {t} : thread'[u] = thread[u] /\ thread[u].pc = "idle"
<1>1. UNCHANGED alone /\ (WalletStep(t) \/ PayoutStep(t))
  BY SoleActs
<1>2. ~WalletStep(t)
  BY DEF PayoutPC, WalletStep, Income, Compensate, Hold, Release, CheckCompensation,
     FindWallet, FindPending, CompareEntry, CompareRelease, Compare, WriteEntry, WriteRelease,
     RegenIncome, RegenCompensation, Running
<1>3. \E q \in Memory : Become(t, q)
  BY <1>1, <1>2, PayoutMoves
<1> QED BY <1>1, <1>2, <1>3 DEF Become, Sole, Running, Working, ThreadsOK

\* A call is at work on payouts because it was, or because it starts.
LEMMA PayoutCalls ==
  ASSUME Working, Next, ~Crash, NEW u \in Thread, thread'[u].pc \in PayoutPC
  PROVE  \/ thread'[u] = thread[u]
         \/ PayoutStep(u)
         \/ Request /\ Started(u) /\ Starts(thread'[u])
<1>1. ASSUME NEW t \in Thread, NEW q, Become(t, q)
      PROVE  thread'[t] = q /\ \A w \in Thread \ {t} : thread'[w] = thread[w]
  BY <1>1 DEF Become, Working, ThreadsOK
<1>2. ASSUME NEW t \in Thread, WalletStep(t) PROVE thread'[u] = thread[u]
  <2>1. PICK q \in Memory : Become(t, q) /\ WalletMove(thread[t], q)
    BY <1>2, StepMoves DEF Moves
  <2>2. q.pc \notin PayoutPC
    BY <2>1, TakenCall DEF Working, ThreadsOK
  <2> QED BY <1>1, <2>1, <2>2
<1>3. ASSUME NEW t \in Thread, PayoutStep(t), t # u PROVE thread'[u] = thread[u]
  BY <1>1, <1>3, PayoutMoves
<1>4. ASSUME NEW t \in Thread, Started(t)
      PROVE  thread'[u] = thread[u] \/ (Started(u) /\ Starts(thread'[u]))
  <2>1. PICK q \in Memory : Become(t, q) /\ Starts(q)
    BY <1>4 DEF Started
  <2> QED BY <1>1, <1>4, <2>1
<1>5. CASE Request
  BY <1>4, <1>5, RequestStarts DEF Published
<1>6. CASE Command
  BY <1>2, <1>6 DEF Command, DismissCompensation
<1> QED BY <1>3, <1>5, <1>6 DEF Next, Program

\* A schedule is the only call in progress while it saves.
LEMMA SchedulesStep ==
  ASSUME "schedule" \notin Overlapping, Working, Backed, Schedules, Next
  PROVE  Schedules'
<1>1. CASE Crash
  BY <1>1 DEF Crash, Schedules, SchedulePC, Idle
<1>2. ASSUME ~Crash, NEW t \in Thread, thread[t].pc \in SchedulePC
      PROVE  Schedules'
  <2>1. Sole(t)
    BY <1>2 DEF Schedules
  <2>2. /\ PayoutStep(t) /\ UNCHANGED alone
        /\ \A u \in Thread \ {t} : thread'[u] = thread[u] /\ thread[u].pc = "idle"
    BY <1>2, <2>1, SoleGoesOn DEF SchedulePC, PayoutPC
  <2>3. CASE SavePayouts(t)
    <3>1. UNCHANGED todo /\ thread'[t].pc = "saveLines" /\ Drafted(thread[t])'
      BY <2>3, DraftedRows DEF SavePayouts
    <3>2. Sole(t)'
      BY <2>1, <2>2, <3>1 DEF Sole, Running
    <3> QED BY <2>2, <3>1, <3>2 DEF Schedules, SchedulePC
  <2>4. CASE SaveLines(t)
    <3>1. thread'[t] = Idle
      BY <2>4 DEF SaveLines, Finish, Become, Working, ThreadsOK
    <3> QED BY <2>2, <3>1, IdleFields DEF Schedules, SchedulePC
  <2>5. SavePayouts(t) \/ SaveLines(t)
    BY <1>2, <2>2 DEF PayoutStep, ReadLines, SaveBatch, Send, SaveSentLines, CloseBatch,
       SaveMarked, Increment, CheckPaid, SavePaid, SaveStatus, SaveSettled, SchedulePC, Running
  <2> QED BY <2>3, <2>4, <2>5
<1>3. ASSUME ~Crash, \A t \in Thread : thread[t].pc \notin SchedulePC,
             NEW u \in Thread, thread'[u].pc \in SchedulePC
      PROVE  Sole(u)' /\ thread'[u].pc # "saveLines"
  <2>1. ~PayoutStep(u)
    <3>1. ASSUME PayoutStep(u) PROVE FALSE
      <4>1. PICK q \in Memory : Become(u, q) /\ PayoutMove(thread[u], q)
        BY <3>1, PayoutMoves
      <4>2. thread'[u] = q
        BY <4>1 DEF Become, Working, ThreadsOK
      <4>3. thread'[u].pc # "saveLines"
        BY <1>3, <3>1, PayoutGoesOn DEF SavePayouts, Running, SchedulePC
      <4> QED BY <1>3, <4>1, <4>2, <4>3, IdleFields DEF PayoutMove, SchedulePC
    <3> QED BY <3>1
  <2>2. Started(u) /\ Starts(thread'[u])
    BY <1>3, <2>1, PayoutCalls DEF SchedulePC, PayoutPC
  <2>3. thread'[u].pc = "savePayouts" /\ MayStart("schedule")
    BY <1>3, <2>2 DEF Starts, RepairsForgotten, SchedulePC
  <2>4. Quiet /\ alone' /\ UNCHANGED todo
    BY <2>2, <2>3 DEF MayStart, Started
  <2>5. \A w \in Thread \ {u} : thread'[w] = thread[w]
    BY <2>2 DEF Started, Become, Working, ThreadsOK
  <2> QED BY <2>3, <2>4, <2>5 DEF Sole, Quiet, Running
<1>4. CASE ~Crash /\ \A t \in Thread : thread[t].pc \notin SchedulePC
  BY <1>3, <1>4 DEF Schedules, SchedulePC
<1> QED BY <1>1, <1>2, <1>4

------------------------------------------------------------------------------
(* Reports mark lines                                                         *)

\* An upload that the lines allowed finds none of its lines paid before it sends them.
UnsentCall(p) ==
  p.pc = "saveSentLines" \/ (p.pc \in {"saveBatch", "send"} /\ p.status = "IN_TRANSIT") =>
    \A l \in p.ids : lines[l].status # "PAID"
\* Every call is such.
Unsent == \A t \in Thread : UnsentCall(thread[t])

\* A call that marks what the bank paid has one line in hand, and no other call has it.
Marks(p) == p.pc \in {"saveMarked", "increment"}
\* The line was reported, and is paid from when the call has saved it.
MarkedCall(p) == Marks(p) =>
  \E l \in DOMAIN lines : /\ p.ids = {l} /\ <<lines[l].job, lines[l].owner>> \in reported
                          /\ lines[l].status = IF p.pc = "increment" THEN "PAID" ELSE "IN_TRANSIT"
\* Every call is such, and no two have a line in common.
Marked ==
  /\ \A t \in Thread : MarkedCall(thread[t])
  /\ \A t, u \in Thread : Marks(thread[t]) /\ Marks(thread[u]) /\ t # u =>
       thread[t].ids \cap thread[u].ids = {}

\* The lines that were there are of the same jobs, amounts and payouts.
LinesKept ==
  /\ DOMAIN lines \subseteq DOMAIN lines'
  /\ \A l \in DOMAIN lines : /\ lines'[l].job = lines[l].job /\ lines'[l].owner = lines[l].owner
                             /\ lines'[l].amount = lines[l].amount
                             /\ lines'[l].payout = lines[l].payout
\* The lines outside of S keep their status.
SameStatus(S) == \A l \in DOMAIN lines \ S : lines'[l].status = lines[l].status
\* Those of S have the given one.
NowAre(S, status) == SameStatus(S) /\ \A l \in DOMAIN lines \cap S : lines'[l].status = status

\* Only what the bank received, or paid, changes the status of a line.
LEMMA LinesChange ==
  ASSUME Working, Next
  PROVE  /\ LinesKept /\ \A l \in NewLines : lines'[l].status = "SCHEDULED"
         /\ \/ SameStatus({})
            \/ \E t \in Thread : SaveMarked(t) /\ NowAre(thread[t].ids, "PAID")
            \/ \E t \in Thread : SaveSentLines(t) /\ NowAre(thread[t].ids, "IN_TRANSIT")
<1> USE DEF Working
<1>1. UNCHANGED lines => LinesKept /\ SameStatus({}) /\ NewLines = {}
  BY DEF LinesKept, SameStatus, NewLines
<1>2. LinesStay => LinesKept /\ NewLines = {}
  BY DEF LinesStay, LinesKept, NewLines
<1>3. CASE Request
  <2>1. UNCHANGED lines
    BY <1>3 DEF Request, Fulfil, TestFulfilled, Announce, Fail, StartRegen, Schedule, Upload,
       Settle, Mark, Update, Patch, rows
  <2> QED BY <1>1, <2>1
<1>4. ASSUME NEW t \in Thread, SaveLines(t)
      PROVE  /\ LinesKept /\ SameStatus({})
             /\ \A l \in NewLines : lines'[l].status = "SCHEDULED"
  <2>1. CASE UNCHANGED lines
    BY <1>1, <2>1
  <2>2. CASE ~UNCHANGED lines
    <3>1. PICK last, seq : LinesAre(t, last, seq)
      <4>1. Owners(thread[t].ids) \subseteq Payable
        BY <1>4, <2>2 DEF SaveLines
      <4> QED BY <1>4, <4>1, LinesAppended
    <3>2. /\ Len(lines) \in Nat /\ Len(seq) \in Nat /\ DOMAIN lines = 1..Len(lines)
          /\ DOMAIN lines' = 1..(Len(lines) + Len(seq)) /\ DOMAIN seq = 1..Len(seq)
          /\ \A l \in DOMAIN lines : lines'[l] = lines[l]
          /\ \A n \in DOMAIN seq : lines'[Len(lines) + n] = LineFor(t, seq[n], last)
      BY <3>1, Zenon DEF LinesAre
    <3>3. DOMAIN lines \subseteq DOMAIN lines'
      BY <3>2
    <3>4. ASSUME NEW l \in NewLines PROVE lines'[l].status = "SCHEDULED"
      <4>1. l - Len(lines) \in DOMAIN seq /\ l = Len(lines) + (l - Len(lines))
        BY <3>2 DEF NewLines
      <4>2. PICK n \in DOMAIN seq : lines'[l] = LineFor(t, seq[n], last)
        BY <3>2, <4>1
      <4> QED BY <4>2 DEF LineFor
    <3> QED BY <3>2, <3>3, <3>4 DEF LinesKept, SameStatus
  <2> QED BY <2>1, <2>2
<1>5. ASSUME NEW t \in Thread, SaveMarked(t)
      PROVE  LinesKept /\ NewLines = {} /\ NowAre(thread[t].ids, "PAID")
  BY <1>2, <1>5, SetLinesStay DEF SaveMarked, NowAre, SameStatus
<1>6. ASSUME NEW t \in Thread, SaveSentLines(t)
      PROVE  LinesKept /\ NewLines = {} /\ NowAre(thread[t].ids, "IN_TRANSIT")
  BY <1>2, <1>6, SetLinesStay DEF SaveSentLines, NowAre, SameStatus
<1>7. ASSUME NEW t \in Thread, PayoutStep(t), ~SaveLines(t), ~SaveMarked(t), ~SaveSentLines(t)
      PROVE  UNCHANGED lines
  BY <1>7 DEF PayoutStep, SavePayouts, ReadLines, SaveBatch, Send, CloseBatch,
     Increment, CheckPaid, SavePaid, SaveStatus, SaveSettled, rows
<1>8. CASE Command \/ Crash
  BY <1>1, <1>8 DEF Command, Crash, rows
<1> QED BY <1>1, <1>3, <1>4, <1>5, <1>6, <1>7, <1>8 DEF Next, Program

\* What an upload has in hand stays unpaid until it is sent.
LEMMA UnsentStep ==
  ASSUME Working, Working', Uploads, Unsent, Next
  PROVE  Unsent'
<1>1. CASE Crash
  BY <1>1 DEF Crash, Unsent, UnsentCall, Idle
<1>2. ASSUME ~Crash, NEW t \in Thread, thread[t].pc \in UploadPC
      PROVE  Unsent'
  <2>1. Sole(t)
    BY <1>2 DEF Uploads, Sole, Running, UploadPC
  <2>2. PayoutStep(t) /\ \A u \in Thread \ {t} : thread'[u].pc = "idle"
    BY <1>2, <2>1, SoleGoesOn DEF UploadPC, PayoutPC
  <2>3. PICK p, q : p = thread[t] /\ p \in Memory /\ q = thread'[t]
    BY DEF Working, ThreadsOK
  <2>4. \A r : Become(t, r) => q = r
    BY <2>3 DEF Become, Working, ThreadsOK
  <2>5. UnsentCall(p)
    BY <2>3 DEF Unsent
  <2>50. ASSUME UnsentCall(q)' PROVE Unsent'
    BY <2>2, <2>3, <2>50 DEF Unsent, UnsentCall
  <2>6. CASE ReadLines(t)
    <3>1. PICK ids : ids = {l \in DOMAIN lines : lines[l].payout \in p.rows}
      OBVIOUS
    <3>2. \/ q = Idle
          \/ q = [p EXCEPT !.pc = "saveBatch", !.ids = ids,
                           !.status = IF \A l \in ids : lines[l].status = "SCHEDULED"
                                      THEN "IN_TRANSIT" ELSE "FAILED"]
      BY <2>3, <2>4, <2>6, <3>1 DEF ReadLines
    <3>3. q.pc = "idle" \/ (q.pc = "saveBatch" /\ q.ids = ids /\
             (q.status = "IN_TRANSIT" => \A l \in ids : lines[l].status = "SCHEDULED"))
      BY <2>3, <3>2, IdleFields DEF Memory
    <3>4. UNCHANGED lines
      BY <2>6 DEF ReadLines, rows
    <3> QED BY <2>50, <3>3, <3>4 DEF UnsentCall
  <2>7. CASE SaveBatch(t)
    <3>1. q = [p EXCEPT !.pc = "send"] /\ p.pc = "saveBatch" /\ UNCHANGED lines
      BY <2>3, <2>7 DEF SaveBatch, Goto, Running, Working, ThreadsOK
    <3>2. q.pc = "send" /\ q.ids = p.ids /\ q.status = p.status
      BY <2>3, <3>1 DEF Memory
    <3> QED BY <2>5, <2>50, <3>1, <3>2 DEF UnsentCall
  <2>8. CASE Send(t)
    <3>1. \/ q = [p EXCEPT !.pc = "closeBatch", !.status = "FAILED"]
          \/ q = [p EXCEPT !.sent = TRUE,
                           !.pc = IF p.status = "IN_TRANSIT" THEN "saveSentLines" ELSE "closeBatch"]
      BY <2>3, <2>4, <2>8 DEF Send
    <3>2. p.pc = "send" /\ UNCHANGED lines
      BY <2>3, <2>8 DEF Send, Running, rows
    <3>3. q.pc = "closeBatch" \/ (q.pc = "saveSentLines" /\ q.ids = p.ids /\ p.status = "IN_TRANSIT")
      BY <2>3, <3>1 DEF Memory
    <3> QED BY <2>5, <2>50, <3>2, <3>3 DEF UnsentCall
  <2>9. CASE SaveSentLines(t) \/ CloseBatch(t)
    <3>1. q = [p EXCEPT !.pc = "closeBatch"] \/ q = Idle
      BY <2>3, <2>4, <2>9 DEF SaveSentLines, CloseBatch, Goto, Finish, Working, ThreadsOK
    <3>2. q.pc \in {"closeBatch", "idle"}
      BY <2>3, <3>1, IdleFields DEF Memory
    <3> QED BY <2>50, <3>2 DEF UnsentCall
  <2> QED
    BY <1>2, <2>2, <2>6, <2>7, <2>8, <2>9 DEF PayoutStep, SavePayouts, SaveLines, SaveMarked,
       Increment, CheckPaid, SavePaid, SaveStatus, SaveSettled, UploadPC, Running
<1>3. ASSUME ~Crash, \A t \in Thread : thread[t].pc \notin UploadPC, NEW u \in Thread
      PROVE  UnsentCall(thread[u])'
  <2>1. CASE thread'[u].pc \in UploadPC \ {"readLines"}
    <3>1. ~PayoutStep(u)
      BY <1>3, <2>1, UploadGoesOn
    <3>2. ~Starts(thread'[u])
      BY <2>1 DEF Starts, RepairsForgotten, UploadPC
    <3> QED BY <1>3, <2>1, <3>1, <3>2, PayoutCalls DEF UploadPC, PayoutPC
  <2>2. CASE thread'[u].pc \notin UploadPC \ {"readLines"}
    BY <2>2 DEF UnsentCall, UploadPC
  <2> QED BY <2>1, <2>2
<1>4. CASE ~Crash /\ \A t \in Thread : thread[t].pc \notin UploadPC
  BY <1>3, <1>4 DEF Unsent
<1> QED BY <1>1, <1>2, <1>4

\* A call that marks lines started with a report, or goes on from saving the line.
LEMMA MarksFrom ==
  ASSUME Working, Next, NEW u \in Thread, Marks(thread'[u])
  PROVE  \/ thread'[u] = thread[u]
         \/ SaveMarked(u) /\ thread'[u].pc = "increment" /\ thread'[u].ids = thread[u].ids
         \/ \E j \in Job, o \in Owner : Mark(u, j, o) /\ thread'[u].pc = "saveMarked"
<1>0. ~Crash
  <2>1. Crash => thread'[u] = Idle
    BY DEF Crash
  <2> QED BY <2>1, IdleFields DEF Marks
<1>1. PICK p, q : p = thread[u] /\ p \in Memory /\ q = thread'[u]
  BY DEF Working, ThreadsOK
<1>2. \A r : Become(u, r) => q = r
  BY <1>1 DEF Become, Working, ThreadsOK
<1>3. ASSUME NEW pc, Goto(u, pc) PROVE q.pc = pc /\ q.ids = p.ids
  <2>1. q = [p EXCEPT !.pc = pc]
    BY <1>1, <1>3 DEF Goto, Working, ThreadsOK
  <2> QED BY <1>1, <2>1 DEF Memory
<1>4. CASE PayoutStep(u)
  <2>1. SaveMarked(u) => q.pc = "increment" /\ q.ids = p.ids
    BY <1>3 DEF SaveMarked
  <2>2. ASSUME ~SaveMarked(u) PROVE ~Marks(q)
    <3>1. ASSUME NEW r, r \in {"saveLines", "saveBatch", "closeBatch", "saveSentLines", "checkPaid"},
                 q.pc = r
          PROVE  ~Marks(q)
      BY <3>1 DEF Marks
    <3>2. SavePayouts(u) => q.pc = "saveLines"
      BY <1>1 DEF SavePayouts, Become, Working, ThreadsOK, Memory
    <3>3. ReadLines(u) \/ Send(u) \/ Increment(u) =>
            q = Idle \/ q.pc \in {"saveBatch", "closeBatch", "saveSentLines", "checkPaid"}
      <4>2. ASSUME ReadLines(u) PROVE q = Idle \/ q.pc = "saveBatch"
        <5>1. PICK ids : ids = {l \in DOMAIN lines : lines[l].payout \in p.rows}
          OBVIOUS
        <5>2. \/ q = Idle
              \/ q = [p EXCEPT !.pc = "saveBatch", !.ids = ids,
                               !.status = IF \A l \in ids : lines[l].status = "SCHEDULED"
                                          THEN "IN_TRANSIT" ELSE "FAILED"]
          BY <1>1, <1>2, <4>2, <5>1 DEF ReadLines
        <5> QED BY <1>1, <5>2 DEF Memory
      <4>3. /\ [p EXCEPT !.pc = "closeBatch", !.status = "FAILED"].pc = "closeBatch"
            /\ \A c : [p EXCEPT !.sent = TRUE, !.pc = c].pc = c
        BY <1>1 DEF Memory
      <4>4. Send(u) => q.pc \in {"closeBatch", "saveSentLines"}
        BY <1>1, <1>2, <4>3 DEF Send
      <4>5. ASSUME Increment(u) PROVE q.pc = "checkPaid"
        <5>1. PICK x : Become(u, [p EXCEPT !.pc = "checkPaid", !.rows = {x}])
          BY <1>1, <4>5 DEF Increment
        <5>2. q = [p EXCEPT !.pc = "checkPaid", !.rows = {x}]
          BY <1>2, <5>1
        <5> QED BY <1>1, <5>2 DEF Memory
      <4> QED BY <4>2, <4>4, <4>5
    <3>4. SaveLines(u) \/ CloseBatch(u) \/ SavePaid(u) \/ SaveStatus(u) \/ SaveSettled(u) => q = Idle
      BY <1>2 DEF SaveLines, CloseBatch, SavePaid, SaveStatus, SaveSettled, Finish
    <3>5. SaveBatch(u) \/ SaveSentLines(u) \/ CheckPaid(u) =>
            q = Idle \/ q.pc \in {"send", "closeBatch", "savePaid"}
      BY <1>2, <1>3 DEF SaveBatch, SaveSentLines, CheckPaid, Finish
    <3>6. q.pc \notin {"saveMarked", "increment"}
      BY <1>4, <2>2, <3>2, <3>3, <3>4, <3>5, IdleFields DEF PayoutStep
    <3> QED BY <3>6 DEF Marks
  <2> QED BY <1>1, <2>1, <2>2
<1>5. CASE Request /\ Starts(q) /\ Started(u)
  <2>1. q.pc = "saveMarked" /\ p.pc = "idle"
    BY <1>1, <1>5 DEF Starts, RepairsForgotten, Marks, Started
  <2>2. \E t \in Thread, j \in Job, o \in Owner : Mark(t, j, o)
    <3>1. ~UNCHANGED thread
      BY <1>1, <2>1
    <3>2. \A t \in Thread : \A r : Become(t, r) => t = u /\ q = r
      BY <1>1, <1>2, <2>1 DEF Become, Working, ThreadsOK
    <3>3. ASSUME NEW t \in Thread, StartRegen(t) PROVE FALSE
      <4>1. PICK r : r = [Idle EXCEPT !.pc = "regenIncome",
                                      !.incomes = {j \in Forgotten : jobs[j] = "FULFILLED"},
                                      !.compensations = {j \in Forgotten : ImpactedOf[j] # NoOwner}]
        OBVIOUS
      <4>2. r.pc = "regenIncome" /\ Become(t, r)
        BY <3>3, <4>1 DEF StartRegen, Regen, Idle
      <4> QED BY <2>1, <3>2, <4>2
    <3>4. ASSUME NEW t \in Thread, NEW pc, pc # "saveMarked", NEW ids, NEW x, NEW z, NEW r,
                 r \in {[Idle EXCEPT !.pc = pc, !.ids = ids], [Idle EXCEPT !.pc = pc, !.rows = x],
                        [Idle EXCEPT !.pc = pc, !.ids = ids, !.rows = x],
                        [Idle EXCEPT !.pc = pc, !.rows = x, !.status = z]},
                 Become(t, r)
          PROVE  FALSE
      <4>1. r.pc = pc
        BY <3>4 DEF Idle
      <4> QED BY <2>1, <3>2, <3>4, <4>1
    <3>5. \A t \in Thread : ~Schedule(t) /\ ~Upload(t) /\ ~Settle(t)
      BY <3>4 DEF Schedule, Upload, Settle, Start
    <3>6. \A t \in Thread, x \in DOMAIN payouts, s \in NewStatus : ~Update(t, x, s)
      BY <3>4 DEF Update, Start
    <3> QED BY <1>5, <3>1, <3>3, <3>5, <3>6 DEF Request, Fulfil, TestFulfilled, Announce, Fail,
         Patch
  <2>3. \A t \in Thread, j \in Job, o \in Owner : Mark(t, j, o) => t = u
    BY <1>1, <2>1 DEF Mark, Start, Become, Working, ThreadsOK
  <2> QED BY <1>1, <2>1, <2>2, <2>3
<1> QED BY <1>0, <1>1, <1>4, <1>5, PayoutCalls DEF Marks, PayoutPC

\* A report takes one line in hand, that no report named before.
LEMMA MarkOne ==
  ASSUME ~RepeatReports, Working, Mirrored, Marked, NEW u \in Thread, NEW j \in Job,
         NEW o \in Owner,
         Mark(u, j, o)
  PROVE  \E l \in DOMAIN lines :
           /\ thread'[u].ids = {l} /\ lines[l].job = j /\ lines[l].owner = o
           /\ lines[l].status = "IN_TRANSIT" /\ <<j, o>> \in reported' \ reported
           /\ \A v \in Thread : Marks(thread[v]) => l \notin thread[v].ids
<1>1. PICK mine : mine = {l \in DOMAIN lines : lines[l].job = j /\ lines[l].owner = o}
  OBVIOUS
<1>2. /\ <<j, o>> \notin reported /\ <<j, o>> \in reported'
      /\ mine # {} /\ \A l \in mine : lines[l].status = "IN_TRANSIT"
      /\ Become(u, [Idle EXCEPT !.pc = "saveMarked", !.ids = mine])
  BY <1>1 DEF Mark, Start
<1>3. PICK l : l \in mine
  BY <1>2
<1>4. mine = {l}
  BY <1>1, <1>3 DEF Mirrored
<1>5. thread'[u].ids = mine
  <2>1. PICK r : r = [Idle EXCEPT !.pc = "saveMarked", !.ids = mine]
    OBVIOUS
  <2>2. thread'[u] = r /\ r.ids = mine
    BY <1>2, <2>1 DEF Become, Working, ThreadsOK, Idle
  <2> QED BY <2>2
<1>6. ASSUME NEW v \in Thread, Marks(thread[v]), l \in thread[v].ids PROVE FALSE
  <2>1. PICK k \in DOMAIN lines : /\ thread[v].ids = {k}
                                  /\ <<lines[k].job, lines[k].owner>> \in reported
    BY <1>6 DEF Marked, MarkedCall
  <2>2. l = k /\ lines[l].job = j /\ lines[l].owner = o
    BY <1>1, <1>3, <1>6, <2>1
  <2> QED BY <1>2, <2>1, <2>2
<1> QED BY <1>1, <1>2, <1>3, <1>4, <1>5, <1>6

\* Reports of different lines are marked each by a call of its own.
LEMMA MarkedStep ==
  ASSUME ~RepeatReports, Working, Uploads, Mirrored, Marked, Next
  PROVE  Marked'
<1>1. reported \subseteq reported'
  BY DEF Next, Program, Command, Request, Fulfil, TestFulfilled, Announce, Fail, StartRegen,
     Schedule, Upload, Settle, Mark,
     Update, Patch, Crash, PayoutStep, SavePayouts, SaveLines, ReadLines, SaveBatch, Send,
     SaveSentLines, CloseBatch, SaveMarked, Increment, CheckPaid, SavePaid, SaveStatus, SaveSettled
<1>2. ASSUME NEW u \in Thread, Marks(thread'[u])
      PROVE  /\ MarkedCall(thread[u])'
             /\ \/ Marks(thread[u]) /\ thread'[u].ids = thread[u].ids
                \/ \A v \in Thread : Marks(thread[v]) => thread'[u].ids \cap thread[v].ids = {}
             /\ ~Marks(thread[u]) => \A v \in Thread \ {u} : thread'[v] = thread[v]
  <2>1. CASE thread'[u] = thread[u]
    <3>1. PICK l \in DOMAIN lines :
            /\ thread[u].ids = {l} /\ <<lines[l].job, lines[l].owner>> \in reported
            /\ lines[l].status = IF thread[u].pc = "increment" THEN "PAID" ELSE "IN_TRANSIT"
      BY <1>2, <2>1 DEF Marked, MarkedCall
    <3>2. ASSUME NEW t \in Thread, SaveMarked(t), l \in thread[t].ids PROVE FALSE
      <4>1. t # u
        BY <2>1, <3>2 DEF SaveMarked, Running, Goto, Working, ThreadsOK, Memory
      <4> QED BY <1>2, <2>1, <3>1, <3>2, <4>1 DEF Marked, Marks, SaveMarked, Running
    <3>3. ASSUME NEW t \in Thread, SaveSentLines(t) PROVE FALSE
      BY <1>2, <2>1, <3>3 DEF Uploads, UploadPC, SaveSentLines, Running, Marks
    <3>4. lines'[l].status = lines[l].status
      BY <3>2, <3>3, LinesChange DEF SameStatus, NowAre
    <3> QED BY <1>1, <1>2, <2>1, <3>1, <3>4, LinesChange DEF MarkedCall, LinesKept
  <2>2. CASE SaveMarked(u) /\ thread'[u].pc = "increment" /\ thread'[u].ids = thread[u].ids
    <3>1. Marks(thread[u]) /\ lines' = SetLines(thread[u].ids, "PAID")
      BY <2>2 DEF Marks, SaveMarked, Running
    <3>2. PICK l \in DOMAIN lines :
            thread[u].ids = {l} /\ <<lines[l].job, lines[l].owner>> \in reported
      BY <3>1 DEF Marked, MarkedCall
    <3>3. LinesStay /\ lines'[l].status = "PAID"
      BY <3>1, <3>2, SetLinesStay DEF Working
    <3> QED BY <1>1, <2>2, <3>1, <3>2, <3>3 DEF MarkedCall, LinesStay
  <2>3. ASSUME NEW j \in Job, NEW o \in Owner, Mark(u, j, o), thread'[u].pc = "saveMarked"
        PROVE  /\ MarkedCall(thread[u])'
               /\ \A v \in Thread : Marks(thread[v]) => thread'[u].ids \cap thread[v].ids = {}
               /\ \A v \in Thread \ {u} : thread'[v] = thread[v]
    <3>1. PICK l \in DOMAIN lines :
           /\ thread'[u].ids = {l} /\ lines[l].job = j /\ lines[l].owner = o
           /\ lines[l].status = "IN_TRANSIT" /\ <<j, o>> \in reported' \ reported
           /\ \A v \in Thread : Marks(thread[v]) => l \notin thread[v].ids
      BY <2>3, MarkOne
    <3>2. UNCHANGED lines /\ \A v \in Thread \ {u} : thread'[v] = thread[v]
      BY <2>3 DEF Mark, Start, Become, rows, Working, ThreadsOK
    <3> QED BY <2>3, <3>1, <3>2 DEF MarkedCall
  <2> QED BY <1>2, <2>1, <2>2, <2>3, MarksFrom DEF SaveMarked, Marks, Running
<1>3. ASSUME NEW u \in Thread, NEW v \in Thread, Marks(thread'[u]), Marks(thread'[v]), u # v
      PROVE  thread'[u].ids \cap thread'[v].ids = {}
  <2>1. CASE Marks(thread[u]) /\ Marks(thread[v]) /\ thread'[u].ids = thread[u].ids
             /\ thread'[v].ids = thread[v].ids
    BY <1>3, <2>1 DEF Marked
  <2>2. ASSUME NEW a \in Thread, NEW b \in Thread, a # b, Marks(thread'[a]), Marks(thread'[b]),
               ~(Marks(thread[a]) /\ thread'[a].ids = thread[a].ids)
        PROVE  thread'[a].ids \cap thread'[b].ids = {}
    <3>1. \A w \in Thread : Marks(thread[w]) => thread'[a].ids \cap thread[w].ids = {}
      BY <1>2, <2>2
    <3>2. ~Marks(thread[a])
      BY <2>2, <1>2, MarksFrom DEF Mark, Start, Running, Marks, SaveMarked
    <3>3. thread'[b] = thread[b]
      BY <1>2, <2>2, <3>2
    <3> QED BY <2>2, <3>1, <3>3
  <2> QED BY <1>3, <2>1, <2>2
<1>4. \A u \in Thread : ~Marks(thread'[u]) => MarkedCall(thread[u])'
  BY DEF MarkedCall, Marks
<1> QED BY <1>2, <1>3, <1>4 DEF Marked, Marks

------------------------------------------------------------------------------
(* What was processed                                                         *)

\* An amount is the sum of those of the rows.
LEMMA AmountIsSummed ==
  ASSUME NEW seq, NEW S, IsFiniteSet(S), NEW g, \A i \in S : g[i] = seq[i].amount
  PROVE  Amount(seq, S) = Summed(g, S)
<1>1. PICK f : Sums(f, g, S) /\ Amount(seq, S) = f[S]
  BY AmountSums
<1>2. PICK e : Sums(e, g, S) /\ Summed(g, S) = e[S]
  BY MapThenSumSums
<1> QED BY <1>1, <1>2, SumsAgree

\* Amounts of disjoint parts add up.
LEMMA AmountAdds ==
  ASSUME NEW seq, NEW T, IsFiniteSet(T), \A i \in T : seq[i].amount \in Int /\ seq[i].amount >= 0,
         NEW A \in SUBSET T, NEW B \in SUBSET T, A \cap B = {}
  PROVE  /\ Amount(seq, A \cup B) = Amount(seq, A) + Amount(seq, B)
         /\ Amount(seq, A) \in Int /\ Amount(seq, B) \in Int
         /\ Amount(seq, A) >= 0 /\ Amount(seq, B) >= 0
<1>1. PICK g : g = [i \in T |-> seq[i].amount]
  OBVIOUS
<1>2. \A i \in T : g[i] = seq[i].amount /\ g[i] \in Int /\ g[i] >= 0
  BY <1>1
<1>3. PICK f : Sums(f, g, T) /\ Summed(g, T) = f[T]
  BY MapThenSumSums
<1>4. ASSUME NEW S \in SUBSET T PROVE Amount(seq, S) = f[S]
  <2>1. IsFiniteSet(S) /\ \A i \in S : g[i] = seq[i].amount
    BY <1>2, FS_Subset
  <2> QED BY <1>3, <2>1, AmountIsSummed, SummedPart
<1>5. f[A \cup B] = f[A] + f[B]
  BY <1>2, <1>3, SumsAddUp DEF Additive
<1>6. \A s \in SUBSET T : f[s] \in Int
  BY <1>2, <1>3, SumsAreIntegers
<1>7. \A s \in SUBSET T : f[s] >= 0
  <2>1. SUFFICES ASSUME {s \in SUBSET T : f[s] < 0} # {} PROVE FALSE
    BY <1>6
  <2>2. PICK bad : bad = {s \in SUBSET T : f[s] < 0}
    OBVIOUS
  <2>3. PICK m \in bad : \A s \in bad : s \subseteq m => s = m
    BY <2>1, <2>2, SmallestSubset
  <2>4. f[m] = IF m = {} THEN 0 ELSE g[One(m)] + f[m \ {One(m)}]
    BY <1>3, <2>2, <2>3 DEF Sums
  <2>5. m # {}
    BY <2>2, <2>3, <2>4
  <2>6. One(m) \in m
    BY <2>5 DEF One
  <2>7. m \ {One(m)} \in SUBSET T /\ m \ {One(m)} \notin bad /\ One(m) \in T
    BY <2>2, <2>3, <2>6
  <2>8. f[m \ {One(m)}] >= 0 /\ f[m \ {One(m)}] \in Int
    BY <1>6, <2>2, <2>7
  <2>9. g[One(m)] >= 0 /\ g[One(m)] \in Int
    BY <1>2, <2>7
  <2> QED BY <2>2, <2>3, <2>4, <2>5, <2>8, <2>9
<1>8. A \cup B \in SUBSET T
  OBVIOUS
<1> QED BY <1>4, <1>5, <1>6, <1>7, <1>8

\* A line that was paid counts when the call that marked it added its amount.
IsCounted(l) == /\ lines[l].status = "PAID"
                /\ \A t \in Thread : thread[t].pc = "increment" => l \notin thread[t].ids
Counted(x)   == {l \in LinesOf(x) : IsCounted(l)}

\* The processed amount of a payout is that of its lines that count.
Processed == \A x \in DOMAIN payouts : payouts[x].processed = Amount(lines, Counted(x))

\* A call that asks whether a payout is paid has one with lines in hand.
Checks(p, x) == p.pc \in {"checkPaid", "savePaid"} /\ p.rows = {x}
\* The payout has lines, and was processed in full when the call is to save that.
CheckedCall(p) == p.pc \in {"checkPaid", "savePaid"} =>
  \E x \in DOMAIN payouts : /\ p.rows = {x} /\ LinesOf(x) # {}
                            /\ p.pc = "savePaid" => payouts[x].processed = payouts[x].amount
\* Every call is such.
Checked == \A t \in Thread : CheckedCall(thread[t])

\* Lines are finitely many, of amounts that are not negative.
LEMMA LineAmounts ==
  ASSUME Working, Fair, Mirrored
  PROVE  /\ IsFiniteSet(DOMAIN lines)
         /\ \A l \in DOMAIN lines : lines[l].amount \in Int /\ lines[l].amount >= 0
<1>1. DOMAIN lines = 1..Len(lines) /\ Len(lines) \in Nat /\ \A l \in DOMAIN lines : lines[l] \in Line
  BY DEF Working, RowsOK
<1>2. IsFiniteSet(DOMAIN lines)
  BY <1>1, FS_Interval
<1>3. ASSUME NEW l \in DOMAIN lines PROVE lines[l].amount >= 0
  <2>1. PICK i \in Credits : PaysFor(l, i)
    BY DEF Mirrored
  <2> QED BY <2>1 DEF PaysFor, Credits, Fair, FairEntry
<1> QED BY <1>1, <1>2, <1>3 DEF Line

\* The amount of a payout with lines is that of its lines.
LEMMA LinesAddUp ==
  ASSUME Working, Backed, Fair, EarnedOnce, Mirrored,
         NEW x \in DOMAIN payouts, LinesOf(x) # {}
  PROVE  payouts[x].amount = Amount(lines, LinesOf(x))
<1>1. PICK S, T : S = LinesOf(x) /\ T = CreditsOf(x)
  OBVIOUS
<1>2. IsFiniteSet(S)
  BY <1>1, LineAmounts, FS_Subset DEF LinesOf
<1>3. IsFiniteSet(T)
  BY <1>1, OwnersFinite DEF CreditsOf, Credits, Working
<1>4. PICK u, v, h : /\ u = [l \in S |-> lines[l].amount] /\ v = [i \in T |-> transactions[i].amount]
                     /\ h = [l \in S |-> CHOOSE i \in Credits : PaysFor(l, i)]
  OBVIOUS
<1>5. \A l \in S : u[l] = lines[l].amount /\ h[l] = CHOOSE i \in Credits : PaysFor(l, i)
  BY <1>4
<1>6. \A i \in T : v[i] = transactions[i].amount
  BY <1>4
<1>7. ASSUME NEW l \in S PROVE h[l] \in Credits /\ PaysFor(l, h[l])
  <2>1. \E i \in Credits : PaysFor(l, i)
    BY <1>1 DEF Mirrored, LinesOf
  <2> QED BY <1>5, <2>1
<1>8. \A l \in S : u[l] \in Int /\ h[l] \in T /\ v[h[l]] = u[l]
  <2>1. \A l \in S : h[l] \in T
    BY <1>1, <1>7 DEF PaysFor, LinesOf, CreditsOf
  <2> QED BY <1>1, <1>5, <1>6, <1>7, <2>1, LineAmounts DEF PaysFor, LinesOf
<1>9. \A l, k \in S : h[l] = h[k] => l = k
  BY <1>1, <1>7 DEF PaysFor, Mirrored, LinesOf
<1>10. ASSUME NEW i \in T PROVE \E l \in S : h[l] = i
  <2>1. PICK l \in S : PaysFor(l, i)
    BY <1>1 DEF Mirrored
  <2>2. transactions[h[l]].job = transactions[i].job
    BY <1>7, <2>1 DEF PaysFor
  <2>3. h[l] \in Of("INCOME") /\ i \in Of("INCOME")
    BY <1>1, <1>7 DEF Fair, FairEntry, Credits, CreditsOf, Of
  <2> QED BY <2>2, <2>3 DEF EarnedOnce
<1>11. Summed(u, S) = Summed(v, T)
  BY <1>2, <1>3, <1>8, <1>9, <1>10, SumOfImage
<1>12. Amount(lines, S) = Summed(u, S) /\ Amount(transactions, T) = Summed(v, T)
  BY <1>2, <1>3, <1>5, <1>6, AmountIsSummed
<1>13. payouts[x].amount = Amount(transactions, T)
  BY <1>1 DEF Backed, PayoutIsBacked
<1> QED BY <1>1, <1>11, <1>12, <1>13

\* A call adds the amount of its line to the payout of the line.
LEMMA Incremented ==
  ASSUME Working, Marked, NEW t \in Thread, Increment(t)
  PROVE  \E l \in DOMAIN lines :
           /\ thread[t].ids = {l} /\ lines[l].status = "PAID" /\ Running(t, "increment")
           /\ payouts' = [payouts EXCEPT ![lines[l].payout].processed = @ + Amount(lines, {l})]
           /\ thread'[t].pc = "checkPaid" /\ thread'[t].rows = {lines[l].payout}
           /\ \A u \in Thread \ {t} : thread'[u] = thread[u]
           /\ UNCHANGED lines
<1>1. PICK p : p = thread[t] /\ p \in Memory /\ p.pc = "increment"
  BY DEF Increment, Running, Working, ThreadsOK
<1>2. PICK l \in DOMAIN lines : p.ids = {l} /\ lines[l].status = "PAID"
  BY <1>1 DEF Marked, MarkedCall, Marks
<1>3. /\ payouts' = [payouts EXCEPT ![lines[l].payout].processed = @ + Amount(lines, {l})]
      /\ Become(t, [p EXCEPT !.pc = "checkPaid", !.rows = {lines[l].payout}])
      /\ UNCHANGED lines
  <2>1. PICK k \in p.ids :
          /\ payouts' = [payouts EXCEPT ![lines[k].payout].processed = @ + Amount(lines, p.ids)]
          /\ Become(t, [p EXCEPT !.pc = "checkPaid", !.rows = {lines[k].payout}])
    BY <1>1 DEF Increment
  <2>2. k = l
    BY <1>2
  <2> QED BY <1>2, <2>1, <2>2 DEF Increment
<1>4. PICK x : x = lines[l].payout
  OBVIOUS
<1>5. thread'[t] = [p EXCEPT !.pc = "checkPaid", !.rows = {x}]
  BY <1>3, <1>4 DEF Become, Working, ThreadsOK
<1>6. thread'[t].pc = "checkPaid" /\ thread'[t].rows = {x}
  BY <1>1, <1>5 DEF Memory
<1>7. \A u \in Thread \ {t} : thread'[u] = thread[u]
  BY <1>3 DEF Become, Working, ThreadsOK
<1> QED BY <1>1, <1>2, <1>3, <1>4, <1>6, <1>7 DEF Running

\* A line counts from when its amount is added.
LEMMA CountedMoves ==
  ASSUME Working, Working', Unsent, Marked, Next, ~Crash, NEW l \in DOMAIN lines'
  PROVE  IsCounted(l)' <=> \/ l \in DOMAIN lines /\ IsCounted(l)
                           \/ \E t \in Thread : Increment(t) /\ l \in thread[t].ids
<1> DEFINE InHandOf(t) == thread[t].pc = "increment" /\ l \in thread[t].ids
<1>1. \A t \in Thread : InHandOf(t) => l \in DOMAIN lines /\ lines[l].status = "PAID"
  BY DEF Marked, MarkedCall, Marks
<1>2. IsCounted(l) <=> lines[l].status = "PAID" /\ \A t \in Thread : ~InHandOf(t)
  BY DEF IsCounted
<1>3. IsCounted(l)' <=> lines'[l].status = "PAID" /\ \A t \in Thread : ~InHandOf(t)'
  BY DEF IsCounted
<1>5. ASSUME NEW t \in Thread, ~Increment(t)
      PROVE  InHandOf(t)' <=> InHandOf(t) \/ (SaveMarked(t) /\ l \in thread[t].ids)
  <2>1. ASSUME InHandOf(t) PROVE thread'[t] = thread[t]
    <3>1. ~PayoutStep(t)
      BY <1>5, <2>1 DEF PayoutStep, SavePayouts, SaveLines, ReadLines, SaveBatch, Send,
         SaveSentLines, CloseBatch, SaveMarked, CheckPaid, SavePaid, SaveStatus, SaveSettled,
         Running
    <3> QED BY <2>1, <3>1, OwnStep DEF PayoutPC
  <2>2. ASSUME SaveMarked(t)
        PROVE thread'[t].pc = "increment" /\ thread'[t].ids = thread[t].ids
    <3>1. PICK p : p = thread[t] /\ p \in Memory
      BY DEF Working, ThreadsOK
    <3>2. thread'[t] = [p EXCEPT !.pc = "increment"]
      BY <2>2, <3>1 DEF SaveMarked, Goto, Working, ThreadsOK
    <3> QED BY <3>1, <3>2 DEF Memory
  <2>3. ASSUME InHandOf(t)' PROVE InHandOf(t) \/ (SaveMarked(t) /\ l \in thread[t].ids)
    BY <2>3, MarksFrom DEF Marks
  <2> QED BY <2>1, <2>2, <2>3
<1>7. CASE \E t \in Thread : Increment(t)
  <2>1. PICK t \in Thread : Increment(t)
    BY <1>7
  <2>2. PICK k \in DOMAIN lines :
          /\ thread[t].ids = {k} /\ lines[k].status = "PAID" /\ thread[t].pc = "increment"
          /\ thread'[t].pc = "checkPaid" /\ \A u \in Thread \ {t} : thread'[u] = thread[u]
          /\ UNCHANGED lines
    BY <2>1, Incremented DEF Running
  <2>3. \A u \in Thread : Increment(u) => u = t
    BY <2>2, Incremented DEF Running
  <2>4. \A u \in Thread : thread[u].pc = "increment" /\ k \in thread[u].ids => u = t
    BY <2>2 DEF Marked, Marks
  <2>5. \A u \in Thread : InHandOf(u)' <=> u # t /\ InHandOf(u)
    BY <2>2
  <2>6. (\E u \in Thread : Increment(u) /\ l \in thread[u].ids) <=> l = k
    BY <2>1, <2>2, <2>3
  <2>7. CASE l = k
    BY <1>3, <2>2, <2>4, <2>5, <2>6, <2>7
  <2>8. CASE l # k
    <3>1. \A u \in Thread : InHandOf(u)' <=> InHandOf(u)
      BY <2>2, <2>5, <2>8
    <3> QED BY <1>2, <1>3, <2>2, <2>6, <2>8, <3>1
  <2> QED BY <2>7, <2>8
<1>8. CASE \A t \in Thread : ~Increment(t)
  <2>1. \A t \in Thread : InHandOf(t)' <=> InHandOf(t) \/ (SaveMarked(t) /\ l \in thread[t].ids)
    BY <1>5, <1>8
  <2>2. CASE l \notin DOMAIN lines
    BY <1>3, <1>8, <2>2, LinesChange DEF NewLines
  <2>3. CASE l \in DOMAIN lines /\ \E t \in Thread : SaveMarked(t) /\ l \in thread[t].ids
    <3>1. lines[l].status = "IN_TRANSIT"
      <4>1. PICK t \in Thread : SaveMarked(t) /\ l \in thread[t].ids
        BY <2>3
      <4>2. thread[t].pc = "saveMarked" /\ MarkedCall(thread[t])
        BY <4>1 DEF SaveMarked, Running, Marked
      <4> QED BY <4>1, <4>2 DEF MarkedCall, Marks
    <3>2. ~IsCounted(l)
      BY <1>2, <3>1
    <3>3. \E t \in Thread : InHandOf(t)'
      BY <2>1, <2>3
    <3>4. ~IsCounted(l)'
      BY <1>3, <3>3
    <3> QED BY <1>8, <3>2, <3>4
  <2>4. CASE l \in DOMAIN lines /\ \A t \in Thread : ~(SaveMarked(t) /\ l \in thread[t].ids)
    <3>1. lines'[l].status = "PAID" <=> lines[l].status = "PAID"
      <4>1. ASSUME NEW t \in Thread, SaveSentLines(t), l \in thread[t].ids
            PROVE  lines[l].status # "PAID"
        BY <4>1 DEF Unsent, UnsentCall, SaveSentLines, Running
      <4> QED BY <2>4, <4>1, LinesChange DEF SameStatus, NowAre
    <3> QED BY <1>2, <1>3, <1>8, <2>1, <2>4, <3>1
  <2> QED BY <2>2, <2>3, <2>4
<1> QED BY <1>7, <1>8

\* The call that releases what was held for payout x.
ReleaseOf(x) == [name |-> "release", id |-> x]

\* Whoever is found paid is to be released.
PaidAnew(x) == payouts'[x].status = "PAID" => payouts[x].status = "PAID" \/ todo'[ReleaseOf(x)] > 0

\* Rows of payouts are added, and what was processed changes as lines are paid.
LEMMA PayoutRows ==
  ASSUME Working, AnnouncedOK, Backed, Checked, Next
  PROVE  /\ PayoutsStay /\ \A x \in DOMAIN payouts : PaidAnew(x)
         /\ \A x \in DOMAIN payouts' \ DOMAIN payouts :
              /\ payouts'[x].processed = 0 /\ payouts'[x].status = "SCHEDULED"
              /\ LinesOf(x)' = {}
         /\ \/ \E t \in Thread : Increment(t)
            \/ \A x \in DOMAIN payouts : payouts'[x].processed = payouts[x].processed
<1> DEFINE SameProcessed == \A x \in DOMAIN payouts : payouts'[x].processed = payouts[x].processed
           SameState     == \A x \in DOMAIN payouts : payouts'[x].status = payouts[x].status
<1>1. PayoutsStay
  BY StepWrites DEF Steady, Writes, PayoutsStay, AnnouncedOK
<1>2. UNCHANGED payouts => SameProcessed /\ SameState /\ DOMAIN payouts' = DOMAIN payouts
  OBVIOUS
<1>3. SameState => \A x \in DOMAIN payouts : PaidAnew(x)
  BY DEF PaidAnew
<1>4. ASSUME NEW S, NEW x \in S \cap DOMAIN payouts, Publish(Tasks("release", S)) PROVE todo'[ReleaseOf(x)] > 0
  <2>1. x \in PayoutId
    BY WalletAssumption DEF Working, RowsOK, PayoutId
  <2>2. ReleaseOf(x) \in Task /\ ReleaseOf(x) \in Tasks("release", S)
    BY <2>1 DEF ReleaseOf, Task, Tasks
  <2>3. todo[ReleaseOf(x)] \in Nat
    BY <2>2 DEF Working, TodoOK
  <2> QED BY <1>4, <2>2, <2>3 DEF Publish
<1>5. ASSUME NEW S, NEW status \in PayoutStatus, payouts' = SetStatus(S, status)
      PROVE  /\ SameProcessed /\ DOMAIN payouts' = DOMAIN payouts
             /\ \A x \in DOMAIN payouts :
                  payouts'[x].status = IF x \in S THEN status ELSE payouts[x].status
  <2>1. PICK new : new = SetStatus(S, status)
    OBVIOUS
  <2>2. /\ new = [p \in DOMAIN payouts |-> new[p]]
        /\ \A p \in DOMAIN payouts : /\ new[p].processed = payouts[p].processed
                                     /\ new[p].status = IF p \in S THEN status ELSE payouts[p].status
    BY <2>1, SetStatusType DEF Working
  <2>3. DOMAIN new = DOMAIN payouts
    BY <2>2
  <2> QED BY <1>5, <2>1, <2>2, <2>3
<1>6. ASSUME NEW t \in Thread, SavePayouts(t)
      PROVE  /\ \A x \in DOMAIN payouts : payouts'[x] = payouts[x]
             /\ \A x \in DOMAIN payouts' \ DOMAIN payouts :
                  /\ payouts'[x].processed = 0 /\ payouts'[x].status = "SCHEDULED"
                  /\ LinesOf(x)' = {}
  <2>1. PICK R, S : DraftsRows(t, R, S)
    BY <1>6, DraftRows
  <2>2. UNCHANGED lines
    BY <1>6 DEF SavePayouts
  <2> QED BY <2>1, <2>2 DEF DraftsRows, LinesOf, Working, RowsOK
<1>7. ASSUME NEW t \in Thread, SaveBatch(t)
      PROVE  SameProcessed /\ SameState /\ DOMAIN payouts' = DOMAIN payouts
  <2>1. PICK b : payouts' = [p \in DOMAIN payouts |->
                   IF p \in thread[t].rows THEN [payouts[p] EXCEPT !.batch = b] ELSE payouts[p]]
    BY <1>7 DEF SaveBatch
  <2>2. \A x \in DOMAIN payouts : payouts[x] \in PayoutRow
    BY DEF Working, RowsOK
  <2> QED BY <2>1, <2>2 DEF PayoutRow
<1>8. ASSUME NEW t \in Thread, CloseBatch(t)
      PROVE  /\ SameProcessed /\ DOMAIN payouts' = DOMAIN payouts
             /\ \A x \in DOMAIN payouts : PaidAnew(x)
  <2>1. UNCHANGED payouts \/ payouts' = SetStatus(thread[t].rows, "IN_TRANSIT")
    BY <1>8 DEF CloseBatch
  <2> QED BY <1>2, <1>3, <1>5, <2>1 DEF PaidAnew, PayoutStatus
<1>9. ASSUME NEW t \in Thread, Increment(t)
      PROVE  SameState /\ DOMAIN payouts' = DOMAIN payouts
  <2>1. PICK y, n : payouts' = [payouts EXCEPT ![y].processed = n]
    BY <1>9 DEF Increment
  <2>2. \A x \in DOMAIN payouts : payouts[x] \in PayoutRow
    BY DEF Working, RowsOK
  <2> QED BY <2>1, <2>2 DEF PayoutRow
<1>10. ASSUME NEW t \in Thread, SavePaid(t)
       PROVE  /\ SameProcessed /\ DOMAIN payouts' = DOMAIN payouts
              /\ \A x \in DOMAIN payouts : PaidAnew(x)
  <2>1. PICK y \in DOMAIN payouts : /\ thread[t].rows = {y}
                                    /\ payouts[y].processed = payouts[y].amount
    BY <1>10 DEF Checked, CheckedCall, SavePaid, Running
  <2>2. /\ payouts' = [payouts EXCEPT ![y].status = "PAID", ![y].processed = payouts[y].amount]
        /\ Publish(Tasks("release", {y}))
    BY <1>10, <2>1 DEF SavePaid, PayoutPaid
  <2>3. \A x \in DOMAIN payouts : payouts[x] \in PayoutRow
    BY DEF Working, RowsOK
  <2>4. SameProcessed /\ DOMAIN payouts' = DOMAIN payouts
    BY <2>1, <2>2, <2>3 DEF PayoutRow
  <2>5. \A x \in DOMAIN payouts \ {y} : payouts'[x] = payouts[x]
    BY <2>2
  <2>6. todo'[ReleaseOf(y)] > 0
    BY <1>4, <2>2
  <2> QED BY <2>4, <2>5, <2>6 DEF PaidAnew
<1>11. ASSUME NEW t \in Thread, SaveStatus(t) \/ SaveSettled(t)
       PROVE  /\ SameProcessed /\ DOMAIN payouts' = DOMAIN payouts
              /\ \A x \in DOMAIN payouts : PaidAnew(x)
  <2>1. PICK status \in PayoutStatus :
          payouts' = SetStatus(thread[t].rows, status) /\ Publish(Tasks("release", thread[t].rows))
    <3>1. thread[t].status \in PayoutStatus /\ "PAID" \in PayoutStatus
      BY DEF Working, ThreadsOK, Memory, PayoutStatus
    <3> QED BY <1>11, <3>1 DEF SaveStatus, SaveSettled, PayoutPaid
  <2>2. \A x \in thread[t].rows \cap DOMAIN payouts : todo'[ReleaseOf(x)] > 0
    BY <1>4, <2>1
  <2> QED BY <1>5, <2>1, <2>2 DEF PaidAnew
<1>12. ASSUME NEW t \in Thread, PayoutStep(t), ~SavePayouts(t), ~SaveBatch(t), ~CloseBatch(t),
              ~Increment(t), ~SavePaid(t), ~SaveStatus(t), ~SaveSettled(t)
       PROVE  UNCHANGED payouts
  BY <1>12 DEF PayoutStep, SaveLines, ReadLines, Send, SaveSentLines, SaveMarked, CheckPaid, rows
<1>13. CASE Request
  BY <1>1, <1>2, <1>3, <1>13, RequestStarts
<1>14. CASE Command \/ Crash
  <2>1. ASSUME NEW t \in Thread, WalletStep(t) PROVE UNCHANGED payouts
    BY <2>1 DEF WalletStep, Income, Compensate, Hold, Release, CheckCompensation, FindWallet,
       FindPending, CompareEntry, CompareRelease, Compare, WriteEntry, WriteRelease, RegenIncome,
       RegenCompensation
  <2> QED BY <1>1, <1>2, <1>3, <1>14, <2>1 DEF Command, DismissCompensation, Crash, rows
<1>15. CASE \E t \in Thread : PayoutStep(t)
  <2>1. PICK t \in Thread : PayoutStep(t)
    BY <1>15
  <2>2. CASE SavePayouts(t)
    BY <1>1, <1>6, <2>2 DEF PaidAnew
  <2>3. CASE Increment(t)
    BY <1>1, <1>3, <1>9, <2>3
  <2>4. CASE ~SavePayouts(t) /\ ~Increment(t)
    BY <1>1, <1>2, <1>3, <1>7, <1>8, <1>10, <1>11, <1>12, <2>1, <2>4
  <2> QED BY <2>2, <2>3, <2>4
<1> QED BY <1>13, <1>14, <1>15 DEF Next, Program

\* The lines of a payout that count are the same, but for the one that is counted.
LEMMA CountedSets ==
  ASSUME Working, Working', Unsent, Marked, Next, ~Crash, NEW x
  PROVE  /\ (\A t \in Thread : ~Increment(t)) => Counted(x)' = Counted(x)
         /\ \A t \in Thread, l \in DOMAIN lines :
              Increment(t) /\ thread[t].ids = {l} =>
                /\ l \notin Counted(x)
                /\ Counted(x)' = IF l \in LinesOf(x) THEN Counted(x) \cup {l} ELSE Counted(x)
<1>1. /\ DOMAIN lines \subseteq DOMAIN lines'
      /\ \A l \in DOMAIN lines : lines'[l].payout = lines[l].payout
  BY LinesChange DEF LinesKept
<1>2. \A l \in DOMAIN lines' :
        IsCounted(l)' <=> \/ l \in DOMAIN lines /\ IsCounted(l)
                          \/ \E t \in Thread : Increment(t) /\ l \in thread[t].ids
  BY CountedMoves
<1>3. LinesOf(x) = {l \in DOMAIN lines : lines[l].payout = x} /\ Counted(x) \subseteq LinesOf(x)
  BY DEF LinesOf, Counted
<1>4. \A l : l \in Counted(x)' <=> l \in DOMAIN lines' /\ lines'[l].payout = x /\ IsCounted(l)'
  BY DEF LinesOf, Counted
<1>5. \A l : l \in Counted(x) <=> l \in DOMAIN lines /\ lines[l].payout = x /\ IsCounted(l)
  BY DEF LinesOf, Counted
<1>6. ASSUME \A t \in Thread : ~Increment(t) PROVE Counted(x)' = Counted(x)
  <2>1. \A l : l \in Counted(x)' <=> l \in Counted(x)
    BY <1>1, <1>2, <1>4, <1>5, <1>6
  <2> QED BY <2>1
<1>7. ASSUME NEW t \in Thread, NEW k \in DOMAIN lines, Increment(t), thread[t].ids = {k}
      PROVE  /\ k \notin Counted(x)
             /\ Counted(x)' = IF k \in LinesOf(x) THEN Counted(x) \cup {k} ELSE Counted(x)
  <2>1. thread[t].pc = "increment" /\ UNCHANGED lines
    BY <1>7 DEF Increment, Running
  <2>2. \A u \in Thread : \A l : Increment(u) /\ l \in thread[u].ids => l = k
    <3>1. ASSUME NEW u \in Thread, Increment(u), u # t PROVE FALSE
      <4>1. thread'[u].pc = "checkPaid" /\ thread[u].pc = "increment"
        BY <3>1, Incremented DEF Running
      <4>2. thread'[u] = thread[u]
        BY <1>7, <3>1, Incremented
      <4> QED BY <4>1, <4>2
    <3> QED BY <1>7, <3>1
  <2>3. ~IsCounted(k)
    BY <1>7, <2>1 DEF IsCounted
  <2>4. \A l \in DOMAIN lines : IsCounted(l)' <=> IsCounted(l) \/ l = k
    BY <1>1, <1>2, <1>7, <2>2
  <2>5. \A l : l \in Counted(x)' <=> l \in Counted(x) \/ (l = k /\ k \in LinesOf(x))
    BY <1>3, <1>4, <1>5, <2>1, <2>4
  <2>6. CASE k \in LinesOf(x)
    BY <1>5, <2>3, <2>5, <2>6
  <2>7. CASE k \notin LinesOf(x)
    BY <1>5, <2>3, <2>5, <2>7
  <2> QED BY <2>6, <2>7
<1> QED BY <1>6, <1>7

\* What was processed of each payout is what its counted lines amount to.
LEMMA ProcessedStep ==
  ASSUME Working, Working', AnnouncedOK, Backed, Fair, Mirrored, Unsent, Marked, Checked,
         Processed, Next, ~Crash
  PROVE  Processed'
<1>1. PICK D : D = DOMAIN lines
  OBVIOUS
<1>2. IsFiniteSet(D) /\ \A l \in D : lines[l].amount \in Int /\ lines[l].amount >= 0
  BY <1>1, LineAmounts
<1>3. \A x : Counted(x) \in SUBSET D
  BY <1>1 DEF Counted, LinesOf
<1>4. \A x : LinesOf(x) \subseteq D
  BY <1>1 DEF LinesOf
<1>5. \A l \in D : lines'[l].amount = lines[l].amount
  BY <1>1, LinesChange DEF LinesKept
<1>6. ASSUME NEW S \in SUBSET D PROVE Amount(lines', S) = Amount(lines, S)
  <2>1. IsFiniteSet(S) /\ \A l \in S : lines'[l].amount = lines[l].amount
    BY <1>2, <1>5, FS_Subset
  <2> QED BY <2>1, AmountsAgree
<1>7. ASSUME NEW x \in DOMAIN payouts' \ DOMAIN payouts
      PROVE  payouts'[x].processed = Amount(lines', Counted(x)')
  <2>1. payouts'[x].processed = 0 /\ LinesOf(x)' = {}
    BY PayoutRows
  <2>2. Counted(x)' = {}
    BY <2>1 DEF Counted
  <2>3. Amount(lines', {}) = 0
    <3>1. {} \in SUBSET D /\ {} \cap {} = {}
      OBVIOUS
    <3>2. {} \cup {} = {}
      OBVIOUS
    <3>3. PICK a : a = Amount(lines, {})
      OBVIOUS
    <3>4. Amount(lines, {} \cup {}) = Amount(lines, {}) + Amount(lines, {})
      BY <1>2, <3>1, AmountAdds
    <3>5. a \in Int
      BY <1>2, <3>1, <3>3, AmountAdds
    <3>6. a = a + a
      BY <3>2, <3>3, <3>4, Zenon
    <3>7. a = 0
      BY <3>5, <3>6
    <3> QED BY <1>6, <3>1, <3>3, <3>7
  <2> QED BY <2>1, <2>2, <2>3
<1>8. ASSUME NEW x \in DOMAIN payouts, \A t \in Thread : ~Increment(t)
      PROVE  payouts'[x].processed = Amount(lines', Counted(x)')
  <2>1. payouts'[x].processed = payouts[x].processed
    BY <1>8, PayoutRows
  <2>2. Counted(x)' = Counted(x)
    BY <1>8, CountedSets
  <2>3. Amount(lines', Counted(x)) = Amount(lines, Counted(x))
    BY <1>3, <1>6
  <2> QED BY <2>1, <2>2, <2>3 DEF Processed
<1>9. ASSUME NEW x \in DOMAIN payouts, NEW t \in Thread, Increment(t)
      PROVE  payouts'[x].processed = Amount(lines', Counted(x)')
  <2>1. PICK k \in D :
          /\ thread[t].ids = {k}
          /\ payouts' = [payouts EXCEPT ![lines[k].payout].processed = @ + Amount(lines, {k})]
    BY <1>1, <1>9, Incremented
  <2>2. PICK C : C = Counted(x) /\ C \in SUBSET D
    BY <1>3
  <2>3. /\ k \notin C
        /\ Counted(x)' = IF k \in LinesOf(x) THEN C \cup {k} ELSE C
    BY <1>1, <1>9, <2>1, <2>2, CountedSets
  <2>4. payouts[x].processed = Amount(lines, C) /\ payouts[x] \in PayoutRow
    BY <2>2 DEF Processed, Working, RowsOK
  <2>5. CASE k \in LinesOf(x)
    <3>1. lines[k].payout = x
      BY <2>5 DEF LinesOf
    <3>2. payouts'[x].processed = Amount(lines, C) + Amount(lines, {k})
      BY <2>1, <2>4, <3>1 DEF PayoutRow
    <3>3. {k} \in SUBSET D /\ C \cap {k} = {} /\ C \cup {k} \in SUBSET D
      BY <2>2, <2>3
    <3>4. Amount(lines, C \cup {k}) = Amount(lines, C) + Amount(lines, {k})
      BY <1>2, <2>2, <3>3, AmountAdds
    <3>5. Amount(lines', C \cup {k}) = Amount(lines, C \cup {k})
      BY <1>6, <3>3
    <3> QED BY <2>3, <2>5, <3>2, <3>4, <3>5
  <2>6. CASE k \notin LinesOf(x)
    <3>1. lines[k].payout # x
      BY <1>1, <2>6 DEF LinesOf
    <3>2. payouts'[x].processed = payouts[x].processed
      BY <2>1, <3>1
    <3>3. Amount(lines', C) = Amount(lines, C)
      BY <1>6, <2>2
    <3> QED BY <2>3, <2>4, <2>6, <3>2, <3>3
  <2> QED BY <2>5, <2>6
<1> QED BY <1>7, <1>8, <1>9 DEF Processed

------------------------------------------------------------------------------
(* What is complete is paid                                                   *)

\* Where each step of a call on payouts leads to.
LEMMA StepsTo ==
  ASSUME Working, NEW t \in Thread, PayoutStep(t)
  PROVE  \/ thread'[t] = Idle
         \/ SavePayouts(t) /\ thread'[t].pc = "saveLines"
         \/ ReadLines(t) /\ thread'[t].pc = "saveBatch"
         \/ SaveBatch(t) /\ thread'[t].pc = "send"
         \/ Send(t) /\ thread'[t].pc \in {"saveSentLines", "closeBatch"}
         \/ SaveSentLines(t) /\ thread'[t].pc = "closeBatch"
         \/ SaveMarked(t) /\ thread'[t].pc = "increment" /\ thread'[t].ids = thread[t].ids
         \/ Increment(t) /\ thread'[t].pc = "checkPaid"
         \/ CheckPaid(t) /\ thread'[t].pc = "savePaid" /\ thread'[t].rows = thread[t].rows
<1>1. PICK p : p = thread[t]
  OBVIOUS
<1>2. p \in Memory /\ thread \in [Thread -> Memory]
  BY <1>1 DEF Working, ThreadsOK
<1>3. Finish(t) => thread'[t] = Idle
  BY <1>2 DEF Become, Finish
<1>4. ASSUME NEW pc, Goto(t, pc)
      PROVE  thread'[t].pc = pc /\ thread'[t].ids = p.ids /\ thread'[t].rows = p.rows
  <2>1. thread'[t] = [p EXCEPT !.pc = pc]
    BY <1>1, <1>2, <1>4 DEF Goto
  <2> QED BY <1>2, <2>1 DEF Memory
<1>5. \A m : Become(t, m) => thread'[t] = m
  BY <1>2 DEF Become
<1>6. CASE SaveBatch(t) \/ SaveSentLines(t) \/ SaveMarked(t)
  BY <1>1, <1>4, <1>6 DEF SaveBatch, SaveSentLines, SaveMarked
<1>7. CASE CloseBatch(t) \/ CheckPaid(t) \/ SaveLines(t) \/ SavePaid(t) \/ SaveStatus(t)
           \/ SaveSettled(t)
  BY <1>1, <1>3, <1>4, <1>7 DEF CloseBatch, CheckPaid, SaveLines, SavePaid, SaveStatus, SaveSettled
<1>8. CASE ReadLines(t)
  <2>1. \/ Become(t, Idle)
        \/ \E ids, status :
             Become(t, [p EXCEPT !.pc = "saveBatch", !.ids = ids, !.status = status])
    BY <1>1, <1>8 DEF ReadLines
  <2>2. ASSUME NEW ids, NEW status,
               Become(t, [p EXCEPT !.pc = "saveBatch", !.ids = ids, !.status = status])
        PROVE  thread'[t].pc = "saveBatch"
    BY <1>2, <1>5, <2>2 DEF Memory
  <2> QED BY <1>5, <1>8, <2>1, <2>2
<1>9. CASE Send(t)
  <2>1. CASE Become(t, [thread[t] EXCEPT !.pc = "closeBatch", !.status = "FAILED"])
    BY <1>1, <1>2, <1>5, <1>9, <2>1 DEF Memory
  <2>2. CASE Become(t, [thread[t] EXCEPT !.sent = TRUE,
                                         !.pc = IF thread[t].status = "IN_TRANSIT"
                                                THEN "saveSentLines" ELSE "closeBatch"])
    <3>1. PICK pc \in {"saveSentLines", "closeBatch"} :
            Become(t, [p EXCEPT !.sent = TRUE, !.pc = pc])
      BY <1>1, <2>2
    <3> QED BY <1>2, <1>5, <1>9, <3>1 DEF Memory
  <2> QED BY <1>9, <2>1, <2>2 DEF Send
<1>10. CASE Increment(t)
  <2>1. PICK rws : Become(t, [p EXCEPT !.pc = "checkPaid", !.rows = rws])
    BY <1>1, <1>10 DEF Increment
  <2> QED BY <1>2, <1>5, <1>10, <2>1 DEF Memory
<1>11. CASE SavePayouts(t)
  <2>1. p.ids \subseteq Credits /\ RowsOK
    BY <1>1, <1>11 DEF Working, ThreadsOK, ProcessOK, SavePayouts, Running
  <2>2. PICK Row \in [Payees(t) -> DOMAIN payouts' \ DOMAIN payouts] : PayoutsAre(t, Row)
    BY <1>1, <1>11, <2>1, PayoutsAppended
  <2>3. PICK rws : Become(t, [p EXCEPT !.pc = "saveLines", !.rows = rws])
    BY <1>1, <2>2 DEF PayoutsAre
  <2>4. thread'[t].pc = "saveLines"
    BY <1>2, <1>5, <2>3 DEF Memory
  <2> QED BY <1>11, <2>4
<1> QED BY <1>6, <1>7, <1>8, <1>9, <1>10, <1>11 DEF PayoutStep

\* The amount of lines that count is not above that of the payout.
LEMMA CountedAtMost ==
  ASSUME Working, Backed, Fair, EarnedOnce, Mirrored, NEW x \in DOMAIN payouts, LinesOf(x) # {},
         NEW C \in SUBSET LinesOf(x), NEW A \in SUBSET LinesOf(x), C \cap A = {}
  PROVE  /\ Amount(lines, C \cup A) = Amount(lines, C) + Amount(lines, A)
         /\ Amount(lines, C) \in Int /\ Amount(lines, A) \in Int
         /\ Amount(lines, A) >= 0 /\ Amount(lines, C \cup A) <= payouts[x].amount
<1>1. PICK T : T = LinesOf(x)
  OBVIOUS
<1>2. T \subseteq DOMAIN lines
  BY <1>1 DEF LinesOf
<1>3. IsFiniteSet(T) /\ \A l \in T : lines[l].amount \in Int /\ lines[l].amount >= 0
  BY <1>2, LineAmounts, FS_Subset
<1>4. PICK B, R : B = C \cup A /\ R = T \ B
  OBVIOUS
<1>5. B \in SUBSET T /\ R \in SUBSET T /\ B \cap R = {} /\ B \cup R = T
  BY <1>1, <1>4
<1>6. /\ Amount(lines, T) = Amount(lines, B) + Amount(lines, R)
      /\ Amount(lines, B) \in Int /\ Amount(lines, R) \in Int /\ Amount(lines, R) >= 0
  <2>1. Amount(lines, B \cup R) = Amount(lines, B) + Amount(lines, R)
    BY <1>3, <1>5, AmountAdds
  <2>2. Amount(lines, B) \in Int /\ Amount(lines, R) \in Int
    BY <1>3, <1>5, AmountAdds
  <2>3. Amount(lines, R) >= 0
    BY <1>3, <1>5, AmountAdds
  <2> QED BY <1>5, <2>1, <2>2, <2>3
<1>7. payouts[x].amount = Amount(lines, T)
  BY <1>1, LinesAddUp
<1>8. /\ Amount(lines, B) = Amount(lines, C) + Amount(lines, A)
      /\ Amount(lines, C) \in Int /\ Amount(lines, A) \in Int /\ Amount(lines, A) >= 0
  <2>1. C \in SUBSET T /\ A \in SUBSET T
    BY <1>1
  <2>2. Amount(lines, C \cup A) = Amount(lines, C) + Amount(lines, A)
    BY <1>3, <2>1, AmountAdds
  <2>3. Amount(lines, C) \in Int /\ Amount(lines, A) \in Int
    BY <1>3, <2>1, AmountAdds
  <2>4. Amount(lines, A) >= 0
    BY <1>3, <2>1, AmountAdds
  <2> QED BY <1>4, <2>2, <2>3, <2>4
<1> QED BY <1>4, <1>6, <1>7, <1>8

\* A payout of which the amount was processed stays so.
LEMMA FullStaysFull ==
  ASSUME Working, Working', AnnouncedOK, Backed, Fair, EarnedOnce, Mirrored, Unsent, Marked,
         Checked, Processed,
         Next, ~Crash, NEW x \in DOMAIN payouts, LinesOf(x) # {},
         payouts[x].processed = payouts[x].amount
  PROVE  payouts'[x].processed = payouts'[x].amount
<1>1. payouts'[x].amount = payouts[x].amount
  BY PayoutRows DEF PayoutsStay
<1>2. CASE \A t \in Thread : ~Increment(t)
  BY <1>1, <1>2, PayoutRows
<1>3. ASSUME NEW t \in Thread, Increment(t) PROVE payouts'[x].processed = payouts[x].processed
  <2>1. PICK k \in DOMAIN lines :
          /\ thread[t].ids = {k}
          /\ payouts' = [payouts EXCEPT ![lines[k].payout].processed = @ + Amount(lines, {k})]
    BY <1>3, Incremented
  <2>2. CASE lines[k].payout # x
    BY <2>1, <2>2
  <2>3. CASE lines[k].payout = x
    <3>1. PICK C : C = Counted(x) /\ C \in SUBSET LinesOf(x)
      BY DEF Counted
    <3>2. {k} \in SUBSET LinesOf(x)
      BY <2>3 DEF LinesOf
    <3>3. C \cap {k} = {}
      BY <1>3, <2>1, <3>1, CountedSets
    <3>4. /\ Amount(lines, C \cup {k}) = Amount(lines, C) + Amount(lines, {k})
          /\ Amount(lines, C) \in Int /\ Amount(lines, {k}) \in Int
          /\ Amount(lines, {k}) >= 0 /\ Amount(lines, C \cup {k}) <= payouts[x].amount
      BY <3>1, <3>2, <3>3, CountedAtMost
    <3>5. Amount(lines, C) = payouts[x].processed /\ payouts[x] \in PayoutRow
      BY <3>1 DEF Processed, Working, RowsOK
    <3>6. Amount(lines, {k}) = 0
      BY <3>4, <3>5
    <3>7. payouts'[x].processed = payouts[x].processed + Amount(lines, {k})
      BY <2>1, <2>3, <3>5 DEF PayoutRow
    <3> QED BY <3>4, <3>5, <3>6, <3>7
  <2> QED BY <2>2, <2>3
<1> QED BY <1>1, <1>2, <1>3

\* What a call found processed is processed when it saves the payout.
LEMMA CheckedStep ==
  ASSUME Working, Working', AnnouncedOK, Backed, Fair, EarnedOnce, Mirrored, Unsent, Marked,
         Checked, Processed,
         Next, ~Crash
  PROVE  Checked'
<1>1. \A x : LinesOf(x) # {} => LinesOf(x)' # {}
  BY LinesChange DEF LinesKept, LinesOf
<1>2. DOMAIN payouts \subseteq DOMAIN payouts'
  BY PayoutRows DEF PayoutsStay
<1>3. ASSUME NEW u \in Thread, thread'[u].pc \in {"checkPaid", "savePaid"}
      PROVE  CheckedCall(thread[u])'
  <2>1. CASE thread'[u] = thread[u]
    <3>1. PICK x \in DOMAIN payouts :
            /\ thread[u].rows = {x} /\ LinesOf(x) # {}
            /\ thread[u].pc = "savePaid" => payouts[x].processed = payouts[x].amount
      BY <1>3, <2>1 DEF Checked, CheckedCall
    <3>2. thread[u].pc = "savePaid" => payouts'[x].processed = payouts'[x].amount
      BY <3>1, FullStaysFull
    <3> QED BY <1>1, <1>2, <2>1, <3>1, <3>2 DEF CheckedCall
  <2>2. CASE Increment(u) /\ thread'[u].pc = "checkPaid"
    <3>1. PICK l \in DOMAIN lines : thread'[u].rows = {lines[l].payout}
      BY <2>2, Incremented
    <3>2. lines[l].payout \in DOMAIN payouts /\ LinesOf(lines[l].payout) # {}
      BY DEF LinesOf, Working, RowsOK
    <3> QED BY <1>1, <1>2, <2>2, <3>1, <3>2 DEF CheckedCall
  <2>3. CASE CheckPaid(u) /\ thread'[u].pc = "savePaid" /\ thread'[u].rows = thread[u].rows
    <3>1. PICK x \in DOMAIN payouts : thread[u].rows = {x} /\ LinesOf(x) # {}
      BY <2>3 DEF Checked, CheckedCall, CheckPaid, Running
    <3>2. ~Finish(u)
      BY <2>3, IdleFields DEF Finish, Become, Working, ThreadsOK
    <3>3. payouts[x].processed = payouts[x].amount /\ UNCHANGED payouts
      BY <2>3, <3>1, <3>2 DEF CheckPaid, rows
    <3> QED BY <1>1, <2>3, <3>1, <3>3 DEF CheckedCall
  <2>4. \/ thread'[u] = thread[u] \/ PayoutStep(u)
    BY <1>3, PayoutCalls DEF PayoutPC, Starts, RepairsForgotten
  <2> QED BY <1>3, <2>1, <2>2, <2>3, <2>4, StepsTo, IdleFields
<1> QED BY <1>3 DEF Checked, CheckedCall

\* What is paid stays paid, whatever happens.
LEMMA PaidKept ==
  ASSUME Working, PaidFirst, Next
  PROVE  PaidStays
<1>1. UNCHANGED payouts => PaidStays
  BY DEF PaidStays
<1>2. ASSUME NEW t \in Thread, WalletStep(t) PROVE UNCHANGED payouts
  BY <1>2 DEF WalletStep, Income, Compensate, Hold, Release, CheckCompensation, FindWallet,
     FindPending, CompareEntry, CompareRelease, Compare, WriteEntry, WriteRelease, RegenIncome,
     RegenCompensation
<1>3. Request => UNCHANGED payouts
  BY RequestStarts
<1>4. Command \/ Crash => UNCHANGED payouts
  BY <1>2 DEF Command, DismissCompensation, Crash, rows
<1> QED BY <1>1, <1>3, <1>4, PayoutStepPaid DEF Next, Program

\* When all lines of a payout count, it is paid, or a call is about to save that it is.
PaidUp ==
  \A x \in DOMAIN payouts :
    LinesOf(x) # {} /\ LinesOf(x) \subseteq Counted(x) =>
      IsPaid(x) \/ \E t \in Thread : Checks(thread[t], x)

\* The call that counts the last line goes on to check.
LEMMA PaidUpStep ==
  ASSUME Working, Working', AnnouncedOK, Backed, Fair, EarnedOnce, Mirrored, PaidFirst, Unsent,
         Marked, Checked,
         Processed, PaidUp, Next, ~Crash
  PROVE  PaidUp'
<1> SUFFICES ASSUME NEW x \in DOMAIN payouts', LinesOf(x)' # {}, LinesOf(x)' \subseteq Counted(x)'
             PROVE  IsPaid(x)' \/ \E t \in Thread : Checks(thread[t], x)'
  BY DEF PaidUp, Checks
<1>1. x \in DOMAIN payouts
  BY PayoutRows
<1>2. CASE \E t \in Thread, k \in LinesOf(x) : Increment(t) /\ thread[t].ids = {k}
  <2>1. PICK t \in Thread, k \in LinesOf(x) : Increment(t) /\ thread[t].ids = {k}
    BY <1>2
  <2>2. PICK l \in DOMAIN lines : /\ thread[t].ids = {l} /\ thread'[t].pc = "checkPaid"
                                  /\ thread'[t].rows = {lines[l].payout}
    BY <2>1, Incremented
  <2>3. l = k /\ lines[k].payout = x
    BY <2>1, <2>2 DEF LinesOf
  <2> QED BY <2>2, <2>3 DEF Checks
<1>3. CASE \A t \in Thread, k \in LinesOf(x) : ~(Increment(t) /\ thread[t].ids = {k})
  <2>1. Counted(x)' = Counted(x)
    <3>1. CASE \A t \in Thread : ~Increment(t)
      BY <3>1, CountedSets
    <3>2. ASSUME NEW t \in Thread, Increment(t) PROVE Counted(x)' = Counted(x)
      <4>1. PICK k \in DOMAIN lines : thread[t].ids = {k}
        BY <3>2, Incremented
      <4> QED BY <1>3, <3>2, <4>1, CountedSets
    <3> QED BY <3>1, <3>2
  <2>2. LinesOf(x) \subseteq LinesOf(x)' /\ Counted(x) \subseteq LinesOf(x)
    BY LinesChange DEF LinesKept, LinesOf, Counted
  <2>3. LinesOf(x) # {} /\ Counted(x) = LinesOf(x)
    BY <2>1, <2>2
  <2>4. CASE IsPaid(x)
    BY <1>1, <2>4, PaidKept DEF PaidStays, IsPaid
  <2>5. ASSUME NEW t \in Thread, Checks(thread[t], x)
        PROVE  IsPaid(x)' \/ \E u \in Thread : Checks(thread[u], x)'
    <3>1. thread[t].rows = {x} /\ thread[t].pc \in {"checkPaid", "savePaid"}
      BY <2>5 DEF Checks
    <3>2. CASE thread'[t] = thread[t]
      BY <2>5, <3>2 DEF Checks
    <3>3. CASE CheckPaid(t)
      <4>1. payouts[x].processed = payouts[x].amount
        BY <1>1, <2>3, LinesAddUp DEF Processed
      <4>2. PICK p : p = thread[t] /\ p \in Memory
        BY DEF Working, ThreadsOK
      <4>3. thread'[t] = [p EXCEPT !.pc = "savePaid"]
        BY <3>1, <3>3, <4>1, <4>2 DEF CheckPaid, Goto, Working, ThreadsOK
      <4>4. thread'[t].pc = "savePaid" /\ thread'[t].rows = {x}
        BY <3>1, <4>2, <4>3 DEF Memory
      <4> QED BY <4>4 DEF Checks
    <3>4. CASE SavePaid(t)
      <4>1. payouts' = [payouts EXCEPT ![x].status = "PAID", ![x].processed = payouts[x].amount]
        BY <3>1, <3>4 DEF SavePaid
      <4>2. payouts'[x].status = "PAID"
        BY <1>1, <4>1 DEF Working, RowsOK, PayoutRow
      <4> QED BY <4>2 DEF IsPaid
    <3>5. PayoutStep(t) => CheckPaid(t) \/ SavePaid(t)
      BY <3>1 DEF PayoutStep, SavePayouts, SaveLines, ReadLines, SaveBatch, Send, SaveSentLines,
         CloseBatch, SaveMarked, Increment, SaveStatus, SaveSettled, Running
    <3> QED BY <3>1, <3>2, <3>3, <3>4, <3>5, OwnStep DEF PayoutPC
  <2> QED BY <1>1, <2>3, <2>4, <2>5 DEF PaidUp
<1> QED BY <1>2, <1>3

------------------------------------------------------------------------------
(* What has lines is held                                                     *)

\* The call that holds the amount of payout x.
HoldTask(x) == [name |-> "hold", id |-> x]
\* A call that holds an amount, until its debit is inserted.
HoldCall(p) == p.pc \in InsertsPC \cup {"findWallet"} /\ p.entry.type = "PAYOUT" /\ p.next = "idle"
\* It does so for payout x.
HoldsFor(p, x) == HoldCall(p) /\ p.entry.payout = x

\* Nothing goes on but holds that one call asked for.
OnlyHolds ==
  /\ alone /\ \A k \in Task : todo[k] > 0 => k.name = "hold"
  /\ \A t \in Thread : Running(t, "idle") \/ HoldCall(thread[t])
\* The amount is to be held, or a call is at it.
Holding(x) == todo[HoldTask(x)] > 0 \/ \E t \in Thread : HoldsFor(thread[t], x)

\* A payout that has lines is held, or is to be held before anything else starts.
HeldSoon ==
  \A x \in DOMAIN payouts : LinesOf(x) # {} /\ OfPayout(x) = {} =>
    OnlyHolds /\ Holding(x) /\ payouts[x].status = "SCHEDULED"

\* What a hold leads to.
LEMMA HoldTurn ==
  ASSUME Working, OnlyHolds, NEW t \in Thread, WalletStep(t)
  PROVE  /\ UNCHANGED payouts /\ \A u \in Thread \ {t} : thread'[u] = thread[u]
         /\ \A k \in Task : todo'[k] > 0 => todo[k] > 0
         /\ Running(t, "idle")' \/ HoldCall(thread'[t])
         /\ \A x \in PayoutId : \/ todo[HoldTask(x)] > 0 => todo'[HoldTask(x)] > 0
                                \/ OfPayout(x) # {} \/ HoldsFor(thread'[t], x)
         /\ \A x : HoldsFor(thread[t], x) =>
              \/ HoldsFor(thread'[t], x)
              \/ thread[t].pc = "writeEntry" /\ WriteEntry(t)
              \/ FindWallet(t) /\ ~WalletOf(thread[t]).exists
<1>1. PICK p, q : p = thread[t] /\ q = thread'[t] /\ p \in Memory
  BY DEF Working, ThreadsOK
<1>2. \A r : Become(t, r) => q = r /\ \A u \in Thread \ {t} : thread'[u] = thread[u]
  BY <1>1 DEF Become, Working, ThreadsOK
<1>3. p.pc = "idle" \/ HoldCall(p)
  BY <1>1 DEF OnlyHolds, Running
<1>4. Idle.pc = "idle" /\ ~HoldCall(Idle) /\ \A x : ~HoldsFor(Idle, x)
  BY IdleFields DEF HoldCall, HoldsFor, InsertsPC
<1>5. ASSUME NEW y \in PayoutId, Hold(t, y)
      PROVE  /\ UNCHANGED payouts /\ \A u \in Thread \ {t} : thread'[u] = thread[u]
             /\ \A k \in Task : todo'[k] > 0 => todo[k] > 0
             /\ \A x \in PayoutId \ {y} : todo'[HoldTask(x)] = todo[HoldTask(x)]
             /\ q.pc = "idle" \/ HoldCall(q)
             /\ OfPayout(y) # {} \/ HoldsFor(q, y)
             /\ p.pc = "idle"
  <2>0. HoldTask(y) \in Task
    BY DEF HoldTask, Task
  <2>1. PICK k : k = HoldTask(y) /\ k \in Task
    BY <2>0
  <2>2. /\ todo[k] > 0 /\ todo' = [todo EXCEPT ![k] = @ - 1] /\ UNCHANGED payouts
        /\ Become(t, IF OfPayout(y) # {} THEN Idle
                     ELSE [Idle EXCEPT !.pc = "findWallet", !.entry = PayoutEntry(y)])
        /\ p.pc = "idle"
    BY <1>1, <1>5, <2>1 DEF Hold, Take, HoldTask, Running
  <2>3. \A n \in Task : todo[n] \in Nat
    BY DEF Working, TodoOK
  <2>4. \A n \in Task : todo'[n] > 0 => todo[n] > 0
    BY <2>2, <2>3
  <2>5. ASSUME NEW x \in PayoutId \ {y} PROVE todo'[HoldTask(x)] = todo[HoldTask(x)]
    <3>1. HoldTask(x) \in Task /\ HoldTask(x) # k
      BY <2>1 DEF HoldTask, Task
    <3> QED BY <2>2, <2>3, <3>1 DEF Working, TodoOK
  <2>6. CASE OfPayout(y) # {}
    BY <1>2, <1>4, <2>2, <2>4, <2>5, <2>6
  <2>7. CASE OfPayout(y) = {}
    <3>0. PayoutEntry(y).type = "PAYOUT" /\ PayoutEntry(y).payout = y
      BY DEF PayoutEntry
    <3>1. PICK e : e = PayoutEntry(y) /\ e.type = "PAYOUT" /\ e.payout = y
      BY <3>0
    <3>2. q = [Idle EXCEPT !.pc = "findWallet", !.entry = e]
      BY <1>2, <2>2, <2>7, <3>1
    <3>3. q.pc = "findWallet" /\ q.entry = e /\ q.next = "idle"
      BY <3>2 DEF Idle
    <3> QED BY <1>2, <2>2, <2>4, <2>5, <3>1, <3>3 DEF HoldCall, HoldsFor
  <2> QED BY <2>6, <2>7
<1>6. CASE FindWallet(t) \/ CompareEntry(t) \/ WriteEntry(t)
  <2>1. UNCHANGED <<payouts, todo>> /\ HoldCall(p)
    BY <1>1, <1>3, <1>6 DEF FindWallet, CompareEntry, Compare, WriteEntry, Running
  <2>2. \A r : r.pc \in InsertsPC /\ r.entry = p.entry /\ r.next = p.next =>
               HoldCall(r) /\ \A x : HoldsFor(p, x) => HoldsFor(r, x)
    BY <2>1 DEF HoldCall, HoldsFor, InsertsPC
  <2>3. CASE FindWallet(t)
    <3>1. CASE WalletOf(p).exists
      <4>1. PICK w : Become(t, [p EXCEPT !.pc = "compareEntry", !.entry = p.entry, !.wallet = w])
        BY <1>1, <2>3, <3>1 DEF FindWallet, WalletOf, WithEntry
      <4>2. q = [p EXCEPT !.pc = "compareEntry", !.entry = p.entry, !.wallet = w]
        BY <1>2, <4>1
      <4>3. q.pc = "compareEntry" /\ q.entry = p.entry /\ q.next = p.next
        BY <1>1, <4>2 DEF Memory
      <4> QED BY <1>1, <1>2, <2>1, <2>2, <4>1, <4>3 DEF InsertsPC
    <3>2. CASE ~WalletOf(p).exists
      BY <1>1, <1>2, <1>4, <2>1, <2>3, <3>2 DEF FindWallet, WalletOf, Finish, Running
    <3> QED BY <3>1, <3>2
  <2>4. CASE CompareEntry(t)
    <3>1. PICK c : Become(t, [p EXCEPT !.pc = "writeEntry", !.changed = c])
      BY <1>1, <2>4 DEF CompareEntry, Compare
    <3>2. q = [p EXCEPT !.pc = "writeEntry", !.changed = c]
      BY <1>2, <3>1
    <3>3. q.pc = "writeEntry" /\ q.entry = p.entry /\ q.next = p.next
      BY <1>1, <3>2 DEF Memory
    <3> QED BY <1>1, <1>2, <2>1, <2>2, <3>1, <3>3 DEF InsertsPC
  <2>5. CASE WriteEntry(t)
    <3>1. Return(t) \/ Finish(t)
      BY <2>5 DEF WriteEntry
    <3>2. PICK r : r = [Idle EXCEPT !.pc = p.next, !.incomes = p.incomes,
                                    !.compensations = p.compensations]
      OBVIOUS
    <3>3. r.pc = "idle"
      BY <2>1, <3>2 DEF HoldCall, Idle
    <3>4. Become(t, r) \/ Become(t, Idle)
      BY <1>1, <3>1, <3>2 DEF Return, Finish
    <3>5. q.pc = "idle"
      BY <1>2, <1>4, <3>3, <3>4
    <3> QED BY <1>1, <1>2, <2>1, <2>5, <3>4, <3>5 DEF Running, WriteEntry
  <2> QED BY <1>6, <2>3, <2>4, <2>5
<1>7. (\E y \in PayoutId : Hold(t, y)) \/ FindWallet(t) \/ CompareEntry(t) \/ WriteEntry(t)
  <2>1. ASSUME NEW j \in Job PROVE ~Income(t, j) /\ ~Compensate(t, j)
    <3>1. /\ [name |-> "income", id |-> j] \in Task /\ [name |-> "compensation", id |-> j] \in Task
          /\ [name |-> "income", id |-> j].name # "hold"
          /\ [name |-> "compensation", id |-> j].name # "hold"
      BY DEF Task
    <3> QED BY <3>1 DEF OnlyHolds, Income, Compensate, Take
  <2>2. ASSUME NEW y \in PayoutId PROVE ~Release(t, y)
    <3>1. [name |-> "release", id |-> y] \in Task /\ [name |-> "release", id |-> y].name # "hold"
      BY DEF Task
    <3> QED BY <3>1 DEF OnlyHolds, Release, Take
  <2>3. p.pc \in InsertsPC \cup {"findWallet", "idle"}
    BY <1>3 DEF HoldCall
  <2> QED BY <1>1, <2>1, <2>2, <2>3 DEF WalletStep, CheckCompensation, FindPending, CompareRelease,
             Compare, WriteRelease, RegenIncome, RegenCompensation, Running, InsertsPC
<1>8. CASE \E y \in PayoutId : Hold(t, y)
  <2>1. PICK y \in PayoutId : Hold(t, y)
    BY <1>8
  <2>2. \A x : ~HoldsFor(p, x)
    BY <1>5, <2>1 DEF HoldsFor, HoldCall, InsertsPC
  <2> QED BY <1>1, <1>5, <2>1, <2>2 DEF Running
<1> QED BY <1>6, <1>7, <1>8

\* A call changes when its thread acts, and not by itself.
LEMMA ThreadActs ==
  ASSUME Working, Next, ~Crash, NEW u \in Thread
  PROVE  thread'[u] = thread[u] \/ WalletStep(u) \/ PayoutStep(u) \/ Started(u)
<1>1. ASSUME NEW t \in Thread, t # u, WalletStep(t) \/ PayoutStep(t) \/ Started(t)
      PROVE  thread'[u] = thread[u]
  <2>1. \E q : Become(t, q)
    BY <1>1, StepMoves, PayoutMoves DEF Moves, Started
  <2> QED BY <1>1, <2>1 DEF Become, Working, ThreadsOK
<1>2. CASE Request
  BY <1>1, <1>2, RequestStarts DEF Published
<1>3. CASE Command
  BY <1>1, <1>3 DEF Command, DismissCompensation
<1> QED BY <1>1, <1>2, <1>3 DEF Next, Program

\* The transactions of a payout stay, and what was released stays released.
LEMMA PaymentsKept ==
  ASSUME Working, AnnouncedOK, Next, NEW x
  PROVE  /\ \A i \in OfPayout(x) : i \in OfPayout(x)'
         /\ IsReleased(x) => IsReleased(x)'
<1>1. ASSUME NEW i \in OfPayout(x)
      PROVE  /\ i \in OfPayout(x)'
             /\ transactions[i].status = "SUCCESS" => transactions'[i].status = "SUCCESS"
  <2>1. i \in DOMAIN transactions /\ transactions[i].type = "PAYOUT" /\ transactions[i].payout = x
    BY DEF OfPayout, Of
  <2>2. CASE Steady
    BY <2>1, <2>2 DEF Steady, OfPayout, Of
  <2>3. ASSUME NEW t \in Thread, NEW q \in Memory, Inserts(thread[t], q)
        PROVE  i \in DOMAIN transactions' /\ transactions'[i] = transactions[i]
    <3>1. PICK e : transactions' = Append(transactions, e)
      BY <2>3 DEF Inserts
    <3>2. transactions \in Seq(Transaction)
      BY DEF Working, RowsOK
    <3> QED BY <2>1, <3>1, <3>2
  <2>4. ASSUME NEW t \in Thread, NEW q \in Memory, Updates(thread[t], q)
        PROVE  /\ i \in DOMAIN transactions' /\ transactions'[i].type = transactions[i].type
               /\ transactions'[i].payout = transactions[i].payout
               /\ transactions'[i].status = "SUCCESS" \/ transactions'[i].status = transactions[i].status
    <3>1. PICK n : transactions' = [transactions EXCEPT ![n].status = "SUCCESS"]
      BY <2>4 DEF Updates
    <3>2. transactions[i] \in Transaction
      BY <2>1 DEF Working, RowsOK
    <3> QED BY <2>1, <3>1, <3>2 DEF Transaction
  <2>5. CASE \E t \in Thread : Writes(t)
    BY <2>1, <2>3, <2>4, <2>5 DEF Writes, OfPayout, Of
  <2> QED BY <2>2, <2>5, StepWrites DEF AnnouncedOK
<1> QED BY <1>1 DEF IsReleased

\* The owner of a payout with lines has a wallet.
LEMMA OwnerHasWallet ==
  ASSUME Working, Backed, Mirrored, WalletsThere, NEW x \in DOMAIN payouts, LinesOf(x) # {}
  PROVE  wallets[payouts[x].owner].exists
<1>1. PICK l \in DOMAIN lines : lines[l].payout = x
  BY DEF LinesOf
<1>2. PICK i \in Credits : PaysFor(l, i)
  BY DEF Mirrored
<1>3. i \in CreditsOf(x)
  BY <1>1, <1>2 DEF PaysFor, CreditsOf
<1> QED BY <1>2, <1>3 DEF Backed, PayoutIsBacked, WalletsThere

\* Lines come with the holds that their schedule asks for, when nothing else goes on.
LEMMA LinesAsk ==
  ASSUME Working, Backed, Fair, EarnedOnce, Schedules, Next, ~Crash,
         NEW x \in DOMAIN payouts, LinesOf(x) = {}, LinesOf(x)' # {}
  PROVE  OnlyHolds' /\ Holding(x)' /\ payouts[x].status = "SCHEDULED" /\ UNCHANGED payouts
<1>1. PICK t \in Thread : SaveLines(t)
  <2>1. LinesStay => LinesOf(x)' = LinesOf(x)
    BY DEF LinesStay, LinesOf
  <2> QED BY <2>1, LinesMove
<1>2. PICK p : p = thread[t]
  OBVIOUS
<1>3. Sole(t) /\ Drafted(p) /\ p.pc = "saveLines"
  BY <1>1, <1>2 DEF Schedules, SchedulePC, SaveLines, Running
<1>4. ~UNCHANGED lines
  BY DEF LinesOf
<1>5. /\ LinesOfCredits(p.ids) /\ Owners(p.ids) \subseteq Payable
      /\ Publish(Tasks("hold", p.rows))
  BY <1>1, <1>2, <1>3, <1>4, LinesSaved
<1>6. x \in p.rows
  <2>1. PICK k \in NewLines : lines'[k].payout = x
    BY <1>5 DEF LinesOf, NewLines, LinesOfCredits
  <2>2. PICK i \in p.ids : NewLine(lines'[k], i)
    BY <1>5 DEF LinesOfCredits
  <2>3. transactions[i].owner \in Payable
    BY <1>5 DEF Owners
  <2> QED BY <1>3, <2>1, <2>2, <2>3 DEF NewLine, Drafted
<1>7. UNCHANGED <<payouts, alone>> /\ Become(t, Idle)
  BY <1>1 DEF SaveLines, Finish
<1>8. \A u \in Thread : thread'[u].pc = "idle"
  BY <1>3, <1>7, IdleFields DEF Sole, Running, Become, Working, ThreadsOK
<1>9. \A k \in Task : todo[k] = 0 /\ todo'[k] = IF k \in Tasks("hold", p.rows) THEN 1 ELSE 0
  BY <1>3, <1>5 DEF Sole, Publish
<1>10. \A k \in Task : todo'[k] > 0 => k.name = "hold"
  <2>1. \A k \in Tasks("hold", p.rows) : k.name = "hold"
    BY DEF Tasks
  <2> QED BY <1>9, <2>1
<1>11. todo'[HoldTask(x)] > 0
  <2>1. x \in PayoutId
    BY WalletAssumption DEF Working, RowsOK, PayoutId
  <2>2. HoldTask(x) \in Task /\ HoldTask(x) \in Tasks("hold", p.rows)
    BY <1>6, <2>1 DEF HoldTask, Task, Tasks
  <2> QED BY <1>9, <2>2
<1> QED BY <1>3, <1>6, <1>7, <1>8, <1>10, <1>11 DEF OnlyHolds, Holding, Running, Sole, Drafted

\* While holds are all that goes on, each step is one of theirs.
LEMMA HoldsGoOn ==
  ASSUME Working, OnlyHolds, Next, ~Crash, NEW x \in PayoutId, Holding(x)
  PROVE  UNCHANGED alone /\ \E t \in Thread : WalletStep(t)
<1>1. ~Quiet
  <2>1. HoldTask(x) \in Task
    BY DEF HoldTask, Task
  <2>2. \A p : HoldsFor(p, x) => p.pc # "idle"
    BY DEF HoldsFor, HoldCall, InsertsPC
  <2> QED BY <2>1, <2>2 DEF Quiet, Holding, Running
<1>2. \A call : ~MayStart(call)
  BY <1>1 DEF MayStart, OnlyHolds
<1>3. ~Request
  BY <1>2 DEF Request, Fulfil, TestFulfilled, Announce, Fail, StartRegen, Schedule, Upload,
     Settle, Mark, Update, Patch, Start
<1>4. \A t \in Thread : ~PayoutStep(t)
  BY DEF OnlyHolds, HoldCall, InsertsPC, PayoutStep, SavePayouts, SaveLines, ReadLines, SaveBatch,
     Send, SaveSentLines, CloseBatch, SaveMarked, Increment, CheckPaid, SavePaid, SaveStatus,
     SaveSettled, Running
<1>5. \A j \in Job : ~DismissCompensation(j)
  <2>1. ASSUME NEW j \in Job PROVE ~DismissCompensation(j)
    <3>1. /\ [name |-> "compensation", id |-> j] \in Task
          /\ [name |-> "compensation", id |-> j].name # "hold"
      BY DEF Task
    <3> QED BY <3>1 DEF OnlyHolds, DismissCompensation, Take
  <2> QED BY <2>1
<1> QED BY <1>3, <1>4, <1>5 DEF Next, Program, Command

\* A hold that was asked for ends with the balance held.
LEMMA HeldSoonStep ==
  ASSUME Working, Working', AnnouncedOK, Backed, Fair, EarnedOnce, Mirrored, WalletsThere,
         Schedules, Checked,
         HeldSoon, Next, ~Crash
  PROVE  HeldSoon'
<1> SUFFICES ASSUME NEW x \in DOMAIN payouts', LinesOf(x)' # {}, OfPayout(x)' = {}
             PROVE  OnlyHolds' /\ Holding(x)' /\ payouts'[x].status = "SCHEDULED"
  BY DEF HeldSoon
<1>1. x \in DOMAIN payouts /\ x \in PayoutId
  <2>1. x \in DOMAIN payouts
    BY PayoutRows
  <2> QED BY <2>1, WalletAssumption DEF Working, RowsOK, PayoutId
<1>2. OfPayout(x) = {}
  BY PaymentsKept
<1>3. CASE LinesOf(x) = {}
  BY <1>1, <1>3, LinesAsk
<1>4. CASE LinesOf(x) # {}
  <2>1. OnlyHolds /\ Holding(x) /\ payouts[x].status = "SCHEDULED"
    BY <1>1, <1>2, <1>4 DEF HeldSoon
  <2>2. UNCHANGED alone
    BY <1>1, <2>1, HoldsGoOn
  <2>3. PICK t \in Thread : WalletStep(t)
    BY <1>1, <2>1, HoldsGoOn
  <2>4. PICK p, q : p = thread[t] /\ q = thread'[t]
    OBVIOUS
  <2>5. /\ UNCHANGED payouts /\ \A u \in Thread \ {t} : thread'[u] = thread[u]
        /\ \A k \in Task : todo'[k] > 0 => todo[k] > 0
        /\ q.pc = "idle" \/ HoldCall(q)
        /\ todo[HoldTask(x)] > 0 => todo'[HoldTask(x)] > 0 \/ HoldsFor(q, x)
        /\ HoldsFor(p, x) =>
             HoldsFor(q, x) \/ (p.pc = "writeEntry" /\ WriteEntry(t))
               \/ (FindWallet(t) /\ ~WalletOf(p).exists)
    BY <1>1, <1>2, <2>1, <2>3, <2>4, HoldTurn DEF Running
  <2>6. OnlyHolds'
    <3>1. \A u \in Thread : thread'[u].pc = "idle" \/ HoldCall(thread'[u])
      BY <2>1, <2>4, <2>5 DEF OnlyHolds, Running
    <3>2. \A k \in Task : todo'[k] > 0 => k.name = "hold"
      BY <2>1, <2>5 DEF OnlyHolds
    <3> QED BY <2>1, <2>2, <3>1, <3>2 DEF OnlyHolds, Running, HoldCall
  <2>7. ASSUME HoldsFor(p, x) PROVE HoldsFor(q, x)
    <3>1. p.entry.payout = x /\ p.entry.type = "PAYOUT"
      BY <2>7 DEF HoldsFor, HoldCall
    <3>2. CASE p.pc = "writeEntry" /\ WriteEntry(t)
      <4>1. p.wallet.exists
        BY <2>4, <3>1, <3>2 DEF WalletsThere, WalletCall, InsertsPC
      <4>2. transactions' = Append(transactions, p.entry)
        BY <2>4, <3>2, <4>1 DEF WriteEntry
      <4>3. PICK n : n = Len(transactions) + 1
        OBVIOUS
      <4>4. n \in DOMAIN transactions' /\ transactions'[n] = p.entry
        BY <4>2, <4>3 DEF Working, RowsOK
      <4>5. n \in OfPayout(x)'
        BY <3>1, <4>4 DEF OfPayout, Of
      <4> QED BY <4>5
    <3>3. CASE FindWallet(t) /\ ~WalletOf(p).exists
      <4>1. BackedEntry(p.entry)
        BY <2>4, <3>3 DEF FindWallet, Running, Backed, Remembered, WithTransaction
      <4> QED BY <1>1, <1>4, <3>1, <3>3, <4>1, OwnerHasWallet DEF BackedEntry, WalletOf
    <3> QED BY <2>5, <2>7, <3>2, <3>3
  <2>8. Holding(x)'
    <3>1. \A u \in Thread : HoldsFor(thread[u], x) => HoldsFor(thread'[u], x)
      BY <2>4, <2>5, <2>7
    <3>2. todo'[HoldTask(x)] > 0 \/ \E u \in Thread : HoldsFor(thread'[u], x)
      BY <2>1, <2>4, <2>5, <3>1 DEF Holding
    <3> QED BY <3>2 DEF Holding, HoldsFor, HoldCall
  <2> QED BY <2>1, <2>5, <2>6, <2>8
<1> QED BY <1>3, <1>4

------------------------------------------------------------------------------
(* What is paid is released                                                   *)

\* A call that releases what was held for payout x.
ReleasesFor(p, x) == p.pc \in ReleasePC /\ p.entry.payout = x
\* The amount is to be released, or a call is at it.
Releasing(x) == todo[ReleaseOf(x)] > 0 \/ \E t \in Thread : ReleasesFor(thread[t], x)

\* A paid payout that has lines is released, or is to be.
ReleasedSoon ==
  \A x \in DOMAIN payouts : LinesOf(x) # {} /\ IsPaid(x) => IsReleased(x) \/ Releasing(x)

\* A release that was asked for waits until a thread takes it.
LEMMA ReleaseWaits ==
  ASSUME Working, Next, ~Crash, NEW x \in PayoutId, todo[ReleaseOf(x)] > 0
  PROVE  todo'[ReleaseOf(x)] > 0 \/ \E t \in Thread : Release(t, x)
<1>1. PICK k : k = ReleaseOf(x)
  OBVIOUS
<1>2. k \in Task /\ k.name = "release" /\ k.id = x /\ todo \in [Task -> Nat]
  BY <1>1 DEF ReleaseOf, Task, Working, TodoOK
<1>3. \A S : Publish(S) => todo'[k] > 0
  BY <1>1, <1>2 DEF Publish
<1>4. ASSUME NEW name, NEW id, name # "release" \/ id # x, Take(name, id) PROVE todo'[k] > 0
  <2>1. PICK m : m = [name |-> name, id |-> id] /\ todo' = [todo EXCEPT ![m] = @ - 1]
    BY <1>4 DEF Take
  <2>2. m # k
    BY <1>2, <1>4, <2>1
  <2> QED BY <1>1, <1>2, <2>1, <2>2
<1>5. CASE Request
  BY <1>1, <1>3, <1>5 DEF Request, Fulfil, TestFulfilled, Announce, Fail, StartRegen, Regen,
     Schedule, Upload, Settle, Mark,
     Update, Patch, ServiceRequestFulfilled, ServiceRequestRevoked
<1>6. ASSUME NEW t \in Thread, PayoutStep(t) PROVE todo'[k] > 0
  BY <1>1, <1>3, <1>6 DEF PayoutStep, SavePayouts, SaveLines, ReadLines, SaveBatch, Send,
     SaveSentLines, CloseBatch, SaveMarked, Increment, CheckPaid, SavePaid, SaveStatus, SaveSettled,
     PayoutPaid, PayoutScheduled
<1>7. ASSUME NEW t \in Thread, WalletStep(t), ~Release(t, x) PROVE todo'[k] > 0
  <2>1. ASSUME NEW y \in PayoutId, Hold(t, y) \/ Release(t, y) PROVE todo'[k] > 0
    BY <1>4, <1>7, <2>1 DEF Hold, Release
  <2>2. ASSUME NEW j \in Job, Income(t, j) \/ Compensate(t, j) PROVE todo'[k] > 0
    BY <1>4, <2>2 DEF Income, Compensate
  <2> QED BY <1>1, <1>7, <2>1, <2>2 DEF WalletStep, CheckCompensation, FindWallet, FindPending,
             CompareEntry, CompareRelease, Compare, WriteEntry, WriteRelease, RegenIncome,
             RegenCompensation
<1>8. ASSUME NEW j \in Job, DismissCompensation(j) PROVE todo'[k] > 0
  BY <1>4, <1>8 DEF DismissCompensation
<1> QED BY <1>1, <1>5, <1>6, <1>7, <1>8 DEF Next, Program, Command

\* What a release leads to.
LEMMA ReleaseTurn ==
  ASSUME Working, AnnouncedOK, PaidFirst, Next, ~Crash, NEW x \in PayoutId, NEW t \in Thread,
         ReleasesFor(thread[t], x)
  PROVE  \/ ReleasesFor(thread'[t], x) \/ IsReleased(x)'
         \/ \A i \in OfPayout(x) : transactions[i].status # "PENDING"
<1>1. PICK p, q : p = thread[t] /\ q = thread'[t] /\ p \in Memory
  BY DEF Working, ThreadsOK
<1>2. p.pc \in ReleasePC /\ p.entry.payout = x
  BY <1>1 DEF ReleasesFor
<1>3. \A r : Become(t, r) => q = r
  BY <1>1 DEF Become, Working, ThreadsOK
<1>4. CASE q = p
  BY <1>1, <1>4
<1>5. CASE FindPending(t)
  <2>1. PICK pending : pending = {i \in OfPayout(x) : transactions[i].status = "PENDING"}
    OBVIOUS
  <2>2. \/ pending = {}
        \/ \E i \in pending : Become(t, [p EXCEPT !.pc = "compareRelease", !.trx = i])
    BY <1>1, <1>2, <1>5, <2>1 DEF FindPending
  <2>3. ASSUME NEW i \in pending, Become(t, [p EXCEPT !.pc = "compareRelease", !.trx = i])
        PROVE  ReleasesFor(q, x)
    <3>1. q = [p EXCEPT !.pc = "compareRelease", !.trx = i]
      BY <1>3, <2>3
    <3> QED BY <1>1, <1>2, <3>1 DEF ReleasesFor, ReleasePC, Memory
  <2> QED BY <1>1, <2>1, <2>2, <2>3
<1>6. CASE CompareRelease(t)
  <2>1. PICK c : Become(t, [p EXCEPT !.pc = "writeRelease", !.changed = c])
    BY <1>1, <1>6 DEF CompareRelease, Compare
  <2>2. q = [p EXCEPT !.pc = "writeRelease", !.changed = c]
    BY <1>3, <2>1
  <2>3. ReleasesFor(q, x)
    BY <1>1, <1>2, <2>2 DEF ReleasesFor, ReleasePC, Memory
  <2> QED BY <1>1, <2>3
<1>7. CASE WriteRelease(t)
  <2>1. PICK i : i = p.trx
    OBVIOUS
  <2>2. i \in OfPayout(x)
    BY <1>1, <1>2, <1>7, <2>1 DEF PaidFirst, PaidCall, WriteRelease, Running, ReleasePC
  <2>3. transactions' = [transactions EXCEPT ![i].status = "SUCCESS"]
    BY <1>1, <1>7, <2>1 DEF WriteRelease
  <2>4. transactions'[i].status = "SUCCESS"
    <3>1. i \in DOMAIN transactions /\ transactions[i] \in Transaction
      BY <2>2 DEF OfPayout, Of, Working, RowsOK
    <3> QED BY <2>3, <3>1 DEF Transaction
  <2>5. i \in OfPayout(x)'
    BY <2>2, PaymentsKept
  <2> QED BY <2>4, <2>5 DEF IsReleased
<1>8. ~PayoutStep(t) /\ ~Started(t)
  BY <1>1, <1>2 DEF ReleasePC, Started, PayoutStep, SavePayouts, SaveLines, ReadLines, SaveBatch,
     Send, SaveSentLines, CloseBatch, SaveMarked, Increment, CheckPaid, SavePaid, SaveStatus,
     SaveSettled, Running
<1>9. WalletStep(t) => FindPending(t) \/ CompareRelease(t) \/ WriteRelease(t)
  BY <1>1, <1>2 DEF ReleasePC, WalletStep, Income, Compensate, Hold, Release, CheckCompensation,
     FindWallet, CompareEntry, Compare, WriteEntry, RegenIncome, RegenCompensation, Running
<1> QED BY <1>1, <1>4, <1>5, <1>6, <1>7, <1>8, <1>9, ThreadActs

\* What was paid is released, whichever call asked for it.
LEMMA ReleasedSoonStep ==
  ASSUME Working, Working', AnnouncedOK, Backed, Fair, EarnedOnce, Mirrored, WalletsThere,
         Schedules, PaidFirst,
         Checked, HeldSoon, ReleasedSoon, Next, ~Crash
  PROVE  ReleasedSoon'
<1> SUFFICES ASSUME NEW x \in DOMAIN payouts', LinesOf(x)' # {}, IsPaid(x)'
             PROVE  IsReleased(x)' \/ Releasing(x)'
  BY DEF ReleasedSoon
<1>1. x \in DOMAIN payouts /\ x \in PayoutId
  <2>1. x \in DOMAIN payouts
    BY PayoutRows
  <2> QED BY <2>1, WalletAssumption DEF Working, RowsOK, PayoutId
<1>2. CASE ~IsPaid(x)
  <2>1. todo'[ReleaseOf(x)] > 0
    BY <1>1, <1>2, PayoutRows DEF PaidAnew, IsPaid
  <2> QED BY <2>1 DEF Releasing, ReleaseOf
<1>3. CASE IsPaid(x)
  <2>1. LinesOf(x) # {}
    BY <1>1, <1>3, LinesAsk DEF IsPaid
  <2>2. OfPayout(x) # {}
    BY <1>1, <1>3, <2>1 DEF HeldSoon, IsPaid
  <2>3. CASE IsReleased(x)
    BY <2>3, PaymentsKept
  <2>4. CASE todo[ReleaseOf(x)] > 0
    <3>1. CASE todo'[ReleaseOf(x)] > 0
      BY <3>1 DEF Releasing, ReleaseOf
    <3>2. ASSUME NEW t \in Thread, Release(t, x) PROVE Releasing(x)'
      <4>1. PICK e : e = PayoutEntry(x)
        OBVIOUS
      <4>2. e.owner = payouts[x].owner /\ e.payout = x
        BY <4>1 DEF PayoutEntry
      <4>3. wallets[e.owner].exists
        BY <1>1, <2>1, <4>2, OwnerHasWallet
      <4>4. PICK w : Become(t, [Idle EXCEPT !.pc = "findPending", !.entry = e, !.wallet = w])
        BY <3>2, <4>1, <4>3 DEF Release
      <4>5. thread'[t] = [Idle EXCEPT !.pc = "findPending", !.entry = e, !.wallet = w]
        BY <4>4 DEF Become, Working, ThreadsOK
      <4>6. thread'[t].pc = "findPending" /\ thread'[t].entry = e
        BY <4>5 DEF Idle
      <4>7. thread'[t].pc \in ReleasePC /\ thread'[t].entry.payout = x
        BY <4>2, <4>6 DEF ReleasePC
      <4> QED BY <4>7 DEF Releasing, ReleasesFor
    <3> QED BY <1>1, <2>4, <3>1, <3>2, ReleaseWaits
  <2>5. ASSUME NEW t \in Thread, ReleasesFor(thread[t], x) PROVE IsReleased(x)' \/ Releasing(x)'
    <3>1. CASE \A i \in OfPayout(x) : transactions[i].status # "PENDING"
      <4>1. PICK i \in OfPayout(x) : transactions[i].status # "PENDING"
        BY <2>2, <3>1
      <4>2. transactions[i].status = "SUCCESS"
        <5>1. transactions[i] \in Transaction
          BY <4>1 DEF OfPayout, Of, Working, RowsOK
        <5> QED BY <4>1, <5>1 DEF Transaction
      <4> QED BY <4>2, PaymentsKept DEF IsReleased
    <3>2. CASE ReleasesFor(thread'[t], x)
      BY <3>2 DEF Releasing, ReleasesFor
    <3> QED BY <1>1, <2>5, <3>1, <3>2, ReleaseTurn
  <2> QED BY <1>1, <1>3, <2>1, <2>3, <2>4, <2>5 DEF ReleasedSoon, Releasing
<1> QED BY <1>2, <1>3

------------------------------------------------------------------------------
(* What the bank paid in full is paid, and released                           *)

\* What holds in any case, and what holds as long as no process was lost.
Entered == /\ Backed /\ PaidFirst /\ Asked /\ Fair /\ WalletsThere
           /\ Mirrored /\ Schedules /\ Unsent /\ Marked
Unlost  == Processed /\ Checked /\ PaidUp /\ HeldSoon /\ ReleasedSoon
\* What no restart lost is in order too.
Settled == Entered /\ (crashes = 0 => Unlost)

\* Schedules, uploads and repairs are made one by one, nobody is compensated, no job is
\* announced twice, the bank reports a payment once, and administrators set payouts to
\* PAID only.
SeparateReports ==
  /\ {"schedule", "upload", "regen"} \cap Overlapping = {}
  /\ NobodyCompensated /\ \A j \in Job : MaxAnnounced[j] <= 1
  /\ ~RepeatReports /\ NewStatus \subseteq {"PAID"}

\* At the start nothing is credited, drafted, sent or marked.
LEMMA SettledInit == Init => Fair /\ WalletsThere /\ Mirrored /\ Schedules /\ Unsent
                             /\ Marked /\ Unlost /\ Asked
<1> SUFFICES ASSUME Init
             PROVE  Fair /\ WalletsThere /\ Mirrored /\ Schedules /\ Unsent /\ Marked
                    /\ Unlost /\ Asked
  OBVIOUS
<1>1. /\ transactions = << >> /\ lines = << >> /\ payouts = << >>
      /\ \A t \in Thread : thread[t] = Idle
  BY DEF Init
<1>2. /\ DOMAIN transactions = {} /\ DOMAIN lines = {} /\ DOMAIN payouts = {}
      /\ Credits = {} /\ \A type : Of(type) = {}
  BY <1>1 DEF Credits, Of
<1>3. \A t \in Thread : thread[t].pc = "idle" /\ thread[t].incomes = {}
  BY <1>1, IdleFields DEF NothingToRepair
<1>4. Fair /\ WalletsThere
  BY <1>2, <1>3 DEF Fair, WithTransaction, InsertsPC, WalletsThere, WalletCall
<1>5. Mirrored /\ Schedules /\ Unsent /\ Marked
  BY <1>2, <1>3 DEF Mirrored, Schedules, SchedulePC, Unsent, UnsentCall, Marked, MarkedCall, Marks
<1>6. Unlost
  BY <1>2, <1>3 DEF Unlost, Processed, Checked, CheckedCall, PaidUp, HeldSoon, ReleasedSoon
<1>7. Asked
  BY KeptInit, KeptIsAsked
<1> QED BY <1>4, <1>5, <1>6, <1>7

\* Steps that change nothing keep it.
LEMMA SettledRests ==
  ASSUME UNCHANGED vars, Settled
  PROVE  Settled'
<1> USE DEF vars, rows
<1>1. Backed' = Backed /\ PaidFirst' = PaidFirst
  <2>1. Backed' = Backed
    BY DEF Backed, PayoutIsBacked, CreditsOf, Credits, Of, Remembered, BackedEntry, Debitable,
       Running
  <2>2. PaidFirst' = PaidFirst
    BY DEF PaidFirst, ReleasedIsPaid, IsReleased, OfPayout, Of, IsPaid, PaidCall, Uploads, Running
  <2> QED BY <2>1, <2>2
<1>2. Asked' = Asked /\ Fair' = Fair /\ WalletsThere' = WalletsThere
  <2>1. Asked' = Asked
    <3>1. RepairsAlone' = RepairsAlone
      BY DEF RepairsAlone, Repairs, NothingToRepair, Running
    <3>2. IncomesCounted' = IncomesCounted
      BY DEF IncomesCounted, IncomeCounted, Incomes, CreditsFor, Of, IncomeTask, Hands, HasInHand
    <3>3. \A t \in Thread : AskedCall(thread[t])' = AskedCall(thread[t])
      BY DEF AskedCall, IsCredited, HasInHand
    <3> QED BY <3>1, <3>2, <3>3 DEF Asked
  <2>2. Fair' = Fair
    BY DEF Fair, FairEntry
  <2>3. WalletsThere' = WalletsThere
    BY DEF WalletsThere, WalletCall, WalletOf, Credits
  <2> QED BY <2>1, <2>2, <2>3
<1>3. Mirrored' = Mirrored /\ Schedules' = Schedules
  BY DEF Mirrored, PaysFor, Credits, CreditsOf, LinesOf, Schedules, SchedulePC, Sole, Drafted,
     Running
<1>4. Unsent' = Unsent /\ Marked' = Marked
  BY DEF Unsent, UnsentCall, Marked, MarkedCall, Marks
<1>5. \A x : Counted(x)' = Counted(x) /\ LinesOf(x)' = LinesOf(x)
  BY DEF Counted, IsCounted, LinesOf
<1>6. Processed' = Processed
  BY <1>5 DEF Processed
<1>7. Checked' = Checked /\ PaidUp' = PaidUp
  BY <1>5 DEF Checked, CheckedCall, PaidUp, Checks, IsPaid
<1>8. HeldSoon' = HeldSoon
  BY <1>5 DEF HeldSoon, OnlyHolds, Holding, HoldTask, HoldsFor, HoldCall, OfPayout, Of, Running
<1>9. ReleasedSoon' = ReleasedSoon
  BY <1>5 DEF ReleasedSoon, Releasing, ReleaseOf, ReleasesFor, IsReleased, IsPaid, OfPayout, Of
<1>10. crashes' = crashes
  OBVIOUS
<1> QED BY <1>1, <1>2, <1>3, <1>4, <1>6, <1>7, <1>8, <1>9, <1>10 DEF Settled, Entered, Unlost

\* Every step keeps it; the checks and the releases, unless a process is lost.
LEMMA SettledStep ==
  ASSUME SeparateReports, Typed, Typed', Settled, Backed', PaidFirst', [Next]_vars
  PROVE  Settled'
<1>1. Working /\ Working' /\ crashes \in Nat /\ AnnouncedOK
  BY DEF Typed, Working, AnnouncedOK
<1>2. CASE UNCHANGED vars
  BY <1>2, SettledRests
<1>3. CASE Next
  <2>1. /\ "schedule" \notin Overlapping /\ "regen" \notin Overlapping
        /\ NobodyCompensated /\ ~RepeatReports
    BY DEF SeparateReports
  <2>2. Entered /\ Uploads /\ EarnedOnce
    <3>1. \A j \in Job : announced[j] <= 1
      BY WalletAssumption, PayoutAssumption DEF Typed, SeparateReports
    <3>2. Entered
      BY DEF Settled
    <3> QED BY <1>1, <3>1, <3>2, PaidForOnce DEF Entered, Asked, PaidFirst
  <2>3. Asked' /\ Fair' /\ WalletsThere'
    BY <1>1, <1>3, <2>1, <2>2, AskedStep, FairStep, WalletsThereStep DEF Entered
  <2>4. Mirrored' /\ Schedules'
    BY <1>1, <1>3, <2>1, <2>2, MirroredStep, SchedulesStep DEF Entered
  <2>5. Unsent' /\ Marked'
    BY <1>1, <1>3, <2>1, <2>2, UnsentStep, MarkedStep DEF Entered
  <2>6. ASSUME crashes' = 0 PROVE Unlost'
    <3>1. ~Crash
      BY <1>1, <2>6 DEF Crash
    <3>2. crashes = 0
      BY <1>1, <1>3, <2>6, <3>1 DEF Next, Program, Command, Request, Fulfil, TestFulfilled,
         Announce, Fail, StartRegen,
         Schedule, Upload, Settle, Mark, Update, Patch, PayoutStep, SavePayouts, SaveLines,
         ReadLines,
         SaveBatch, Send, SaveSentLines, CloseBatch, SaveMarked, Increment, CheckPaid, SavePaid,
         SaveStatus, SaveSettled
    <3>3. Unlost
      BY <3>2 DEF Settled
    <3>4. Processed'
      BY <1>1, <1>3, <2>2, <3>1, <3>3, ProcessedStep DEF Entered, Unlost
    <3>5. Checked'
      BY <1>1, <1>3, <2>2, <3>1, <3>3, CheckedStep DEF Entered, Unlost
    <3>6. PaidUp'
      BY <1>1, <1>3, <2>2, <3>1, <3>3, PaidUpStep DEF Entered, Unlost
    <3>7. HeldSoon'
      BY <1>1, <1>3, <2>2, <3>1, <3>3, HeldSoonStep DEF Entered, Unlost
    <3>8. ReleasedSoon'
      BY <1>1, <1>3, <2>2, <3>1, <3>3, ReleasedSoonStep DEF Entered, Unlost
    <3> QED BY <3>4, <3>5, <3>6, <3>7, <3>8 DEF Unlost
  <2> QED BY <2>3, <2>4, <2>5, <2>6 DEF Settled, Entered
<1> QED BY <1>2, <1>3

\* When the calls are over, the lines that are paid count, and nothing is left to do.
LEMMA SettledMeans == Typed /\ Settled => SettledIsPaid
<1> SUFFICES ASSUME Typed, Settled, Quiet, crashes = 0,
                    NEW x \in DOMAIN payouts, LinesOf(x) # {},
                    \A l \in LinesOf(x) : lines[l].status = "PAID"
             PROVE  payouts[x].status = "PAID" /\ IsReleased(x)
  BY DEF SettledIsPaid
<1>1. Unlost
  BY DEF Settled
<1>2. \A t \in Thread : thread[t].pc = "idle"
  BY DEF Quiet, Running
<1>3. \A t \in Thread : ~Checks(thread[t], x) /\ ~ReleasesFor(thread[t], x)
  BY <1>2 DEF Checks, ReleasesFor, ReleasePC
<1>4. LinesOf(x) \subseteq Counted(x)
  BY <1>2 DEF Counted, IsCounted
<1>5. IsPaid(x)
  BY <1>1, <1>3, <1>4 DEF Unlost, PaidUp
<1>6. ~(todo[ReleaseOf(x)] > 0)
  <2>1. x \in PayoutId
    BY WalletAssumption DEF Typed, RowsOK, PayoutId
  <2>2. ReleaseOf(x) \in Task
    BY <2>1 DEF ReleaseOf, Task
  <2> QED BY <2>2 DEF Quiet
<1>7. IsReleased(x)
  BY <1>1, <1>3, <1>5, <1>6 DEF Unlost, ReleasedSoon, Releasing
<1> QED BY <1>5, <1>7 DEF IsPaid

\* A payout all lines of which the bank paid is PAID and its balance released, once the calls
\* are over and no process was lost, however the reports of its lines overlap:
\* markPayoutLinesAsPaid adds each amount in one UPDATE, and the call that adds the last one
\* finds the payout complete.  Schedules, uploads and repairs are made one by one.  A job has
\* one credit, as it is announced as fulfilled once and no reschedule is compensated (the
\* lines of two credits of a job are reported as one payment); the bank reports a payment
\* once, and administrators set payouts to PAID only.
THEOREM SettledWasPaid == SeparateReports => (Spec => []SettledIsPaid)
<1> SUFFICES ASSUME SeparateReports PROVE Spec => []SettledIsPaid
  OBVIOUS
<1>1. "schedule" \notin Overlapping /\ "upload" \notin Overlapping /\ NewStatus \subseteq {"PAID"}
  BY DEF SeparateReports
<1>2. Spec => []Backed
  BY <1>1, Backing
<1>3. Spec => []PaidFirst
  BY <1>1, PaidInvariant
<1>4. Init /\ Backed /\ PaidFirst => Settled
  BY SettledInit DEF Settled, Entered
<1>5. Typed /\ Typed' /\ Settled /\ Backed' /\ PaidFirst' /\ [Next]_vars => Settled'
  BY SettledStep
<1> QED BY <1>2, <1>3, <1>4, <1>5, Typing, SettledMeans, PTL DEF Spec
==============================================================================
