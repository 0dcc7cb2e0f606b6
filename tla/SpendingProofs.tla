---------------------------- MODULE SpendingProofs ----------------------------
(***************************************************************************)
(* Theorems about Spending for any workers, keys, accounts, amounts,       *)
(* expenses, instalments and payments.                                     *)
(*                                                                         *)
(* Whoever changes anything of an expense, its row, its instalments and    *)
(* the payments of these, holds the lock of the expense, or finds it free  *)
(* in the step that inserts it.  So what a transaction has compared under  *)
(* that lock still holds when it writes; and what it has read before the   *)
(* lock, the sum paid, is right if the version is still the one that its   *)
(* client was shown, because versions only grow.                           *)
(***************************************************************************)
EXTENDS Spending, SumTheorems, FunctionTheorems

-----------------------------------------------------------------------------
(* The inductive invariant: the tables.                                    *)

AnyKey == Keys \cup Server
Methods == {"none", "direct", "card", "other"}
ExpStates == {"none", "active", "voided"}
InstStates == {"none", "planned", "paid", "gone"}
Shapes == [method : Methods, acc : Accs \cup {None}, amount : Nat, count : Nat, text : Nat]
ExpRows == [shape : Shapes, status : ExpStates, tx : AnyKey \cup {None}, version : Nat]
InstRows == [exp : Keys \cup {None}, number : Nat, amount : Nat, status : InstStates,
             tx : {None, OldKey}, version : Nat]
PayRows == [inst : Insts \cup {0}, amount : Nat, of : AnyKey \cup {None}, moved : BOOLEAN]
MoveRows == [acc : Accs \cup {None}, amount : Nat, of : AnyKey \cup {None}, text : Nat \X Nat]

TablesTyped ==
  /\ exp \in [Keys -> ExpRows] /\ inst \in [Insts -> InstRows]
  /\ pay \in [AnyKey -> PayRows] /\ move \in [AnyKey -> MoveRows]
  /\ inactive \subseteq Accs \cup {Card} /\ scene \in DOMAIN Scenes

FinitePays == IsFiniteSet({k \in AnyKey : pay[k] # NoPay})

\* Payments: a reversal undoes one that no other undoes.
PaysSound ==
  /\ \A k \in AnyKey : pay[k] # NoPay =>
       /\ pay[k].inst \in Insts /\ pay[k].amount > 0
       /\ pay[k].of # None => /\ k \in Server /\ pay[pay[k].of] # NoPay
                              /\ pay[pay[k].of].of = None
                              /\ pay[k] = Reversal(pay[pay[k].of], pay[k].of)
  /\ \A j, k \in AnyKey : pay[j].of = pay[k].of /\ pay[j].of # None => j = k

\* Movements: a reversal undoes one that no other undoes.
MovesSound ==
  /\ \A k \in AnyKey : move[k] # NoMove =>
       /\ move[k].amount > 0
       /\ move[k].of # None => /\ k \in Server /\ move[move[k].of] # NoMove
                               /\ move[move[k].of].of = None
                               /\ move[k] = Reversal(move[move[k].of], move[k].of)
  /\ \A j, k \in AnyKey : move[j].of = move[k].of /\ move[j].of # None => j = k

\* A payment that moved money has its movement; the movements under a client's key
\* are of the expense or of the payment that has the key.
Linked ==
  /\ \A k \in AnyKey : pay[k].moved =>
       /\ move[k] # NoMove /\ move[k].amount = pay[k].amount
       /\ move[k].text[2] > 0 /\ move[k].of = pay[k].of
  /\ \A k \in Keys : move[k] # NoMove =>
       IF move[k].text[2] = 0 THEN exp[k] # NoExp ELSE pay[k].moved

\* An instalment that is on the plan is of an expense; one that has payments is on
\* the plan.
InstsSound ==
  /\ \A i \in Insts : ~Planned(i) => inst[i] \in {NoInst, Gone}
  /\ \A i \in Insts : Planned(i) =>
       /\ inst[i].exp \in Keys /\ exp[inst[i].exp] # NoExp
       /\ inst[i].amount > 0 /\ inst[i].number > 0
       /\ inst[i].tx # None => inst[i].status = "paid" /\ move[OldKey].text[2] > 0
  /\ \A i, j \in Insts : inst[i].tx = inst[j].tx /\ inst[i].tx # None => i = j
  /\ \A k \in AnyKey : pay[k] # NoPay => Planned(pay[k].inst)

\* The record of a payment of an earlier release is of the instalment that has its
\* movement.
OldPaid == \A i \in Insts : inst[i].tx # None /\ pay[OldKey] # NoPay => pay[OldKey].inst = i

ExpsSound ==
  /\ \A k \in Keys :
       /\ exp[k].status = "none" => exp[k] = NoExp
       /\ exp[k].status # "none" => exp[k].version > 0
       /\ MovementShape(exp[k])
       /\ exp[k].tx # None => /\ exp[k].tx \in {k} \cup (Server \ {OldKey})
                              /\ move[exp[k].tx] # NoMove
                              /\ move[exp[k].tx].text[2] = 0
  /\ \A j, k \in Keys : exp[j].tx = exp[k].tx /\ exp[j].tx # None => j = k

\* The movements that stand are those that an expense, a payment or an instalment of
\* an earlier release owns, and one that the spending tables do not know of.
ExpenseOwns(k) == \E j \in Keys : exp[j].status = "active" /\ exp[j].tx = k
PaymentOwns(k) == pay[k].moved /\ pay[k].of = None /\ ~PayReversed(k)
InstOwns(k) == \E i \in Insts : inst[i].tx = k /\ History(i) = {}
Owned(k) == ExpenseOwns(k) \/ PaymentOwns(k) \/ InstOwns(k)
Apart(k) == k = OldKey /\ move[k].text = <<0, 0>>
Books ==
  /\ \A k \in AnyKey : Reversible(k) => Owned(k) \/ Apart(k)
  /\ \A k \in AnyKey : Owned(k) => Reversible(k)
  /\ \A k \in Keys : exp[k].status = "active" /\ exp[k].tx # None =>
       move[exp[k].tx] = Spent(exp[k].shape)
  /\ \A i \in Insts : inst[i].tx # None /\ History(i) # {} => ActivePayments(i) # {}

TablesInv ==
  /\ TablesTyped /\ FinitePays /\ PaysSound /\ MovesSound /\ Linked
  /\ InstsSound /\ OldPaid /\ ExpsSound /\ Books /\ NeverOverpaid

-----------------------------------------------------------------------------
(* The inductive invariant: the transactions.                              *)

Held(w, k) == <<"expense", k>> \in held[w]
LocksApart == \A v, w \in Workers : v # w => held[v] \cap held[w] = {}

\* What a client may ask for.
AskedShapes == {s \in Shapes : /\ s.method # "none" /\ s.amount > 0 /\ s.count > 0
                               /\ (s.method = "direct") = (s.acc # None)}
Asks(q) ==
  /\ q.kind \in {"none", "create", "update", "void", "pay", "reopen", "bulk"}
  /\ q.kind = "create" => q.key \in Keys /\ q.shape \in AskedShapes
  /\ q.kind = "update" => q.exp \in Keys /\ q.shape \in AskedShapes /\ q.void \in BOOLEAN
  /\ q.kind = "void" => q.exp \in Keys /\ q.void = TRUE
  /\ q.kind = "pay" => /\ q.inst \in Insts /\ q.version \in Nat /\ q.key \in Keys
                       /\ q.amount \in Nat \ {0} /\ q.acc \in Accs
  /\ q.kind = "reopen" => q.inst \in Insts /\ q.version \in Nat
  /\ q.kind = "bulk" => /\ DOMAIN q.keys \subseteq Insts /\ q.keys \in [DOMAIN q.keys -> Keys]
                        /\ \A i, j \in DOMAIN q.keys : q.keys[i] = q.keys[j] => i = j
                        /\ q.amount \in Nat \ {0} /\ q.acc \in Accs

Formed(q) ==
  /\ q.kind = "pay" =>
       q = [kind |-> "pay", inst |-> q.inst, version |-> q.version, key |-> q.key,
            amount |-> q.amount, acc |-> q.acc]
  /\ q.kind = "bulk" =>
       q = [kind |-> "bulk", month |-> q.month, keys |-> q.keys, versions |-> q.versions,
            amount |-> q.amount, acc |-> q.acc]

\* The steps at which a request can be.
At(kind) ==
  CASE kind = "create" -> {"look", "source", "write"}
    [] kind = "update" -> {"expense", "plan", "source", "write"}
    [] kind = "void" -> {"expense", "plan", "write"}
    [] kind = "pay" -> {"installment", "source", "write"}
    [] kind = "reopen" -> {"installment", "write"}
    [] kind = "bulk" -> {"card", "due", "source", "write"}
    [] OTHER -> {}

\* The version a client was shown is not later than the present one.
VersionKnown(q) ==
  inst[q.inst].status = "gone" \/ (Planned(q.inst) /\ q.version <= inst[q.inst].version)
Paying(w, i) == Planned(i) /\ exp[inst[i].exp].status = "active" /\ Held(w, inst[i].exp)

\* What a transaction knows at its later steps.
KnowsVersion(w, q) ==
  /\ VersionKnown(q)
  /\ pc[w] = "installment" /\ q.kind = "pay" /\ Planned(q.inst) /\ VersionFits(q) =>
       seen[w] = Paid(q.inst)
KnowsExpense(w, q) ==
  /\ exp[q.exp] # NoExp
  /\ pc[w] \in {"plan", "source", "write"} => Held(w, q.exp) /\ exp[q.exp].status = "active"
  /\ pc[w] \in {"source", "write"} => ~PlanLocked(q)
KnowsPay(w, q) ==
  /\ Paying(w, q.inst) /\ pay[q.key] = NoPay
  /\ seen[w] = Paid(q.inst) /\ seen[w] + q.amount <= inst[q.inst].amount
KnowsBulk(w, q) ==
  /\ \A i \in DOMAIN q.keys : Paying(w, i) /\ pay[q.keys[i]] = NoPay
  /\ q.amount <= SumOf(Remaining, DOMAIN q.keys)
Knows(w, q) ==
  /\ q.kind \in {"pay", "reopen"} => KnowsVersion(w, q)
  /\ q.kind \in {"update", "void"} => KnowsExpense(w, q)
  /\ q.kind = "pay" /\ pc[w] \in {"source", "write"} => KnowsPay(w, q)
  /\ q.kind = "reopen" /\ pc[w] = "write" => Paying(w, q.inst)
  /\ q.kind = "bulk" /\ pc[w] \in {"source", "write"} => KnowsBulk(w, q)

Serves(w) ==
  /\ Asks(req[w]) /\ Formed(req[w])
  /\ pc[w] \in At(req[w].kind) \cup Ended
  /\ pc[w] \in Ended => held[w] = {} /\ seen[w] = 0
  /\ req[w].kind = "none" => pc[w] = "idle"
  /\ \A k \in KeysOf(req[w]) : draft[k] = Drafted(req[w], k)

\* A form that made an expense asks for the same expense again.
DraftsSound ==
  \A k \in Keys : exp[k] # NoExp => /\ draft[k].kind = "create"
                                    /\ draft[k].shape.acc # None => move[k] # NoMove

RequestsTyped ==
  /\ pc \in [Workers -> Steps \cup Ended] /\ seen \in [Workers -> Nat]
  /\ held = [w \in Workers |-> held[w]] /\ req = [w \in Workers |-> req[w]]

RequestsInv ==
  /\ RequestsTyped /\ LocksApart /\ DraftsSound
  /\ \A w \in Workers : Serves(w) /\ Knows(w, req[w])

IInv == TablesInv /\ PlanAddsUp /\ RequestsInv

-----------------------------------------------------------------------------
(* Rows and their fields.                                                  *)

LEMMA NoneApart == None \notin AnyKey /\ None \notin Accs /\ None # OldKey
  BY NoneAssumption, BoundsAssumption DEF AnyKey, Server, OldKey

LEMMA ShapeFields ==
  \A s \in Shapes : /\ s.method \in Methods /\ s.acc \in Accs \cup {None}
                    /\ s.amount \in Nat /\ s.count \in Nat /\ s.text \in Nat
                    /\ DOMAIN s = {"method", "acc", "amount", "count", "text"}
  BY DEF Shapes

LEMMA ExpFields ==
  ASSUME TablesTyped, NEW k \in Keys
  PROVE  /\ exp[k] \in ExpRows
         /\ exp[k].shape \in Shapes /\ exp[k].status \in ExpStates
         /\ exp[k].tx \in AnyKey \cup {None} /\ exp[k].version \in Nat
  BY DEF TablesTyped, ExpRows

LEMMA InstFields ==
  ASSUME TablesTyped, NEW i \in Insts
  PROVE  /\ inst[i] \in InstRows
         /\ inst[i].exp \in Keys \cup {None} /\ inst[i].number \in Nat
         /\ inst[i].amount \in Nat /\ inst[i].status \in InstStates
         /\ inst[i].tx \in {None, OldKey} /\ inst[i].version \in Nat
  BY DEF TablesTyped, InstRows

LEMMA PayFields ==
  ASSUME TablesTyped, NEW k \in AnyKey
  PROVE  /\ pay[k] \in PayRows
         /\ pay[k].inst \in Insts \cup {0} /\ pay[k].amount \in Nat
         /\ pay[k].of \in AnyKey \cup {None} /\ pay[k].moved \in BOOLEAN
  BY DEF TablesTyped, PayRows

LEMMA MoveFields ==
  ASSUME TablesTyped, NEW k \in AnyKey
  PROVE  /\ move[k] \in MoveRows
         /\ move[k].acc \in Accs \cup {None} /\ move[k].amount \in Nat
         /\ move[k].of \in AnyKey \cup {None} /\ move[k].text \in Nat \X Nat
         /\ move[k].text[1] \in Nat /\ move[k].text[2] \in Nat
  BY DEF TablesTyped, MoveRows

LEMMA Domains ==
  TablesTyped => /\ DOMAIN exp = Keys /\ DOMAIN inst = Insts
                 /\ DOMAIN pay = AnyKey /\ DOMAIN move = AnyKey
  BY DEF TablesTyped

LEMMA DomainsNext ==
  TablesTyped' => /\ DOMAIN exp' = Keys /\ DOMAIN inst' = Insts
                  /\ DOMAIN pay' = AnyKey /\ DOMAIN move' = AnyKey
  BY DEF TablesTyped

LEMMA NoRows ==
  /\ NoShape \in Shapes /\ NoExp \in ExpRows /\ NoInst \in InstRows /\ Gone \in InstRows
  /\ NoPay \in PayRows /\ NoMove \in MoveRows
  /\ NoExp.status = "none" /\ NoExp.tx = None /\ NoExp.version = 0
  /\ NoExp.shape.acc = None
  /\ NoInst.status = "none" /\ Gone.status = "gone" /\ NoInst.tx = None /\ Gone.tx = None
  /\ NoInst.exp = None /\ Gone.exp = None
  /\ NoPay.inst = 0 /\ NoPay.of = None /\ NoPay.moved = FALSE
  /\ NoMove.of = None /\ NoMove.amount = 0 /\ NoMove.text = <<0, 0>>
  BY DEF NoShape, NoExp, NoInst, Gone, NoPay, NoMove, Shapes, ExpRows, InstRows, PayRows,
         MoveRows, Methods, ExpStates, InstStates, OldKey

LEMMA PayReversal ==
  ASSUME NEW r \in PayRows, NEW k \in AnyKey
  PROVE  /\ Reversal(r, k) \in PayRows /\ Reversal(r, k).inst = r.inst
         /\ Reversal(r, k).amount = r.amount /\ Reversal(r, k).of = k
         /\ Reversal(r, k).moved = r.moved
  BY DEF Reversal, PayRows

LEMMA MoveReversal ==
  ASSUME NEW r \in MoveRows, NEW k \in AnyKey
  PROVE  /\ Reversal(r, k) \in MoveRows /\ Reversal(r, k).acc = r.acc
         /\ Reversal(r, k).amount = r.amount /\ Reversal(r, k).of = k
         /\ Reversal(r, k).text = r.text
  BY DEF Reversal, MoveRows

LEMMA PaymentFields ==
  ASSUME NEW i \in Insts, NEW n \in Nat
  PROVE  /\ Payment(i, n) \in PayRows /\ Payment(i, n).inst = i /\ Payment(i, n).amount = n
         /\ Payment(i, n).of = None /\ Payment(i, n).moved = TRUE
  BY DEF Payment, PayRows

LEMMA SpentFields ==
  ASSUME NEW s \in Shapes
  PROVE  /\ Spent(s) \in MoveRows /\ Spent(s).acc = s.acc /\ Spent(s).amount = s.amount
         /\ Spent(s).of = None /\ Spent(s).text = <<s.text, 0>>
         /\ Spent(s).text[2] = 0
  BY ShapeFields DEF Spent, MoveRows

LEMMA WantedFields ==
  ASSUME TablesTyped, NEW i \in Insts, inst[i].exp \in Keys, NEW n \in Nat, NEW a \in Accs
  PROVE  /\ Wanted(i, n, a) \in MoveRows /\ Wanted(i, n, a).acc = a
         /\ Wanted(i, n, a).amount = n /\ Wanted(i, n, a).of = None
         /\ Wanted(i, n, a).text[2] = inst[i].number
<1>1. exp[inst[i].exp].shape.text \in Nat /\ inst[i].number \in Nat
  BY ExpFields, InstFields, ShapeFields
<1> QED
  BY <1>1 DEF Wanted, MoveRows

LEMMA SettledFields ==
  ASSUME NEW r \in InstRows, NEW n \in Int
  PROVE  /\ Settled(r, n) \in InstRows /\ Settled(r, n).exp = r.exp
         /\ Settled(r, n).number = r.number /\ Settled(r, n).amount = r.amount
         /\ Settled(r, n).tx = r.tx /\ Settled(r, n).version = r.version + 1
         /\ Settled(r, n).status = IF n = r.amount THEN "paid" ELSE "planned"
<1> DEFINE t == Settled(r, n)
<1>1. /\ t.exp = r.exp /\ t.number = r.number /\ t.amount = r.amount
      /\ t.version = r.version + 1
      /\ t.tx = r.tx
      /\ t.status = IF n = r.amount THEN "paid" ELSE "planned"
  BY DEF Settled, InstRows
<1>2. t.version \in Nat /\ t.status \in InstStates
  BY <1>1 DEF InstRows, InstStates
<1>3. t \in InstRows
  BY <1>2 DEF Settled, InstRows, InstStates
<1> QED
  BY <1>1, <1>3

LEMMA ReopenedFields ==
  ASSUME NEW r \in InstRows
  PROVE  /\ Reopened(r) \in InstRows /\ Reopened(r).exp = r.exp
         /\ Reopened(r).number = r.number /\ Reopened(r).amount = r.amount
         /\ Reopened(r).tx = None /\ Reopened(r).version = r.version + 1
         /\ Reopened(r).status = "planned"
<1> DEFINE t == Reopened(r)
<1>1. /\ t.exp = r.exp /\ t.number = r.number /\ t.amount = r.amount
      /\ t.version = r.version + 1
      /\ t.tx = None
      /\ t.status = "planned"
  BY DEF Reopened, InstRows
<1>2. t.version \in Nat /\ t.status \in InstStates
  BY <1>1 DEF InstRows, InstStates
<1>3. t \in InstRows
  BY <1>2 DEF Reopened, InstRows, InstStates
<1> QED
  BY <1>1, <1>3

-----------------------------------------------------------------------------
(* New keys, new instalments and their parts.                              *)

LEMMA NextKeyFree ==
  /\ NextKey \in 1..(MaxServer + 1)
  /\ \A m \in NextKey..MaxServer : move[m] = NoMove /\ pay[m] = NoPay
<1> DEFINE S == {n \in 1..(MaxServer + 1) :
                   \A m \in n..MaxServer : move[m] = NoMove /\ pay[m] = NoPay}
<1>1. S \in SUBSET Nat /\ MaxServer + 1 \in S
  BY BoundsAssumption
<1> HIDE DEF S
<1>2. PICK n \in S : \A m \in S : n <= m
  BY <1>1, LeastNat
<1> USE DEF S
<1>3. n > 1 => n - 1 \notin S /\ n - 1 \in 1..(MaxServer + 1)
  BY <1>2, BoundsAssumption
<1>4. n > 1 => move[n - 1] # NoMove \/ pay[n - 1] # NoPay
  <2> SUFFICES ASSUME n > 1, move[n - 1] = NoMove, pay[n - 1] = NoPay PROVE FALSE
    OBVIOUS
  <2>1. \A m \in (n - 1)..MaxServer : m = n - 1 \/ m \in n..MaxServer
    BY <1>2, BoundsAssumption
  <2> QED
    BY <1>2, <1>3, <2>1
<1>5. \E x \in 1..(MaxServer + 1) :
        /\ \A m \in x..MaxServer : move[m] = NoMove /\ pay[m] = NoPay
        /\ x > 1 => move[x - 1] # NoMove \/ pay[x - 1] # NoPay
  BY <1>2, <1>4
<1> QED
  BY <1>5 DEF NextKey

LEMMA LastKeyType == scene \in DOMAIN Scenes => LastKey \in Server /\ LastKey <= MaxServer
  BY ScenesAssumption, BoundsAssumption DEF LastKey, Server

\* The keys from the next one to the last are new ones.
LEMMA FreshKeys ==
  ASSUME scene \in DOMAIN Scenes, NEW k \in NextKey..LastKey
  PROVE  /\ k \in Server \ {OldKey} /\ k \in AnyKey /\ k \notin Keys
         /\ move[k] = NoMove /\ pay[k] = NoPay
<1>1. k \in NextKey..MaxServer /\ k > 0 /\ k \in 0..MaxServer
  BY NextKeyFree, LastKeyType, BoundsAssumption DEF Server
<1> QED
  BY <1>1, NextKeyFree, KeysAssumption DEF Server, AnyKey, OldKey

LEMMA NextInstFree ==
  /\ NextInst \in 1..(MaxInst + 1)
  /\ \A j \in Insts : j >= NextInst => inst[j].status = "none"
<1> DEFINE S == {i \in 1..(MaxInst + 1) : \A j \in Insts : j >= i => inst[j].status = "none"}
<1>1. S \in SUBSET Nat /\ MaxInst + 1 \in S
  BY BoundsAssumption DEF Insts
<1> HIDE DEF S
<1>2. PICK n \in S : \A m \in S : n <= m
  BY <1>1, LeastNat
<1> USE DEF S
<1>3. n > 1 => n - 1 \notin S /\ n - 1 \in 1..(MaxInst + 1)
  BY <1>2, BoundsAssumption
<1>4. n > 1 => inst[n - 1].status # "none"
  <2> SUFFICES ASSUME n > 1, inst[n - 1].status = "none" PROVE FALSE
    OBVIOUS
  <2>1. \A j \in Insts : j >= n - 1 => j = n - 1 \/ j >= n
    BY <1>2, BoundsAssumption DEF Insts
  <2> QED
    BY <1>2, <1>3, <2>1
<1>5. \E i \in 1..(MaxInst + 1) : /\ \A j \in Insts : j >= i => inst[j].status = "none"
                                  /\ i > 1 => inst[i - 1].status # "none"
  BY <1>2, <1>4
<1> QED
  BY <1>5 DEF NextInst

LEMMA DivFacts ==
  ASSUME NEW a \in Nat, NEW n \in Nat \ {0}
  PROVE  a \div n \in Nat /\ (a \div n) * n <= a
  OBVIOUS

LEMMA PartPositive ==
  ASSUME NEW s \in AskedShapes, s.method = "card", Divisible(s), NEW n \in 1..s.count
  PROVE  Part(s, n) \in Nat /\ Part(s, n) > 0
<1> DEFINE b == s.amount \div s.count
<1>1. s.amount \in Nat /\ s.count \in Nat \ {0}
  BY ShapeFields DEF AskedShapes
<1>2. b \in Nat /\ b > 0 /\ b * s.count <= s.amount
  BY <1>1, DivFacts DEF Divisible
<1> HIDE DEF b
<1>3. b * (s.count - 1) \in Nat /\ b * (s.count - 1) = b * s.count - b
  BY <1>1, <1>2
<1>4. Part(s, n) = IF n = s.count THEN s.amount - b * (s.count - 1) ELSE b
  BY DEF Part, b
<1> QED
  BY <1>1, <1>2, <1>3, <1>4

LEMMA PartsSum ==
  ASSUME NEW s \in AskedShapes, NEW f, NEW m \in Nat,
         \A i \in m..(m + s.count - 1) : f[i] = Part(s, i - m + 1)
  PROVE  SumOver(f, m..(m + s.count - 1)) = s.amount
<1> DEFINE b == s.amount \div s.count
           Below(n) == m..(m + n - 1)
           Bad == {n \in Nat : n < s.count /\ SumOver(f, Below(n)) # b * n}
<1>1. s.amount \in Nat /\ s.count \in Nat \ {0} /\ b \in Nat
  BY ShapeFields, DivFacts DEF AskedShapes
<1>2. \A i \in m..(m + s.count - 1) :
        f[i] = IF i = m + s.count - 1 THEN s.amount - b * (s.count - 1) ELSE b
  BY <1>1 DEF Part
<1> HIDE DEF b
<1>3. Bad = {}
  <2> SUFFICES ASSUME Bad # {} PROVE FALSE
    OBVIOUS
  <2>0. Bad \in SUBSET Nat
    OBVIOUS
  <2> HIDE DEF Bad
  <2>1. PICK n \in Bad : \A k \in Bad : n <= k
    BY <2>0, LeastNat
  <2> USE DEF Bad
  <2>2. n # 0
    <3> SUFFICES ASSUME n = 0 PROVE FALSE
      OBVIOUS
    <3>1. Below(n) = {}
      OBVIOUS
    <3> HIDE DEF Below
    <3>2. SumOver(f, Below(n)) = 0
      BY <3>1, SumEmpty
    <3>3. b * 0 = 0
      BY <1>1
    <3> QED
      BY <2>1, <3>2, <3>3
  <2>3. n \in Nat /\ n - 1 \in Nat /\ n < s.count /\ n - 1 \notin Bad
    BY <2>1, <2>2
  <2>4. SumOver(f, Below(n - 1)) = b * (n - 1)
    BY <1>1, <2>3
  <2>5. /\ Below(n) = Below(n - 1) \cup {m + n - 1} /\ m + n - 1 \notin Below(n - 1)
        /\ \A i \in Below(n) : f[i] = b
    <3>1. Below(n) = Below(n - 1) \cup {m + n - 1} /\ m + n - 1 \notin Below(n - 1)
      BY <1>1, <2>3
    <3>2. \A i \in Below(n) : i \in m..(m + s.count - 1) /\ i # m + s.count - 1
      <4> SUFFICES ASSUME NEW i \in m..(m + n - 1)
                   PROVE  i \in m..(m + s.count - 1) /\ i # m + s.count - 1
        OBVIOUS
      <4>1. \A c \in Nat \ {0} : n < c => i \in m..(m + c - 1) /\ i # m + c - 1
        BY <2>3
      <4> QED
        BY <1>1, <2>3, <4>1
    <3> HIDE DEF Below
    <3> QED
      BY <3>1, <3>2, <1>2
  <2>9. IsFiniteSet(Below(n - 1))
    <3>1. m \in Int /\ m + (n - 1) - 1 \in Int
      BY <2>3
    <3> QED
      BY <3>1, FS_Interval
  <2> HIDE DEF Below
  <2>6. SumOver(f, Below(n)) = f[m + n - 1] + SumOver(f, Below(n - 1))
    BY <1>1, <2>5, <2>9, SumAdd
  <2>7. f[m + n - 1] = b
    BY <2>5
  <2>8. SumOver(f, Below(n)) = b * n
    BY <1>1, <2>3, <2>4, <2>6, <2>7
  <2> QED
    BY <2>1, <2>8
<1>4. SumOver(f, Below(s.count - 1)) = b * (s.count - 1)
  <2>1. s.count - 1 \in Nat /\ s.count - 1 < s.count
    BY <1>1
  <2> HIDE DEF Below
  <2> QED
    BY <1>3, <2>1
<1> DEFINE last == m + s.count - 1
<1>5. /\ m..(m + s.count - 1) = Below(s.count - 1) \cup {last}
      /\ last \notin Below(s.count - 1)
      /\ \A i \in Below(s.count - 1) : f[i] = b
      /\ f[last] = s.amount - b * (s.count - 1)
  BY <1>1, <1>2
<1>9. IsFiniteSet(Below(s.count - 1))
  <2>1. m \in Int /\ m + (s.count - 1) - 1 \in Int
    BY <1>1
  <2> QED
    BY <2>1, FS_Interval
<1> HIDE DEF Below, last
<1>6. b * (s.count - 1) \in Int
  BY <1>1
<1>7. \A x \in Below(s.count - 1) \cup {last} : f[x] \in Int
  BY <1>1, <1>5, <1>6
<1>8. SumOver(f, Below(s.count - 1) \cup {last}) = f[last] + SumOver(f, Below(s.count - 1))
  BY <1>5, <1>7, <1>9, SumAdd
<1>10. \A x \in Int : (s.amount - x) + x = s.amount
  BY <1>1
<1> QED
  BY <1>4, <1>5, <1>6, <1>8, <1>10

-----------------------------------------------------------------------------
(* The sums of the model, as sums of functions.                            *)

SignedOf == [k \in AnyKey |-> Signed(k)]
RemainingOf == [i \in Insts |-> Remaining(i)]
PlannedOf == [i \in Insts |-> inst[i].amount]
PaidBy(q) == [i \in DOMAIN q.keys |-> pay[q.keys[i]].amount]

LEMMA SignedSum ==
  ASSUME NEW S, S \subseteq AnyKey, IsFiniteSet(S)
  PROVE  SumOf(Signed, S) = SumOver(SignedOf, S)
<1> DEFINE h == CHOOSE g : g = [s \in SUBSET S |->
                  IF s = {} THEN 0
                  ELSE Signed(CHOOSE x \in s : TRUE) + g[s \ {CHOOSE x \in s : TRUE}]]
<1>1. SumOf(Signed, S) = h[S]
  BY DEF SumOf, MapThenFoldSet
<1>2. PICK g : Recurs(g, SignedOf, S)
  BY RecursExists
<1>3. \A s \in SUBSET S : s # {} =>
        (CHOOSE x \in s : TRUE) \in AnyKey /\ Pick(s) = (CHOOSE x \in s : TRUE)
        /\ SignedOf[Pick(s)] = Signed(CHOOSE x \in s : TRUE)
  BY DEF SignedOf, Pick
<1>4. g = [s \in SUBSET S |->
             IF s = {} THEN 0
             ELSE Signed(CHOOSE x \in s : TRUE) + g[s \ {CHOOSE x \in s : TRUE}]]
  BY <1>2, <1>3 DEF Recurs, Pick
<1>5. h = [s \in SUBSET S |->
             IF s = {} THEN 0
             ELSE Signed(CHOOSE x \in s : TRUE) + h[s \ {CHOOSE x \in s : TRUE}]]
  BY <1>4
<1> HIDE DEF h
<1>6. Recurs(h, SignedOf, S)
  BY <1>3, <1>5 DEF Recurs, Pick
<1>7. PICK u : Recurs(u, SignedOf, S) /\ SumOf(Signed, S) = u[S]
  BY <1>1, <1>6
<1>8. u[S] = SumOver(SignedOf, S)
  BY <1>7, SumRecurs
<1> QED
  BY <1>7, <1>8

LEMMA RemainingSum ==
  ASSUME NEW S, S \subseteq Insts, IsFiniteSet(S)
  PROVE  SumOf(Remaining, S) = SumOver(RemainingOf, S)
<1> DEFINE h == CHOOSE g : g = [s \in SUBSET S |->
                  IF s = {} THEN 0
                  ELSE Remaining(CHOOSE x \in s : TRUE) + g[s \ {CHOOSE x \in s : TRUE}]]
<1>1. SumOf(Remaining, S) = h[S]
  BY DEF SumOf, MapThenFoldSet
<1>2. PICK g : Recurs(g, RemainingOf, S)
  BY RecursExists
<1>3. \A s \in SUBSET S : s # {} =>
        (CHOOSE x \in s : TRUE) \in Insts /\ Pick(s) = (CHOOSE x \in s : TRUE)
        /\ RemainingOf[Pick(s)] = Remaining(CHOOSE x \in s : TRUE)
  BY DEF RemainingOf, Pick
<1>4. g = [s \in SUBSET S |->
             IF s = {} THEN 0
             ELSE Remaining(CHOOSE x \in s : TRUE) + g[s \ {CHOOSE x \in s : TRUE}]]
  BY <1>2, <1>3 DEF Recurs, Pick
<1>5. h = [s \in SUBSET S |->
             IF s = {} THEN 0
             ELSE Remaining(CHOOSE x \in s : TRUE) + h[s \ {CHOOSE x \in s : TRUE}]]
  BY <1>4
<1> HIDE DEF h
<1>6. Recurs(h, RemainingOf, S)
  BY <1>3, <1>5 DEF Recurs, Pick
<1>7. PICK u : Recurs(u, RemainingOf, S) /\ SumOf(Remaining, S) = u[S]
  BY <1>1, <1>6
<1>8. u[S] = SumOver(RemainingOf, S)
  BY <1>7, SumRecurs
<1> QED
  BY <1>7, <1>8

LEMMA PlanSum ==
  ASSUME NEW S, S \subseteq Insts, IsFiniteSet(S)
  PROVE  SumOf(LAMBDA i : inst[i].amount, S) = SumOver(PlannedOf, S)
<1> DEFINE h == CHOOSE g : g = [s \in SUBSET S |->
                  IF s = {} THEN 0
                  ELSE inst[CHOOSE x \in s : TRUE].amount + g[s \ {CHOOSE x \in s : TRUE}]]
<1>1. SumOf(LAMBDA i : inst[i].amount, S) = h[S]
  BY DEF SumOf, MapThenFoldSet
<1>2. PICK g : Recurs(g, PlannedOf, S)
  BY RecursExists
<1>3. \A s \in SUBSET S : s # {} =>
        (CHOOSE x \in s : TRUE) \in Insts /\ Pick(s) = (CHOOSE x \in s : TRUE)
        /\ PlannedOf[Pick(s)] = inst[CHOOSE x \in s : TRUE].amount
  BY DEF PlannedOf, Pick
<1>4. g = [s \in SUBSET S |->
             IF s = {} THEN 0
             ELSE inst[CHOOSE x \in s : TRUE].amount + g[s \ {CHOOSE x \in s : TRUE}]]
  BY <1>2, <1>3 DEF Recurs, Pick
<1>5. h = [s \in SUBSET S |->
             IF s = {} THEN 0
             ELSE inst[CHOOSE x \in s : TRUE].amount + h[s \ {CHOOSE x \in s : TRUE}]]
  BY <1>4
<1> HIDE DEF h
<1>6. Recurs(h, PlannedOf, S)
  BY <1>3, <1>5 DEF Recurs, Pick
<1>7. PICK u : Recurs(u, PlannedOf, S) /\ SumOf(LAMBDA i : inst[i].amount, S) = u[S]
  BY <1>1, <1>6
<1>8. u[S] = SumOver(PlannedOf, S)
  BY <1>7, SumRecurs
<1> QED
  BY <1>7, <1>8

LEMMA AmountSum ==
  ASSUME NEW q, NEW S, S \subseteq DOMAIN q.keys, IsFiniteSet(S)
  PROVE  SumOf(LAMBDA i : pay[q.keys[i]].amount, S) = SumOver(PaidBy(q), S)
<1> DEFINE h == CHOOSE g : g = [s \in SUBSET S |->
                  IF s = {} THEN 0
                  ELSE pay[q.keys[CHOOSE x \in s : TRUE]].amount + g[s \ {CHOOSE x \in s : TRUE}]]
<1>1. SumOf(LAMBDA i : pay[q.keys[i]].amount, S) = h[S]
  BY DEF SumOf, MapThenFoldSet
<1>2. PICK g : Recurs(g, PaidBy(q), S)
  BY RecursExists
<1>3. \A s \in SUBSET S : s # {} =>
        (CHOOSE x \in s : TRUE) \in DOMAIN q.keys /\ Pick(s) = (CHOOSE x \in s : TRUE)
        /\ PaidBy(q)[Pick(s)] = pay[q.keys[CHOOSE x \in s : TRUE]].amount
  BY DEF PaidBy, Pick
<1>4. g = [s \in SUBSET S |->
             IF s = {} THEN 0
             ELSE pay[q.keys[CHOOSE x \in s : TRUE]].amount + g[s \ {CHOOSE x \in s : TRUE}]]
  BY <1>2, <1>3 DEF Recurs, Pick
<1>5. h = [s \in SUBSET S |->
             IF s = {} THEN 0
             ELSE pay[q.keys[CHOOSE x \in s : TRUE]].amount + h[s \ {CHOOSE x \in s : TRUE}]]
  BY <1>4
<1> HIDE DEF h
<1>6. Recurs(h, PaidBy(q), S)
  BY <1>3, <1>5 DEF Recurs, Pick
<1>7. PICK u : Recurs(u, PaidBy(q), S) /\ SumOf(LAMBDA i : pay[q.keys[i]].amount, S) = u[S]
  BY <1>1, <1>6
<1>8. u[S] = SumOver(PaidBy(q), S)
  BY <1>7, SumRecurs
<1> QED
  BY <1>7, <1>8

-----------------------------------------------------------------------------
(* What is paid.                                                           *)

LEMMA HistoryFinite ==
  ASSUME TablesTyped, FinitePays, NEW i \in Insts
  PROVE  /\ History(i) \subseteq AnyKey /\ IsFiniteSet(History(i))
         /\ \A k \in History(i) : pay[k] # NoPay
<1>1. 0 \notin Insts
  BY BoundsAssumption DEF Insts
<1>2. History(i) \subseteq {k \in AnyKey : pay[k] # NoPay}
  BY <1>1, Domains, NoRows DEF History
<1> QED
  BY <1>2, FS_Subset DEF FinitePays

LEMMA SignedTypes ==
  TablesTyped => \A k \in AnyKey : SignedOf[k] \in Int
  BY PayFields DEF SignedOf, Signed

LEMMA PaidIs ==
  ASSUME TablesTyped, FinitePays, NEW i \in Insts
  PROVE  /\ SumOver(SignedOf, History(i)) \in Int
         /\ Paid(i) = IF History(i) = {} /\ inst[i].status = "paid" THEN inst[i].amount
                      ELSE SumOver(SignedOf, History(i))
         /\ Paid(i) \in Int
         /\ History(i) = {} => SumOver(SignedOf, History(i)) = 0
<1>1. History(i) \subseteq AnyKey /\ IsFiniteSet(History(i))
  BY HistoryFinite
<1>2. SumOver(SignedOf, History(i)) \in Int
  BY <1>1, SignedTypes, SumType
<1>3. SumOf(Signed, History(i)) = SumOver(SignedOf, History(i))
  BY <1>1, SignedSum
<1>4. Paid(i) = IF History(i) = {} /\ inst[i].status = "paid" THEN inst[i].amount
                ELSE SumOver(SignedOf, History(i))
  BY <1>3 DEF Paid
<1>5. inst[i].amount \in Int
  BY InstFields
<1> QED
  BY <1>2, <1>4, <1>5, SumEmpty

\* The same, in a form that holds of the next state, too.
LEMMA PaidFacts ==
  TablesTyped /\ FinitePays => \A i \in Insts :
    /\ SumOver(SignedOf, History(i)) \in Int
    /\ Paid(i) = IF History(i) = {} /\ inst[i].status = "paid" THEN inst[i].amount
                 ELSE SumOver(SignedOf, History(i))
    /\ Paid(i) \in Int
    /\ History(i) = {} => SumOver(SignedOf, History(i)) = 0
  BY PaidIs

LEMMA PaidFactsNext ==
  (TablesTyped /\ FinitePays => \A i \in Insts :
    /\ SumOver(SignedOf, History(i)) \in Int
    /\ Paid(i) = IF History(i) = {} /\ inst[i].status = "paid" THEN inst[i].amount
                 ELSE SumOver(SignedOf, History(i))
    /\ Paid(i) \in Int
    /\ History(i) = {} => SumOver(SignedOf, History(i)) = 0)'
  BY PaidFacts, PTL

LEMMA SignedTypesNext ==
  (TablesTyped => \A k \in AnyKey : SignedOf[k] \in Int)'
  BY SignedTypes, PTL

\* What is paid depends on the instalment and its payments only.
LEMMA PaidSame ==
  ASSUME TablesTyped, TablesTyped', FinitePays, FinitePays', NEW i \in Insts,
         inst'[i].status = inst[i].status, inst'[i].amount = inst[i].amount,
         \A k \in AnyKey : pay[k].inst = i \/ pay'[k].inst = i => pay'[k] = pay[k]
  PROVE  /\ History(i)' = History(i) /\ ActivePayments(i)' \subseteq History(i)
         /\ Paid(i)' = Paid(i)
<1>1. History(i)' = History(i)
  BY Domains, DomainsNext DEF History
<1>2. IsFiniteSet(History(i)) /\ \A k \in History(i) : SignedOf'[k] = SignedOf[k]
  BY Domains, HistoryFinite DEF History, SignedOf, Signed
<1>3. SumOver(SignedOf', History(i)) = SumOver(SignedOf, History(i))
  BY <1>2, SumSame
<1>4. Paid(i)' = IF History(i)' = {} /\ inst'[i].status = "paid" THEN inst'[i].amount
                 ELSE SumOver(SignedOf', History(i)')
  BY PaidFactsNext
<1> QED
  BY <1>1, <1>3, <1>4, PaidIs DEF ActivePayments

\* One payment more.
LEMMA PaidMore ==
  ASSUME TablesTyped, TablesTyped', FinitePays, FinitePays', NEW i \in Insts,
         NEW k \in AnyKey, NEW n \in Nat, pay[k] = NoPay, pay'[k] = Payment(i, n),
         \A j \in AnyKey \ {k} : pay[j].inst = i \/ pay'[j].inst = i => pay'[j] = pay[j],
         ~(History(i) = {} /\ inst[i].status = "paid")
  PROVE  Paid(i)' = Paid(i) + n
<1>1. i # 0
  BY BoundsAssumption DEF Insts
<1>2. History(i)' = History(i) \cup {k} /\ k \notin History(i)
  <2>1. pay'[k].inst = i /\ pay[k].inst = 0
    BY PaymentFields, NoRows
  <2>2. DOMAIN pay = AnyKey /\ DOMAIN pay' = AnyKey
    BY Domains, DomainsNext
  <2> QED
    BY <1>1, <2>1, <2>2 DEF History
<1>3. History(i) \subseteq AnyKey /\ IsFiniteSet(History(i))
  BY HistoryFinite
<1>4. \A j \in AnyKey : SignedOf'[j] \in Int /\ SignedOf[j] \in Int
  BY SignedTypes, SignedTypesNext
<1>5. \A j \in History(i) : SignedOf'[j] = SignedOf[j]
  BY <1>2, <1>3, Domains DEF History, SignedOf, Signed
<1>6. SignedOf'[k] = n
  <2>1. Payment(i, n).of = None /\ Payment(i, n).amount = n
    BY PaymentFields
  <2>2. SignedOf'[k] = IF pay'[k].of = None THEN pay'[k].amount ELSE 0 - pay'[k].amount
    BY DEF SignedOf, Signed
  <2> QED
    BY <2>1, <2>2
<1>7. SumOver(SignedOf', History(i)') = n + SumOver(SignedOf', History(i))
  BY <1>2, <1>3, <1>4, <1>6, SumAdd
<1>8. SumOver(SignedOf', History(i)) = SumOver(SignedOf, History(i))
  BY <1>3, <1>5, SumSame
<1>9. Paid(i)' = SumOver(SignedOf', History(i)')
  BY <1>2, PaidFactsNext
<1> QED
  BY <1>7, <1>8, <1>9, PaidIs

\* Payments that are all taken back add up to nothing.
LEMMA PaidNothing ==
  ASSUME TablesTyped, FinitePays, PaysSound, NEW i \in Insts, ActivePayments(i) = {}
  PROVE  SumOver(SignedOf, History(i)) = 0
<1> DEFINE S == History(i)
           m == [k \in S |-> IF pay[k].of # None THEN pay[k].of
                             ELSE CHOOSE j \in AnyKey : pay[j].of = k]
<1>1. S \subseteq AnyKey /\ IsFiniteSet(S) /\ \A k \in S : pay[k] # NoPay /\ pay[k].inst = i
  BY HistoryFinite DEF History
<1>2. \A k \in S : pay[k].of # None =>
        /\ pay[k].of \in S /\ pay[pay[k].of].of = None /\ m[k] = pay[k].of
        /\ SignedOf[k] + SignedOf[m[k]] = 0
  <2> SUFFICES ASSUME NEW k \in S, pay[k].of # None
               PROVE  /\ pay[k].of \in S /\ pay[pay[k].of].of = None /\ m[k] = pay[k].of
                      /\ SignedOf[k] + SignedOf[m[k]] = 0
    OBVIOUS
  <2> DEFINE j == pay[k].of
  <2>1. j \in AnyKey /\ pay[j].of = None /\ pay[k] = Reversal(pay[j], j)
    BY <1>1, PayFields DEF PaysSound
  <2>2. pay[j].inst = i /\ pay[j].amount = pay[k].amount /\ pay[k].amount \in Nat
    BY <1>1, <2>1, PayFields, PayReversal
  <2>3. SignedOf[k] = 0 - pay[k].amount /\ SignedOf[j] = pay[k].amount
    BY <1>1, <2>1, <2>2 DEF SignedOf, Signed
  <2>4. j \in S
    BY <2>1, <2>2, Domains DEF History
  <2> QED
    BY <2>1, <2>2, <2>3, <2>4
<1>3. \A k \in S : pay[k].of = None =>
        /\ m[k] \in S /\ pay[m[k]].of = k /\ SignedOf[k] + SignedOf[m[k]] = 0
  <2> SUFFICES ASSUME NEW k \in S, pay[k].of = None
               PROVE  /\ m[k] \in S /\ pay[m[k]].of = k /\ SignedOf[k] + SignedOf[m[k]] = 0
    OBVIOUS
  <2>1. \E j \in AnyKey : pay[j].of = k
    BY Domains DEF ActivePayments, PayReversed
  <2>2. m[k] \in AnyKey /\ pay[m[k]].of = k
    BY <2>1
  <2> DEFINE j == m[k]
  <2> HIDE DEF m
  <2>3. k \in AnyKey /\ k # None
    BY <1>1, NoneApart
  <2>4. pay[j] # NoPay
    BY <2>2, <2>3, NoRows
  <2>5. pay[j] = Reversal(pay[k], k)
    BY <2>2, <2>3, <2>4 DEF PaysSound
  <2>6. pay[j].inst = i /\ pay[j].amount = pay[k].amount /\ pay[k].amount \in Nat
    BY <1>1, <2>3, <2>5, PayFields, PayReversal
  <2>7. SignedOf[j] = 0 - pay[k].amount /\ SignedOf[k] = pay[k].amount
    BY <2>2, <2>3, <2>6 DEF SignedOf, Signed
  <2>8. j \in S
    BY <2>2, <2>6, Domains DEF History
  <2> QED
    BY <2>2, <2>6, <2>7, <2>8
<1>4. m \in [S -> S]
  BY <1>2, <1>3
<1>5. \A k \in S : m[m[k]] = k /\ m[k] # k
  <2> SUFFICES ASSUME NEW k \in S PROVE m[m[k]] = k /\ m[k] # k
    OBVIOUS
  <2>1. CASE pay[k].of = None
    <3>1. m[k] \in S /\ pay[m[k]].of = k /\ k # None
      BY <1>1, <1>3, <2>1, NoneApart
    <3> QED
      BY <1>2, <2>1, <3>1
  <2>2. CASE pay[k].of # None
    <3>1. m[k] = pay[k].of /\ m[k] \in S /\ pay[m[k]].of = None
      BY <1>2, <2>2
    <3>2. m[m[k]] \in S /\ pay[m[m[k]]].of = m[k]
      BY <1>3, <3>1
    <3>3. m[m[k]] = k
      BY <1>1, <2>2, <3>1, <3>2 DEF PaysSound
    <3> QED
      BY <2>2, <3>1, <3>3
  <2> QED
    BY <2>1, <2>2
<1>6. \A k \in S : SignedOf[k] \in Int /\ SignedOf[k] + SignedOf[m[k]] = 0
  BY <1>1, <1>2, <1>3, SignedTypes
<1> HIDE DEF m, S
<1>7. SumOver(SignedOf, S) = 0
  BY <1>1, <1>4, <1>5, <1>6, SumPairs
<1> QED
  BY <1>7 DEF S

-----------------------------------------------------------------------------
(* Movements and payments are only added: those of A, and reversals of U.  *)

Kept(f, g, no) == \A k \in AnyKey : f[k] # no => g[k] = f[k]

MovesGrow(U, A) ==
  /\ move' \in [AnyKey -> MoveRows] /\ Kept(move, move', NoMove)
  /\ \A k \in A : /\ k \in AnyKey /\ move[k] = NoMove
                  /\ move'[k] # NoMove /\ move'[k].of = None /\ move'[k].amount > 0
  /\ \A u \in U : /\ u \in AnyKey /\ Reversible(u)
                  /\ \E k \in AnyKey : move'[k].of = u
  /\ \A k \in AnyKey \ A : move[k] = NoMove /\ move'[k] # NoMove =>
       k \in Server /\ \E u \in U : move'[k] = Reversal(move[u], u)
  /\ \A j, k \in AnyKey : move[j] = NoMove /\ move[k] = NoMove
                          /\ move'[j].of = move'[k].of /\ move'[j].of # None => j = k

LEMMA MovesGrown ==
  ASSUME TablesTyped, MovesSound, NEW U, NEW A, MovesGrow(U, A)
  PROVE  /\ MovesSound'
         /\ \A k \in AnyKey : Reversible(k)' <=> (Reversible(k) /\ k \notin U) \/ k \in A
<1>0. DOMAIN move = AnyKey /\ DOMAIN move' = AnyKey
  BY Domains DEF MovesGrow
<1>1. \A k \in AnyKey : /\ move[k].of \in AnyKey \cup {None} /\ move[k] \in MoveRows
                        /\ move[k].of # None => move[k] # NoMove /\ move[move[k].of] # NoMove
                        /\ move[k] # NoMove => move'[k] = move[k]
  BY MoveFields, NoRows DEF MovesSound, MovesGrow, Kept
\* A new reversal.
<1>2. \A k \in AnyKey : move[k] = NoMove /\ move'[k].of # None =>
        /\ k \in Server /\ move'[k] # NoMove /\ move'[k].of \in U
        /\ move'[k] = Reversal(move[move'[k].of], move'[k].of)
        /\ move'[k].amount = move[move'[k].of].amount
  <2> SUFFICES ASSUME NEW k \in AnyKey, move[k] = NoMove, move'[k].of # None
               PROVE  /\ k \in Server /\ move'[k] # NoMove /\ move'[k].of \in U
                      /\ move'[k] = Reversal(move[move'[k].of], move'[k].of)
                      /\ move'[k].amount = move[move'[k].of].amount
    OBVIOUS
  <2>1. move'[k] # NoMove /\ k \notin A
    BY NoRows DEF MovesGrow
  <2>2. PICK u \in U : move'[k] = Reversal(move[u], u)
    BY <2>1 DEF MovesGrow
  <2>3. u \in AnyKey /\ move[u] \in MoveRows /\ k \in Server
    BY <1>1, <2>1, <2>2 DEF MovesGrow
  <2>4. move'[k].of = u /\ move'[k].amount = move[u].amount
    BY <2>2, <2>3, MoveReversal
  <2> QED
    BY <2>1, <2>2, <2>3, <2>4
<1>3. \A u \in U : u \in AnyKey /\ move[u] # NoMove /\ move[u].of = None /\ move'[u] = move[u]
  BY <1>1 DEF MovesGrow, Reversible
<1>4. \A j, k \in AnyKey : move'[j].of = move'[k].of /\ move'[j].of # None => j = k
  <2> SUFFICES ASSUME NEW j \in AnyKey, NEW k \in AnyKey, move'[j].of = move'[k].of,
                      move'[j].of # None
               PROVE  j = k
    OBVIOUS
  <2>1. CASE move[j] # NoMove /\ move[k] # NoMove
    BY <1>1, <2>1 DEF MovesSound
  <2>2. CASE move[j] = NoMove /\ move[k] = NoMove
    BY <2>2 DEF MovesGrow
  <2>3. CASE move[j] # NoMove /\ move[k] = NoMove
    <3>1. move[j].of \in U
      BY <1>1, <1>2, <2>3
    <3>2. Reversible(move[j].of)
      BY <3>1 DEF MovesGrow
    <3> QED
      BY <1>0, <3>2 DEF Reversible, MoveReversed
  <2>4. CASE move[j] = NoMove /\ move[k] # NoMove
    <3>1. move[k].of \in U
      BY <1>1, <1>2, <2>4
    <3>2. Reversible(move[k].of)
      BY <3>1 DEF MovesGrow
    <3> QED
      BY <1>0, <3>2 DEF Reversible, MoveReversed
  <2> QED
    BY <2>1, <2>2, <2>3, <2>4
<1>5. \A k \in AnyKey : move'[k] # NoMove =>
        /\ move'[k].amount > 0
        /\ move'[k].of # None => /\ k \in Server /\ move'[move'[k].of] # NoMove
                                 /\ move'[move'[k].of].of = None
                                 /\ move'[k] = Reversal(move'[move'[k].of], move'[k].of)
  <2> SUFFICES ASSUME NEW k \in AnyKey, move'[k] # NoMove
               PROVE  /\ move'[k].amount > 0
                      /\ move'[k].of # None =>
                           /\ k \in Server /\ move'[move'[k].of] # NoMove
                           /\ move'[move'[k].of].of = None
                           /\ move'[k] = Reversal(move'[move'[k].of], move'[k].of)
    OBVIOUS
  <2>1. CASE move[k] # NoMove
    <3>1. move'[k] = move[k] /\ move[k].amount > 0
      BY <1>1, <2>1 DEF MovesSound
    <3>2. move[k].of # None => /\ k \in Server /\ move[move[k].of] # NoMove
                               /\ move[move[k].of].of = None /\ move[k].of \in AnyKey
                               /\ move[k] = Reversal(move[move[k].of], move[k].of)
      BY <1>1, <2>1 DEF MovesSound
    <3> QED
      BY <1>1, <3>1, <3>2
  <2>2. CASE move[k] = NoMove /\ move'[k].of # None
    <3>1. move[move'[k].of].amount > 0
      BY <1>2, <1>3, <2>2 DEF MovesSound
    <3> QED
      BY <1>2, <1>3, <2>2, <3>1
  <2>3. CASE move[k] = NoMove /\ move'[k].of = None
    <3>1. k \in A
      <4>1. CASE k \notin A
        <5>1. PICK u \in U : move'[k] = Reversal(move[u], u)
          BY <2>3, <4>1 DEF MovesGrow
        <5>2. move'[k].of = u
          BY <1>1, <1>3, <5>1, MoveReversal
        <5> QED
          BY <1>3, <2>3, <5>2, NoneApart
      <4> QED
        BY <4>1
    <3> QED
      BY <2>3, <3>1 DEF MovesGrow
  <2> QED
    BY <2>1, <2>2, <2>3
<1>6. ASSUME NEW k \in AnyKey
      PROVE  Reversible(k)' <=> (Reversible(k) /\ k \notin U) \/ k \in A
  <2>1. k \in A => Reversible(k)'
    <3> SUFFICES ASSUME k \in A, NEW j \in AnyKey, move'[j].of = k PROVE FALSE
      BY <1>0 DEF MovesGrow, Reversible, MoveReversed
    <3>1. move[k] = NoMove /\ k # None
      BY NoneApart DEF MovesGrow
    <3>2. CASE move[j] = NoMove
      BY <1>2, <1>3, <3>1, <3>2
    <3>3. CASE move[j] # NoMove
      BY <1>1, <3>1, <3>3
    <3> QED
      BY <3>2, <3>3
  <2>2. k \in U => ~Reversible(k)'
    BY <1>0 DEF MovesGrow, Reversible, MoveReversed
  <2>3. k \notin U /\ Reversible(k) => Reversible(k)'
    <3> SUFFICES ASSUME k \notin U, Reversible(k), NEW j \in AnyKey, move'[j].of = k
                 PROVE  FALSE
      BY <1>0, <1>1 DEF Reversible, MoveReversed
    <3>1. k # None
      BY NoneApart
    <3> QED
      BY <1>0, <1>1, <1>2, <3>1 DEF Reversible, MoveReversed
  <2>4. Reversible(k)' /\ k \notin A => Reversible(k)
    <3> SUFFICES ASSUME Reversible(k)', k \notin A PROVE Reversible(k)
      OBVIOUS
    <3>1. move'[k] # NoMove /\ move'[k].of = None /\ \A j \in AnyKey : move'[j].of # k
      BY <1>0 DEF Reversible, MoveReversed
    <3>2. move[k] # NoMove
      <4> SUFFICES ASSUME move[k] = NoMove PROVE FALSE
        OBVIOUS
      <4>1. PICK u \in U : move'[k] = Reversal(move[u], u)
        BY <3>1 DEF MovesGrow
      <4>2. move'[k].of = u
        BY <1>1, <1>3, <4>1, MoveReversal
      <4> QED
        BY <1>3, <3>1, <4>2, NoneApart
    <3>3. \A j \in AnyKey : move[j].of # k
      BY <1>1, <3>1, NoneApart
    <3> QED
      BY <1>0, <1>1, <3>1, <3>2, <3>3 DEF Reversible, MoveReversed
  <2>5. k \in A => k \notin U
    BY <1>3 DEF MovesGrow
  <2> QED
    BY <2>1, <2>2, <2>3, <2>4, <2>5
<1>7. MovesSound'
  BY <1>4, <1>5 DEF MovesSound
<1> QED
  BY <1>6, <1>7

\* A payment that is not a reversal and was not taken back.
Active(k) == pay[k] # NoPay /\ pay[k].of = None /\ ~PayReversed(k)

PaysGrow(U, A) ==
  /\ pay' \in [AnyKey -> PayRows] /\ Kept(pay, pay', NoPay)
  /\ \A k \in A : /\ k \in AnyKey /\ pay[k] = NoPay
                  /\ pay'[k] # NoPay /\ pay'[k].of = None /\ pay'[k].amount > 0
                  /\ pay'[k].inst \in Insts
  /\ IsFiniteSet(A)
  /\ \A u \in U : /\ u \in AnyKey /\ Active(u)
                  /\ \E k \in AnyKey : pay'[k].of = u
  /\ \A k \in AnyKey \ A : pay[k] = NoPay /\ pay'[k] # NoPay =>
       k \in Server /\ \E u \in U : pay'[k] = Reversal(pay[u], u)
  /\ \A j, k \in AnyKey : pay[j] = NoPay /\ pay[k] = NoPay
                          /\ pay'[j].of = pay'[k].of /\ pay'[j].of # None => j = k

LEMMA PaysGrown ==
  ASSUME TablesTyped, FinitePays, PaysSound, NEW U, NEW A, PaysGrow(U, A)
  PROVE  /\ PaysSound' /\ FinitePays'
         /\ \A k \in AnyKey : Active(k)' <=> (Active(k) /\ k \notin U) \/ k \in A
<1>0. DOMAIN pay = AnyKey /\ DOMAIN pay' = AnyKey
  BY Domains DEF PaysGrow
<1>1. \A k \in AnyKey : /\ pay[k].of \in AnyKey \cup {None} /\ pay[k] \in PayRows
                        /\ pay[k].of # None => pay[k] # NoPay /\ pay[pay[k].of] # NoPay
                        /\ pay[k] # NoPay => pay'[k] = pay[k]
  BY PayFields, NoRows DEF PaysSound, PaysGrow, Kept
\* A new reversal.
<1>2. \A k \in AnyKey : pay[k] = NoPay /\ pay'[k].of # None =>
        /\ k \in Server /\ pay'[k] # NoPay /\ pay'[k].of \in U
        /\ pay'[k] = Reversal(pay[pay'[k].of], pay'[k].of)
        /\ pay'[k].amount = pay[pay'[k].of].amount
        /\ pay'[k].inst = pay[pay'[k].of].inst
  <2> SUFFICES ASSUME NEW k \in AnyKey, pay[k] = NoPay, pay'[k].of # None
               PROVE  /\ k \in Server /\ pay'[k] # NoPay /\ pay'[k].of \in U
                      /\ pay'[k] = Reversal(pay[pay'[k].of], pay'[k].of)
                      /\ pay'[k].amount = pay[pay'[k].of].amount
        /\ pay'[k].inst = pay[pay'[k].of].inst
    OBVIOUS
  <2>1. pay'[k] # NoPay /\ k \notin A
    BY NoRows DEF PaysGrow
  <2>2. PICK u \in U : pay'[k] = Reversal(pay[u], u)
    BY <2>1 DEF PaysGrow
  <2>3. u \in AnyKey /\ pay[u] \in PayRows /\ k \in Server
    BY <1>1, <2>1, <2>2 DEF PaysGrow
  <2>4. pay'[k].of = u /\ pay'[k].amount = pay[u].amount /\ pay'[k].inst = pay[u].inst
    BY <2>2, <2>3, PayReversal
  <2> QED
    BY <2>1, <2>2, <2>3, <2>4
<1>3. \A u \in U : u \in AnyKey /\ pay[u] # NoPay /\ pay[u].of = None /\ pay'[u] = pay[u]
  BY <1>1 DEF PaysGrow, Active
<1>4. \A j, k \in AnyKey : pay'[j].of = pay'[k].of /\ pay'[j].of # None => j = k
  <2> SUFFICES ASSUME NEW j \in AnyKey, NEW k \in AnyKey, pay'[j].of = pay'[k].of,
                      pay'[j].of # None
               PROVE  j = k
    OBVIOUS
  <2>1. CASE pay[j] # NoPay /\ pay[k] # NoPay
    BY <1>1, <2>1 DEF PaysSound
  <2>2. CASE pay[j] = NoPay /\ pay[k] = NoPay
    BY <2>2 DEF PaysGrow
  <2>3. CASE pay[j] # NoPay /\ pay[k] = NoPay
    <3>1. pay[j].of \in U
      BY <1>1, <1>2, <2>3
    <3>2. Active(pay[j].of)
      BY <3>1 DEF PaysGrow
    <3> QED
      BY <1>0, <3>2 DEF Active, PayReversed
  <2>4. CASE pay[j] = NoPay /\ pay[k] # NoPay
    <3>1. pay[k].of \in U
      BY <1>1, <1>2, <2>4
    <3>2. Active(pay[k].of)
      BY <3>1 DEF PaysGrow
    <3> QED
      BY <1>0, <3>2 DEF Active, PayReversed
  <2> QED
    BY <2>1, <2>2, <2>3, <2>4
<1>5. \A k \in AnyKey : pay'[k] # NoPay =>
        /\ pay'[k].amount > 0 /\ pay'[k].inst \in Insts
        /\ pay'[k].of # None => /\ k \in Server /\ pay'[pay'[k].of] # NoPay
                                 /\ pay'[pay'[k].of].of = None
                                 /\ pay'[k] = Reversal(pay'[pay'[k].of], pay'[k].of)
  <2> SUFFICES ASSUME NEW k \in AnyKey, pay'[k] # NoPay
               PROVE  /\ pay'[k].amount > 0 /\ pay'[k].inst \in Insts
                      /\ pay'[k].of # None =>
                           /\ k \in Server /\ pay'[pay'[k].of] # NoPay
                           /\ pay'[pay'[k].of].of = None
                           /\ pay'[k] = Reversal(pay'[pay'[k].of], pay'[k].of)
    OBVIOUS
  <2>1. CASE pay[k] # NoPay
    <3>1. pay'[k] = pay[k] /\ pay[k].amount > 0 /\ pay[k].inst \in Insts
      BY <1>1, <2>1 DEF PaysSound
    <3>2. pay[k].of # None => /\ k \in Server /\ pay[pay[k].of] # NoPay
                               /\ pay[pay[k].of].of = None /\ pay[k].of \in AnyKey
                               /\ pay[k] = Reversal(pay[pay[k].of], pay[k].of)
      BY <1>1, <2>1 DEF PaysSound
    <3> QED
      BY <1>1, <3>1, <3>2
  <2>2. CASE pay[k] = NoPay /\ pay'[k].of # None
    <3>1. pay[pay'[k].of].amount > 0 /\ pay[pay'[k].of].inst \in Insts
      BY <1>2, <1>3, <2>2 DEF PaysSound
    <3> QED
      BY <1>2, <1>3, <2>2, <3>1
  <2>3. CASE pay[k] = NoPay /\ pay'[k].of = None
    <3>1. k \in A
      <4>1. CASE k \notin A
        <5>1. PICK u \in U : pay'[k] = Reversal(pay[u], u)
          BY <2>3, <4>1 DEF PaysGrow
        <5>2. pay'[k].of = u
          BY <1>1, <1>3, <5>1, PayReversal
        <5> QED
          BY <1>3, <2>3, <5>2, NoneApart
      <4> QED
        BY <4>1
    <3> QED
      BY <2>3, <3>1 DEF PaysGrow
  <2> QED
    BY <2>1, <2>2, <2>3
<1>6. ASSUME NEW k \in AnyKey
      PROVE  Active(k)' <=> (Active(k) /\ k \notin U) \/ k \in A
  <2>1. k \in A => Active(k)'
    <3> SUFFICES ASSUME k \in A, NEW j \in AnyKey, pay'[j].of = k PROVE FALSE
      BY <1>0 DEF PaysGrow, Active, PayReversed
    <3>1. pay[k] = NoPay /\ k # None
      BY NoneApart DEF PaysGrow
    <3>2. CASE pay[j] = NoPay
      BY <1>2, <1>3, <3>1, <3>2
    <3>3. CASE pay[j] # NoPay
      BY <1>1, <3>1, <3>3
    <3> QED
      BY <3>2, <3>3
  <2>2. k \in U => ~Active(k)'
    BY <1>0 DEF PaysGrow, Active, PayReversed
  <2>3. k \notin U /\ Active(k) => Active(k)'
    <3> SUFFICES ASSUME k \notin U, Active(k), NEW j \in AnyKey, pay'[j].of = k
                 PROVE  FALSE
      BY <1>0, <1>1 DEF Active, PayReversed
    <3>1. k # None
      BY NoneApart
    <3> QED
      BY <1>0, <1>1, <1>2, <3>1 DEF Active, PayReversed
  <2>4. Active(k)' /\ k \notin A => Active(k)
    <3> SUFFICES ASSUME Active(k)', k \notin A PROVE Active(k)
      OBVIOUS
    <3>1. pay'[k] # NoPay /\ pay'[k].of = None /\ \A j \in AnyKey : pay'[j].of # k
      BY <1>0 DEF Active, PayReversed
    <3>2. pay[k] # NoPay
      <4> SUFFICES ASSUME pay[k] = NoPay PROVE FALSE
        OBVIOUS
      <4>1. PICK u \in U : pay'[k] = Reversal(pay[u], u)
        BY <3>1 DEF PaysGrow
      <4>2. pay'[k].of = u
        BY <1>1, <1>3, <4>1, PayReversal
      <4> QED
        BY <1>3, <3>1, <4>2, NoneApart
    <3>3. \A j \in AnyKey : pay[j].of # k
      BY <1>1, <3>1, NoneApart
    <3> QED
      BY <1>0, <1>1, <3>1, <3>2, <3>3 DEF Active, PayReversed
  <2>5. k \in A => k \notin U
    BY <1>3 DEF PaysGrow
  <2> QED
    BY <2>1, <2>2, <2>3, <2>4, <2>5
<1>7. PaysSound'
  BY <1>4, <1>5 DEF PaysSound
<1>8. FinitePays'
  <2> DEFINE P == {k \in AnyKey : pay[k] # NoPay}
  <2>1. {k \in AnyKey : pay'[k] # NoPay} \subseteq P \cup (A \cup Server)
    BY DEF PaysGrow
  <2>2. IsFiniteSet(Server)
    BY BoundsAssumption, FS_Interval DEF Server
  <2>3. IsFiniteSet(P \cup (A \cup Server))
    BY <2>2, FS_Union DEF FinitePays, PaysGrow
  <2> QED
    BY <2>1, <2>3, FS_Subset DEF FinitePays
<1> QED
  BY <1>6, <1>7, <1>8

\* Payments of other instalments stay as they are.
LEMMA PaysElsewhere ==
  ASSUME TablesTyped, NEW U, NEW A, PaysGrow(U, A), NEW i \in Insts,
         \A k \in A : pay'[k].inst # i, \A u \in U : pay[u].inst # i
  PROVE  \A k \in AnyKey : pay[k].inst = i \/ pay'[k].inst = i => pay'[k] = pay[k]
<1> SUFFICES ASSUME NEW k \in AnyKey, pay[k].inst = i \/ pay'[k].inst = i, pay'[k] # pay[k]
             PROVE  FALSE
  OBVIOUS
<1>1. pay[k] = NoPay /\ pay'[k] # NoPay /\ k \notin A
  <2>1. pay[k] = NoPay
    BY DEF PaysGrow, Kept
  <2>2. pay[k].inst # i
    BY <2>1, NoRows, BoundsAssumption DEF Insts
  <2> QED
    BY <2>1, <2>2
<1>2. PICK u \in U : pay'[k] = Reversal(pay[u], u)
  BY <1>1 DEF PaysGrow
<1>3. u \in AnyKey /\ pay[u] \in PayRows /\ pay[u].inst # i
  BY PayFields, <1>2 DEF PaysGrow
<1>4. pay'[k].inst = pay[u].inst
  BY <1>2, <1>3, PayReversal
<1> QED
  BY <1>1, <1>3, <1>4, NoRows, BoundsAssumption DEF Insts

-----------------------------------------------------------------------------
(* What a step that writes does.                                           *)

\* A step of w touches expenses E only: their rows, their instalments, and payments of
\* these, under the keys of w's request or a reversal's.
Effect(w, E) ==
  /\ \A k \in Keys \ E : exp'[k] = exp[k]
  /\ \A k \in Keys : exp[k] # NoExp => exp'[k] # NoExp
  /\ \A i \in Insts : Planned(i) /\ inst[i].exp \notin E =>
       inst'[i] = inst[i] /\ Paid(i)' = Paid(i) /\ History(i)' = History(i)
  /\ \A i \in Insts : Planned(i) =>
       \/ inst'[i].status = "gone"
       \/ /\ Planned(i)' /\ inst'[i].exp = inst[i].exp
          /\ \/ inst'[i].version > inst[i].version
             \/ inst'[i].version = inst[i].version /\ Paid(i)' = Paid(i)
  /\ \A i \in Insts : inst[i].status = "gone" => inst'[i].status = "gone"
  /\ \A i \in Insts : Planned(i)' /\ ~Planned(i) => inst'[i].exp \in E
  /\ \A k \in Keys : pay[k] = NoPay /\ pay'[k] # NoPay =>
       /\ k \in KeysOf(req[w]) /\ Drafted(req[w], k).insts = {pay'[k].inst}
       /\ inst[pay'[k].inst].exp \in E

\* What is on record stays.
RecordKept ==
  \A k \in AnyKey : pay[k] # NoPay =>
    pay'[k] = pay[k] /\ inst'[pay[k].inst].status \in {"planned", "paid"}

Written(w, E) ==
  /\ TablesInv' /\ PlanAddsUp' /\ DraftsSound' /\ Effect(w, E) /\ RecordKept

\* The plans with their sum as a sum of a function.
PlanRight(k) ==
  exp[k].status = "active" =>
    LET s == exp[k].shape IN
    IF s.method = "card"
    THEN /\ {inst[i].number : i \in Plan(k)} = 1..s.count
         /\ Cardinality(Plan(k)) = s.count
         /\ SumOver(PlannedOf, Plan(k)) = s.amount
    ELSE Plan(k) = {}

LEMMA InstsFinite == IsFiniteSet(Insts) /\ \A S \in SUBSET Insts : IsFiniteSet(S)
<1>1. IsFiniteSet(Insts)
  BY FS_Interval, BoundsAssumption DEF Insts
<1> QED
  BY <1>1, FS_Subset

LEMMA PlanAddsUpIs == PlanAddsUp <=> \A k \in Keys : PlanRight(k)
<1>1. \A k \in Keys : SumOf(LAMBDA i : inst[i].amount, Plan(k)) = SumOver(PlannedOf, Plan(k))
  BY InstsFinite, PlanSum DEF Plan
<1> QED
  BY <1>1 DEF PlanAddsUp, PlanRight

LEMMA PlanAddsUpIsNext == (PlanAddsUp <=> \A k \in Keys : PlanRight(k))'
  BY PlanAddsUpIs, PTL

\* A step that leaves all but the movements as they are.
LEMMA SameRows ==
  ASSUME TablesTyped, TablesTyped', FinitePays, exp' = exp, inst' = inst, pay' = pay
  PROVE  /\ \A i : /\ Planned(i)' = Planned(i) /\ History(i)' = History(i)
                   /\ ActivePayments(i)' = ActivePayments(i) /\ InstOwns(i)' = InstOwns(i)
         /\ \A i \in Insts : Paid(i)' = Paid(i)
         /\ \A k : /\ ExpenseOwns(k)' = ExpenseOwns(k) /\ PaymentOwns(k)' = PaymentOwns(k)
                   /\ Owned(k)' = Owned(k)
         /\ NeverOverpaid' = NeverOverpaid /\ FinitePays' = FinitePays
         /\ PaysSound' = PaysSound /\ (PlanAddsUp' <=> PlanAddsUp)
<1>1. \A i : Planned(i)' = Planned(i) /\ History(i)' = History(i)
  BY DEF Planned, History
<1>2. \A k : PayReversed(k)' = PayReversed(k)
  BY DEF PayReversed
<1>3. FinitePays' = FinitePays /\ PaysSound' = PaysSound
  BY DEF FinitePays, PaysSound
<1>4. \A i \in Insts : Paid(i)' = Paid(i)
  <2> TAKE i \in Insts
  <2> QED
    BY <1>3, PaidSame
<1>5. \A i : ActivePayments(i)' = ActivePayments(i) /\ InstOwns(i)' = InstOwns(i)
  BY <1>1, <1>2 DEF ActivePayments, InstOwns
<1>6. \A k : ExpenseOwns(k)' = ExpenseOwns(k) /\ PaymentOwns(k)' = PaymentOwns(k)
  BY <1>2 DEF ExpenseOwns, PaymentOwns
<1>7. NeverOverpaid' = NeverOverpaid
  BY <1>1, <1>4 DEF NeverOverpaid
<1>8. (PlanAddsUp' <=> PlanAddsUp)
  <2>1. \A k : Plan(k)' = Plan(k)
    BY <1>1 DEF Plan
  <2>2. PlannedOf' = PlannedOf
    BY DEF PlannedOf
  <2>3. \A k : PlanRight(k)' <=> PlanRight(k)
    BY <2>1, <2>2 DEF PlanRight
  <2> QED
    BY <2>3, PlanAddsUpIs, PlanAddsUpIsNext
<1> QED
  BY <1>1, <1>3, <1>4, <1>5, <1>6, <1>7, <1>8 DEF Owned

LEMMA SameEffect ==
  ASSUME TablesInv, TablesTyped', exp' = exp, inst' = inst, pay' = pay, NEW w
  PROVE  Effect(w, {}) /\ RecordKept
<1>1. /\ \A i : /\ Planned(i)' = Planned(i) /\ History(i)' = History(i)
      /\ \A i \in Insts : Paid(i)' = Paid(i)
  BY SameRows DEF TablesInv
<1>2. \A i : Planned(i) = (inst[i].status \in {"planned", "paid"})
  BY DEF Planned
<1> QED
  BY <1>1, <1>2 DEF Effect, RecordKept, TablesInv, InstsSound

LEMMA Untouched ==
  ASSUME TablesInv, PlanAddsUp, UNCHANGED <<exp, inst, pay, move, scene>>,
         inactive' \subseteq Accs \cup {Card}, NEW w
  PROVE  TablesInv' /\ PlanAddsUp' /\ Effect(w, {}) /\ RecordKept
<1>1. exp' = exp /\ inst' = inst /\ pay' = pay /\ move' = move
  OBVIOUS
<1>2. TablesTyped' /\ MovesSound' /\ Linked' /\ InstsSound' /\ OldPaid' /\ ExpsSound'
  BY <1>1 DEF TablesInv, TablesTyped, MovesSound, Linked, InstsSound, OldPaid, ExpsSound,
              Planned
<1>3. \A k : Reversible(k)' = Reversible(k) /\ Apart(k)' = Apart(k)
  BY <1>1 DEF Reversible, MoveReversed, Apart
<1>4. Books'
  BY <1>1, <1>2, <1>3, SameRows DEF Books, TablesInv
<1> QED
  BY <1>1, <1>2, <1>4, SameRows, SameEffect DEF TablesInv

LEMMA Unwritten ==
  ASSUME TablesInv, PlanAddsUp, DraftsSound, UNCHANGED <<tables, draft, scene>>, NEW w
  PROVE  Written(w, {})
<1>1. UNCHANGED <<exp, inst, pay, move, scene>> /\ inactive' = inactive /\ draft' = draft
  BY DEF tables
<1>2. inactive' \subseteq Accs \cup {Card}
  BY <1>1 DEF TablesInv, TablesTyped
<1>3. DraftsSound'
  BY <1>1 DEF DraftsSound
<1> QED
  BY <1>1, <1>2, <1>3, Untouched DEF Written

-----------------------------------------------------------------------------
(* reverseFinanceTransaction.                                              *)

LEMMA ReversesDirectly ==
  ASSUME TablesInv, PlanAddsUp, DraftsSound, NEW k \in AnyKey, ReverseDirectly(k), NEW w
  PROVE  Written(w, {})
<1> DEFINE n == NextKey
<1>0. /\ TablesTyped /\ FinitePays /\ PaysSound /\ MovesSound /\ Linked /\ InstsSound
      /\ OldPaid /\ ExpsSound /\ Books /\ NeverOverpaid
  BY DEF TablesInv
<1>1. /\ exp' = exp /\ inst' = inst /\ pay' = pay /\ inactive' = inactive /\ scene' = scene
      /\ draft' = draft /\ Reversible(k) /\ ~Managed(k)
      /\ move' = [move EXCEPT ![n] = Reversal(move[k], k)]
  BY DEF ReverseDirectly
<1>2. n \in Server \ {OldKey} /\ n \in AnyKey /\ n \notin Keys /\ move[n] = NoMove /\ pay[n] = NoPay
  <2>1. n \in NextKey..LastKey
    BY <1>0, NextKeyFree, LastKeyType, BoundsAssumption DEF ReverseDirectly, Server, TablesTyped
  <2> QED
    BY <1>0, <2>1, FreshKeys DEF TablesTyped
<1> HIDE DEF n
<1>3. move[k] \in MoveRows /\ move[k] # NoMove
  BY <1>0, <1>1, MoveFields DEF Reversible
<1>4. /\ move'[n] = Reversal(move[k], k) /\ move'[n] \in MoveRows /\ move'[n].of = k
      /\ \A j \in AnyKey \ {n} : move'[j] = move[j]
      /\ move' \in [AnyKey -> MoveRows]
  <2>1. Reversal(move[k], k) \in MoveRows /\ Reversal(move[k], k).of = k
    BY <1>3, MoveReversal
  <2> QED
    BY <1>0, <1>1, <1>2, <2>1 DEF TablesTyped
<1>5. TablesTyped'
  BY <1>0, <1>1, <1>4 DEF TablesTyped
<1>6. MovesGrow({k}, {})
  <2>1. Kept(move, move', NoMove)
    BY <1>2, <1>4 DEF Kept
  <2>2. \A i, j \in AnyKey : move[i] = NoMove /\ move[j] = NoMove
                            /\ move'[i].of = move'[j].of /\ move'[i].of # None => i = j
    BY <1>4, NoRows
  <2> QED
    BY <1>1, <1>2, <1>4, <2>1, <2>2 DEF MovesGrow
<1>7. MovesSound' /\ \A j \in AnyKey : Reversible(j)' <=> Reversible(j) /\ j # k
  BY <1>0, <1>6, MovesGrown
<1>8. \A j \in AnyKey : move[j] # NoMove => move'[j] = move[j]
  BY <1>6 DEF MovesGrow, Kept
<1>9. Linked'
  BY <1>0, <1>1, <1>2, <1>4, <1>8 DEF Linked, AnyKey
<1>10. InstsSound' /\ OldPaid' /\ ExpsSound'
  <2>1. OldKey \in AnyKey /\ OldKey # n
    BY <1>2, BoundsAssumption DEF OldKey, Server, AnyKey
  <2>2. InstsSound'
    BY <1>0, <1>1, <1>4, <2>1 DEF InstsSound, Planned
  <2>5. OldPaid'
    BY <1>0, <1>1 DEF OldPaid
  <2>3. \A j \in Keys : exp[j].tx # None => exp[j].tx \in AnyKey
    BY <1>0, ExpFields
  <2>4. ExpsSound'
    BY <1>0, <1>1, <1>8, <2>3 DEF ExpsSound, MovementShape
  <2> QED
    BY <2>2, <2>4, <2>5
<1>11. \A j \in AnyKey : Owned(j) => j # k
  BY <1>0, <1>1, Domains DEF Owned, ExpenseOwns, PaymentOwns, InstOwns, Managed, NoPay
<1>12. Books'
  <2>1. \A j \in AnyKey : Owned(j)' <=> Owned(j)
    BY <1>0, <1>1, <1>5, SameRows
  <2>2. \A j \in AnyKey : Reversible(j)' => Owned(j)' \/ Apart(j)'
    <3> SUFFICES ASSUME NEW j \in AnyKey, Reversible(j)' PROVE Owned(j)' \/ Apart(j)'
      OBVIOUS
    <3>1. Reversible(j) /\ (Owned(j) \/ Apart(j))
      BY <1>0, <1>7 DEF Books
    <3>2. Apart(j) => Apart(j)'
      BY <1>8, <3>1 DEF Reversible, Apart
    <3> QED
      BY <2>1, <3>1, <3>2
  <2>3. \A j \in AnyKey : Owned(j)' => Reversible(j)'
    BY <1>0, <1>7, <1>11, <2>1 DEF Books
  <2>4. \A j \in Keys : exp'[j].status = "active" /\ exp'[j].tx # None =>
          move'[exp'[j].tx] = Spent(exp'[j].shape)
    <3> SUFFICES ASSUME NEW j \in Keys, exp[j].status = "active", exp[j].tx # None
                 PROVE  move'[exp[j].tx] = Spent(exp[j].shape)
      BY <1>1
    <3>1. move[exp[j].tx] # NoMove /\ exp[j].tx \in AnyKey
      BY <1>0, ExpFields DEF ExpsSound
    <3> QED
      BY <1>0, <1>8, <3>1 DEF Books
  <2>5. \A i \in Insts : History(i)' = History(i) /\ ActivePayments(i)' = ActivePayments(i)
    BY <1>0, <1>1, <1>5, SameRows
  <2>6. \A s : Spent(s)' = Spent(s)
    BY DEF Spent
  <2> QED
    BY <1>0, <1>1, <2>2, <2>3, <2>4, <2>5, <2>6 DEF Books
<1>13. DraftsSound'
  BY <1>1, <1>2, <1>4 DEF DraftsSound
<1>14. /\ FinitePays' /\ PaysSound' /\ NeverOverpaid' /\ PlanAddsUp'
  BY <1>0, <1>1, <1>5, SameRows
<1> QED
  BY <1>1, <1>5, <1>7, <1>9, <1>10, <1>12, <1>13, <1>14, SameEffect DEF Written, TablesInv

-----------------------------------------------------------------------------
(* Plans.                                                                  *)

LEMMA EffectMore ==
  ASSUME NEW w, NEW E, NEW F, E \subseteq F, Effect(w, E)
  PROVE  Effect(w, F)
  BY DEF Effect

\* The rows of a new plan.
NewInsts(s) == NextInst..(NextInst + s.count - 1)

LEMMA PlanRows ==
  ASSUME TablesTyped, NEW t \in [Insts -> InstRows], NEW k \in Keys, NEW s \in AskedShapes,
         s.method = "card", Divisible(s), Room(s.count), NEW p, p = WithPlan(t, k, s)
  PROVE  /\ NewInsts(s) \subseteq Insts /\ p \in [Insts -> InstRows] /\ NewInsts(s) # {}
         /\ \A i \in NewInsts(s) :
              /\ inst[i].status = "none" /\ i - NextInst + 1 \in 1..s.count
              /\ p[i].exp = k /\ p[i].number = i - NextInst + 1 /\ p[i].status = "planned"
              /\ p[i].amount = Part(s, i - NextInst + 1) /\ p[i].amount > 0
              /\ p[i].tx = None /\ p[i].version = 1
         /\ \A i \in Insts \ NewInsts(s) : p[i] = t[i]
<1>1. NextInst \in 1..(MaxInst + 1) /\ \A j \in Insts : j >= NextInst => inst[j].status = "none"
  BY NextInstFree
<1>2. s.count \in Nat \ {0} /\ NextInst \in Nat /\ NextInst > 0
  BY <1>1, ShapeFields, BoundsAssumption DEF AskedShapes
<1>3. NextInst + s.count - 1 <= MaxInst
  <2>1. Scenes[scene].insts \in Insts
    BY ScenesAssumption DEF TablesTyped
  <2> QED
    BY <1>1, <1>2, <2>1, BoundsAssumption DEF Room, Insts
<1>4. NewInsts(s) \subseteq Insts /\ NewInsts(s) # {}
  <2>1. \A a, c \in Nat : a > 0 /\ c > 0 /\ a + c - 1 <= MaxInst =>
          a..(a + c - 1) \subseteq 1..MaxInst /\ a \in a..(a + c - 1)
    BY BoundsAssumption
  <2>2. s.count \in Nat /\ s.count > 0
    BY <1>2
  <2> QED
    BY <1>2, <1>3, <2>1, <2>2 DEF NewInsts, Insts
<1>5. \A i \in Insts : i \in NewInsts(s) <=> i - NextInst + 1 \in 1..s.count
  BY <1>2, BoundsAssumption DEF NewInsts, Insts
<1>6. \A i \in Insts : p[i] = IF i \in NewInsts(s)
                              THEN [exp |-> k, number |-> i - NextInst + 1,
                                    amount |-> Part(s, i - NextInst + 1), status |-> "planned",
                                    tx |-> None, version |-> 1]
                              ELSE t[i]
  BY <1>5 DEF WithPlan
<1>7. \A i \in NewInsts(s) :
        Part(s, i - NextInst + 1) \in Nat /\ Part(s, i - NextInst + 1) > 0
        /\ i - NextInst + 1 \in Nat
  <2> TAKE i \in NewInsts(s)
  <2>1. i - NextInst + 1 \in 1..s.count
    BY <1>4, <1>5
  <2> QED
    BY <1>2, <2>1, PartPositive
<1>8. \A i \in NewInsts(s) : p[i] \in InstRows
  <2> TAKE i \in NewInsts(s)
  <2> DEFINE r == [exp |-> k, number |-> i - NextInst + 1,
                   amount |-> Part(s, i - NextInst + 1), status |-> "planned",
                   tx |-> None, version |-> 1]
  <2>1. p[i] = r
    BY <1>4, <1>6
  <2>2. r \in InstRows
    BY <1>7 DEF InstRows, InstStates
  <2> QED
    BY <2>1, <2>2
<1>9. p \in [Insts -> InstRows]
  <2>1. DOMAIN p = Insts /\ p = [i \in Insts |-> p[i]]
    BY DEF WithPlan
  <2> QED
    BY <1>6, <1>8, <2>1
<1>10. \A i \in NewInsts(s) : inst[i].status = "none"
  BY <1>1, <1>2, <1>4 DEF NewInsts
<1> QED
  BY <1>4, <1>5, <1>6, <1>7, <1>9, <1>10

LEMMA NewPlanRight ==
  ASSUME TablesTyped, NEW t \in [Insts -> InstRows], NEW k \in Keys, NEW s \in AskedShapes,
         s.method = "card", Divisible(s), Room(s.count), inst' = WithPlan(t, k, s),
         Plan(k)' = NewInsts(s), exp'[k].status = "active" => Terms(exp'[k].shape) = Terms(s),
         exp'[k].shape \in Shapes
  PROVE  PlanRight(k)'
<1> DEFINE N == NewInsts(s)
<1>1. NextInst \in Nat /\ s.count \in Nat \ {0}
  BY NextInstFree, ShapeFields, BoundsAssumption DEF AskedShapes
<1>2. /\ N \subseteq Insts
      /\ \A i \in N : inst'[i].number = i - NextInst + 1 /\ i - NextInst + 1 \in 1..s.count
                      /\ inst'[i].amount = Part(s, i - NextInst + 1)
  BY PlanRows
<1>3. \A i \in N : PlannedOf'[i] = Part(s, i - NextInst + 1)
  BY <1>2 DEF PlannedOf
<1>4. SumOver(PlannedOf', N) = s.amount
  BY <1>1, <1>3, PartsSum DEF NewInsts
<1>5. Cardinality(N) = s.count
  <2>1. NextInst \in Int /\ NextInst + s.count - 1 \in Int /\ NextInst <= NextInst + s.count - 1
    BY <1>1
  <2>2. Cardinality(N) = (NextInst + s.count - 1) - NextInst + 1
    BY <2>1, FS_Interval DEF NewInsts
  <2> QED
    BY <1>1, <2>2
<1>6. {inst'[i].number : i \in N} = 1..s.count
  <2>1. \A n \in 1..s.count : n + NextInst - 1 \in N /\ n = (n + NextInst - 1) - NextInst + 1
    BY <1>1 DEF NewInsts
  <2>2. \A n \in 1..s.count : n \in {inst'[i].number : i \in N}
    <3> TAKE n \in 1..s.count
    <3>1. inst'[n + NextInst - 1].number = n
      BY <1>2, <2>1
    <3> QED
      BY <2>1, <3>1
  <2> QED
    BY <1>2, <2>2
<1>7. exp'[k].status = "active" => /\ exp'[k].shape.method = s.method
                                   /\ exp'[k].shape.count = s.count
                                   /\ exp'[k].shape.amount = s.amount
  <2>1. \A r \in Shapes : Terms(r).method = r.method /\ Terms(r).count = r.count
                          /\ Terms(r).amount = r.amount
    BY DEF Terms, Shapes
  <2>2. s \in Shapes
    BY DEF AskedShapes
  <2> QED
    BY <2>1, <2>2
<1> HIDE DEF N
<1> QED
  BY <1>4, <1>5, <1>6, <1>7 DEF PlanRight, N

\* A plan that is left alone stays right.
LEMMA PlanKept ==
  ASSUME NEW k \in Keys, PlanRight(k), Plan(k)' = Plan(k),
         \A i \in Plan(k) : inst'[i].number = inst[i].number /\ inst'[i].amount = inst[i].amount,
         exp'[k].status = "active" =>
           /\ exp[k].status = "active" /\ exp'[k].shape.method = exp[k].shape.method
           /\ exp'[k].shape.count = exp[k].shape.count
           /\ exp'[k].shape.amount = exp[k].shape.amount
  PROVE  PlanRight(k)'
<1>1. \A i \in Plan(k) : PlannedOf'[i] = PlannedOf[i]
  BY DEF PlannedOf, Plan
<1>2. SumOver(PlannedOf', Plan(k)) = SumOver(PlannedOf, Plan(k))
  BY <1>1, InstsFinite, SumSame DEF Plan
<1>3. {inst'[i].number : i \in Plan(k)} = {inst[i].number : i \in Plan(k)}
  OBVIOUS
<1> QED
  BY <1>2, <1>3 DEF PlanRight

LEMMA SamePays ==
  ASSUME pay' = pay
  PROVE  /\ \A k : PayReversed(k)' = PayReversed(k) /\ PaymentOwns(k)' = PaymentOwns(k)
         /\ \A i : History(i)' = History(i) /\ ActivePayments(i)' = ActivePayments(i)
         /\ PaysSound' = PaysSound /\ FinitePays' = FinitePays
<1>1. \A k : PayReversed(k)' = PayReversed(k)
  BY DEF PayReversed
<1>2. \A i : History(i)' = History(i)
  BY DEF History
<1>3. PaysSound' = PaysSound /\ FinitePays' = FinitePays
  BY DEF PaysSound, FinitePays
<1> QED
  BY <1>1, <1>2, <1>3 DEF PaymentOwns, ActivePayments

-----------------------------------------------------------------------------
(* createExpense.                                                          *)

LEMMA ForNew ==
  ASSUME TablesInv, NEW k \in Keys, exp[k] = NoExp
  PROVE  Plan(k) = {} /\ \A i \in Insts : Planned(i) => inst[i].exp # k
  BY DEF TablesInv, InstsSound, Plan

LEMMA Creates ==
  ASSUME TablesInv, PlanAddsUp, DraftsSound, NEW w \in Workers, Serves(w), CreateExpense(w),
         NEW q, q = req[w]
  PROVE  Written(w, {q.key})
<1> DEFINE e == q.key
           s == q.shape
           direct == s.method = "direct"
           m == Spent(s)
<1>0. /\ TablesTyped /\ FinitePays /\ PaysSound /\ MovesSound /\ Linked /\ InstsSound
      /\ OldPaid /\ ExpsSound /\ Books /\ NeverOverpaid
  BY DEF TablesInv
<1>1. /\ q.kind = "create" /\ e \in Keys /\ s \in AskedShapes /\ s \in Shapes
      /\ draft[e].kind = "create" /\ draft[e].shape = s
      /\ (direct <=> s.acc # None) /\ s.amount > 0 /\ e \in AnyKey
  <2>1. q.kind = "create"
    BY DEF CreateExpense
  <2>2. e \in Keys /\ s \in AskedShapes
    BY <2>1 DEF Serves, Asks
  <2>3. draft[e] = Drafted(q, e)
    BY <2>1 DEF Serves, KeysOf
  <2> QED
    BY <2>1, <2>2, <2>3 DEF Drafted, AskedShapes, AnyKey
<1>2. draft' = draft /\ scene' = scene /\ inactive' = inactive
  BY DEF CreateExpense, Refuse, Commit, End, tables
<1>3. CASE UNCHANGED tables
  BY <1>2, <1>3, Unwritten, EffectMore DEF Written
<1>4. CASE ~UNCHANGED tables
  <2>1. /\ direct => move[e] \in {NoMove, m}
        /\ exp[e] # NoExp => Matches(q)
        /\ exp[e] = NoExp => Divisible(s)
        /\ s.method = "card" /\ exp[e] = NoExp => Room(s.count)
        /\ exp' = IF exp[e] = NoExp
                  THEN [exp EXCEPT ![e] = [shape |-> s, status |-> "active", version |-> 1,
                                           tx |-> IF direct THEN e ELSE None]]
                  ELSE exp
        /\ move' = IF direct THEN [move EXCEPT ![e] = m] ELSE move
        /\ inst' = IF exp[e] = NoExp /\ s.method = "card" THEN WithPlan(inst, e, s) ELSE inst
        /\ pay' = pay
    BY <1>4 DEF CreateExpense, Refuse
  <2>2. CASE exp[e] # NoExp
    <3>1. exp[e].shape = s
      BY <2>1, <2>2 DEF Matches
    <3>2. direct => move[e] # NoMove
      BY <1>1, <2>2 DEF DraftsSound
    <3>3. move' = move
      BY <1>0, <2>1, <3>2, Domains DEF TablesTyped
    <3> QED
      BY <1>2, <1>4, <2>1, <2>2, <3>3 DEF tables
  <2>3. CASE exp[e] = NoExp
    <3> DEFINE row == [shape |-> s, status |-> "active", version |-> 1,
                       tx |-> IF direct THEN e ELSE None]
               N == IF s.method = "card" THEN NewInsts(s) ELSE {}
    <3>1. /\ row \in ExpRows /\ exp' = [exp EXCEPT ![e] = row] /\ exp'[e] = row
          /\ \A k \in Keys \ {e} : exp'[k] = exp[k]
      BY <1>0, <1>1, <2>1, <2>3 DEF ExpRows, ExpStates, TablesTyped
    <3>2. /\ N \subseteq Insts /\ inst' \in [Insts -> InstRows]
          /\ \A i \in N :
               /\ inst[i].status = "none" /\ inst'[i].number > 0
               /\ inst'[i].exp = e /\ inst'[i].status = "planned"
               /\ inst'[i].amount > 0 /\ inst'[i].tx = None /\ inst'[i].version = 1
          /\ \A i \in Insts \ N : inst'[i] = inst[i]
      <4>1. CASE s.method = "card"
        <5>1. inst' = WithPlan(inst, e, s) /\ N = NewInsts(s) /\ inst \in [Insts -> InstRows]
          BY <1>0, <2>1, <2>3, <4>1 DEF TablesTyped
        <5> HIDE DEF N
        <5>2. \A i \in NewInsts(s) : inst'[i].number = i - NextInst + 1 /\ i - NextInst + 1 \in 1..s.count
          BY <1>0, <1>1, <2>1, <2>3, <4>1, <5>1, PlanRows
        <5>3. \A i \in NewInsts(s) : inst'[i].number > 0
          BY <5>2
        <5> QED
          BY <1>0, <1>1, <2>1, <2>3, <4>1, <5>1, <5>3, PlanRows
      <4>2. CASE s.method # "card"
        BY <1>0, <2>1, <4>2 DEF TablesTyped
      <4> QED
        BY <4>1, <4>2
    <3> HIDE DEF N
    <3>3. direct => move[e] = NoMove
      <4> SUFFICES ASSUME direct, move[e] # NoMove PROVE FALSE
        OBVIOUS
      <4>1. move[e].text[2] = 0
        BY <1>1, <2>1, SpentFields
      <4> QED
        BY <1>0, <1>1, <2>3, <4>1 DEF Linked
    <3>4. /\ m \in MoveRows /\ m.of = None /\ m.amount > 0 /\ m.text[2] = 0 /\ m # NoMove
          /\ move' \in [AnyKey -> MoveRows]
          /\ \A k \in AnyKey : move'[k] = IF direct /\ k = e THEN m ELSE move[k]
      <4>1. m \in MoveRows /\ m.of = None /\ m.amount > 0 /\ m.text[2] = 0 /\ m # NoMove
        BY <1>1, SpentFields, NoRows
      <4> HIDE DEF m
      <4> QED
        BY <1>0, <1>1, <2>1, <4>1 DEF TablesTyped
    <3> HIDE DEF m
    <3>5. TablesTyped'
      <4>1. exp' \in [Keys -> ExpRows] /\ pay' \in [AnyKey -> PayRows]
        BY <1>0, <2>1, <3>1 DEF TablesTyped
      <4> QED
        BY <1>0, <1>2, <3>2, <3>4, <4>1 DEF TablesTyped
    <3>6. MovesGrow({}, IF direct THEN {e} ELSE {})
      <4>1. Kept(move, move', NoMove)
        BY <3>3, <3>4 DEF Kept
      <4>2. \A j, k \in AnyKey : move[j] = NoMove /\ move[k] = NoMove
                                 /\ move'[j].of = move'[k].of /\ move'[j].of # None => j = k
        BY <3>4, NoRows
      <4> QED
        BY <1>1, <3>3, <3>4, <4>1, <4>2 DEF MovesGrow
    <3>7. /\ MovesSound'
          /\ \A k \in AnyKey : Reversible(k)' <=> Reversible(k) \/ (direct /\ k = e)
      BY <1>0, <3>6, MovesGrown
    <3>8. \A k \in AnyKey : move[k] # NoMove => move'[k] = move[k]
      BY <3>6 DEF MovesGrow, Kept
    <3>9. /\ \A i \in Insts : Planned(i) /\ i \notin N => Planned(i)' /\ inst'[i] = inst[i]
          /\ \A i \in N : Planned(i)' /\ ~Planned(i)
          /\ \A i \in Insts : Planned(i)' => Planned(i) \/ i \in N
      BY <3>2 DEF Planned
    <3>10. \A k \in AnyKey : pay[k] # NoPay => pay[k].inst \in Insts \ N /\ Planned(pay[k].inst)
      BY <1>0, <3>9 DEF InstsSound, PaysSound
    <3>11. /\ PaysSound' /\ FinitePays'
           /\ \A i \in Insts : History(i)' = History(i)
           /\ \A i \in Insts : ActivePayments(i)' = ActivePayments(i)
      BY <1>0, <2>1, SamePays
    <3>12. \A i \in Insts \ N : Paid(i)' = Paid(i)
      <4> TAKE i \in Insts \ N
      <4>1. inst'[i].status = inst[i].status /\ inst'[i].amount = inst[i].amount
        BY <3>2
      <4> QED
        BY <1>0, <2>1, <3>5, <3>11, <4>1, PaidSame
    <3>13. \A i \in N : History(i) = {} /\ Paid(i)' = 0
      <4> TAKE i \in N
      <4>1. i \in Insts /\ History(i) = {}
        BY <1>0, <3>2, <3>10, HistoryFinite DEF History
      <4>2. inst'[i].status # "paid" /\ History(i)' = {}
        BY <3>2, <3>11, <4>1
      <4> QED
        BY <3>5, <3>11, <4>1, <4>2, PaidFactsNext
    <3>14. Linked'
      <4>1. \A k \in AnyKey : pay'[k].moved => move[k] # NoMove /\ move'[k] = move[k]
        BY <1>0, <2>1, <3>8 DEF Linked
      <4>2. \A k \in Keys : exp[k] # NoExp => exp'[k] # NoExp
        BY <2>3, <3>1
      <4>3. exp'[e] # NoExp
        BY <3>1, NoRows
      <4>4. \A k \in AnyKey : pay'[k].moved =>
              /\ move'[k] # NoMove /\ move'[k].amount = pay'[k].amount
              /\ move'[k].text[2] > 0 /\ move'[k].of = pay'[k].of
        BY <1>0, <2>1, <4>1 DEF Linked
      <4>5. \A k \in Keys : move'[k] # NoMove =>
              IF move'[k].text[2] = 0 THEN exp'[k] # NoExp ELSE pay'[k].moved
        <5> TAKE k \in Keys
        <5>1. CASE direct /\ k = e
          BY <1>1, <3>4, <4>3, <5>1
        <5>2. CASE ~(direct /\ k = e)
          <6>1. move'[k] = move[k]
            BY <3>4, <5>2 DEF AnyKey
          <6> QED
            BY <1>0, <2>1, <4>2, <6>1 DEF Linked
        <5> QED
          BY <5>1, <5>2
      <4> QED
        BY <4>4, <4>5 DEF Linked
    <3>15. InstsSound'
      <4>1. \A i \in Insts : ~Planned(i)' => inst'[i] \in {NoInst, Gone}
        BY <1>0, <3>2, <3>9 DEF InstsSound, Planned
      <4>2. OldKey \in AnyKey
        BY BoundsAssumption DEF OldKey, AnyKey, Server
      <4>3. exp'[e] # NoExp
        BY <3>1, NoRows
      <4>4. \A i \in Insts : Planned(i)' =>
              /\ inst'[i].exp \in Keys /\ exp'[inst'[i].exp] # NoExp
              /\ inst'[i].amount > 0 /\ inst'[i].number > 0
              /\ inst'[i].tx # None => inst'[i].status = "paid" /\ move'[OldKey].text[2] > 0
        <5> SUFFICES ASSUME NEW i \in Insts, Planned(i)'
                     PROVE  /\ inst'[i].exp \in Keys /\ exp'[inst'[i].exp] # NoExp
                            /\ inst'[i].amount > 0 /\ inst'[i].number > 0
                            /\ inst'[i].tx # None =>
                                 inst'[i].status = "paid" /\ move'[OldKey].text[2] > 0
          OBVIOUS
        <5>1. CASE i \in N
          BY <1>1, <3>2, <4>3, <5>1
        <5>2. CASE i \notin N
          <6>1. Planned(i) /\ inst'[i] = inst[i]
            BY <3>9, <5>2
          <6>2. exp[inst[i].exp] # NoExp /\ inst[i].exp \in Keys
            BY <1>0, <6>1 DEF InstsSound
          <6>3. exp'[inst[i].exp] # NoExp
            BY <2>3, <3>1, <6>2
          <6>4. inst[i].tx # None => move[OldKey].text[2] > 0
            BY <1>0, <6>1 DEF InstsSound
          <6>5. move[OldKey].text[2] > 0 => move'[OldKey] = move[OldKey]
            BY <3>8, <4>2, NoRows
          <6> QED
            BY <1>0, <6>1, <6>2, <6>3, <6>4, <6>5 DEF InstsSound
        <5> QED
          BY <5>1, <5>2
      <4>5. \A i, j \in Insts : inst'[i].tx = inst'[j].tx /\ inst'[i].tx # None => i = j
        BY <1>0, <3>2 DEF InstsSound
      <4>6. \A k \in AnyKey : pay'[k] # NoPay =>
              inst'[pay'[k].inst].status \in {"planned", "paid"}
        BY <2>1, <3>9, <3>10 DEF Planned
      <4> QED
        BY <4>1, <4>4, <4>5, <4>6 DEF InstsSound, Planned
    <3>16. ExpsSound'
      <4>1. \A k \in Keys \ {e} : exp[k].tx # None => exp[k].tx \in AnyKey /\ exp[k].tx # e
        BY <1>0, <1>1, ExpFields, KeysAssumption DEF ExpsSound, AnyKey
      <4>2. row.status = "active" /\ row.version = 1 /\ row.tx = (IF direct THEN e ELSE None)
            /\ row.shape = s
        OBVIOUS
      <4> HIDE DEF row
      <4>3. MovementShape(row)
        <5>1. e # None
          BY <1>1, NoneApart
        <5> QED
          BY <1>1, <4>2, <5>1 DEF MovementShape
      <4>4. \A k \in Keys :
              /\ exp'[k].status = "none" => exp'[k] = NoExp
              /\ exp'[k].status # "none" => exp'[k].version > 0
              /\ MovementShape(exp'[k])
              /\ exp'[k].tx # None => /\ exp'[k].tx \in {k} \cup (Server \ {OldKey})
                                      /\ move'[exp'[k].tx] # NoMove
                                      /\ move'[exp'[k].tx].text[2] = 0
        <5> TAKE k \in Keys
        <5>1. CASE k = e
          BY <1>1, <3>1, <3>4, <4>2, <4>3, <5>1
        <5>2. CASE k # e
          <6>1. exp'[k] = exp[k]
            BY <3>1, <5>2
          <6>2. exp[k].tx # None => move'[exp[k].tx] = move[exp[k].tx]
            BY <1>0, <3>8, <4>1, <5>2 DEF ExpsSound
          <6> QED
            BY <1>0, <6>1, <6>2 DEF ExpsSound
        <5> QED
          BY <5>1, <5>2
      <4>5. \A j, k \in Keys : exp'[j].tx = exp'[k].tx /\ exp'[j].tx # None => j = k
        BY <1>0, <3>1, <4>1, <4>2 DEF ExpsSound
      <4>6. ExpsSound' <=>
              /\ \A k \in Keys :
                   /\ exp'[k].status = "none" => exp'[k] = NoExp
                   /\ exp'[k].status # "none" => exp'[k].version > 0
                   /\ MovementShape(exp'[k])
                   /\ exp'[k].tx # None => /\ exp'[k].tx \in {k} \cup (Server \ {OldKey})
                                           /\ move'[exp'[k].tx] # NoMove
                                           /\ move'[exp'[k].tx].text[2] = 0
              /\ \A j, k \in Keys : exp'[j].tx = exp'[k].tx /\ exp'[j].tx # None => j = k
        BY DEF ExpsSound, MovementShape
      <4> QED
        BY <4>4, <4>5, <4>6
    <3>17. Books'
      <4>1. \A k \in AnyKey : ExpenseOwns(k)' <=> ExpenseOwns(k) \/ (direct /\ k = e)
        <5>1. exp[e].status = "none" /\ exp'[e].status = "active"
          BY <2>3, <3>1, NoRows
        <5>2. exp'[e].tx = IF direct THEN e ELSE None
          BY <3>1
        <5> QED
          BY <1>1, <3>1, <5>1, <5>2, NoneApart DEF ExpenseOwns
      <4>2. \A k \in AnyKey : PaymentOwns(k)' <=> PaymentOwns(k)
        BY <2>1, SamePays
      <4>3. \A k \in AnyKey : InstOwns(k)' <=> InstOwns(k)
        <5>1. \A i \in N : inst[i].tx = None
          BY <1>0, <3>2, <3>9, NoRows DEF InstsSound
        <5> QED
          BY <3>2, <3>11, <5>1, NoneApart DEF InstOwns
      <4>4. \A k \in AnyKey : Owned(k)' <=> Owned(k) \/ (direct /\ k = e)
        BY <4>1, <4>2, <4>3 DEF Owned
      <4>5. \A k \in AnyKey : Reversible(k)' => Owned(k)' \/ Apart(k)'
        <5> SUFFICES ASSUME NEW k \in AnyKey, Reversible(k)' PROVE Owned(k)' \/ Apart(k)'
          OBVIOUS
        <5>1. CASE direct /\ k = e
          BY <4>4, <5>1
        <5>2. CASE Reversible(k)
          <6>1. Owned(k) \/ Apart(k)
            BY <1>0, <5>2 DEF Books
          <6>2. Apart(k) => Apart(k)'
            BY <3>8, <5>2 DEF Reversible, Apart
          <6> QED
            BY <4>4, <6>1, <6>2
        <5> QED
          BY <3>7, <5>1, <5>2
      <4>6. \A k \in AnyKey : Owned(k)' => Reversible(k)'
        BY <1>0, <3>7, <4>4 DEF Books
      <4>7. \A k \in Keys : exp'[k].status = "active" /\ exp'[k].tx # None =>
              move'[exp'[k].tx] = Spent(exp'[k].shape)
        <5> SUFFICES ASSUME NEW k \in Keys, exp'[k].status = "active", exp'[k].tx # None
                     PROVE  move'[exp'[k].tx] = Spent(exp'[k].shape)
          OBVIOUS
        <5>1. CASE k = e
          <6>1. exp'[k].tx = e /\ direct /\ exp'[k].shape = s
            BY <3>1, <5>1
          <6> QED
            BY <1>1, <3>4, <6>1 DEF m
        <5>2. CASE k # e
          <6>1. exp'[k] = exp[k] /\ exp[k].tx \in AnyKey /\ move[exp[k].tx] # NoMove
            BY <1>0, <3>1, <5>2, ExpFields DEF ExpsSound
          <6> QED
            BY <1>0, <3>8, <6>1 DEF Books
        <5> QED
          BY <5>1, <5>2
      <4>8. \A i \in Insts : inst'[i].tx # None /\ History(i)' # {} => ActivePayments(i)' # {}
        BY <1>0, <3>2, <3>11 DEF Books
      <4>9. \A t : Spent(t)' = Spent(t)
        BY DEF Spent
      <4> QED
        BY <4>5, <4>6, <4>7, <4>8, <4>9 DEF Books
    <3>18. NeverOverpaid'
      <4> SUFFICES ASSUME NEW i \in Insts, Planned(i)'
                   PROVE  /\ Paid(i)' \in 0..(IF exp'[inst'[i].exp].status = "voided" THEN 0
                                              ELSE inst'[i].amount)
                          /\ inst'[i].status = "paid" <=> Paid(i)' = inst'[i].amount
        BY DEF NeverOverpaid
      <4>1. CASE i \in N
        <5>1. exp'[e].status = "active"
          BY <3>1
        <5>2. inst'[i].amount \in Nat
          BY <3>2, <4>1 DEF InstRows
        <5> QED
          BY <3>2, <3>13, <4>1, <5>1, <5>2
      <4>2. CASE i \notin N
        <5>1. Planned(i) /\ inst'[i] = inst[i] /\ Paid(i)' = Paid(i)
          BY <3>9, <3>12, <4>2
        <5>2. inst[i].exp \in Keys \ {e}
          BY <1>0, <2>3, <5>1 DEF InstsSound
        <5>3. exp'[inst[i].exp] = exp[inst[i].exp]
          BY <3>1, <5>2
        <5> QED
          BY <1>0, <5>1, <5>3 DEF NeverOverpaid
      <4> QED
        BY <4>1, <4>2
    <3>19. PlanAddsUp'
      <4>1. Plan(e) = {} /\ \A i \in Insts : Planned(i) => inst[i].exp # e
        BY <1>1, <2>3, ForNew
      <4>2. Plan(e)' = N /\ \A k \in Keys \ {e} : Plan(k)' = Plan(k)
        <5>1. Plan(e)' = {i \in Insts : Planned(i)' /\ inst'[i].exp = e}
          BY DEF Plan
        <5>2. \A i \in Insts : Planned(i)' /\ inst'[i].exp = e <=> i \in N
          BY <3>2, <3>9, <4>1
        <5>3. Plan(e)' = N
          BY <3>2, <5>1, <5>2
        <5>4. \A k \in Keys \ {e} : Plan(k)' = {i \in Insts : Planned(i)' /\ inst'[i].exp = k}
          BY DEF Plan
        <5>5. \A k \in Keys \ {e} : \A i \in Insts :
                Planned(i)' /\ inst'[i].exp = k <=> Planned(i) /\ inst[i].exp = k
          BY <3>2, <3>9, <4>1
        <5>6. \A k \in Keys \ {e} : Plan(k)' = Plan(k)
          BY <5>4, <5>5 DEF Plan
        <5> QED
          BY <5>3, <5>6
      <4>3. PlanRight(e)'
        <5>1. exp'[e].shape = s /\ exp'[e].status = "active"
          BY <3>1
        <5>2. CASE s.method = "card"
          <6>1. inst' = WithPlan(inst, e, s) /\ Plan(e)' = NewInsts(s) /\ inst \in [Insts -> InstRows]
            BY <1>0, <2>1, <2>3, <4>2, <5>2 DEF N, TablesTyped
          <6>2. Divisible(s) /\ Room(s.count)
            BY <2>1, <2>3, <5>2
          <6>3. Terms(exp'[e].shape) = Terms(s) /\ exp'[e].shape \in Shapes
            BY <1>1, <5>1
          <6> HIDE DEF e, s
          <6> QED
            BY <1>0, <1>1, <5>2, <6>1, <6>2, <6>3, NewPlanRight
        <5>3. CASE s.method # "card"
          <6>1. Plan(e)' = {}
            BY <4>2, <5>3 DEF N
          <6> QED
            BY <5>1, <5>3, <6>1 DEF PlanRight
        <5> QED
          BY <5>2, <5>3
      <4>4. \A k \in Keys \ {e} : PlanRight(k)'
        <5> TAKE k \in Keys \ {e}
        <5>1. PlanRight(k) /\ Plan(k)' = Plan(k) /\ exp'[k] = exp[k]
          BY <3>1, <4>2, PlanAddsUpIs
        <5>2. \A i \in Plan(k) : inst'[i] = inst[i]
          BY <3>9 DEF Plan
        <5> QED
          BY <5>1, <5>2, PlanKept
      <4> QED
        BY <1>1, <4>3, <4>4, PlanAddsUpIsNext
    <3>20. DraftsSound'
      <4> SUFFICES ASSUME NEW k \in Keys, exp'[k] # NoExp
                   PROVE  /\ draft[k].kind = "create"
                          /\ draft[k].shape.acc # None => move'[k] # NoMove
        BY <1>2 DEF DraftsSound
      <4>1. CASE k = e
        BY <1>1, <3>4, <4>1
      <4>2. CASE k # e
        <5>1. exp[k] # NoExp /\ k \in AnyKey
          BY <3>1, <4>2 DEF AnyKey
        <5> QED
          BY <3>8, <5>1 DEF DraftsSound
      <4> QED
        BY <4>1, <4>2
    <3>21. Effect(w, {e})
      <4>1. \A k \in Keys : exp[k] # NoExp => exp'[k] # NoExp
        BY <2>3, <3>1
      <4>2. \A i \in Insts : Planned(i) /\ inst[i].exp \notin {e} =>
              inst'[i] = inst[i] /\ Paid(i)' = Paid(i) /\ History(i)' = History(i)
        BY <3>9, <3>11, <3>12
      <4>3. \A i \in Insts : Planned(i) =>
              \/ inst'[i].status = "gone"
              \/ /\ Planned(i)' /\ inst'[i].exp = inst[i].exp
                 /\ \/ inst'[i].version > inst[i].version
                    \/ inst'[i].version = inst[i].version /\ Paid(i)' = Paid(i)
        BY <3>9, <3>12
      <4>4. \A i \in Insts : inst[i].status = "gone" => inst'[i].status = "gone"
        BY <3>2
      <4>5. \A i \in Insts : Planned(i)' /\ ~Planned(i) => inst'[i].exp \in {e}
        BY <3>2, <3>9
      <4> QED
        BY <2>1, <3>1, <4>1, <4>2, <4>3, <4>4, <4>5 DEF Effect
    <3>22. RecordKept
      BY <2>1, <3>9, <3>10 DEF RecordKept, Planned
    <3>23. OldPaid'
      BY <1>0, <2>1, <3>2, NoRows DEF OldPaid
    <3> QED
      BY <3>5, <3>7, <3>11, <3>14, <3>15, <3>16, <3>17, <3>18, <3>19, <3>20, <3>21, <3>22, <3>23
      DEF Written, TablesInv
  <2> QED
    BY <2>2, <2>3
<1> QED
  BY <1>3, <1>4

-----------------------------------------------------------------------------
(* updateExpense and voidExpense.                                          *)

\* What an edit of expense e does: the row gets new contents; a movement that the row no
\* longer has is reversed (U), one that it has now is new (A); of the plan, instalments
\* without payments are deleted (D) and new ones made (N).
Rewrite(e, row, U, A, D, N) ==
  /\ e \in Keys /\ exp[e].status = "active"
  /\ row \in ExpRows /\ row.status \in {"active", "voided"} /\ row.version > 0
  /\ MovementShape(row) /\ exp' = [exp EXCEPT ![e] = row]
  /\ pay' = pay /\ MovesGrow(U, A)
  /\ row.tx \in A \cup {exp[e].tx, None}
  /\ U = IF exp[e].tx # None /\ ~(row.status = "active" /\ row.tx = exp[e].tx)
         THEN {exp[e].tx} ELSE {}
  /\ A \subseteq {row.tx} /\ A \subseteq Server \ {OldKey}
  /\ A # {} => row.status = "active"
  /\ row.status = "active" /\ row.tx # None => move'[row.tx] = Spent(row.shape)
  /\ D \subseteq Insts
  /\ \A i \in D : inst[i].exp = e /\ Deletable(i) /\ inst'[i] = Gone
  /\ N \subseteq Insts
  /\ \A i \in N : /\ inst[i].status = "none" /\ inst'[i].number > 0
                  /\ inst'[i].exp = e /\ inst'[i].status = "planned"
                  /\ inst'[i].amount > 0 /\ inst'[i].tx = None
  /\ \A i \in Insts \ (D \cup N) : inst'[i] = inst[i]
  /\ inst' \in [Insts -> InstRows]
  /\ row.status = "voided" => \A i \in Plan(e) : Paid(i) <= 0
  /\ UNCHANGED <<inactive, scene, draft>>

LEMMA Rewrites ==
  ASSUME TablesInv, PlanAddsUp, DraftsSound, NEW w, NEW e, NEW row, NEW U, NEW A, NEW D, NEW N,
         Rewrite(e, row, U, A, D, N), PlanRight(e)'
  PROVE  Written(w, {e})
<1>0. /\ TablesTyped /\ FinitePays /\ PaysSound /\ MovesSound /\ Linked /\ InstsSound
      /\ OldPaid /\ ExpsSound /\ Books /\ NeverOverpaid
  BY DEF TablesInv
<1>1. /\ e \in Keys /\ exp[e].status = "active" /\ pay' = pay
      /\ row \in ExpRows /\ row.status \in {"active", "voided"} /\ row.version > 0
      /\ MovementShape(row) /\ exp' = [exp EXCEPT ![e] = row]
      /\ UNCHANGED <<inactive, scene, draft>>
  BY DEF Rewrite
<1>2. /\ MovesGrow(U, A)
      /\ row.tx \in A \cup {exp[e].tx, None}
      /\ U = IF exp[e].tx # None /\ ~(row.status = "active" /\ row.tx = exp[e].tx)
             THEN {exp[e].tx} ELSE {}
      /\ A \subseteq {row.tx} /\ A \subseteq Server \ {OldKey}
      /\ A # {} => row.status = "active"
      /\ row.status = "active" /\ row.tx # None => move'[row.tx] = Spent(row.shape)
  BY DEF Rewrite
<1>3. /\ D \subseteq Insts /\ N \subseteq Insts /\ inst' \in [Insts -> InstRows]
      /\ \A i \in D : inst[i].exp = e /\ Deletable(i) /\ inst'[i] = Gone
      /\ \A i \in N : /\ inst[i].status = "none" /\ inst'[i].number > 0
                      /\ inst'[i].exp = e /\ inst'[i].status = "planned"
                      /\ inst'[i].amount > 0 /\ inst'[i].tx = None
      /\ \A i \in Insts \ (D \cup N) : inst'[i] = inst[i]
      /\ row.status = "voided" => \A i \in Plan(e) : Paid(i) <= 0
  BY DEF Rewrite
<1>4. /\ exp'[e] = row /\ \A k \in Keys \ {e} : exp'[k] = exp[k]
      /\ exp' \in [Keys -> ExpRows] /\ exp[e] # NoExp /\ row # NoExp
  BY <1>0, <1>1, NoRows DEF TablesTyped
<1>5. TablesTyped'
  <2>1. move' \in [AnyKey -> MoveRows] /\ pay' \in [AnyKey -> PayRows]
    BY <1>0, <1>1, <1>2 DEF TablesTyped, MovesGrow
  <2> QED
    BY <1>0, <1>1, <1>3, <1>4, <2>1 DEF TablesTyped
<1>6. /\ MovesSound'
      /\ \A k \in AnyKey : Reversible(k)' <=> (Reversible(k) /\ k \notin U) \/ k \in A
  BY <1>0, <1>2, MovesGrown
<1>7. \A k \in AnyKey : move[k] # NoMove => move'[k] = move[k]
  BY <1>2 DEF MovesGrow, Kept
<1>8. \A i \in D : Planned(i) /\ ~Planned(i)' /\ History(i) = {} /\ inst[i].status = "planned"
                   /\ i \notin N /\ inst[i].tx = None
  <2> TAKE i \in D
  <2>1. inst[i].status = "planned" /\ History(i) = {} /\ inst'[i].status = "gone"
    BY <1>3, NoRows DEF Deletable
  <2>2. Planned(i) /\ ~Planned(i)' /\ i \notin N
    BY <1>3, <2>1 DEF Planned
  <2>3. inst[i].tx = None
    BY <1>0, <1>3, <2>1, <2>2 DEF InstsSound
  <2> QED
    BY <2>1, <2>2, <2>3
<1>9. /\ \A i \in Insts : Planned(i) /\ i \notin D => Planned(i)' /\ inst'[i] = inst[i]
      /\ \A i \in N : Planned(i)' /\ ~Planned(i)
      /\ \A i \in Insts : Planned(i)' => (Planned(i) /\ i \notin D) \/ i \in N
  <2>1. \A i \in N : inst[i].status = "none" /\ inst'[i].status = "planned"
    BY <1>3
  <2>2. \A i \in Insts : Planned(i) => i \notin N
    BY <2>1 DEF Planned
  <2>3. \A i \in Insts \ (D \cup N) : inst'[i] = inst[i]
    BY <1>3
  <2>4. \A i \in D : ~Planned(i)'
    BY <1>8
  <2> QED
    BY <1>3, <2>1, <2>2, <2>3, <2>4 DEF Planned
<1>10. \A k \in AnyKey : pay[k] # NoPay => /\ pay[k].inst \in Insts \ (D \cup N)
                                           /\ Planned(pay[k].inst)
  <2> SUFFICES ASSUME NEW k \in AnyKey, pay[k] # NoPay
               PROVE  pay[k].inst \in Insts \ (D \cup N) /\ Planned(pay[k].inst)
    OBVIOUS
  <2>1. pay[k].inst \in Insts /\ Planned(pay[k].inst)
    BY <1>0 DEF InstsSound, PaysSound
  <2>2. k \in History(pay[k].inst)
    BY <1>0, Domains DEF History
  <2> QED
    BY <1>8, <1>9, <2>1, <2>2
<1>11. /\ PaysSound' /\ FinitePays'
       /\ \A i \in Insts : History(i)' = History(i)
       /\ \A i \in Insts : ActivePayments(i)' = ActivePayments(i)
  BY <1>0, <1>1, SamePays
<1>12. \A i \in Insts \ (D \cup N) : Paid(i)' = Paid(i)
  <2> TAKE i \in Insts \ (D \cup N)
  <2>1. inst'[i].status = inst[i].status /\ inst'[i].amount = inst[i].amount
    BY <1>3
  <2> QED
    BY <1>0, <1>1, <1>5, <1>11, <2>1, PaidSame
<1>13. \A i \in N : History(i) = {} /\ Paid(i)' = 0
  <2> TAKE i \in N
  <2>0. i \in Insts
    BY <1>3
  <2>3. \A k \in History(i) : k \in AnyKey /\ pay[k] # NoPay /\ pay[k].inst = i
    BY <1>0, <2>0, HistoryFinite DEF History
  <2>1. i \in Insts /\ History(i) = {}
    BY <1>10, <2>0, <2>3
  <2>2. inst'[i].status # "paid" /\ History(i)' = {}
    BY <1>3, <1>11, <2>1
  <2> QED
    BY <1>5, <1>11, <2>1, <2>2, PaidFactsNext
<1>14. \A k \in Keys : exp[k] # NoExp => exp'[k] # NoExp
  BY <1>4
<1>15. Linked'
  <2>1. \A k \in AnyKey : pay'[k].moved =>
          /\ move'[k] # NoMove /\ move'[k].amount = pay'[k].amount
          /\ move'[k].text[2] > 0 /\ move'[k].of = pay'[k].of
    BY <1>0, <1>1, <1>7 DEF Linked
  <2>2. \A k \in Keys : move'[k] # NoMove =>
          IF move'[k].text[2] = 0 THEN exp'[k] # NoExp ELSE pay'[k].moved
    <3> SUFFICES ASSUME NEW k \in Keys, move'[k] # NoMove
                 PROVE  IF move'[k].text[2] = 0 THEN exp'[k] # NoExp ELSE pay'[k].moved
      OBVIOUS
    <3>1. k \in AnyKey /\ k \notin Server
      BY KeysAssumption DEF AnyKey
    <3>2. move[k] # NoMove /\ move'[k] = move[k]
      BY <1>2, <1>7, <3>1 DEF MovesGrow
    <3> QED
      BY <1>0, <1>1, <1>14, <3>2 DEF Linked
  <2> QED
    BY <2>1, <2>2 DEF Linked
<1>16. InstsSound'
  <2>1. \A i \in Insts : ~Planned(i)' => inst'[i] \in {NoInst, Gone}
    BY <1>0, <1>3, <1>9 DEF InstsSound
  <2>2. OldKey \in AnyKey
    BY BoundsAssumption DEF OldKey, AnyKey, Server
  <2>3. \A i \in Insts : Planned(i)' =>
          /\ inst'[i].exp \in Keys /\ exp'[inst'[i].exp] # NoExp
          /\ inst'[i].amount > 0 /\ inst'[i].number > 0
          /\ inst'[i].tx # None => inst'[i].status = "paid" /\ move'[OldKey].text[2] > 0
    <3> SUFFICES ASSUME NEW i \in Insts, Planned(i)'
                 PROVE  /\ inst'[i].exp \in Keys /\ exp'[inst'[i].exp] # NoExp
                        /\ inst'[i].amount > 0 /\ inst'[i].number > 0
                        /\ inst'[i].tx # None =>
                             inst'[i].status = "paid" /\ move'[OldKey].text[2] > 0
      OBVIOUS
    <3>1. CASE i \in N
      BY <1>1, <1>3, <1>4, <3>1
    <3>2. CASE i \notin N
      <4>1. Planned(i) /\ inst'[i] = inst[i]
        BY <1>9, <3>2
      <4>2. exp[inst[i].exp] # NoExp /\ inst[i].exp \in Keys
        BY <1>0, <4>1 DEF InstsSound
      <4>3. exp'[inst[i].exp] # NoExp
        BY <1>14, <4>2
      <4>4. inst[i].tx # None => move[OldKey].text[2] > 0
        BY <1>0, <4>1 DEF InstsSound
      <4>5. move[OldKey].text[2] > 0 => move'[OldKey] = move[OldKey]
        BY <1>7, <2>2, NoRows
      <4> QED
        BY <1>0, <4>1, <4>2, <4>3, <4>4, <4>5 DEF InstsSound
    <3> QED
      BY <3>1, <3>2
  <2>4. \A i \in Insts : inst'[i].tx # None => inst'[i].tx = inst[i].tx
    BY <1>3, NoRows
  <2>5. \A i, j \in Insts : inst'[i].tx = inst'[j].tx /\ inst'[i].tx # None => i = j
    BY <1>0, <2>4 DEF InstsSound
  <2>6. \A k \in AnyKey : pay'[k] # NoPay => inst'[pay'[k].inst].status \in {"planned", "paid"}
    BY <1>1, <1>9, <1>10 DEF Planned
  <2> QED
    BY <2>1, <2>3, <2>5, <2>6 DEF InstsSound, Planned
<1>17. /\ \A k \in Keys : exp[k].tx # None =>
            /\ exp[k].tx \in AnyKey /\ move[exp[k].tx] # NoMove
            /\ move'[exp[k].tx] = move[exp[k].tx]
       /\ \A k \in Keys \ {e} : exp[k].tx # None => exp[k].tx \notin A /\ exp[k].tx \notin U
  <2>1. \A k \in Keys : exp[k].tx # None =>
            /\ exp[k].tx \in AnyKey /\ move[exp[k].tx] # NoMove
            /\ move'[exp[k].tx] = move[exp[k].tx]
    BY <1>0, <1>7, ExpFields DEF ExpsSound
  <2>2. \A k \in Keys : exp[k].tx # None => exp[k].tx \notin A
    BY <1>2, <2>1 DEF MovesGrow
  <2>3. \A k \in Keys \ {e} : exp[k].tx # None => exp[k].tx \notin U
    BY <1>0, <1>1, <1>2 DEF ExpsSound
  <2> QED
    BY <2>1, <2>2, <2>3
<1>18. ExpsSound'
  <2>1. row.tx # None => /\ row.tx \in {e} \cup (Server \ {OldKey})
                         /\ move'[row.tx] # NoMove /\ move'[row.tx].text[2] = 0
    <3>1. CASE row.tx \in A
      <4>1. move'[row.tx] = Spent(row.shape) \/ row.tx = None
        BY <1>2, <3>1
      <4>2. row.shape \in Shapes
        BY <1>1 DEF ExpRows
      <4> QED
        BY <1>2, <3>1, <4>1, <4>2, SpentFields DEF MovesGrow
    <3>2. CASE row.tx = exp[e].tx
      BY <1>0, <1>1, <1>17, <3>2 DEF ExpsSound
    <3> QED
      BY <1>2, <3>1, <3>2
  <2>2. \A k \in Keys :
          /\ exp'[k].status = "none" => exp'[k] = NoExp
          /\ exp'[k].status # "none" => exp'[k].version > 0
          /\ MovementShape(exp'[k])
          /\ exp'[k].tx # None => /\ exp'[k].tx \in {k} \cup (Server \ {OldKey})
                                  /\ move'[exp'[k].tx] # NoMove
                                  /\ move'[exp'[k].tx].text[2] = 0
    <3> TAKE k \in Keys
    <3>1. CASE k = e
      BY <1>1, <1>4, <2>1, <3>1
    <3>2. CASE k # e
      <4>1. exp'[k] = exp[k] /\ exp[k].tx # None => move'[exp[k].tx] = move[exp[k].tx]
        BY <1>4, <1>17, <3>2
      <4> QED
        BY <1>0, <1>4, <3>2, <4>1 DEF ExpsSound
    <3> QED
      BY <3>1, <3>2
  <2>3. \A j, k \in Keys : exp'[j].tx = exp'[k].tx /\ exp'[j].tx # None => j = k
    <3> SUFFICES ASSUME NEW j \in Keys, NEW k \in Keys, j # k,
                        exp'[j].tx = exp'[k].tx, exp'[j].tx # None
                 PROVE  FALSE
      OBVIOUS
    <3>1. \A i \in Keys \ {e} : exp[i].tx # None => row.tx # exp[i].tx
      BY <1>0, <1>1, <1>2, <1>17 DEF ExpsSound
    <3>2. CASE j = e
      BY <1>4, <3>1, <3>2
    <3>3. CASE k = e
      BY <1>4, <3>1, <3>3
    <3>4. CASE j # e /\ k # e
      BY <1>0, <1>4, <3>4 DEF ExpsSound
    <3> QED
      BY <3>2, <3>3, <3>4
  <2>4. ExpsSound' <=>
          /\ \A k \in Keys :
               /\ exp'[k].status = "none" => exp'[k] = NoExp
               /\ exp'[k].status # "none" => exp'[k].version > 0
               /\ MovementShape(exp'[k])
               /\ exp'[k].tx # None => /\ exp'[k].tx \in {k} \cup (Server \ {OldKey})
                                       /\ move'[exp'[k].tx] # NoMove
                                       /\ move'[exp'[k].tx].text[2] = 0
          /\ \A j, k \in Keys : exp'[j].tx = exp'[k].tx /\ exp'[j].tx # None => j = k
    BY DEF ExpsSound, MovementShape
  <2> QED
    BY <2>2, <2>3, <2>4
<1>19. Books'
  <2>1. \A k \in AnyKey : k \in U => ExpenseOwns(k)
    BY <1>1, <1>2 DEF ExpenseOwns
  <2>2. \A k \in AnyKey : ExpenseOwns(k)' <=> (ExpenseOwns(k) /\ k \notin U) \/ k \in A
    <3> TAKE k \in AnyKey
    <3>1. ExpenseOwns(k)' <=>
            \/ row.status = "active" /\ row.tx = k
            \/ \E j \in Keys \ {e} : exp[j].status = "active" /\ exp[j].tx = k
      BY <1>1, <1>4 DEF ExpenseOwns
    <3>2. ExpenseOwns(k) <=>
            \/ exp[e].tx = k
            \/ \E j \in Keys \ {e} : exp[j].status = "active" /\ exp[j].tx = k
      BY <1>1 DEF ExpenseOwns
    <3>3. k # None
      BY NoneApart
    <3>4. k \in A <=> k = row.tx /\ A # {}
      BY <1>2
    <3>5. exp[e].tx = k => \A j \in Keys \ {e} : exp[j].tx # k
      BY <1>0, <1>1, <3>3 DEF ExpsSound
    <3>6. row.status = "active" /\ row.tx = k => k \in A \/ (exp[e].tx = k /\ k \notin U)
      BY <1>2, <3>3
    <3>7. exp[e].tx = k /\ k \notin U => row.status = "active" /\ row.tx = k
      BY <1>2, <3>3
    <3>8. \A j \in Keys \ {e} : exp[j].tx = k => k \notin U
      BY <1>17, <3>3
    <3> QED
      BY <1>2, <3>1, <3>2, <3>4, <3>6, <3>7, <3>8
  <2>3. \A k \in AnyKey : PaymentOwns(k)' <=> PaymentOwns(k)
    BY <1>1, SamePays
  <2>4. \A k \in AnyKey : InstOwns(k)' <=> InstOwns(k)
    <3>1. \A i \in D \cup N : inst[i].tx = None
      BY <1>0, <1>3, <1>8, <1>9, NoRows DEF InstsSound
    <3>2. \A i \in D \cup N : inst'[i].tx = None
      BY <1>3, NoRows
    <3> QED
      BY <1>3, <1>11, <3>1, <3>2, NoneApart DEF InstOwns
  <2>5. \A k \in AnyKey : k \in U => ~PaymentOwns(k) /\ ~InstOwns(k)
    <3> SUFFICES ASSUME NEW k \in AnyKey, k \in U PROVE ~PaymentOwns(k) /\ ~InstOwns(k)
      OBVIOUS
    <3>1. move[k].text[2] = 0 /\ k = exp[e].tx /\ k # None
      BY <1>0, <1>1, <1>2 DEF ExpsSound
    <3>2. ~PaymentOwns(k)
      BY <1>0, <3>1 DEF PaymentOwns, Linked
    <3>3. k # OldKey
      BY <1>0, <1>1, <3>1, KeysAssumption, BoundsAssumption DEF ExpsSound, OldKey, Server
    <3>4. ~InstOwns(k)
      BY <1>0, <3>3, <3>1, InstFields DEF InstOwns
    <3> QED
      BY <3>2, <3>4
  <2>6. \A k \in AnyKey : Owned(k)' <=> (Owned(k) /\ k \notin U) \/ k \in A
    BY <2>2, <2>3, <2>4, <2>5 DEF Owned
  <2>7. \A k \in AnyKey : Reversible(k)' => Owned(k)' \/ Apart(k)'
    <3> SUFFICES ASSUME NEW k \in AnyKey, Reversible(k)' PROVE Owned(k)' \/ Apart(k)'
      OBVIOUS
    <3>1. CASE k \in A
      BY <2>6, <3>1
    <3>2. CASE Reversible(k) /\ k \notin U
      <4>1. Owned(k) \/ Apart(k)
        BY <1>0, <3>2 DEF Books
      <4>2. Apart(k) => Apart(k)'
        BY <1>7, <3>2 DEF Reversible, Apart
      <4> QED
        BY <2>6, <3>2, <4>1, <4>2
    <3> QED
      BY <1>6, <3>1, <3>2
  <2>8. \A k \in AnyKey : Owned(k)' => Reversible(k)'
    BY <1>0, <1>6, <2>6 DEF Books
  <2>9. \A k \in Keys : exp'[k].status = "active" /\ exp'[k].tx # None =>
          move'[exp'[k].tx] = Spent(exp'[k].shape)
    <3> SUFFICES ASSUME NEW k \in Keys, exp'[k].status = "active", exp'[k].tx # None
                 PROVE  move'[exp'[k].tx] = Spent(exp'[k].shape)
      OBVIOUS
    <3>1. CASE k = e
      BY <1>2, <1>4, <3>1
    <3>2. CASE k # e
      BY <1>0, <1>4, <1>17, <3>2 DEF Books
    <3> QED
      BY <3>1, <3>2
  <2>10. \A i \in Insts : inst'[i].tx # None /\ History(i)' # {} => ActivePayments(i)' # {}
    BY <1>0, <1>3, <1>11, NoRows DEF Books
  <2>11. \A t : Spent(t)' = Spent(t)
    BY DEF Spent
  <2> QED
    BY <2>7, <2>8, <2>9, <2>10, <2>11 DEF Books
<1>20. NeverOverpaid'
  <2> SUFFICES ASSUME NEW i \in Insts, Planned(i)'
               PROVE  /\ Paid(i)' \in 0..(IF exp'[inst'[i].exp].status = "voided" THEN 0
                                          ELSE inst'[i].amount)
                      /\ inst'[i].status = "paid" <=> Paid(i)' = inst'[i].amount
    BY DEF NeverOverpaid
  <2>1. CASE i \in N
    <3>1. inst'[i].amount \in Nat /\ inst'[i].amount > 0
      BY <1>3, <2>1 DEF InstRows
    <3> QED
      BY <1>3, <1>13, <2>1, <3>1
  <2>2. CASE i \notin N
    <3>1. Planned(i) /\ inst'[i] = inst[i] /\ Paid(i)' = Paid(i)
      BY <1>9, <1>12, <2>2
    <3>2. /\ Paid(i) \in 0..(IF exp[inst[i].exp].status = "voided" THEN 0 ELSE inst[i].amount)
          /\ inst[i].status = "paid" <=> Paid(i) = inst[i].amount
          /\ inst[i].exp \in Keys /\ inst[i].amount \in Nat
      BY <1>0, <3>1, InstFields DEF NeverOverpaid, InstsSound
    <3>3. CASE inst[i].exp # e
      BY <1>4, <3>1, <3>2, <3>3
    <3>4. CASE inst[i].exp = e
      <4>1. i \in Plan(e)
        BY <3>1, <3>4 DEF Plan
      <4>2. row.status = "voided" => Paid(i) <= 0
        BY <1>3, <4>1
      <4> QED
        BY <1>1, <1>4, <3>1, <3>2, <3>4, <4>2
    <3> QED
      BY <3>3, <3>4
  <2> QED
    BY <2>1, <2>2
<1>21. PlanAddsUp'
  <2>1. \A k \in Keys \ {e} : PlanRight(k)'
    <3> TAKE k \in Keys \ {e}
    <3>1. PlanRight(k) /\ exp'[k] = exp[k]
      BY <1>4, PlanAddsUpIs
    <3>2. \A i \in Insts : Planned(i)' /\ inst'[i].exp = k <=> Planned(i) /\ inst[i].exp = k
      BY <1>3, <1>9
    <3>3. Plan(k)' = Plan(k)
      BY <3>2 DEF Plan
    <3>4. \A i \in Plan(k) : inst'[i] = inst[i]
      BY <1>3, <1>9 DEF Plan
    <3> QED
      BY <3>1, <3>3, <3>4, PlanKept
  <2> QED
    BY <1>1, <2>1, PlanAddsUpIsNext
<1>22. DraftsSound'
  <2> SUFFICES ASSUME NEW k \in Keys, exp'[k] # NoExp
               PROVE  /\ draft[k].kind = "create"
                      /\ draft[k].shape.acc # None => move'[k] # NoMove
    BY <1>1 DEF DraftsSound
  <2>1. exp[k] # NoExp /\ k \in AnyKey
    BY <1>4 DEF AnyKey
  <2> QED
    BY <1>7, <2>1 DEF DraftsSound
<1>23. Effect(w, {e})
  <2>1. \A i \in Insts : Planned(i) /\ inst[i].exp \notin {e} =>
          inst'[i] = inst[i] /\ Paid(i)' = Paid(i) /\ History(i)' = History(i)
    BY <1>3, <1>9, <1>11, <1>12
  <2>2. \A i \in Insts : Planned(i) =>
          \/ inst'[i].status = "gone"
          \/ /\ Planned(i)' /\ inst'[i].exp = inst[i].exp
             /\ \/ inst'[i].version > inst[i].version
                \/ inst'[i].version = inst[i].version /\ Paid(i)' = Paid(i)
    BY <1>3, <1>9, <1>12, NoRows
  <2>3. \A i \in Insts : inst[i].status = "gone" => inst'[i].status = "gone"
    BY <1>3, NoRows
  <2>4. \A i \in Insts : Planned(i)' /\ ~Planned(i) => inst'[i].exp \in {e}
    BY <1>3, <1>9
  <2> QED
    BY <1>1, <1>4, <1>14, <2>1, <2>2, <2>3, <2>4 DEF Effect
<1>24. RecordKept
  BY <1>1, <1>9, <1>10 DEF RecordKept, Planned
<1>25. OldPaid'
  BY <1>0, <1>1, <1>3, NoRows DEF OldPaid
<1> QED
  BY <1>5, <1>6, <1>11, <1>15, <1>16, <1>18, <1>19, <1>20, <1>21, <1>22, <1>23, <1>24, <1>25
  DEF Written, TablesInv

\* A movement reversed, or not, and one made, or not.
LEMMA OneEach ==
  ASSUME TablesTyped, NEW u, NEW U, U = {} \/ (U = {u} /\ u \in AnyKey /\ Reversible(u)),
         NEW n, U # {} => n \in Server /\ move[n] = NoMove,
         NEW a, NEW A, NEW r, A = {} \/ (A = {a} /\ a \in AnyKey /\ move[a] = NoMove),
         A # {} => r \in MoveRows /\ r # NoMove /\ r.of = None /\ r.amount > 0,
         U # {} /\ A # {} => n # a,
         move' = [k \in DOMAIN move' |-> move'[k]], DOMAIN move' = AnyKey,
         U # {} => move'[n] = Reversal(move[u], u), A # {} => move'[a] = r,
         \A k \in AnyKey : (U = {} \/ k # n) /\ (A = {} \/ k # a) => move'[k] = move[k]
  PROVE  MovesGrow(U, A)
<1> DEFINE v == Reversal(move[u], u)
<1>1. U # {} => /\ n \in AnyKey /\ v \in MoveRows /\ v.of = u /\ v # NoMove
                /\ move'[n] = v /\ u \in AnyKey /\ u # None
  <2> SUFFICES ASSUME U # {}
               PROVE  /\ n \in AnyKey /\ v \in MoveRows /\ v.of = u /\ v # NoMove
                      /\ move'[n] = v /\ u \in AnyKey /\ u # None
    OBVIOUS
  <2>1. u \in AnyKey /\ n \in AnyKey /\ u # None
    BY NoneApart DEF AnyKey
  <2>2. move[u] \in MoveRows
    BY <2>1, MoveFields
  <2>3. v \in MoveRows /\ v.of = u
    BY <2>1, <2>2, MoveReversal
  <2> QED
    BY <2>1, <2>3, NoRows
<1> HIDE DEF v
<1>2. \A k \in AnyKey : move'[k] = IF U # {} /\ k = n THEN v
                                   ELSE IF A # {} /\ k = a THEN r ELSE move[k]
  BY DEF v
<1>3. move' \in [AnyKey -> MoveRows]
  <2>1. \A k \in AnyKey : move[k] \in MoveRows
    BY MoveFields
  <2> QED
    BY <1>1, <1>2, <2>1
<1>4. Kept(move, move', NoMove)
  BY <1>2 DEF Kept
<1>5. \A k \in A : /\ k \in AnyKey /\ move[k] = NoMove
                   /\ move'[k] # NoMove /\ move'[k].of = None /\ move'[k].amount > 0
  BY <1>2
<1>6. \A x \in U : /\ x \in AnyKey /\ Reversible(x) /\ \E k \in AnyKey : move'[k].of = x
  BY <1>1
<1>7. \A k \in AnyKey \ A : move[k] = NoMove /\ move'[k] # NoMove =>
        k \in Server /\ \E x \in U : move'[k] = Reversal(move[x], x)
  <2> SUFFICES ASSUME NEW k \in AnyKey \ A, move[k] = NoMove, move'[k] # NoMove
               PROVE  k \in Server /\ \E x \in U : move'[k] = Reversal(move[x], x)
    OBVIOUS
  <2>1. U # {} /\ k = n
    BY <1>2
  <2>2. u \in U /\ move'[k] = Reversal(move[u], u)
    BY <1>1, <2>1 DEF v
  <2> QED
    BY <2>1, <2>2
<1>8. \A j, k \in AnyKey : move[j] = NoMove /\ move[k] = NoMove
                           /\ move'[j].of = move'[k].of /\ move'[j].of # None => j = k
  BY <1>2, NoRows
<1> QED
  BY <1>3, <1>4, <1>5, <1>6, <1>7, <1>8 DEF MovesGrow

LEMMA VoidedFields ==
  ASSUME NEW r \in ExpRows, NEW v, v = [r EXCEPT !.status = "voided", !.version = @ + 1]
  PROVE  /\ v \in ExpRows /\ v.status = "voided" /\ v.version = r.version + 1
         /\ v.version > 0 /\ v.tx = r.tx /\ v.shape = r.shape
<1>1. r.version \in Nat /\ r.shape \in Shapes /\ r.tx \in AnyKey \cup {None}
  BY DEF ExpRows
<1>2. v.status = "voided" /\ v.version = r.version + 1 /\ v.tx = r.tx /\ v.shape = r.shape
  BY DEF ExpRows
<1>3. v \in ExpRows
  <2>1. v = [shape |-> v.shape, status |-> v.status, tx |-> v.tx, version |-> v.version]
    BY DEF ExpRows
  <2>2. v.status \in ExpStates /\ v.version \in Nat
    BY <1>1, <1>2 DEF ExpStates
  <2> QED
    BY <1>1, <1>2, <2>1, <2>2 DEF ExpRows
<1> QED
  BY <1>1, <1>2, <1>3

LEMMA Voids ==
  ASSUME TablesInv, PlanAddsUp, DraftsSound, NEW w \in Workers, NEW q, q = req[w],
         Serves(w), Knows(w, q), VoidExpense(w)
  PROVE  Written(w, {q.exp})
<1> DEFINE e == q.exp
           u == exp[e].tx
           U == IF u = None THEN {} ELSE {u}
           row == [exp[e] EXCEPT !.status = "voided", !.version = @ + 1]
           D == {i \in Insts : inst[i].exp = e /\ Deletable(i)}
<1>0. TablesTyped /\ InstsSound /\ ExpsSound
  BY DEF TablesInv
<1>1. draft' = draft /\ scene' = scene /\ inactive' = inactive
  BY DEF VoidExpense, Refuse, Commit, End, tables
<1>2. CASE UNCHANGED tables
  BY <1>1, <1>2, Unwritten, EffectMore DEF Written
<1>3. CASE ~UNCHANGED tables
  <2>1. /\ pc[w] = "write" /\ q.kind = "void"
        /\ u # None => Reversible(u) /\ NextKey <= LastKey
        /\ move' = IF u = None THEN move
                   ELSE [move EXCEPT ![NextKey] = Reversal(move[u], u)]
        /\ exp' = [exp EXCEPT ![e] = row] /\ inst' = Cleared(e) /\ pay' = pay
    BY <1>3 DEF VoidExpense, Refuse
  <2>2. e \in Keys /\ exp[e].status = "active" /\ ~PlanLocked(q)
    BY <2>1 DEF Serves, Asks, Knows, KnowsExpense
  <2>3. /\ row \in ExpRows /\ row.status = "voided" /\ row.version > 0 /\ row.tx = u
        /\ MovementShape(row)
    <3>1. exp[e] \in ExpRows /\ exp[e].version \in Nat
      BY <1>0, <2>2, ExpFields
    <3>2. row \in ExpRows /\ row.status = "voided" /\ row.version > 0 /\ row.tx = u
          /\ row.shape = exp[e].shape
      BY <3>1, VoidedFields
    <3> QED
      BY <1>0, <2>2, <3>2 DEF ExpsSound, MovementShape
  <2> HIDE DEF row
  <2>4. u # None => /\ NextKey \in Server /\ move[NextKey] = NoMove /\ u \in AnyKey
    <3>1. u # None => NextKey \in NextKey..LastKey
      BY <1>0, <2>1, NextKeyFree, LastKeyType, BoundsAssumption DEF Server, TablesTyped
    <3>2. u \in AnyKey \cup {None}
      BY <1>0, <2>2, ExpFields
    <3> QED
      BY <1>0, <3>1, <3>2, FreshKeys DEF TablesTyped
  <2>5. move' = [k \in AnyKey |-> IF U # {} /\ k = NextKey THEN Reversal(move[u], u) ELSE move[k]]
    <3>1. CASE u = None
      BY <1>0, <2>1, <3>1 DEF TablesTyped
    <3>2. CASE u # None
      BY <1>0, <2>1, <2>4, <3>2 DEF TablesTyped
    <3> QED
      BY <3>1, <3>2
  <2>6. MovesGrow(U, {})
    <3>1. U = {} \/ (U = {u} /\ u \in AnyKey /\ Reversible(u))
      BY <2>1, <2>4
    <3>2. U # {} => NextKey \in Server /\ move[NextKey] = NoMove
      BY <2>4
    <3>3. /\ DOMAIN move' = AnyKey /\ move' = [k \in DOMAIN move' |-> move'[k]]
          /\ U # {} => move'[NextKey] = Reversal(move[u], u)
          /\ \A k \in AnyKey : U = {} \/ k # NextKey => move'[k] = move[k]
      BY <2>4, <2>5 DEF AnyKey
    <3> HIDE DEF U
    <3> QED
      BY <1>0, <3>1, <3>2, <3>3, OneEach
  <2>7. /\ \A i \in D : inst[i].exp = e /\ Deletable(i) /\ inst'[i] = Gone
        /\ \A i \in Insts \ (D \cup {}) : inst'[i] = inst[i]
        /\ inst' \in [Insts -> InstRows]
    <3>1. \A i \in Insts : inst'[i] = IF i \in D THEN Gone ELSE inst[i]
      BY <2>1 DEF Cleared
    <3>2. \A i \in Insts : inst'[i] \in InstRows
      BY <1>0, <3>1, InstFields, NoRows
    <3>3. inst' = [i \in Insts |-> inst'[i]]
      BY <2>1 DEF Cleared
    <3> QED
      BY <3>1, <3>2, <3>3
  <2>8. \A i \in Plan(e) : Paid(i) <= 0
    <3> TAKE i \in Plan(e)
    <3>1. ~(Paid(i) > 0)
      BY <2>1, <2>2 DEF PlanLocked, Touched
    <3>2. i \in Insts
      BY DEF Plan
    <3>3. Paid(i) \in Int
      BY <3>2, PaidIs DEF TablesInv
    <3> QED
      BY <3>1, <3>3
  <2>9. Rewrite(e, row, U, {}, D, {})
    BY <1>1, <2>1, <2>2, <2>3, <2>6, <2>7, <2>8 DEF Rewrite
  <2>10. PlanRight(e)'
    <3>1. exp'[e] = row
      BY <1>0, <2>1, <2>2 DEF TablesTyped
    <3> QED
      BY <2>3, <3>1 DEF PlanRight
  <2> HIDE DEF U, D
  <2> QED
    BY <2>9, <2>10, Rewrites
<1> QED
  BY <1>2, <1>3

LEMMA ShapeKept ==
  ASSUME NEW s \in Shapes, NEW a \in Accs \cup {None}
  PROVE  [s EXCEPT !.acc = a] \in Shapes /\ (a = s.acc => [s EXCEPT !.acc = a] = s)
<1>1. s = [method |-> s.method, acc |-> s.acc, amount |-> s.amount, count |-> s.count,
           text |-> s.text]
  BY DEF Shapes
<1> QED
  BY <1>1 DEF Shapes

LEMMA EditedFields ==
  ASSUME TablesTyped, NEW q, q.exp \in Keys, q.shape \in Shapes, q.void \in BOOLEAN,
         NEW j, MustCreate(q) => j \in AnyKey
  PROVE  /\ Edited(q, j) \in ExpRows /\ Edited(q, j).version > 0
         /\ Edited(q, j).status = IF q.void THEN "voided" ELSE "active"
         /\ Edited(q, j).tx = IF MustCreate(q) THEN j
                              ELSE IF q.void \/ q.shape.method = "direct" THEN exp[q.exp].tx
                              ELSE None
         /\ ~q.void => Edited(q, j).shape = q.shape
<1> DEFINE e == exp[q.exp]
           s == [q.shape EXCEPT !.acc = IF q.void THEN e.shape.acc ELSE @]
<1>1. e.shape \in Shapes /\ e.version \in Nat /\ e.tx \in AnyKey \cup {None}
  BY ExpFields
<1>2. s \in Shapes /\ (~q.void => s = q.shape)
  <2>1. e.shape.acc \in Accs \cup {None} /\ q.shape.acc \in Accs \cup {None}
    BY <1>1, ShapeFields
  <2> QED
    BY <2>1, ShapeKept
<1> HIDE DEF s
<1>3. Edited(q, j) = [shape |-> s, status |-> IF q.void THEN "voided" ELSE "active",
                      tx |-> IF MustCreate(q) THEN j
                             ELSE IF q.void \/ q.shape.method = "direct" THEN e.tx ELSE None,
                      version |-> e.version + 1]
  BY DEF Edited, s
<1> QED
  BY <1>1, <1>2, <1>3 DEF ExpRows, ExpStates

\* A plan without payments is deleted altogether.
LEMMA AllDeletable ==
  ASSUME TablesInv, NEW e \in Keys, NEW i \in Plan(e), ~Touched(i), ~Recorded(i)
  PROVE  Deletable(i)
<1>1. i \in Insts /\ Planned(i) /\ History(i) = {}
  BY DEF Plan, Recorded
<1>2. inst[i].amount > 0 /\ inst[i].amount \in Nat
  BY <1>1, InstFields DEF TablesInv, InstsSound
<1>3. inst[i].status # "paid"
  BY <1>1, <1>2 DEF Touched, Paid
<1> QED
  BY <1>1, <1>3 DEF Planned, Deletable

LEMMA Updates ==
  ASSUME TablesInv, PlanAddsUp, DraftsSound, NEW w \in Workers, NEW q, q = req[w],
         Serves(w), Knows(w, q), UpdateExpense(w)
  PROVE  Written(w, {q.exp})
<1> DEFINE e == q.exp
           u == exp[e].tx
           s == q.shape
           undo == NextKey
           again == IF MustReverse(q) THEN undo + 1 ELSE undo
           planned == ~q.void /\ PlanChanged(q) /\ s.method = "card"
           row == Edited(q, again)
           U == IF MustReverse(q) THEN {u} ELSE {}
           A == IF MustCreate(q) THEN {again} ELSE {}
           D == IF PlanChanged(q) THEN {i \in Insts : inst[i].exp = e /\ Deletable(i)} ELSE {}
           N == IF planned THEN NewInsts(s) ELSE {}
           rest == IF PlanChanged(q) THEN Cleared(e) ELSE inst
<1>0. TablesTyped /\ InstsSound /\ ExpsSound /\ Books
  BY DEF TablesInv
<1>1. draft' = draft /\ scene' = scene /\ inactive' = inactive
  BY DEF UpdateExpense, Refuse, Commit, End, tables
<1>2. CASE UNCHANGED tables
  BY <1>1, <1>2, Unwritten, EffectMore DEF Written
<1>3. CASE ~UNCHANGED tables
  <2>1. /\ pc[w] = "write" /\ q.kind = "update"
        /\ MustReverse(q) => Reversible(u) /\ undo <= LastKey
        /\ MovementShape(row)
        /\ planned => Divisible(s) /\ Room(s.count)
        /\ MustCreate(q) => again <= LastKey
        /\ move' = [k \in DOMAIN move |->
                      IF MustReverse(q) /\ k = undo THEN Reversal(move[u], u)
                      ELSE IF MustCreate(q) /\ k = again THEN Spent(s) ELSE move[k]]
        /\ exp' = [exp EXCEPT ![e] = row]
        /\ inst' = IF planned THEN WithPlan(rest, e, s) ELSE rest
        /\ pay' = pay
    BY <1>3 DEF UpdateExpense, Refuse
  <2>2. /\ e \in Keys /\ exp[e].status = "active" /\ ~PlanLocked(q)
        /\ s \in AskedShapes /\ s \in Shapes /\ q.void \in BOOLEAN
    BY <2>1 DEF Serves, Asks, Knows, KnowsExpense, AskedShapes
  <2>3. /\ u \in AnyKey \cup {None}
        /\ MustReverse(q) <=> u # None /\ (q.void \/ exp[e].shape # s \/ s.method # "direct")
        /\ MustCreate(q) <=> ~q.void /\ s.method = "direct" /\ (u = None \/ exp[e].shape # s)
    BY <1>0, <2>2, ExpFields DEF MustReverse, MustCreate, MovementChanged
  <2>4. /\ MustReverse(q) => undo \in Server /\ move[undo] = NoMove /\ u \in AnyKey
        /\ MustCreate(q) => again \in Server \ {OldKey} /\ again \in AnyKey /\ move[again] = NoMove
        /\ MustReverse(q) => undo # again
    <3>1. undo \in Nat /\ LastKey \in Nat
      BY <1>0, NextKeyFree, LastKeyType, BoundsAssumption DEF Server, TablesTyped
    <3>2. MustReverse(q) => undo \in NextKey..LastKey
      BY <2>1, <3>1
    <3>3. MustCreate(q) => again \in NextKey..LastKey
      BY <2>1, <3>1
    <3>4. MustReverse(q) => undo # again
      BY <3>1
    <3>5. scene \in DOMAIN Scenes
      BY <1>0 DEF TablesTyped
    <3> HIDE DEF undo, again
    <3> QED
      BY <2>3, <3>2, <3>3, <3>4, <3>5, FreshKeys
  <2> HIDE DEF undo, again
  <2>5. /\ row \in ExpRows /\ row.version > 0
        /\ row.status = IF q.void THEN "voided" ELSE "active"
        /\ row.tx = IF MustCreate(q) THEN again
                    ELSE IF q.void \/ s.method = "direct" THEN u ELSE None
        /\ ~q.void => row.shape = s
    BY <1>0, <2>2, <2>4, EditedFields
  <2> HIDE DEF row
  <2>6. s.amount > 0
    BY <2>2 DEF AskedShapes
  <2>7. MovesGrow(U, A)
    <3>1. U = {} \/ (U = {u} /\ u \in AnyKey /\ Reversible(u))
      BY <2>1, <2>4
    <3>2. U # {} => undo \in Server /\ move[undo] = NoMove
      BY <2>4
    <3>3. A = {} \/ (A = {again} /\ again \in AnyKey /\ move[again] = NoMove)
      BY <2>4
    <3>4. Spent(s) \in MoveRows /\ Spent(s) # NoMove /\ Spent(s).of = None /\ Spent(s).amount > 0
      BY <2>2, <2>6, SpentFields, NoRows
    <3>5. U # {} /\ A # {} => undo # again
      BY <2>4
    <3>6. DOMAIN move = AnyKey
      BY <1>0, Domains
    <3>7. DOMAIN move' = AnyKey /\ move' = [k \in DOMAIN move' |-> move'[k]]
      BY <2>1, <3>6
    <3> DEFINE r == Spent(s)
    <3>8. /\ r \in MoveRows /\ r # NoMove /\ r.of = None /\ r.amount > 0
          /\ U # {} => move'[undo] = Reversal(move[u], u)
          /\ A # {} => move'[again] = r
          /\ \A k \in AnyKey : (U = {} \/ k # undo) /\ (A = {} \/ k # again) => move'[k] = move[k]
      BY <2>1, <2>4, <3>4, <3>6 DEF AnyKey
    <3> HIDE DEF U, A, r, u, s, e
    <3> QED
      BY <1>0, <3>1, <3>2, <3>3, <3>5, <3>7, <3>8, OneEach
  <2>8. /\ row.tx \in A \cup {u, None}
        /\ U = IF u # None /\ ~(row.status = "active" /\ row.tx = u) THEN {u} ELSE {}
        /\ A \subseteq {row.tx} /\ A \subseteq Server \ {OldKey}
        /\ A # {} => row.status = "active"
    <3>1. MustCreate(q) /\ u # None => again # u
      BY <1>0, <2>2, <2>4 DEF ExpsSound
    <3> QED
      BY <2>2, <2>3, <2>4, <2>5, <3>1
  <2>9. row.status = "active" /\ row.tx # None => move'[row.tx] = Spent(row.shape)
    <3> SUFFICES ASSUME row.status = "active", row.tx # None
                 PROVE  move'[row.tx] = Spent(row.shape)
      OBVIOUS
    <3>1. ~q.void /\ row.shape = s
      BY <2>2, <2>5
    <3>2. CASE MustCreate(q)
      <4>1. row.tx = again /\ again \in DOMAIN move
        BY <1>0, <2>4, <2>5, <3>2, Domains
      <4>2. move'[again] = Spent(s)
        BY <2>1, <2>4, <3>2, <4>1
      <4> QED
        BY <3>1, <4>1, <4>2
    <3>3. CASE ~MustCreate(q)
      <4>1. row.tx = u /\ u # None /\ exp[e].shape = s /\ ~MustReverse(q)
        BY <2>3, <2>5, <3>1, <3>3
      <4>2. move[u] = Spent(s) /\ u \in DOMAIN move
        BY <1>0, <2>2, <2>3, <4>1, Domains DEF Books
      <4>3. move'[u] = move[u]
        BY <2>1, <3>3, <4>1, <4>2
      <4> QED
        BY <3>1, <4>1, <4>2, <4>3
    <3> QED
      BY <3>2, <3>3
  <2>10. /\ rest \in [Insts -> InstRows] /\ D \subseteq Insts
         /\ \A i \in D : inst[i].exp = e /\ Deletable(i) /\ rest[i] = Gone
         /\ \A i \in Insts \ D : rest[i] = inst[i]
    <3>1. \A i \in Insts : inst[i] \in InstRows
      BY <1>0, InstFields
    <3>2. CASE PlanChanged(q)
      <4>1. \A i \in Insts : rest[i] = IF i \in D THEN Gone ELSE inst[i]
        BY <3>2 DEF Cleared
      <4>2. rest = [i \in Insts |-> rest[i]]
        BY <3>2 DEF Cleared
      <4>3. \A i \in Insts : rest[i] \in InstRows
        BY <3>1, <4>1, NoRows
      <4> HIDE DEF rest
      <4> QED
        BY <3>2, <4>1, <4>2, <4>3
    <3>3. CASE ~PlanChanged(q)
      BY <1>0, <3>3 DEF TablesTyped
    <3> QED
      BY <3>2, <3>3
  <2> HIDE DEF rest
  <2>11. /\ N \subseteq Insts /\ inst' \in [Insts -> InstRows]
         /\ \A i \in N :
              /\ inst[i].status = "none" /\ inst'[i].number > 0
              /\ inst'[i].exp = e /\ inst'[i].status = "planned"
              /\ inst'[i].amount > 0 /\ inst'[i].tx = None
         /\ \A i \in Insts \ N : inst'[i] = rest[i]
    <3>1. CASE planned
      <4>1. inst' = WithPlan(rest, e, s) /\ N = NewInsts(s) /\ s.method = "card"
            /\ Divisible(s) /\ Room(s.count)
        BY <2>1, <3>1
      <4> HIDE DEF N, planned
      <4>2. \A i \in NewInsts(s) : inst'[i].number = i - NextInst + 1 /\ i - NextInst + 1 \in 1..s.count
        BY <1>0, <2>2, <2>10, <4>1, PlanRows
      <4>3. \A i \in NewInsts(s) : inst'[i].number > 0
        BY <4>2
      <4> QED
        BY <1>0, <2>2, <2>10, <4>1, <4>3, PlanRows
    <3>2. CASE ~planned
      BY <2>1, <2>10, <3>2
    <3> QED
      BY <3>1, <3>2
  <2>12. \A i \in D : i \notin N
    BY <2>10, <2>11 DEF Deletable
  <2>13. row.status = "voided" => \A i \in Plan(e) : Paid(i) <= 0
    <3> SUFFICES ASSUME row.status = "voided", NEW i \in Plan(e) PROVE Paid(i) <= 0
      OBVIOUS
    <3>1. q.void
      BY <2>5
    <3>2. ~(Paid(i) > 0)
      BY <2>1, <2>2, <3>1 DEF PlanLocked, Touched
    <3>3. i \in Insts
      BY DEF Plan
    <3>4. Paid(i) \in Int
      BY <3>3, PaidIs DEF TablesInv
    <3> QED
      BY <3>2, <3>4
  <2>14. Rewrite(e, row, U, A, D, N)
    <3>1. row.status \in {"active", "voided"}
      BY <2>2, <2>5
    <3>2. /\ \A i \in D : inst'[i] = Gone
          /\ \A i \in Insts \ (D \cup N) : inst'[i] = inst[i]
      BY <2>10, <2>11, <2>12
    <3> HIDE DEF U, A, D, N
    <3> QED
      BY <1>1, <2>1, <2>2, <2>5, <2>7, <2>8, <2>9, <2>10, <2>11, <2>13, <3>1, <3>2 DEF Rewrite
  <2>15. PlanRight(e)'
    <3>1. exp'[e] = row
      BY <1>0, <2>1, <2>2 DEF TablesTyped
    <3>2. CASE q.void
      BY <2>5, <3>1, <3>2 DEF PlanRight
    <3>3. CASE ~q.void /\ ~PlanChanged(q)
      <4>1. inst' = inst
        BY <2>1, <3>3 DEF rest
      <4>2. Plan(e)' = Plan(e)
        BY <4>1 DEF Plan, Planned
      <4>3. PlanRight(e) /\ row.shape = s /\ Terms(exp[e].shape) = Terms(s)
        BY <2>2, <2>5, <3>3, PlanAddsUpIs DEF PlanChanged
      <4>4. \A r \in Shapes : Terms(r).method = r.method /\ Terms(r).count = r.count
                              /\ Terms(r).amount = r.amount
        BY DEF Terms, Shapes
      <4>5. exp[e].shape \in Shapes
        BY <1>0, <2>2, ExpFields
      <4>6. /\ s.method = exp[e].shape.method /\ s.count = exp[e].shape.count
            /\ s.amount = exp[e].shape.amount
        BY <2>2, <4>3, <4>4, <4>5
      <4> QED
        BY <2>2, <3>1, <4>1, <4>2, <4>3, <4>6, PlanKept
    <3>4. CASE ~q.void /\ PlanChanged(q)
      <4>1. \A i \in Plan(e) : i \in D
        <5> TAKE i \in Plan(e)
        <5>1. ~Touched(i) /\ ~Recorded(i)
          BY <2>1, <2>2, <3>4 DEF PlanLocked
        <5> QED
          BY <2>2, <3>4, <5>1, AllDeletable DEF Plan
      <4>2. \A i \in Insts : Planned(i)' /\ inst'[i].exp = e <=> i \in N
        <5> TAKE i \in Insts
        <5>1. CASE i \in N
          BY <2>11, <5>1 DEF Planned
        <5>2. CASE i \in D
          BY <2>10, <2>11, <2>12, <5>2, NoRows DEF Planned
        <5>3. CASE i \notin N /\ i \notin D
          <6>1. inst'[i] = inst[i]
            BY <2>10, <2>11, <5>3
          <6> QED
            BY <4>1, <5>3, <6>1 DEF Plan, Planned
        <5> QED
          BY <5>1, <5>2, <5>3
      <4>3. Plan(e)' = N
        <5>1. Plan(e)' = {i \in Insts : Planned(i)' /\ inst'[i].exp = e}
          BY DEF Plan
        <5> QED
          BY <2>11, <4>2, <5>1
      <4>4. row.shape = s /\ row.status = "active"
        BY <2>5, <3>4
      <4>5. CASE s.method = "card"
        <5>1. inst' = WithPlan(rest, e, s) /\ Plan(e)' = NewInsts(s) /\ Divisible(s) /\ Room(s.count)
          BY <2>1, <3>4, <4>3, <4>5
        <5>2. Terms(exp'[e].shape) = Terms(s) /\ exp'[e].shape \in Shapes
          BY <2>2, <3>1, <4>4
        <5> HIDE DEF s, e
        <5> QED
          BY <1>0, <2>2, <2>10, <4>5, <5>1, <5>2, NewPlanRight
      <4>6. CASE s.method # "card"
        <5>1. Plan(e)' = {}
          BY <4>3, <4>6
        <5> QED
          BY <3>1, <4>4, <4>6, <5>1 DEF PlanRight
      <4> QED
        BY <4>5, <4>6
    <3> QED
      BY <2>2, <3>2, <3>3, <3>4
  <2> HIDE DEF U, A, D, N
  <2> QED
    BY <2>14, <2>15, Rewrites
<1> QED
  BY <1>2, <1>3

-----------------------------------------------------------------------------
(* Payments of instalments: updateCardInstallment and                      *)
(* bulkPayCardInstallments.                                                *)

\* What is booked: a part of what remains of each instalment, under a new key of the
\* request.
Booking(w, part, keys, a, paid, E) ==
  /\ DOMAIN part \subseteq Insts /\ a \in Accs
  /\ \A i \in DOMAIN part :
       /\ Planned(i) /\ exp[inst[i].exp].status = "active" /\ inst[i].exp \in E
       /\ part[i] \in Nat \ {0} /\ paid[i] = Paid(i) /\ Paid(i) + part[i] <= inst[i].amount
       /\ keys[i] \in Keys /\ pay[keys[i]] = NoPay
       /\ keys[i] \in KeysOf(req[w]) /\ Drafted(req[w], keys[i]).insts = {i}
  /\ \A i, j \in DOMAIN part : keys[i] = keys[j] => i = j
  /\ ~Taken(part, keys, a) /\ Book(part, keys, a, paid)
  /\ UNCHANGED <<inactive, scene, draft>>

\* The rows that are written.
Booked(part, keys, a) ==
  /\ \A i \in DOMAIN part :
       /\ move[keys[i]] = NoMove /\ move'[keys[i]] = Wanted(i, part[i], a)
       /\ pay[keys[i]] = NoPay /\ pay'[keys[i]] = Payment(i, part[i])
       /\ inst'[i] = Settled(inst[i], Paid(i) + part[i])
  /\ \A k \in AnyKey : (\A i \in DOMAIN part : k # keys[i]) =>
       pay'[k] = pay[k] /\ move'[k] = move[k]
  /\ \A i \in Insts \ DOMAIN part : inst'[i] = inst[i]
  /\ exp' = exp /\ DOMAIN inst' = Insts /\ DOMAIN pay' = AnyKey /\ DOMAIN move' = AnyKey
  /\ pay' = [k \in DOMAIN pay' |-> pay'[k]] /\ move' = [k \in DOMAIN move' |-> move'[k]]
  /\ inst' = [i \in DOMAIN inst' |-> inst'[i]]

LEMMA BookedRows ==
  ASSUME TablesInv, NEW w, NEW part, NEW keys, NEW a, NEW paid, NEW E,
         Booking(w, part, keys, a, paid, E)
  PROVE  Booked(part, keys, a)
<1> DEFINE Used == {keys[i] : i \in DOMAIN part}
           by(k) == CHOOSE i \in DOMAIN part : keys[i] = k
<1>1. TablesTyped /\ InstsSound /\ Linked
  BY DEF TablesInv
<1>2. \A i \in DOMAIN part :
        /\ i \in Insts /\ Planned(i) /\ part[i] \in Nat /\ part[i] > 0 /\ paid[i] = Paid(i)
        /\ keys[i] \in Keys /\ keys[i] \in AnyKey /\ pay[keys[i]] = NoPay
  BY DEF Booking, AnyKey
<1>3. a \in Accs /\ ~Taken(part, keys, a) /\ Book(part, keys, a, paid)
      /\ \A i, j \in DOMAIN part : keys[i] = keys[j] => i = j
  BY DEF Booking
<1>4. \A i \in DOMAIN part : move[keys[i]] = NoMove
  <2> SUFFICES ASSUME NEW i \in DOMAIN part, move[keys[i]] # NoMove PROVE FALSE
    OBVIOUS
  <2>1. move[keys[i]] = Wanted(i, part[i], a)
    BY <1>3 DEF Taken
  <2>2. inst[i].exp \in Keys /\ inst[i].number > 0
    BY <1>1, <1>2 DEF InstsSound
  <2>3. move[keys[i]].text[2] = inst[i].number
    BY <1>1, <1>2, <1>3, <2>1, <2>2, WantedFields
  <2>4. move[keys[i]].text[2] # 0
    BY <2>2, <2>3
  <2>5. pay[keys[i]].moved
    BY <1>1, <1>2, <2>4 DEF Linked
  <2> QED
    BY <1>2, <2>5, NoRows
<1>5. /\ pay' = [k \in DOMAIN pay |-> IF k \in Used THEN Payment(by(k), part[by(k)]) ELSE pay[k]]
      /\ move' = [k \in DOMAIN move |-> IF k \in Used THEN Wanted(by(k), part[by(k)], a) ELSE move[k]]
      /\ inst' = [i \in Insts |->
                    IF i \in DOMAIN part THEN Settled(inst[i], paid[i] + part[i]) ELSE inst[i]]
      /\ exp' = exp
  BY <1>3 DEF Book
<1>6. \A i \in DOMAIN part : by(keys[i]) = i /\ keys[i] \in Used
  BY <1>3
<1>7. DOMAIN pay = AnyKey /\ DOMAIN move = AnyKey
  BY <1>1, Domains
<1> HIDE DEF by
<1>8. \A i \in DOMAIN part : /\ pay'[keys[i]] = Payment(i, part[i])
                             /\ move'[keys[i]] = Wanted(i, part[i], a)
  <2> TAKE i \in DOMAIN part
  <2> DEFINE k == keys[i]
  <2>1. k \in AnyKey /\ k \in Used /\ by(k) = i
    BY <1>2, <1>6
  <2> HIDE DEF k, Used
  <2>2. pay'[k] = Payment(by(k), part[by(k)]) /\ move'[k] = Wanted(by(k), part[by(k)], a)
    BY <1>5, <1>7, <2>1
  <2> QED
    BY <2>1, <2>2 DEF k
<1>9. \A k \in AnyKey : (\A i \in DOMAIN part : k # keys[i]) =>
        pay'[k] = pay[k] /\ move'[k] = move[k]
  BY <1>5, <1>7
<1>10. \A i \in DOMAIN part : inst'[i] = Settled(inst[i], Paid(i) + part[i])
  BY <1>2, <1>5
<1>11. /\ \A i \in Insts \ DOMAIN part : inst'[i] = inst[i]
       /\ DOMAIN inst' = Insts /\ DOMAIN pay' = AnyKey /\ DOMAIN move' = AnyKey
  BY <1>5, <1>7
<1>12. /\ pay' = [k \in DOMAIN pay' |-> pay'[k]] /\ move' = [k \in DOMAIN move' |-> move'[k]]
       /\ inst' = [i \in DOMAIN inst' |-> inst'[i]]
  BY <1>5
<1> QED
  BY <1>2, <1>4, <1>5, <1>8, <1>9, <1>10, <1>11, <1>12 DEF Booked

LEMMA BookedGrow ==
  ASSUME TablesInv, NEW w, NEW part, NEW keys, NEW a, NEW paid, NEW E,
         Booking(w, part, keys, a, paid, E), Booked(part, keys, a),
         NEW A, A = {keys[i] : i \in DOMAIN part}
  PROVE  MovesGrow({}, A) /\ PaysGrow({}, A) /\ TablesTyped'
<1>1. TablesTyped /\ InstsSound
  BY DEF TablesInv
<1>2. /\ DOMAIN part \subseteq Insts /\ a \in Accs
      /\ UNCHANGED <<inactive, scene, draft>>
  BY DEF Booking
<1>3. \A i \in DOMAIN part :
        /\ i \in Insts /\ Planned(i) /\ part[i] \in Nat /\ part[i] > 0
        /\ keys[i] \in AnyKey /\ inst[i].exp \in Keys
  BY <1>1 DEF Booking, AnyKey, InstsSound
<1>4. \A i \in DOMAIN part :
        /\ move'[keys[i]] \in MoveRows /\ move'[keys[i]] # NoMove
        /\ move'[keys[i]].of = None /\ move'[keys[i]].amount > 0
  <2> TAKE i \in DOMAIN part
  <2>1. move'[keys[i]] = Wanted(i, part[i], a)
    BY DEF Booked
  <2>2. /\ Wanted(i, part[i], a) \in MoveRows /\ Wanted(i, part[i], a).of = None
        /\ Wanted(i, part[i], a).amount = part[i]
    BY <1>1, <1>2, <1>3, WantedFields
  <2> QED
    BY <1>3, <2>1, <2>2, NoRows
<1>5. \A i \in DOMAIN part :
        /\ pay'[keys[i]] \in PayRows /\ pay'[keys[i]] # NoPay /\ pay'[keys[i]].of = None
        /\ pay'[keys[i]].amount > 0 /\ pay'[keys[i]].inst \in Insts
  <2> TAKE i \in DOMAIN part
  <2>1. pay'[keys[i]] = Payment(i, part[i])
    BY DEF Booked
  <2>2. /\ Payment(i, part[i]) \in PayRows /\ Payment(i, part[i]).of = None
        /\ Payment(i, part[i]).amount = part[i] /\ Payment(i, part[i]).inst = i
    BY <1>3, PaymentFields
  <2>3. i # 0 /\ NoPay.inst = 0
    BY <1>3, NoRows, BoundsAssumption DEF Insts
  <2> QED
    BY <1>3, <2>1, <2>2, <2>3
<1>6. \A i \in Insts : inst'[i] \in InstRows
  <2> TAKE i \in Insts
  <2>1. CASE i \in DOMAIN part
    <3>0. Paid(i) \in Int
      BY PaidIs DEF TablesInv
    <3>1. Paid(i) + part[i] \in Int
      BY <1>3, <2>1, <3>0
    <3> QED
      BY <1>1, <2>1, <3>1, SettledFields, InstFields DEF Booked
  <2>2. CASE i \notin DOMAIN part
    BY <1>1, <2>2, InstFields DEF Booked
  <2> QED
    BY <2>1, <2>2
<1>7. /\ \A k \in A : k \in AnyKey /\ \E i \in DOMAIN part : k = keys[i]
      /\ \A k \in AnyKey \ A : pay'[k] = pay[k] /\ move'[k] = move[k]
      /\ \A k \in A : pay[k] = NoPay /\ move[k] = NoMove
  BY <1>3 DEF Booked
<1>8. \A k \in AnyKey : pay[k] \in PayRows /\ move[k] \in MoveRows
  BY <1>1, PayFields, MoveFields
<1>9. \A k \in AnyKey : pay'[k] \in PayRows /\ move'[k] \in MoveRows
  BY <1>4, <1>5, <1>7, <1>8
<1>10. pay' \in [AnyKey -> PayRows] /\ move' \in [AnyKey -> MoveRows] /\ inst' \in [Insts -> InstRows]
  BY <1>6, <1>9 DEF Booked
<1>11. TablesTyped'
  BY <1>1, <1>2, <1>10 DEF TablesTyped, Booked
<1>12. IsFiniteSet(A)
  <2>1. IsFiniteSet(DOMAIN part)
    BY <1>2, InstsFinite
  <2>2. [i \in DOMAIN part |-> keys[i]] \in Surjection(DOMAIN part, A)
    BY DEF Surjection
  <2> QED
    BY <2>1, <2>2, FS_Surjection
<1>13. MovesGrow({}, A)
  <2>1. Kept(move, move', NoMove)
    BY <1>7 DEF Kept
  <2>2. \A j, k \in AnyKey : move[j] = NoMove /\ move[k] = NoMove
                             /\ move'[j].of = move'[k].of /\ move'[j].of # None => j = k
    BY <1>4, <1>7, NoRows
  <2> QED
    BY <1>4, <1>7, <1>10, <2>1, <2>2 DEF MovesGrow
<1>14. PaysGrow({}, A)
  <2>1. Kept(pay, pay', NoPay)
    BY <1>7 DEF Kept
  <2>2. \A j, k \in AnyKey : pay[j] = NoPay /\ pay[k] = NoPay
                             /\ pay'[j].of = pay'[k].of /\ pay'[j].of # None => j = k
    BY <1>5, <1>7, NoRows
  <2> QED
    BY <1>5, <1>7, <1>10, <1>12, <2>1, <2>2 DEF PaysGrow
<1> QED
  BY <1>11, <1>13, <1>14

\* What is paid after it.
LEMMA BookedPaid ==
  ASSUME TablesInv, NEW w, NEW part, NEW keys, NEW a, NEW paid, NEW E,
         Booking(w, part, keys, a, paid, E), Booked(part, keys, a),
         TablesTyped', FinitePays'
  PROVE  /\ \A i \in DOMAIN part :
              /\ Paid(i)' = Paid(i) + part[i] /\ inst[i].status = "planned" /\ inst[i].tx = None
              /\ Planned(i)' /\ inst'[i].exp = inst[i].exp /\ inst'[i].number = inst[i].number
              /\ inst'[i].amount = inst[i].amount /\ inst'[i].tx = None
              /\ inst'[i].version = inst[i].version + 1
              /\ inst'[i].status = IF Paid(i) + part[i] = inst[i].amount THEN "paid" ELSE "planned"
         /\ \A i \in Insts \ DOMAIN part :
              /\ inst'[i] = inst[i] /\ Paid(i)' = Paid(i) /\ History(i)' = History(i)
<1>1. TablesTyped /\ FinitePays /\ InstsSound /\ NeverOverpaid
  BY DEF TablesInv
<1>2. \A i \in DOMAIN part :
        /\ i \in Insts /\ Planned(i) /\ part[i] \in Nat /\ part[i] > 0
        /\ keys[i] \in AnyKey /\ Paid(i) + part[i] <= inst[i].amount
  BY DEF Booking, AnyKey
<1>3. \A i, j \in DOMAIN part : keys[i] = keys[j] => i = j
  BY DEF Booking
<1>4. /\ \A i \in DOMAIN part :
           /\ pay[keys[i]] = NoPay /\ pay'[keys[i]] = Payment(i, part[i])
           /\ pay'[keys[i]].inst = i /\ inst'[i] = Settled(inst[i], Paid(i) + part[i])
      /\ \A k \in AnyKey : (\A i \in DOMAIN part : k # keys[i]) => pay'[k] = pay[k]
      /\ \A i \in Insts \ DOMAIN part : inst'[i] = inst[i]
  <2>1. \A i \in DOMAIN part : Payment(i, part[i]).inst = i
    BY <1>2, PaymentFields
  <2>2. /\ \A i \in DOMAIN part :
             /\ pay[keys[i]] = NoPay /\ pay'[keys[i]] = Payment(i, part[i])
             /\ inst'[i] = Settled(inst[i], Paid(i) + part[i])
        /\ \A k \in AnyKey : (\A i \in DOMAIN part : k # keys[i]) => pay'[k] = pay[k]
        /\ \A i \in Insts \ DOMAIN part : inst'[i] = inst[i]
    BY DEF Booked
  <2> QED
    BY <2>1, <2>2
<1>5. ASSUME NEW i \in DOMAIN part
      PROVE  /\ Paid(i)' = Paid(i) + part[i] /\ inst[i].status = "planned" /\ inst[i].tx = None
             /\ Planned(i)' /\ inst'[i].exp = inst[i].exp /\ inst'[i].number = inst[i].number
             /\ inst'[i].amount = inst[i].amount /\ inst'[i].tx = None
             /\ inst'[i].version = inst[i].version + 1
             /\ inst'[i].status = IF Paid(i) + part[i] = inst[i].amount THEN "paid" ELSE "planned"
  <2>1. i \in Insts /\ Planned(i) /\ Paid(i) \in Int /\ inst[i] \in InstRows /\ inst[i].amount \in Nat
    BY <1>1, <1>2, PaidIs, InstFields
  <2>2. inst[i].status = "paid" => Paid(i) = inst[i].amount
    BY <1>1, <2>1 DEF NeverOverpaid
  <2>3. inst[i].status = "planned"
    BY <1>2, <2>1, <2>2 DEF Planned
  <2>4. inst[i].tx = None
    BY <1>1, <2>1, <2>3 DEF InstsSound
  <2>5. Paid(i) + part[i] \in Int
    BY <1>2, <2>1
  <2>6. /\ inst'[i].exp = inst[i].exp /\ inst'[i].number = inst[i].number
        /\ inst'[i].amount = inst[i].amount /\ inst'[i].tx = inst[i].tx
        /\ inst'[i].version = inst[i].version + 1
        /\ inst'[i].status = IF Paid(i) + part[i] = inst[i].amount THEN "paid" ELSE "planned"
    <3> DEFINE r == inst[i]
               n == Paid(i) + part[i]
    <3>1. r \in InstRows /\ n \in Int /\ inst'[i] = Settled(r, n)
      BY <1>4, <2>1, <2>5
    <3> HIDE DEF r, n
    <3>2. /\ inst'[i].exp = r.exp /\ inst'[i].number = r.number
          /\ inst'[i].amount = r.amount /\ inst'[i].tx = r.tx
          /\ inst'[i].version = r.version + 1
          /\ inst'[i].status = IF n = r.amount THEN "paid" ELSE "planned"
      BY <3>1, SettledFields
    <3> QED
      BY <3>2 DEF r, n
  <2>7. \A j \in AnyKey \ {keys[i]} : pay[j].inst = i \/ pay'[j].inst = i => pay'[j] = pay[j]
    <3> SUFFICES ASSUME NEW j \in AnyKey \ {keys[i]}, pay[j].inst = i \/ pay'[j].inst = i
                 PROVE  pay'[j] = pay[j]
      OBVIOUS
    <3>1. CASE \E h \in DOMAIN part : j = keys[h]
      <4>1. PICK h \in DOMAIN part : j = keys[h]
        BY <3>1
      <4>2. pay'[j].inst = h /\ pay[j].inst = 0 /\ h # i
        BY <1>4, <4>1, NoRows
      <4>3. i # 0
        BY <2>1, BoundsAssumption DEF Insts
      <4> QED
        BY <4>2, <4>3
    <3>2. CASE ~ \E h \in DOMAIN part : j = keys[h]
      BY <1>4, <3>2
    <3> QED
      BY <3>1, <3>2
  <2>8. Paid(i)' = Paid(i) + part[i]
    BY <1>1, <1>2, <1>4, <2>1, <2>3, <2>7, PaidMore
  <2> QED
    BY <2>3, <2>4, <2>6, <2>8 DEF Planned
<1>6. ASSUME NEW i \in Insts \ DOMAIN part
      PROVE  inst'[i] = inst[i] /\ Paid(i)' = Paid(i) /\ History(i)' = History(i)
  <2>1. inst'[i] = inst[i]
    BY <1>4
  <2>2. \A k \in AnyKey : pay[k].inst = i \/ pay'[k].inst = i => pay'[k] = pay[k]
    <3> SUFFICES ASSUME NEW k \in AnyKey, pay[k].inst = i \/ pay'[k].inst = i
                 PROVE  pay'[k] = pay[k]
      OBVIOUS
    <3>1. CASE \E h \in DOMAIN part : k = keys[h]
      <4>1. PICK h \in DOMAIN part : k = keys[h]
        BY <3>1
      <4>2. pay'[k].inst = h /\ pay[k].inst = 0 /\ h # i
        BY <1>4, <4>1, NoRows
      <4>3. i # 0
        BY BoundsAssumption DEF Insts
      <4> QED
        BY <4>2, <4>3
    <3>2. CASE ~ \E h \in DOMAIN part : k = keys[h]
      BY <1>4, <3>2
    <3> QED
      BY <3>1, <3>2
  <2>3. inst'[i].status = inst[i].status /\ inst'[i].amount = inst[i].amount
    BY <2>1
  <2> QED
    BY <1>1, <2>1, <2>2, <2>3, PaidSame
<1> QED
  BY <1>5, <1>6

LEMMA BookedWritten ==
  ASSUME TablesInv, PlanAddsUp, DraftsSound, NEW w, NEW part, NEW keys, NEW a, NEW paid, NEW E,
         Booking(w, part, keys, a, paid, E)
  PROVE  Written(w, E) /\ Booked(part, keys, a)
<1> DEFINE A == {keys[i] : i \in DOMAIN part}
<1>0. /\ TablesTyped /\ FinitePays /\ PaysSound /\ MovesSound /\ Linked /\ InstsSound
      /\ OldPaid /\ ExpsSound /\ Books /\ NeverOverpaid
  BY DEF TablesInv
<1>1. Booked(part, keys, a)
  BY BookedRows
<1>2. MovesGrow({}, A) /\ PaysGrow({}, A) /\ TablesTyped'
  BY <1>1, BookedGrow
<1>3. /\ a \in Accs /\ exp' = exp /\ UNCHANGED <<inactive, scene, draft>>
      /\ \A i \in DOMAIN part :
           /\ i \in Insts /\ Planned(i) /\ exp[inst[i].exp].status = "active"
           /\ inst[i].exp \in E /\ part[i] \in Nat /\ part[i] > 0
           /\ Paid(i) + part[i] <= inst[i].amount
           /\ keys[i] \in Keys /\ keys[i] \in AnyKey /\ keys[i] \notin Server
           /\ keys[i] \in KeysOf(req[w]) /\ Drafted(req[w], keys[i]).insts = {i}
  <2>1. exp' = exp
    BY <1>1 DEF Booked
  <2>2. /\ DOMAIN part \subseteq Insts /\ a \in Accs /\ UNCHANGED <<inactive, scene, draft>>
        /\ \A i \in DOMAIN part :
             /\ Planned(i) /\ exp[inst[i].exp].status = "active"
             /\ inst[i].exp \in E /\ part[i] \in Nat \ {0}
             /\ Paid(i) + part[i] <= inst[i].amount
             /\ keys[i] \in Keys
             /\ keys[i] \in KeysOf(req[w]) /\ Drafted(req[w], keys[i]).insts = {i}
    BY DEF Booking
  <2>3. \A k \in Keys : k \in AnyKey /\ k \notin Server
    BY KeysAssumption DEF AnyKey
  <2>4. \A n \in Nat \ {0} : n \in Nat /\ n > 0
    OBVIOUS
  <2> QED
    BY <2>1, <2>2, <2>3, <2>4
<1>4. \A i, j \in DOMAIN part : keys[i] = keys[j] => i = j
  BY DEF Booking
<1>5. /\ \A i \in DOMAIN part :
           /\ inst[i].exp \in Keys /\ inst[i].number > 0 /\ inst[i].number \in Nat
           /\ pay'[keys[i]].inst = i /\ pay'[keys[i]].amount = part[i]
           /\ pay'[keys[i]].of = None /\ pay'[keys[i]].moved /\ pay'[keys[i]] # NoPay
           /\ move'[keys[i]].amount = part[i] /\ move'[keys[i]].of = None
           /\ move'[keys[i]].text[2] = inst[i].number /\ move'[keys[i]] # NoMove
      /\ \A k \in AnyKey \ A : pay'[k] = pay[k] /\ move'[k] = move[k]
      /\ \A k \in A : pay[k] = NoPay /\ move[k] = NoMove
  <2>1. \A i \in DOMAIN part : inst[i].exp \in Keys /\ inst[i].number > 0 /\ inst[i].number \in Nat
    BY <1>0, <1>3, InstFields DEF InstsSound
  <2>2. \A i \in DOMAIN part :
          /\ pay'[keys[i]] = Payment(i, part[i]) /\ move'[keys[i]] = Wanted(i, part[i], a)
          /\ pay[keys[i]] = NoPay /\ move[keys[i]] = NoMove
    BY <1>1 DEF Booked
  <2>3. \A k \in AnyKey \ A : pay'[k] = pay[k] /\ move'[k] = move[k]
    BY <1>1 DEF Booked
  <2>4. \A i \in DOMAIN part :
          /\ Payment(i, part[i]).inst = i /\ Payment(i, part[i]).amount = part[i]
          /\ Payment(i, part[i]).of = None /\ Payment(i, part[i]).moved = TRUE
    <3> TAKE i \in DOMAIN part
    <3>1. i \in Insts /\ part[i] \in Nat
      BY <1>3
    <3> QED
      BY <3>1, PaymentFields
  <2>5. \A i \in DOMAIN part :
          /\ Wanted(i, part[i], a).amount = part[i] /\ Wanted(i, part[i], a).of = None
          /\ Wanted(i, part[i], a).text[2] = inst[i].number
    BY <1>0, <1>3, <2>1, WantedFields
  <2>6. \A i \in DOMAIN part : pay'[keys[i]] # NoPay /\ move'[keys[i]] # NoMove
    BY <1>3, <2>2, <2>4, <2>5, NoRows
  <2> QED
    BY <2>1, <2>2, <2>3, <2>4, <2>5, <2>6
<1>6. /\ MovesSound'
      /\ \A k \in AnyKey : Reversible(k)' <=> Reversible(k) \/ k \in A
  BY <1>0, <1>2, MovesGrown
<1>7. /\ PaysSound' /\ FinitePays'
      /\ \A k \in AnyKey : Active(k)' <=> Active(k) \/ k \in A
  BY <1>0, <1>2, PaysGrown
<1>8. /\ \A i \in DOMAIN part :
           /\ Paid(i)' = Paid(i) + part[i] /\ inst[i].status = "planned" /\ inst[i].tx = None
           /\ Planned(i)' /\ inst'[i].exp = inst[i].exp /\ inst'[i].number = inst[i].number
           /\ inst'[i].amount = inst[i].amount /\ inst'[i].tx = None
           /\ inst'[i].version = inst[i].version + 1
           /\ inst'[i].status = IF Paid(i) + part[i] = inst[i].amount THEN "paid" ELSE "planned"
      /\ \A i \in Insts \ DOMAIN part :
           /\ inst'[i] = inst[i] /\ Paid(i)' = Paid(i) /\ History(i)' = History(i)
  BY <1>1, <1>2, <1>7, BookedPaid
<1>9. /\ \A i \in Insts : Planned(i)' <=> Planned(i)
      /\ \A i \in Insts : /\ inst'[i].exp = inst[i].exp /\ inst'[i].number = inst[i].number
                          /\ inst'[i].amount = inst[i].amount /\ inst'[i].tx = inst[i].tx
                          /\ inst[i].tx # None => i \notin DOMAIN part
  <2> SUFFICES ASSUME NEW i \in Insts
               PROVE  /\ Planned(i)' <=> Planned(i)
                      /\ inst'[i].exp = inst[i].exp /\ inst'[i].number = inst[i].number
                      /\ inst'[i].amount = inst[i].amount /\ inst'[i].tx = inst[i].tx
                      /\ inst[i].tx # None => i \notin DOMAIN part
    OBVIOUS
  <2>1. CASE i \in DOMAIN part
    BY <1>3, <1>8, <2>1
  <2>2. CASE i \notin DOMAIN part
    BY <1>8, <2>2 DEF Planned
  <2> QED
    BY <2>1, <2>2
<1>10. \A k \in AnyKey : /\ pay[k] # NoPay => pay'[k] = pay[k] /\ k \notin A
                         /\ move[k] # NoMove => move'[k] = move[k] /\ k \notin A
  BY <1>5
<1>11. Linked'
  <2>1. ASSUME NEW k \in AnyKey, pay'[k].moved
        PROVE  /\ move'[k] # NoMove /\ move'[k].amount = pay'[k].amount
               /\ move'[k].text[2] > 0 /\ move'[k].of = pay'[k].of
    <3>1. CASE k \in A
      BY <1>5, <3>1
    <3>2. CASE k \notin A
      BY <1>0, <1>5, <2>1, <3>2 DEF Linked
    <3> QED
      BY <3>1, <3>2
  <2>2. ASSUME NEW k \in Keys, move'[k] # NoMove
        PROVE  IF move'[k].text[2] = 0 THEN exp'[k] # NoExp ELSE pay'[k].moved
    <3>1. CASE k \in A
      BY <1>5, <3>1
    <3>2. CASE k \notin A
      <4>1. k \in AnyKey
        BY DEF AnyKey
      <4> QED
        BY <1>0, <1>3, <1>5, <2>2, <3>2, <4>1 DEF Linked
    <3> QED
      BY <3>1, <3>2
  <2> QED
    BY <2>1, <2>2 DEF Linked
<1>12. InstsSound'
  <2>1. \A i \in Insts : ~Planned(i)' => inst'[i] \in {NoInst, Gone}
    BY <1>0, <1>3, <1>8, <1>9 DEF InstsSound
  <2>2. OldKey \in AnyKey /\ OldKey \notin A
    BY <1>3, BoundsAssumption DEF OldKey, AnyKey, Server
  <2>3. \A i \in Insts : Planned(i)' =>
          /\ inst'[i].exp \in Keys /\ exp'[inst'[i].exp] # NoExp
          /\ inst'[i].amount > 0 /\ inst'[i].number > 0
          /\ inst'[i].tx # None => inst'[i].status = "paid" /\ move'[OldKey].text[2] > 0
    <3> SUFFICES ASSUME NEW i \in Insts, Planned(i)'
                 PROVE  /\ inst'[i].exp \in Keys /\ exp'[inst'[i].exp] # NoExp
                        /\ inst'[i].amount > 0 /\ inst'[i].number > 0
                        /\ inst'[i].tx # None =>
                             inst'[i].status = "paid" /\ move'[OldKey].text[2] > 0
      OBVIOUS
    <3>1. Planned(i) /\ move'[OldKey] = move[OldKey]
      BY <1>5, <1>9, <2>2
    <3>2. inst'[i].tx # None => inst'[i] = inst[i]
      BY <1>8, <1>9
    <3> QED
      BY <1>0, <1>3, <1>9, <3>1, <3>2 DEF InstsSound
  <2>4. \A i, j \in Insts : inst'[i].tx = inst'[j].tx /\ inst'[i].tx # None => i = j
    BY <1>0, <1>9 DEF InstsSound
  <2>5. \A k \in AnyKey : pay'[k] # NoPay => inst'[pay'[k].inst].status \in {"planned", "paid"}
    <3> SUFFICES ASSUME NEW k \in AnyKey, pay'[k] # NoPay
                 PROVE  inst'[pay'[k].inst].status \in {"planned", "paid"}
      OBVIOUS
    <3>1. CASE k \in A
      BY <1>5, <1>8, <3>1
    <3>2. CASE k \notin A
      <4>1. pay'[k] = pay[k] /\ pay[k].inst \in Insts /\ Planned(pay[k].inst)
        BY <1>0, <1>5, <3>2 DEF InstsSound, PaysSound
      <4> QED
        BY <1>9, <4>1 DEF Planned
    <3> QED
      BY <3>1, <3>2
  <2> QED
    BY <2>1, <2>3, <2>4, <2>5 DEF InstsSound, Planned
<1>13. ExpsSound'
  <2>1. \A k \in Keys : exp[k].tx # None => move'[exp[k].tx] = move[exp[k].tx]
    BY <1>0, <1>10, ExpFields DEF ExpsSound
  <2> QED
    BY <1>0, <1>3, <2>1 DEF ExpsSound, MovementShape
<1>14. Books'
  <2>1. \A k \in AnyKey : ExpenseOwns(k)' <=> ExpenseOwns(k)
    BY <1>3 DEF ExpenseOwns
  <2>2. \A k \in AnyKey : PaymentOwns(k) <=> pay[k].moved /\ Active(k)
    BY NoRows DEF PaymentOwns, Active
  <2>3. \A k \in AnyKey : PaymentOwns(k)' <=> pay'[k].moved /\ Active(k)'
    BY NoRows DEF PaymentOwns, Active
  <2>4. \A k \in AnyKey : PaymentOwns(k)' <=> PaymentOwns(k) \/ k \in A
    <3> TAKE k \in AnyKey
    <3>1. CASE k \in A
      BY <1>5, <1>7, <2>3, <3>1
    <3>2. CASE k \notin A
      BY <1>5, <1>7, <2>2, <2>3, <3>2
    <3> QED
      BY <3>1, <3>2
  <2>5. \A k \in AnyKey : InstOwns(k)' <=> InstOwns(k)
    BY <1>8, <1>9, NoneApart DEF InstOwns
  <2>6. \A k \in AnyKey : Owned(k)' <=> Owned(k) \/ k \in A
    BY <2>1, <2>4, <2>5 DEF Owned
  <2>7. \A k \in AnyKey : Reversible(k)' => Owned(k)' \/ Apart(k)'
    <3> SUFFICES ASSUME NEW k \in AnyKey, Reversible(k)', k \notin A PROVE Owned(k)' \/ Apart(k)'
      BY <2>6
    <3>1. Owned(k) \/ Apart(k)
      BY <1>0, <1>6 DEF Books
    <3>2. Apart(k) => Apart(k)'
      BY <1>5 DEF Apart
    <3> QED
      BY <2>6, <3>1, <3>2
  <2>8. \A k \in AnyKey : Owned(k)' => Reversible(k)'
    BY <1>0, <1>6, <2>6 DEF Books
  <2>9. \A k \in Keys : exp'[k].status = "active" /\ exp'[k].tx # None =>
          move'[exp'[k].tx] = Spent(exp'[k].shape)
    <3> SUFFICES ASSUME NEW k \in Keys, exp[k].status = "active", exp[k].tx # None
                 PROVE  move'[exp[k].tx] = Spent(exp[k].shape)
      BY <1>3
    <3>1. exp[k].tx \in AnyKey /\ move[exp[k].tx] # NoMove
      BY <1>0, ExpFields DEF ExpsSound
    <3> QED
      BY <1>0, <1>10, <3>1 DEF Books
  <2>10. \A i \in Insts : inst'[i].tx # None /\ History(i)' # {} => ActivePayments(i)' # {}
    <3> SUFFICES ASSUME NEW i \in Insts, inst'[i].tx # None, History(i)' # {}
                 PROVE  ActivePayments(i)' # {}
      OBVIOUS
    <3>1. i \notin DOMAIN part /\ inst[i].tx # None /\ History(i)' = History(i)
      BY <1>8, <1>9
    <3>2. PICK k \in History(i) : pay[k].of = None /\ ~PayReversed(k)
      BY <1>0, <3>1 DEF Books, ActivePayments
    <3>3. k \in AnyKey /\ pay[k] # NoPay
      BY <1>0, <3>2, HistoryFinite
    <3>4. Active(k)' /\ k \in History(i)'
      BY <1>7, <3>1, <3>2, <3>3 DEF Active
    <3> QED
      BY <3>4 DEF Active, ActivePayments
  <2>11. \A t : Spent(t)' = Spent(t)
    BY DEF Spent
  <2> QED
    BY <2>7, <2>8, <2>9, <2>10, <2>11 DEF Books
<1>15. NeverOverpaid'
  <2> SUFFICES ASSUME NEW i \in Insts, Planned(i)'
               PROVE  /\ Paid(i)' \in 0..(IF exp'[inst'[i].exp].status = "voided" THEN 0
                                          ELSE inst'[i].amount)
                      /\ inst'[i].status = "paid" <=> Paid(i)' = inst'[i].amount
    BY DEF NeverOverpaid
  <2>1. /\ Planned(i) /\ inst[i].amount \in Nat /\ Paid(i) \in Int
        /\ Paid(i) \in 0..(IF exp[inst[i].exp].status = "voided" THEN 0 ELSE inst[i].amount)
        /\ inst[i].status = "paid" <=> Paid(i) = inst[i].amount
    BY <1>0, <1>9, PaidIs, InstFields DEF NeverOverpaid
  <2>2. CASE i \in DOMAIN part
    BY <1>3, <1>8, <2>1, <2>2
  <2>3. CASE i \notin DOMAIN part
    BY <1>3, <1>8, <2>1, <2>3
  <2> QED
    BY <2>2, <2>3
<1>16. PlanAddsUp'
  <2>1. \A k \in Keys : PlanRight(k)'
    <3> TAKE k \in Keys
    <3>1. PlanRight(k) /\ exp'[k] = exp[k]
      BY <1>3, PlanAddsUpIs
    <3>2. Plan(k)' = Plan(k)
      BY <1>9 DEF Plan
    <3>3. \A i \in Plan(k) : inst'[i].number = inst[i].number /\ inst'[i].amount = inst[i].amount
      BY <1>9 DEF Plan
    <3> QED
      BY <3>1, <3>2, <3>3, PlanKept
  <2> QED
    BY <2>1, PlanAddsUpIsNext
<1>17. DraftsSound'
  <2> SUFFICES ASSUME NEW k \in Keys, exp[k] # NoExp
               PROVE  /\ draft[k].kind = "create"
                      /\ draft[k].shape.acc # None => move'[k] # NoMove
    BY <1>3 DEF DraftsSound
  <2>1. k \in AnyKey
    BY DEF AnyKey
  <2> QED
    BY <1>10, <2>1 DEF DraftsSound
<1>18. Effect(w, E)
  <2>1. \A i \in Insts : Planned(i) /\ inst[i].exp \notin E =>
          inst'[i] = inst[i] /\ Paid(i)' = Paid(i) /\ History(i)' = History(i)
    BY <1>3, <1>8
  <2>2. \A i \in Insts : Planned(i) =>
          \/ inst'[i].status = "gone"
          \/ /\ Planned(i)' /\ inst'[i].exp = inst[i].exp
             /\ \/ inst'[i].version > inst[i].version
                \/ inst'[i].version = inst[i].version /\ Paid(i)' = Paid(i)
    <3> SUFFICES ASSUME NEW i \in Insts, Planned(i)
                 PROVE  \/ inst'[i].version > inst[i].version
                        \/ inst'[i].version = inst[i].version /\ Paid(i)' = Paid(i)
      BY <1>9
    <3>1. inst[i].version \in Nat
      BY <1>0, InstFields
    <3> QED
      BY <1>8, <3>1
  <2>3. \A i \in Insts : inst[i].status = "gone" => inst'[i].status = "gone"
    BY <1>3, <1>8
  <2>4. \A i \in Insts : Planned(i)' /\ ~Planned(i) => inst'[i].exp \in E
    BY <1>9
  <2>5. \A k \in Keys : pay[k] = NoPay /\ pay'[k] # NoPay =>
          /\ k \in KeysOf(req[w]) /\ Drafted(req[w], k).insts = {pay'[k].inst}
          /\ inst[pay'[k].inst].exp \in E
    <3> SUFFICES ASSUME NEW k \in Keys, k \in A
                 PROVE  /\ k \in KeysOf(req[w]) /\ Drafted(req[w], k).insts = {pay'[k].inst}
                        /\ inst[pay'[k].inst].exp \in E
      BY <1>5 DEF AnyKey
    <3>1. PICK i \in DOMAIN part : k = keys[i]
      OBVIOUS
    <3> QED
      BY <1>3, <1>5, <3>1
  <2> QED
    BY <1>3, <2>1, <2>2, <2>3, <2>4, <2>5 DEF Effect
<1>19. RecordKept
  <2> SUFFICES ASSUME NEW k \in AnyKey, pay[k] # NoPay
               PROVE  pay'[k] = pay[k] /\ inst'[pay[k].inst].status \in {"planned", "paid"}
    BY DEF RecordKept
  <2>1. pay[k].inst \in Insts /\ Planned(pay[k].inst)
    BY <1>0 DEF InstsSound, PaysSound
  <2> QED
    BY <1>9, <1>10, <2>1 DEF Planned
<1>20. OldPaid'
  <2>1. OldKey \in AnyKey /\ OldKey \notin A
    BY <1>3, BoundsAssumption DEF OldKey, AnyKey, Server
  <2>2. pay'[OldKey] = pay[OldKey]
    BY <1>5, <2>1
  <2> QED
    BY <1>0, <1>9, <2>2 DEF OldPaid
<1> QED
  BY <1>1, <1>2, <1>6, <1>7, <1>11, <1>12, <1>13, <1>14, <1>15, <1>16, <1>17, <1>18, <1>19, <1>20
  DEF Written, TablesInv

LEMMA Pays ==
  ASSUME TablesInv, PlanAddsUp, DraftsSound, RequestsTyped, NEW w \in Workers,
         NEW q, q = req[w], Serves(w), Knows(w, q), PayInstallment(w)
  PROVE  /\ Written(w, {inst[q.inst].exp})
         /\ pc'[w] = "ok" => pay'[q.key] = Payment(q.inst, q.amount)
<1> DEFINE i == q.inst
           part == [j \in {i} |-> q.amount]
           keys == [j \in {i} |-> q.key]
           paid == [j \in {i} |-> seen[w]]
<1>1. draft' = draft /\ scene' = scene /\ inactive' = inactive
  BY DEF PayInstallment, Refuse, Commit, End, tables
<1>2. pc[w] = "write" /\ q.kind = "pay"
  BY DEF PayInstallment
<1>3. CASE Refuse(w)
  <2>1. UNCHANGED tables /\ pc'[w] = "refused"
    BY <1>3 DEF Refuse, End, Goto, RequestsTyped
  <2> QED
    BY <1>1, <2>1, Unwritten, EffectMore DEF Written
<1>4. CASE ~Taken(part, keys, q.acc) /\ Book(part, keys, q.acc, paid)
  <2>1. /\ i \in Insts /\ q.key \in Keys /\ q.amount \in Nat \ {0} /\ q.acc \in Accs
    BY <1>2 DEF Serves, Asks
  <2>2. /\ Planned(i) /\ exp[inst[i].exp].status = "active" /\ pay[q.key] = NoPay
        /\ seen[w] = Paid(i) /\ seen[w] + q.amount <= inst[i].amount
    BY <1>2 DEF Knows, KnowsPay, Paying
  <2>3. q.key \in KeysOf(req[w]) /\ Drafted(req[w], q.key).insts = {i}
    BY <1>2 DEF KeysOf, Drafted
  <2>4. DOMAIN part = {i} /\ part[i] = q.amount /\ keys[i] = q.key /\ paid[i] = seen[w]
    OBVIOUS
  <2> HIDE DEF part, keys, paid
  <2>5. Booking(w, part, keys, q.acc, paid, {inst[i].exp})
    BY <1>1, <1>4, <2>1, <2>2, <2>3, <2>4 DEF Booking
  <2>6. Written(w, {inst[i].exp}) /\ Booked(part, keys, q.acc)
    BY <2>5, BookedWritten
  <2> QED
    BY <2>4, <2>6 DEF Booked
<1>5. Refuse(w) \/ (~Taken(part, keys, q.acc) /\ Book(part, keys, q.acc, paid))
  BY DEF PayInstallment
<1> QED
  BY <1>3, <1>4, <1>5

-----------------------------------------------------------------------------
(* bulkPayCardInstallments: the amount goes to the instalments in order.   *)

LEMMA RemainingIs ==
  ASSUME TablesInv, NEW i \in Insts, Planned(i), exp[inst[i].exp].status = "active"
  PROVE  Remaining(i) \in Nat /\ Remaining(i) = inst[i].amount - Paid(i) /\ Paid(i) \in Nat
<1>1. inst[i].amount \in Nat /\ Paid(i) \in 0..inst[i].amount
  BY InstFields DEF TablesInv, NeverOverpaid
<1> QED
  BY <1>1 DEF Remaining

\* Each of D is given its f as long as n lasts; B[i] are those before i.
Gives(g, f, D, B, n) ==
  /\ \A i \in Nat : \A j : j \in B[i] <=> j \in D /\ j < i
  /\ \A i \in D : g[i] = IF n - SumOver(f, B[i]) <= 0 THEN 0
                       ELSE IF n - SumOver(f, B[i]) < f[i]
                       THEN n - SumOver(f, B[i]) ELSE f[i]
Total(g, f, S, n) == SumOver(g, S) = IF SumOver(f, S) < n THEN SumOver(f, S) ELSE n

\* What the first ones get together.
LEMMA Allocated ==
  ASSUME NEW f, NEW D, D \subseteq Insts, \A i \in D : f[i] \in Nat, NEW n \in Nat,
         NEW B, NEW g, Gives(g, f, D, B, n), NEW m \in Nat
  PROVE  Total(g, f, B[m], n)
<1> DEFINE Below(k) == B[k]
           Right(k) == Total(g, f, Below(k), n)
           Bad == {k \in Nat : ~Right(k)}
<1> SUFFICES ASSUME Bad # {} PROVE FALSE
  OBVIOUS
<1> USE DEF Gives, Total
<1>0. \A j \in D : j \in Nat /\ j > 0
  BY BoundsAssumption DEF Insts
<1>1. PICK k \in Bad : \A j \in Bad : k <= j
  BY LeastNat
<1>2. \A j \in Nat : IsFiniteSet(Below(j)) /\ SumOver(f, Below(j)) \in Nat
  <2> TAKE j \in Nat
  <2>1. IsFiniteSet(B[j]) /\ B[j] \subseteq D
    BY InstsFinite
  <2> QED
    BY <2>1, SumNat
<1>3. Right(0)
  <2>1. Below(0) = {}
    BY <1>0
  <2> QED
    BY <2>1, SumEmpty
<1>4. k \in Nat /\ k - 1 \in Nat /\ Right(k - 1)
  <2>1. k \in Nat /\ ~Right(k)
    BY <1>1
  <2>2. k # 0
    BY <1>3, <2>1
  <2>3. k - 1 \in Nat /\ ~(k <= k - 1)
    BY <2>1, <2>2
  <2> HIDE DEF Right
  <2> QED
    BY <1>1, <2>1, <2>3
<1>5. CASE k - 1 \notin D
  <2>1. \A j \in D : j < k <=> j < k - 1
    <3> TAKE j \in D
    <3>1. j \in Nat /\ j # k - 1
      BY <1>0, <1>5
    <3> QED
      BY <1>4, <3>1
  <2>2. Below(k) = Below(k - 1)
    BY <1>4, <2>1
  <2> HIDE DEF Below
  <2> QED
    BY <1>1, <1>4, <2>2
<1>6. CASE k - 1 \in D
  <2> DEFINE i == k - 1
             before == SumOver(f, Below(i))
  <2>1. Below(k) = Below(i) \cup {i} /\ i \notin Below(i) /\ Below(i) \subseteq D
    <3>1. \A j \in D : j < k <=> j < i \/ j = i
      BY <1>0, <1>4
    <3>2. ~(i < i) /\ i \in D
      BY <1>4, <1>6
    <3> QED
      BY <1>4, <3>1, <3>2
  <2>2. /\ g[i] = IF n - before <= 0 THEN 0 ELSE IF n - before < f[i] THEN n - before ELSE f[i]
        /\ f[i] \in Nat /\ before \in Nat
    BY <1>2, <1>4, <1>6
  <2>3. \A j \in D : g[j] \in Int
    <3> TAKE j \in D
    <3> DEFINE b == SumOver(f, Below(j))
    <3>1. j \in Nat /\ f[j] \in Nat
      BY <1>0
    <3>2. b \in Nat
      BY <1>2, <3>1
    <3>3. g[j] = IF n - b <= 0 THEN 0 ELSE IF n - b < f[j] THEN n - b ELSE f[j]
      OBVIOUS
    <3> HIDE DEF b
    <3> QED
      BY <3>1, <3>2, <3>3
  <2>4. IsFiniteSet(Below(i))
    BY <1>2, <1>4
  <2> HIDE DEF Below
  <2>5. SumOver(f, Below(k)) = f[i] + before
    BY <1>6, <2>1, <2>4, SumAdd
  <2>6. SumOver(g, Below(k)) = g[i] + SumOver(g, Below(i))
    BY <1>6, <2>1, <2>3, <2>4, SumAdd
  <2>7. SumOver(g, Below(i)) = IF before < n THEN before ELSE n
    BY <1>4
  <2> HIDE DEF before, i
  <2>8. SumOver(g, Below(k)) = IF SumOver(f, Below(k)) < n THEN SumOver(f, Below(k)) ELSE n
    BY <2>2, <2>5, <2>6, <2>7
  <2> QED
    BY <1>1, <2>8
<1> QED
  BY <1>5, <1>6

LEMMA AmountIs ==
  \A q : IsFiniteSet(Done(q)) => AmountOf(q) = SumOver(PaidBy(q), Done(q))
<1> TAKE q
<1>1. Done(q) \subseteq DOMAIN q.keys
  BY DEF Done
<1> QED
  BY <1>1, AmountSum DEF AmountOf

LEMMA AmountIsNext ==
  (\A q : IsFiniteSet(Done(q)) => AmountOf(q) = SumOver(PaidBy(q), Done(q)))'
  BY AmountIs, PTL

\* All that was asked for is given, in parts that are no more than remains.
LEMMA AllAllocated ==
  ASSUME TablesInv, NEW q, DOMAIN q.keys \subseteq Insts, q.amount \in Nat,
         \A i \in DOMAIN q.keys : Planned(i) /\ exp[inst[i].exp].status = "active",
         q.amount <= SumOf(Remaining, DOMAIN q.keys)
  PROVE  /\ \A i \in DOMAIN q.keys : Allocation(q, i) \in Nat /\ Allocation(q, i) <= Remaining(i)
         /\ SumOver([i \in DOMAIN q.keys |-> Allocation(q, i)], DOMAIN q.keys) = q.amount
<1> DEFINE D == DOMAIN q.keys
           g == [i \in D |-> Allocation(q, i)]
           Before(i) == {j \in D : j < i}
<1>1. \A i \in D : i \in Insts /\ RemainingOf[i] = Remaining(i) /\ RemainingOf[i] \in Nat
  BY RemainingIs DEF RemainingOf
<1>2. \A i \in D : SumOf(Remaining, Before(i)) = SumOver(RemainingOf, Before(i))
  BY InstsFinite, RemainingSum
<1>3. SumOf(Remaining, D) = SumOver(RemainingOf, D)
  BY InstsFinite, RemainingSum
<1>4. \A i \in D : LET rest == q.amount - SumOver(RemainingOf, {j \in D : j < i}) IN
        g[i] = IF rest <= 0 THEN 0 ELSE IF rest < RemainingOf[i] THEN rest ELSE RemainingOf[i]
  BY <1>1, <1>2 DEF Allocation
<1>5. \A i \in D : Allocation(q, i) \in Nat /\ Allocation(q, i) <= Remaining(i)
  <2> TAKE i \in D
  <2> DEFINE b == SumOver(RemainingOf, Before(i))
  <2>1. b \in Nat
    <3>1. IsFiniteSet(Before(i)) /\ \A j \in Before(i) : RemainingOf[j] \in Nat
      BY <1>1, InstsFinite
    <3> QED
      BY <3>1, SumNat
  <2>2. g[i] = IF q.amount - b <= 0 THEN 0
               ELSE IF q.amount - b < RemainingOf[i] THEN q.amount - b ELSE RemainingOf[i]
    BY <1>4
  <2>3. g[i] = Allocation(q, i) /\ RemainingOf[i] = Remaining(i) /\ RemainingOf[i] \in Nat
    BY <1>1
  <2> HIDE DEF g, b
  <2> QED
    BY <2>1, <2>2, <2>3
<1>6. MaxInst + 1 \in Nat /\ {j \in D : j < MaxInst + 1} = D
  BY BoundsAssumption DEF Insts
<1> HIDE DEF g
<1>7. SumOver(g, D) = IF SumOver(RemainingOf, D) < q.amount THEN SumOver(RemainingOf, D)
                      ELSE q.amount
  <2> DEFINE m == MaxInst + 1
             f == RemainingOf
             n == q.amount
             B == [i \in Nat |-> Before(i)]
  <2>1. m \in Nat /\ D \subseteq Insts /\ n \in Nat /\ \A i \in D : f[i] \in Nat
    BY <1>1, <1>6
  <2>2. \A i \in Nat : \A j : j \in B[i] <=> j \in D /\ j < i
    OBVIOUS
  <2>3. \A i \in D : i \in Nat /\ B[i] = {j \in D : j < i}
    BY <1>1, BoundsAssumption DEF Insts
  <2>4. \A i \in D : g[i] = IF n - SumOver(f, B[i]) <= 0 THEN 0
                           ELSE IF n - SumOver(f, B[i]) < f[i]
                           THEN n - SumOver(f, B[i]) ELSE f[i]
    BY <1>4, <2>3
  <2>5. B[m] = D
    BY <1>6
  <2>6. Gives(g, f, D, B, n)
    BY <2>2, <2>4 DEF Gives
  <2> HIDE DEF m, f, n, B, D
  <2>7. Total(g, f, B[m], n)
    BY <2>1, <2>6, Allocated
  <2> QED
    BY <2>5, <2>7 DEF f, n, Total
<1>8. SumOver(RemainingOf, D) \in Nat
  <2>1. IsFiniteSet(D)
    BY InstsFinite
  <2> QED
    BY <1>1, <2>1, SumNat
<1>9. SumOver(g, D) = q.amount
  BY <1>3, <1>7, <1>8
<1> QED
  BY <1>5, <1>9 DEF g

LEMMA BulkPays ==
  ASSUME TablesInv, PlanAddsUp, DraftsSound, RequestsTyped, NEW w \in Workers,
         NEW q, q = req[w], Serves(w), Knows(w, q), BulkPay(w)
  PROVE  /\ Written(w, {inst[i].exp : i \in DOMAIN q.keys})
         /\ pc'[w] = "ok" => AmountOf(q)' = q.amount
<1> DEFINE D == DOMAIN q.keys
           P == {j \in D : Allocation(q, j) > 0}
           part == [i \in P |-> Allocation(q, i)]
           paid == [i \in P |-> Paid(i)]
           E == {inst[i].exp : i \in D}
           g == [i \in D |-> Allocation(q, i)]
<1>1. draft' = draft /\ scene' = scene /\ inactive' = inactive
  BY DEF BulkPay, Refuse, Commit, End, tables
<1>2. pc[w] = "write" /\ q.kind = "bulk"
  BY DEF BulkPay
<1>3. CASE Refuse(w)
  <2>1. UNCHANGED tables /\ pc'[w] = "refused"
    BY <1>3 DEF Refuse, End, Goto, RequestsTyped
  <2> QED
    BY <1>1, <2>1, Unwritten, EffectMore DEF Written
<1>4. CASE ~Taken(part, q.keys, q.acc) /\ Book(part, q.keys, q.acc, paid)
  <2>1. /\ D \subseteq Insts /\ q.keys \in [D -> Keys] /\ q.amount \in Nat /\ q.acc \in Accs
        /\ \A i, j \in D : q.keys[i] = q.keys[j] => i = j
    BY <1>2 DEF Serves, Asks
  <2>2. /\ \A i \in D : /\ Planned(i) /\ exp[inst[i].exp].status = "active"
                        /\ pay[q.keys[i]] = NoPay
        /\ q.amount <= SumOf(Remaining, D)
    BY <1>2 DEF Knows, KnowsBulk, Paying
  <2>3. /\ \A i \in D : Allocation(q, i) \in Nat /\ Allocation(q, i) <= Remaining(i)
        /\ SumOver(g, D) = q.amount
    BY <2>1, <2>2, AllAllocated
  <2>4. \A i \in D : q.keys[i] \in KeysOf(req[w]) /\ Drafted(req[w], q.keys[i]).insts = {i}
    <3> TAKE i \in D
    <3>1. q.keys[i] \in KeysOf(req[w])
      BY <1>2 DEF KeysOf
    <3>2. Drafted(req[w], q.keys[i]).insts = {j \in D : q.keys[j] = q.keys[i]}
      BY <1>2 DEF Drafted
    <3> QED
      BY <2>1, <3>1, <3>2
  <2>5. /\ DOMAIN part = P /\ P \subseteq D
        /\ \A i \in P : part[i] = Allocation(q, i) /\ part[i] \in Nat \ {0} /\ paid[i] = Paid(i)
    BY <2>3
  <2>6. \A i \in P : Paid(i) + part[i] <= inst[i].amount
    <3> TAKE i \in P
    <3>1. /\ Remaining(i) = inst[i].amount - Paid(i) /\ Paid(i) \in Nat /\ Remaining(i) \in Nat
          /\ inst[i].amount \in Nat
      BY <2>1, <2>2, RemainingIs, InstFields DEF TablesInv
    <3>2. part[i] \in Nat /\ part[i] <= Remaining(i)
      BY <2>3
    <3> HIDE DEF part
    <3> QED
      BY <3>1, <3>2
  <2>7. \A i \in P : i \in D /\ inst[i].exp \in E
    OBVIOUS
  <2> HIDE DEF part, paid, P, E
  <2>8. Booking(w, part, q.keys, q.acc, paid, E)
    BY <1>1, <1>4, <2>1, <2>2, <2>4, <2>5, <2>6, <2>7 DEF Booking
  <2>9. Written(w, E) /\ Booked(part, q.keys, q.acc)
    BY <2>8, BookedWritten
  <2>10. /\ \A i \in P : pay'[q.keys[i]] # NoPay /\ pay'[q.keys[i]].amount = g[i]
         /\ \A i \in D \ P : pay'[q.keys[i]] = NoPay /\ g[i] = 0
    <3>1. ASSUME NEW i \in P
          PROVE  pay'[q.keys[i]] # NoPay /\ pay'[q.keys[i]].amount = g[i]
      <4>1. pay'[q.keys[i]] = Payment(i, part[i]) /\ i \in Insts /\ part[i] \in Nat
        BY <2>1, <2>5, <2>9 DEF Booked
      <4>2. Payment(i, part[i]).inst = i /\ Payment(i, part[i]).amount = part[i]
        BY <4>1, PaymentFields
      <4>3. i # NoPay.inst
        BY <4>1, NoRows, BoundsAssumption DEF Insts
      <4> QED
        BY <2>5, <4>1, <4>2, <4>3
    <3>2. ASSUME NEW i \in D \ P
          PROVE  pay'[q.keys[i]] = NoPay /\ g[i] = 0
      <4>1. q.keys[i] \in AnyKey /\ \A j \in P : q.keys[i] # q.keys[j]
        BY <2>1, <2>5 DEF AnyKey
      <4>2. pay'[q.keys[i]] = NoPay
        BY <2>2, <2>5, <2>9, <4>1 DEF Booked
      <4>3. Allocation(q, i) \in Nat /\ ~(Allocation(q, i) > 0)
        BY <2>3, <3>2 DEF P
      <4> QED
        BY <4>2, <4>3
    <3> QED
      BY <3>1, <3>2
  <2>11. Done(q)' = P
    <3>1. Done(q)' = {i \in D : pay'[q.keys[i]] # NoPay}
      BY DEF Done, PayingFor
    <3> QED
      BY <2>5, <2>10, <3>1
  <2>12. IsFiniteSet(D) /\ IsFiniteSet(P)
    BY <2>1, <2>5, InstsFinite
  <2>13. SumOver(PaidBy(q)', P) = SumOver(g, P)
    <3>1. PaidBy(q)' = [i \in D |-> pay'[q.keys[i]].amount]
      BY DEF PaidBy
    <3>2. \A i \in P : PaidBy(q)'[i] = g[i]
      BY <2>5, <2>10, <3>1
    <3> QED
      BY <2>12, <3>2, SumSame
  <2>14. SumOver(g, D) = SumOver(g, P)
    <3>1. \A i \in D : g[i] \in Int
      BY <2>3
    <3> HIDE DEF g
    <3> QED
      BY <2>5, <2>10, <2>12, <3>1, SumNothing
  <2>15. AmountOf(q)' = SumOver(PaidBy(q)', Done(q)')
    BY <2>11, <2>12, AmountIsNext
  <2> QED
    BY <2>3, <2>9, <2>11, <2>13, <2>14, <2>15 DEF E
<1>5. Refuse(w) \/ (~Taken(part, q.keys, q.acc) /\ Book(part, q.keys, q.acc, paid))
  BY DEF BulkPay
<1> QED
  BY <1>3, <1>4, <1>5

-----------------------------------------------------------------------------
(* updateCardInstallment: an instalment is reopened.                       *)

\* What reopening instalment i does: of the movements those of U are reversed, of the
\* payments those of V.
Reopening(i, U, V) ==
  /\ i \in Insts /\ Planned(i) /\ exp[inst[i].exp].status = "active"
  /\ V = ActivePayments(i)
  /\ \/ V = {} /\ inst[i].tx # None /\ U = {inst[i].tx}
     \/ (V # {} \/ inst[i].tx = None) /\ U = {k \in V : pay[k].moved}
  /\ MovesGrow(U, {}) /\ PaysGrow(V, {})
  /\ \A k \in Keys : pay'[k] = pay[k] /\ move'[k] = move[k]
  /\ pay'[OldKey] # NoPay => pay'[OldKey] = pay[OldKey]
  /\ \A k \in AnyKey : pay[k] = NoPay /\ pay'[k] # NoPay =>
       /\ k \in Server /\ pay'[k].of \in V /\ pay'[k] = Reversal(pay[pay'[k].of], pay'[k].of)
       /\ pay'[k].moved => move'[k] = Reversal(move[pay'[k].of], pay'[k].of)
  /\ inst' = [inst EXCEPT ![i] = Reopened(@)] /\ exp' = exp
  /\ UNCHANGED <<inactive, scene, draft>>

LEMMA ReopensRows ==
  ASSUME TablesInv, NEW w \in Workers, Serves(w), Knows(w, req[w]),
         ReopenInstallment(w), ~Refuse(w)
  PROVE  \E U, V : Reopening(req[w].inst, U, V)
<1> DEFINE q == req[w]
           i == q.inst
           T == Undone(i)
           u == inst[i].tx
           own == T = {} /\ u # None
           first == NextKey
           last == first + (IF own THEN 1 ELSE Cardinality(T)) - 1
           Ks == first..last
           S == IF own THEN {u} ELSE T
           U == IF own THEN {u} ELSE {k \in T : pay[k].moved}
           V == T
<1>0. TablesTyped /\ PaysSound /\ Linked /\ InstsSound
  BY DEF TablesInv
<1>1. /\ pc[w] = "write" /\ q.kind = "reopen"
      /\ \A k \in T : pay[k].moved => Reversible(k)
      /\ own => Reversible(u)
      /\ last <= LastKey
      /\ inst' = [inst EXCEPT ![i] = Reopened(@)] /\ exp' = exp
      /\ UNCHANGED <<inactive, scene, draft>>
  BY DEF ReopenInstallment, Commit, End
<1>2. PICK of \in Bijection(Ks, S) :
        /\ pay' = [k \in DOMAIN pay |->
                      IF k \in DOMAIN of /\ ~own THEN Reversal(pay[of[k]], of[k]) ELSE pay[k]]
        /\ move' = [k \in DOMAIN move |->
                      IF k \in DOMAIN of /\ (own \/ pay[of[k]].moved)
                      THEN Reversal(move[of[k]], of[k]) ELSE move[k]]
  BY DEF ReopenInstallment
<1>3. i \in Insts /\ Planned(i) /\ exp[inst[i].exp].status = "active"
  BY <1>1 DEF Serves, Asks, Knows, Paying
<1>4. /\ DOMAIN of = Ks /\ of \in [Ks -> S]
      /\ \A j, k \in Ks : of[j] = of[k] => j = k
      /\ \A t \in S : \E k \in Ks : of[k] = t
  BY <1>2 DEF Bijection, Injection, Surjection, IsInjective
<1>5. \A k \in Ks : /\ k \in Server \ {OldKey} /\ k \in AnyKey /\ k \notin Keys
                    /\ move[k] = NoMove /\ pay[k] = NoPay
  <2>1. scene \in DOMAIN Scenes
    BY <1>0 DEF TablesTyped
  <2> SUFFICES ASSUME NEW k \in Ks PROVE k \in NextKey..LastKey
    BY <2>1, FreshKeys
  <2>2. NextKey \in Nat /\ LastKey \in Nat
    BY <2>1, NextKeyFree, LastKeyType, BoundsAssumption DEF Server
  <2>3. k >= first /\ k <= last /\ k \in Int
    OBVIOUS
  <2>4. last \in Int
    <3>1. IsFiniteSet(T)
      BY <1>3, HistoryFinite, FS_Subset DEF TablesInv, Undone, ActivePayments
    <3>2. Cardinality(T) \in Nat
      BY <3>1, FS_CardinalityType
    <3> HIDE DEF T
    <3> QED
      BY <2>2, <3>2
  <2> HIDE DEF last, Ks
  <2> QED
    BY <1>1, <2>2, <2>3, <2>4
<1>6. \A k \in T : /\ k \in AnyKey /\ pay[k] \in PayRows /\ pay[k] # NoPay /\ pay[k].of = None
                   /\ pay[k].inst = i /\ Active(k) /\ k # None
  <2> TAKE k \in T
  <2>1. k \in History(i) /\ pay[k].of = None /\ ~PayReversed(k)
    BY DEF Undone, ActivePayments
  <2>2. k \in AnyKey /\ pay[k] # NoPay /\ pay[k].inst = i
    BY <1>3, <2>1, HistoryFinite DEF TablesInv, History
  <2> QED
    BY <1>0, <2>1, <2>2, PayFields, NoneApart DEF Active
<1>7. own => u \in AnyKey /\ u # None /\ Reversible(u)
  BY <1>0, <1>1, <1>3, InstFields, BoundsAssumption DEF OldKey, AnyKey, Server
<1>8. DOMAIN pay = AnyKey /\ DOMAIN move = AnyKey
  BY <1>0, Domains
<1>9. /\ \A k \in AnyKey : pay'[k] = IF k \in Ks /\ ~own THEN Reversal(pay[of[k]], of[k]) ELSE pay[k]
      /\ \A k \in AnyKey : move'[k] = IF k \in Ks /\ (own \/ pay[of[k]].moved)
                                     THEN Reversal(move[of[k]], of[k]) ELSE move[k]
      /\ DOMAIN pay' = AnyKey /\ pay' = [k \in DOMAIN pay' |-> pay'[k]]
      /\ DOMAIN move' = AnyKey /\ move' = [k \in DOMAIN move' |-> move'[k]]
  <2> HIDE DEF own, Ks
  <2> QED
    BY <1>2, <1>4, <1>8
<1> HIDE DEF Ks, first, last
<1>10. \A k \in Ks : ~own => /\ of[k] \in T /\ pay'[k] \in PayRows /\ pay'[k] = Reversal(pay[of[k]], of[k])
                             /\ pay'[k].of = of[k] /\ pay'[k].moved = pay[of[k]].moved
                             /\ pay'[k] # NoPay
  <2> SUFFICES ASSUME NEW k \in Ks, ~own
               PROVE  /\ of[k] \in T /\ pay'[k] \in PayRows /\ pay'[k] = Reversal(pay[of[k]], of[k])
                      /\ pay'[k].of = of[k] /\ pay'[k].moved = pay[of[k]].moved
                      /\ pay'[k] # NoPay
    OBVIOUS
  <2> HIDE DEF own
  <2>1. of[k] \in T /\ pay'[k] = Reversal(pay[of[k]], of[k])
    BY <1>4, <1>5, <1>9
  <2>2. of[k] \in AnyKey /\ pay[of[k]] \in PayRows /\ of[k] # None
    BY <1>6, <2>1
  <2> QED
    BY <2>1, <2>2, PayReversal, NoRows
<1>11. /\ \A k \in U : k \in AnyKey /\ Reversible(k) /\ k \in S /\ k # None
       /\ \A k \in Ks : of[k] \in U => /\ move'[k] \in MoveRows /\ move'[k] = Reversal(move[of[k]], of[k])
                                       /\ move'[k].of = of[k] /\ move'[k] # NoMove
       /\ \A k \in Ks : of[k] \notin U => move'[k] = NoMove
  <2>1. \A k \in U : k \in AnyKey /\ Reversible(k) /\ k \in S /\ k # None
    BY <1>1, <1>6, <1>7
  <2>2. \A k \in Ks : of[k] \in U <=> own \/ pay[of[k]].moved
    BY <1>4
  <2> HIDE DEF U, S, own
  <2>3. \A k \in Ks : of[k] \notin U => move'[k] = NoMove
    BY <1>5, <1>9, <2>2
  <2>4. \A k \in Ks : of[k] \in U => move'[k] = Reversal(move[of[k]], of[k])
    BY <1>5, <1>9, <2>2
  <2>5. \A k \in Ks : of[k] \in U => /\ move'[k] \in MoveRows /\ move'[k].of = of[k] /\ move'[k] # NoMove
    <3> SUFFICES ASSUME NEW k \in Ks, of[k] \in U
                 PROVE  move'[k] \in MoveRows /\ move'[k].of = of[k] /\ move'[k] # NoMove
      OBVIOUS
    <3>1. of[k] \in AnyKey /\ move[of[k]] \in MoveRows /\ of[k] # None
      BY <1>0, <2>1, MoveFields
    <3> QED
      BY <2>4, <3>1, MoveReversal, NoRows
  <2> QED
    BY <2>1, <2>3, <2>4, <2>5
<1>12. \A k \in AnyKey \ Ks : pay'[k] = pay[k] /\ move'[k] = move[k]
  BY <1>9
<1>13. MovesGrow(U, {})
  <2>0. \A k \in AnyKey : move[k] \in MoveRows
    BY <1>0, MoveFields
  <2> HIDE DEF U, S, own
  <2>1. \A k \in AnyKey : move'[k] \in MoveRows
    BY <1>5, <1>11, <1>12, <2>0
  <2>2. move' \in [AnyKey -> MoveRows]
    BY <1>9, <2>1
  <2>3. Kept(move, move', NoMove)
    BY <1>5, <1>12 DEF Kept
  <2>4. \A v \in U : \E k \in AnyKey : move'[k].of = v
    BY <1>4, <1>5, <1>11
  <2>5. \A k \in AnyKey : move[k] = NoMove /\ move'[k] # NoMove =>
          k \in Server /\ k \in Ks /\ of[k] \in U /\ move'[k] = Reversal(move[of[k]], of[k])
    BY <1>5, <1>11, <1>12
  <2>6. \A j, k \in AnyKey : move[j] = NoMove /\ move[k] = NoMove
                             /\ move'[j].of = move'[k].of /\ move'[j].of # None => j = k
    <3> SUFFICES ASSUME NEW j \in AnyKey, NEW k \in AnyKey, move[j] = NoMove, move[k] = NoMove,
                        move'[j].of = move'[k].of, move'[j].of # None
                 PROVE  j = k
      OBVIOUS
    <3>1. move'[j] # NoMove /\ move'[k] # NoMove
      BY NoRows
    <3>2. j \in Ks /\ k \in Ks /\ of[j] = of[k]
      BY <1>11, <2>5, <3>1
    <3> QED
      BY <1>4, <3>2
  <2> QED
    BY <1>11, <2>2, <2>3, <2>4, <2>5, <2>6 DEF MovesGrow
<1>14. PaysGrow(V, {})
  <2>0. /\ \A k \in AnyKey : pay[k] \in PayRows
        /\ own => T = {}
    BY <1>0, PayFields
  <2>1. \A k \in Ks : own => pay'[k] = NoPay
    BY <1>5, <1>9
  <2>2. ~own => S = T
    OBVIOUS
  <2> HIDE DEF U, S, own, T
  <2>3. \A k \in AnyKey : pay'[k] \in PayRows
    BY <1>5, <1>10, <1>12, <2>0, <2>1, NoRows
  <2>4. pay' \in [AnyKey -> PayRows]
    BY <1>9, <2>3
  <2>5. Kept(pay, pay', NoPay)
    BY <1>5, <1>12 DEF Kept
  <2>6. \A v \in T : v \in AnyKey /\ Active(v) /\ \E k \in AnyKey : pay'[k].of = v
    BY <1>4, <1>5, <1>6, <1>10, <2>0, <2>2
  <2>7. \A k \in AnyKey : pay[k] = NoPay /\ pay'[k] # NoPay =>
          /\ k \in Server /\ k \in Ks /\ ~own /\ of[k] \in T
          /\ pay'[k] = Reversal(pay[of[k]], of[k]) /\ pay'[k].of = of[k]
    BY <1>5, <1>10, <1>12, <2>1
  <2>8. \A j, k \in AnyKey : pay[j] = NoPay /\ pay[k] = NoPay
                             /\ pay'[j].of = pay'[k].of /\ pay'[j].of # None => j = k
    <3> SUFFICES ASSUME NEW j \in AnyKey, NEW k \in AnyKey, pay[j] = NoPay, pay[k] = NoPay,
                        pay'[j].of = pay'[k].of, pay'[j].of # None
                 PROVE  j = k
      OBVIOUS
    <3>1. pay'[j] # NoPay /\ pay'[k] # NoPay
      BY NoRows
    <3>2. j \in Ks /\ k \in Ks /\ of[j] = of[k]
      BY <2>7, <3>1
    <3> QED
      BY <1>4, <3>2
  <2>9. IsFiniteSet({})
    BY FS_EmptySet
  <2> QED
    BY <2>4, <2>5, <2>6, <2>7, <2>8, <2>9 DEF PaysGrow
<1>15. \A k \in AnyKey : pay[k] = NoPay /\ pay'[k] # NoPay =>
         /\ k \in Server /\ pay'[k].of \in V /\ pay'[k] = Reversal(pay[pay'[k].of], pay'[k].of)
         /\ pay'[k].moved => move'[k] = Reversal(move[pay'[k].of], pay'[k].of)
  <2> SUFFICES ASSUME NEW k \in AnyKey, pay[k] = NoPay, pay'[k] # NoPay
               PROVE  /\ k \in Server /\ pay'[k].of \in V
                      /\ pay'[k] = Reversal(pay[pay'[k].of], pay'[k].of)
                      /\ pay'[k].moved => move'[k] = Reversal(move[pay'[k].of], pay'[k].of)
    OBVIOUS
  <2>1. k \in Ks /\ ~own
    BY <1>5, <1>9, <1>12
  <2>2. pay'[k].of = of[k] /\ of[k] \in T /\ pay'[k].moved = pay[of[k]].moved
        /\ pay'[k] = Reversal(pay[of[k]], of[k])
    BY <1>10, <2>1
  <2>3. pay'[k].moved => of[k] \in U
    BY <2>1, <2>2
  <2> HIDE DEF U, T, own
  <2> QED
    BY <1>5, <1>11, <2>1, <2>2, <2>3
<1>16. /\ \A k \in Keys : pay'[k] = pay[k] /\ move'[k] = move[k]
       /\ pay'[OldKey] # NoPay => pay'[OldKey] = pay[OldKey]
  <2>1. OldKey \in AnyKey /\ \A k \in Keys : k \in AnyKey /\ k \notin Ks
    BY <1>5, BoundsAssumption DEF OldKey, AnyKey, Server
  <2> QED
    BY <1>5, <1>12, <2>1
<1>17. \/ V = {} /\ inst[i].tx # None /\ U = {inst[i].tx}
       \/ (V # {} \/ inst[i].tx = None) /\ U = {k \in V : pay[k].moved}
  OBVIOUS
<1>18. V = ActivePayments(i)
  BY DEF Undone
<1> HIDE DEF U, V
<1>19. Reopening(i, U, V)
  BY <1>1, <1>3, <1>13, <1>14, <1>15, <1>16, <1>17, <1>18 DEF Reopening
<1> QED
  BY <1>19

\* Payments that are all taken back add up to nothing, in a form that holds of the next
\* state, too.
LEMMA NothingLeft ==
  TablesTyped /\ FinitePays /\ PaysSound =>
    \A i \in Insts : ActivePayments(i) = {} => SumOver(SignedOf, History(i)) = 0
  BY PaidNothing

LEMMA NothingLeftNext ==
  (TablesTyped /\ FinitePays /\ PaysSound =>
    \A i \in Insts : ActivePayments(i) = {} => SumOver(SignedOf, History(i)) = 0)'
  BY NothingLeft, PTL

LEMMA ReopensWritten ==
  ASSUME TablesInv, PlanAddsUp, DraftsSound, NEW w, NEW i, NEW U, NEW V, Reopening(i, U, V)
  PROVE  Written(w, {inst[i].exp})
<1> DEFINE u == inst[i].tx
<1>0. /\ TablesTyped /\ FinitePays /\ PaysSound /\ MovesSound /\ Linked /\ InstsSound
      /\ OldPaid /\ ExpsSound /\ Books /\ NeverOverpaid
  BY DEF TablesInv
<1>1. /\ i \in Insts /\ Planned(i) /\ exp[inst[i].exp].status = "active"
      /\ V = ActivePayments(i) /\ MovesGrow(U, {}) /\ PaysGrow(V, {})
      /\ inst' = [inst EXCEPT ![i] = Reopened(@)] /\ exp' = exp
      /\ UNCHANGED <<inactive, scene, draft>>
  BY DEF Reopening
<1>2. \/ V = {} /\ u # None /\ U = {u}
      \/ (V # {} \/ u = None) /\ U = {k \in V : pay[k].moved}
  BY DEF Reopening
<1>3. /\ \A k \in Keys : pay'[k] = pay[k] /\ move'[k] = move[k]
      /\ pay'[OldKey] # NoPay => pay'[OldKey] = pay[OldKey]
      /\ \A k \in AnyKey : pay[k] = NoPay /\ pay'[k] # NoPay =>
           /\ k \in Server /\ pay'[k].of \in V /\ pay'[k] = Reversal(pay[pay'[k].of], pay'[k].of)
           /\ pay'[k].moved => move'[k] = Reversal(move[pay'[k].of], pay'[k].of)
  BY DEF Reopening
<1>4. /\ \A k \in V : /\ k \in AnyKey /\ pay[k] \in PayRows /\ pay[k] # NoPay /\ pay[k].of = None
                      /\ pay[k].inst = i /\ Active(k) /\ k \in History(i) /\ k # None
  <2> SUFFICES ASSUME NEW k \in V
               PROVE  /\ k \in AnyKey /\ pay[k] \in PayRows /\ pay[k] # NoPay /\ pay[k].of = None
                      /\ pay[k].inst = i /\ Active(k) /\ k \in History(i) /\ k # None
    OBVIOUS
  <2>1. k \in History(i) /\ pay[k].of = None /\ ~PayReversed(k)
    BY <1>1 DEF ActivePayments
  <2>2. k \in AnyKey /\ pay[k] # NoPay /\ pay[k].inst = i
    BY <1>0, <1>1, <2>1, HistoryFinite DEF History
  <2> QED
    BY <1>0, <2>1, <2>2, PayFields, NoneApart DEF Active
<1>5. /\ MovesSound'
      /\ \A k \in AnyKey : Reversible(k)' <=> Reversible(k) /\ k \notin U
  BY <1>0, <1>1, MovesGrown
<1>6. /\ PaysSound' /\ FinitePays'
      /\ \A k \in AnyKey : Active(k)' <=> Active(k) /\ k \notin V
  BY <1>0, <1>1, PaysGrown
<1>7. /\ \A k \in AnyKey : move[k] # NoMove => move'[k] = move[k]
      /\ \A k \in AnyKey : pay[k] # NoPay => pay'[k] = pay[k]
  BY <1>1 DEF MovesGrow, PaysGrow, Kept
<1>8. /\ inst' \in [Insts -> InstRows] /\ \A j \in Insts \ {i} : inst'[j] = inst[j]
      /\ inst'[i].exp = inst[i].exp /\ inst'[i].number = inst[i].number
      /\ inst'[i].amount = inst[i].amount /\ inst'[i].tx = None
      /\ inst'[i].version = inst[i].version + 1 /\ inst'[i].status = "planned"
  <2> DEFINE r == inst[i]
             v == Reopened(r)
  <2>1. r \in InstRows
    BY <1>0, <1>1, InstFields
  <2> HIDE DEF r
  <2>2. /\ v \in InstRows /\ v.exp = r.exp /\ v.number = r.number /\ v.amount = r.amount
        /\ v.tx = None /\ v.version = r.version + 1 /\ v.status = "planned"
    BY <2>1, ReopenedFields
  <2> HIDE DEF v
  <2>3. inst'[i] = v /\ inst' \in [Insts -> InstRows] /\ \A j \in Insts \ {i} : inst'[j] = inst[j]
    BY <1>0, <1>1, <2>2 DEF TablesTyped, v, r
  <2> QED
    BY <2>2, <2>3 DEF r
<1>9. TablesTyped'
  <2>1. move' \in [AnyKey -> MoveRows] /\ pay' \in [AnyKey -> PayRows]
    BY <1>1 DEF MovesGrow, PaysGrow
  <2> QED
    BY <1>0, <1>1, <1>8, <2>1 DEF TablesTyped
<1>10. /\ \A j \in Insts : Planned(j)' <=> Planned(j)
       /\ \A j \in Insts : /\ inst'[j].exp = inst[j].exp /\ inst'[j].number = inst[j].number
                           /\ inst'[j].amount = inst[j].amount
                           /\ inst'[j].tx # None => j # i /\ inst'[j].tx = inst[j].tx
  <2> SUFFICES ASSUME NEW j \in Insts
               PROVE  /\ Planned(j)' <=> Planned(j)
                      /\ inst'[j].exp = inst[j].exp /\ inst'[j].number = inst[j].number
                      /\ inst'[j].amount = inst[j].amount
                      /\ inst'[j].tx # None => j # i /\ inst'[j].tx = inst[j].tx
    OBVIOUS
  <2>1. CASE j = i
    BY <1>1, <1>8, <2>1 DEF Planned
  <2>2. CASE j # i
    BY <1>8, <2>2 DEF Planned
  <2> QED
    BY <2>1, <2>2
<1>11. \A k \in AnyKey : pay'[k] # NoPay =>
         \/ pay[k] # NoPay /\ pay'[k] = pay[k]
         \/ /\ pay[k] = NoPay /\ k \in Server \ {OldKey} /\ pay'[k].of \in V
            /\ pay'[k].inst = i /\ pay'[k].amount = pay[pay'[k].of].amount
            /\ pay'[k].moved = pay[pay'[k].of].moved
            /\ pay'[k].moved => move'[k] = Reversal(move[pay'[k].of], pay'[k].of)
  <2> SUFFICES ASSUME NEW k \in AnyKey, pay'[k] # NoPay, pay[k] = NoPay
               PROVE  /\ k \in Server \ {OldKey} /\ pay'[k].of \in V
                      /\ pay'[k].inst = i /\ pay'[k].amount = pay[pay'[k].of].amount
                      /\ pay'[k].moved = pay[pay'[k].of].moved
                      /\ pay'[k].moved => move'[k] = Reversal(move[pay'[k].of], pay'[k].of)
    BY <1>7
  <2> DEFINE j == pay'[k].of
  <2>1. /\ k \in Server /\ j \in V /\ pay'[k] = Reversal(pay[j], j)
        /\ pay'[k].moved => move'[k] = Reversal(move[j], j)
    BY <1>3
  <2>2. k # OldKey
    BY <1>3
  <2> HIDE DEF j
  <2>3. pay[j] \in PayRows /\ j \in AnyKey /\ pay[j].inst = i
    BY <1>4, <2>1
  <2>4. pay'[k].inst = i /\ pay'[k].amount = pay[j].amount /\ pay'[k].moved = pay[j].moved
    BY <2>1, <2>3, PayReversal
  <2> QED
    BY <2>1, <2>2, <2>4 DEF j
<1>12. \A j \in Insts \ {i} : Paid(j)' = Paid(j) /\ History(j)' = History(j)
  <2> TAKE j \in Insts \ {i}
  <2>1. \A k \in V : pay[k].inst # j
    BY <1>4
  <2>2. \A k \in AnyKey : pay[k].inst = j \/ pay'[k].inst = j => pay'[k] = pay[k]
    BY <1>0, <1>1, <2>1, PaysElsewhere
  <2>3. inst'[j].status = inst[j].status /\ inst'[j].amount = inst[j].amount
    BY <1>8
  <2> QED
    BY <1>0, <1>6, <1>9, <2>2, <2>3, PaidSame
<1>13. Paid(i)' = 0
  <2>1. ActivePayments(i)' = {}
    <3> SUFFICES ASSUME NEW k \in ActivePayments(i)' PROVE FALSE
      OBVIOUS
    <3>1. k \in AnyKey /\ pay'[k].inst = i /\ pay'[k].of = None /\ ~PayReversed(k)'
      BY <1>9, DomainsNext DEF ActivePayments, History
    <3>2. pay'[k] # NoPay
      BY <1>1, <3>1, NoRows, BoundsAssumption DEF Insts
    <3>3. Active(k) /\ k \notin V
      BY <1>6, <3>1, <3>2 DEF Active
    <3>4. pay[k] # NoPay /\ pay'[k] = pay[k]
      BY <1>7, <3>1, <3>3 DEF Active
    <3>5. k \in ActivePayments(i)
      BY <1>0, <3>1, <3>3, <3>4, Domains DEF Active, ActivePayments, History
    <3> QED
      BY <1>1, <3>3, <3>5
  <2>2. SumOver(SignedOf', History(i)') = 0
    BY <1>1, <1>6, <1>9, <2>1, NothingLeftNext
  <2> QED
    BY <1>1, <1>6, <1>8, <1>9, <2>2, PaidFactsNext
<1>14. Linked'
  <2>1. ASSUME NEW k \in AnyKey, pay'[k].moved
        PROVE  /\ move'[k] # NoMove /\ move'[k].amount = pay'[k].amount
               /\ move'[k].text[2] > 0 /\ move'[k].of = pay'[k].of
    <3>0. pay'[k] # NoPay
      BY <2>1, NoRows
    <3>1. CASE pay[k] # NoPay
      <4>1. pay'[k] = pay[k]
        BY <1>7, <3>1
      <4>2. /\ move[k] # NoMove /\ move[k].amount = pay[k].amount
            /\ move[k].text[2] > 0 /\ move[k].of = pay[k].of
        BY <1>0, <2>1, <4>1 DEF Linked
      <4> QED
        BY <1>7, <4>1, <4>2
    <3>2. CASE pay[k] = NoPay
      <4> DEFINE j == pay'[k].of
      <4>1. /\ j \in V /\ pay'[k].amount = pay[j].amount /\ pay[j].moved
            /\ move'[k] = Reversal(move[j], j)
        BY <1>11, <2>1, <3>0, <3>2
      <4> HIDE DEF j
      <4>2. j \in AnyKey /\ move[j] \in MoveRows /\ j # None
        BY <1>0, <1>4, <4>1, MoveFields
      <4>3. move[j].amount = pay[j].amount /\ move[j].text[2] > 0
        BY <1>0, <4>1, <4>2 DEF Linked
      <4>4. /\ move'[k].amount = move[j].amount /\ move'[k].text = move[j].text
            /\ move'[k].of = j
        BY <4>1, <4>2, MoveReversal
      <4>5. move'[k] # NoMove
        BY <4>2, <4>4, NoRows
      <4> QED
        BY <4>1, <4>3, <4>4, <4>5 DEF j
    <3> QED
      BY <3>1, <3>2
  <2>2. ASSUME NEW k \in Keys, move'[k] # NoMove
        PROVE  IF move'[k].text[2] = 0 THEN exp'[k] # NoExp ELSE pay'[k].moved
    BY <1>0, <1>1, <1>3, <2>2 DEF Linked
  <2> QED
    BY <2>1, <2>2 DEF Linked
<1>15. InstsSound'
  <2>1. \A j \in Insts : ~Planned(j)' => inst'[j] \in {NoInst, Gone}
    BY <1>0, <1>1, <1>8, <1>10 DEF InstsSound
  <2>2. OldKey \in AnyKey
    BY BoundsAssumption DEF OldKey, AnyKey, Server
  <2>3. ASSUME NEW j \in Insts, Planned(j)'
        PROVE  /\ inst'[j].exp \in Keys /\ exp'[inst'[j].exp] # NoExp
               /\ inst'[j].amount > 0 /\ inst'[j].number > 0
               /\ inst'[j].tx # None => inst'[j].status = "paid" /\ move'[OldKey].text[2] > 0
    <3>1. /\ Planned(j) /\ inst[j].exp \in Keys /\ exp[inst[j].exp] # NoExp
          /\ inst[j].amount > 0 /\ inst[j].number > 0
      BY <1>0, <1>10, <2>3 DEF InstsSound
    <3>2. ASSUME inst'[j].tx # None
          PROVE  inst'[j].status = "paid" /\ move'[OldKey].text[2] > 0
      <4>1. j # i /\ inst'[j] = inst[j]
        BY <1>8, <1>10, <3>2
      <4>2. inst[j].status = "paid" /\ move[OldKey].text[2] > 0
        BY <1>0, <3>1, <3>2, <4>1 DEF InstsSound
      <4>3. move'[OldKey] = move[OldKey]
        BY <1>7, <2>2, <4>2, NoRows
      <4> QED
        BY <4>1, <4>2, <4>3
    <3> QED
      BY <1>1, <1>10, <3>1, <3>2
  <2>4. \A j, k \in Insts : inst'[j].tx = inst'[k].tx /\ inst'[j].tx # None => j = k
    BY <1>0, <1>10 DEF InstsSound
  <2>5. \A k \in AnyKey : pay'[k] # NoPay => inst'[pay'[k].inst].status \in {"planned", "paid"}
    <3> SUFFICES ASSUME NEW k \in AnyKey, pay'[k] # NoPay
                 PROVE  inst'[pay'[k].inst].status \in {"planned", "paid"}
      OBVIOUS
    <3>1. CASE pay[k] # NoPay
      <4>1. pay'[k] = pay[k] /\ pay[k].inst \in Insts /\ Planned(pay[k].inst)
        BY <1>0, <1>7, <3>1 DEF InstsSound, PaysSound
      <4> QED
        BY <1>10, <4>1 DEF Planned
    <3>2. CASE pay[k] = NoPay
      BY <1>8, <1>11, <3>2
    <3> QED
      BY <3>1, <3>2
  <2> QED
    BY <2>1, <2>3, <2>4, <2>5 DEF InstsSound, Planned
<1>16. OldPaid'
  BY <1>0, <1>3, <1>10 DEF OldPaid
<1>17. ExpsSound'
  <2>1. \A k \in Keys : exp[k].tx # None => move'[exp[k].tx] = move[exp[k].tx]
    BY <1>0, <1>7, ExpFields DEF ExpsSound
  <2> QED
    BY <1>0, <1>1, <2>1 DEF ExpsSound, MovementShape
<1>18. \A k \in AnyKey : Owned(k)' <=> Owned(k) /\ k \notin U
  <2> TAKE k \in AnyKey
  <2>1. ExpenseOwns(k)' <=> ExpenseOwns(k)
    BY <1>1 DEF ExpenseOwns
  <2>2. PaymentOwns(k)' <=> PaymentOwns(k) /\ k \notin V
    <3>1. PaymentOwns(k) <=> pay[k].moved /\ Active(k)
      BY NoRows DEF PaymentOwns, Active
    <3>2. PaymentOwns(k)' <=> pay'[k].moved /\ Active(k)'
      BY NoRows DEF PaymentOwns, Active
    <3>3. Active(k) => pay'[k] = pay[k]
      BY <1>7 DEF Active
    <3> QED
      BY <1>6, <3>1, <3>2, <3>3
  <2>3. k # None
    BY NoneApart
  <2>4. InstOwns(k)' <=> InstOwns(k) /\ ~(k = u /\ History(i) = {})
    <3>1. InstOwns(k)' <=> \E j \in Insts \ {i} : inst[j].tx = k /\ History(j) = {}
      BY <1>8, <1>10, <1>12, <2>3 DEF InstOwns
    <3>2. u = k => \A j \in Insts \ {i} : inst[j].tx # k
      BY <1>0, <1>1, <2>3 DEF InstsSound
    <3> QED
      BY <1>1, <3>1, <3>2 DEF InstOwns
  <2>5. CASE V = {} /\ u # None /\ U = {u}
    <3>1. History(i) = {}
      BY <1>0, <1>1, <2>5 DEF Books
    <3>2. u = OldKey
      BY <1>0, <1>1, <2>5, InstFields
    <3>3. ~ExpenseOwns(u)
      BY <1>0, <2>5, <3>2, KeysAssumption, BoundsAssumption DEF ExpenseOwns, ExpsSound, OldKey, Server
    <3>4. ~PaymentOwns(u)
      <4>1. SUFFICES ASSUME PaymentOwns(u) PROVE FALSE
        OBVIOUS
      <4>2. pay[OldKey] # NoPay
        BY <3>2, <4>1, NoRows DEF PaymentOwns
      <4>3. pay[OldKey].inst = i
        BY <1>0, <1>1, <2>5, <4>2 DEF OldPaid
      <4>4. OldKey \in AnyKey
        BY BoundsAssumption DEF OldKey, AnyKey, Server
      <4> QED
        BY <1>0, <3>1, <4>3, <4>4, Domains DEF History
    <3> QED
      BY <2>1, <2>2, <2>4, <2>5, <3>1, <3>3, <3>4 DEF Owned
  <2>6. CASE (V # {} \/ u = None) /\ U = {j \in V : pay[j].moved}
    <3>1. k \in U => ~ExpenseOwns(k)
      <4>1. k \in U => move[k].text[2] > 0
        BY <1>0, <2>6 DEF Linked
      <4> QED
        BY <1>0, <4>1, <2>3 DEF ExpenseOwns, ExpsSound
    <3>2. k \in U => ~InstOwns(k)
      <4>1. SUFFICES ASSUME k \in U, NEW j \in Insts, inst[j].tx = k, History(j) = {} PROVE FALSE
        BY DEF InstOwns
      <4>2. k = OldKey /\ pay[k] # NoPay
        BY <1>0, <1>4, <2>3, <2>6, <4>1, InstFields
      <4>3. pay[k].inst = j
        BY <1>0, <2>3, <4>1, <4>2 DEF OldPaid
      <4> QED
        BY <1>0, <4>1, <4>3, Domains DEF History
    <3>3. PaymentOwns(k) => (k \in V <=> k \in U)
      BY <2>6 DEF PaymentOwns
    <3>4. k = u => History(i) # {}
      <4>1. SUFFICES ASSUME k = u, History(i) = {} PROVE FALSE
        OBVIOUS
      <4>2. V = {}
        BY <1>1, <4>1 DEF ActivePayments
      <4> QED
        BY <2>3, <2>6, <4>1, <4>2
    <3> QED
      BY <2>1, <2>2, <2>4, <3>1, <3>2, <3>3, <3>4 DEF Owned
  <2> QED
    BY <1>2, <2>5, <2>6
<1>19. Books'
  <2>1. \A k \in AnyKey : Reversible(k)' => Owned(k)' \/ Apart(k)'
    <3> SUFFICES ASSUME NEW k \in AnyKey, Reversible(k)' PROVE Owned(k)' \/ Apart(k)'
      OBVIOUS
    <3>1. Reversible(k) /\ k \notin U /\ (Owned(k) \/ Apart(k))
      BY <1>0, <1>5 DEF Books
    <3>2. Apart(k) => Apart(k)'
      BY <1>7, <3>1 DEF Reversible, Apart
    <3> QED
      BY <1>18, <3>1, <3>2
  <2>2. \A k \in AnyKey : Owned(k)' => Reversible(k)'
    BY <1>0, <1>5, <1>18 DEF Books
  <2>3. \A k \in Keys : exp'[k].status = "active" /\ exp'[k].tx # None =>
          move'[exp'[k].tx] = Spent(exp'[k].shape)
    <3> SUFFICES ASSUME NEW k \in Keys, exp[k].status = "active", exp[k].tx # None
                 PROVE  move'[exp[k].tx] = Spent(exp[k].shape)
      BY <1>1
    <3>1. exp[k].tx \in AnyKey /\ move[exp[k].tx] # NoMove
      BY <1>0, ExpFields DEF ExpsSound
    <3> QED
      BY <1>0, <1>7, <3>1 DEF Books
  <2>4. \A j \in Insts : inst'[j].tx # None /\ History(j)' # {} => ActivePayments(j)' # {}
    <3> SUFFICES ASSUME NEW j \in Insts, inst'[j].tx # None, History(j)' # {}
                 PROVE  ActivePayments(j)' # {}
      OBVIOUS
    <3>1. j # i /\ inst[j].tx # None /\ History(j)' = History(j)
      BY <1>10, <1>12
    <3>2. PICK k \in History(j) : pay[k].of = None /\ ~PayReversed(k)
      BY <1>0, <3>1 DEF Books, ActivePayments
    <3>3. k \in AnyKey /\ pay[k] # NoPay /\ pay[k].inst = j
      BY <1>0, <3>2, HistoryFinite DEF History
    <3>4. Active(k)' /\ k \in History(j)'
      BY <1>4, <1>6, <3>1, <3>2, <3>3 DEF Active
    <3> QED
      BY <3>4 DEF Active, ActivePayments
  <2>5. \A t : Spent(t)' = Spent(t)
    BY DEF Spent
  <2> QED
    BY <2>1, <2>2, <2>3, <2>4, <2>5 DEF Books
<1>20. NeverOverpaid'
  <2> SUFFICES ASSUME NEW j \in Insts, Planned(j)'
               PROVE  /\ Paid(j)' \in 0..(IF exp'[inst'[j].exp].status = "voided" THEN 0
                                          ELSE inst'[j].amount)
                      /\ inst'[j].status = "paid" <=> Paid(j)' = inst'[j].amount
    BY DEF NeverOverpaid
  <2>1. /\ Planned(j) /\ inst[j].amount \in Nat /\ inst[j].amount > 0
        /\ Paid(j) \in 0..(IF exp[inst[j].exp].status = "voided" THEN 0 ELSE inst[j].amount)
        /\ inst[j].status = "paid" <=> Paid(j) = inst[j].amount
    BY <1>0, <1>10, InstFields DEF NeverOverpaid, InstsSound
  <2>2. CASE j = i
    BY <1>1, <1>8, <1>13, <2>1, <2>2
  <2>3. CASE j # i
    BY <1>1, <1>8, <1>12, <2>1, <2>3
  <2> QED
    BY <2>2, <2>3
<1>21. PlanAddsUp'
  <2>1. \A k \in Keys : PlanRight(k)'
    <3> TAKE k \in Keys
    <3>1. PlanRight(k) /\ exp'[k] = exp[k]
      BY <1>1, PlanAddsUpIs
    <3>2. Plan(k)' = Plan(k)
      BY <1>10 DEF Plan
    <3>3. \A j \in Plan(k) : inst'[j].number = inst[j].number /\ inst'[j].amount = inst[j].amount
      BY <1>10 DEF Plan
    <3> QED
      BY <3>1, <3>2, <3>3, PlanKept
  <2> QED
    BY <2>1, PlanAddsUpIsNext
<1>22. DraftsSound'
  BY <1>1, <1>3 DEF DraftsSound
<1>23. Effect(w, {inst[i].exp})
  <2>1. \A j \in Insts : Planned(j) /\ inst[j].exp \notin {inst[i].exp} =>
          inst'[j] = inst[j] /\ Paid(j)' = Paid(j) /\ History(j)' = History(j)
    BY <1>8, <1>12
  <2>2. \A j \in Insts : Planned(j) =>
          \/ inst'[j].status = "gone"
          \/ /\ Planned(j)' /\ inst'[j].exp = inst[j].exp
             /\ \/ inst'[j].version > inst[j].version
                \/ inst'[j].version = inst[j].version /\ Paid(j)' = Paid(j)
    <3> SUFFICES ASSUME NEW j \in Insts, Planned(j)
                 PROVE  \/ inst'[j].version > inst[j].version
                        \/ inst'[j].version = inst[j].version /\ Paid(j)' = Paid(j)
      BY <1>10
    <3>1. inst[j].version \in Nat
      BY <1>0, InstFields
    <3> QED
      BY <1>8, <1>12, <3>1
  <2>3. \A j \in Insts : inst[j].status = "gone" => inst'[j].status = "gone"
    BY <1>1, <1>8 DEF Planned
  <2>4. \A j \in Insts : Planned(j)' /\ ~Planned(j) => inst'[j].exp \in {inst[i].exp}
    BY <1>10
  <2> QED
    BY <1>1, <1>3, <2>1, <2>2, <2>3, <2>4 DEF Effect
<1>24. RecordKept
  <2> SUFFICES ASSUME NEW k \in AnyKey, pay[k] # NoPay
               PROVE  pay'[k] = pay[k] /\ inst'[pay[k].inst].status \in {"planned", "paid"}
    BY DEF RecordKept
  <2>1. pay[k].inst \in Insts /\ Planned(pay[k].inst)
    BY <1>0 DEF InstsSound, PaysSound
  <2> QED
    BY <1>7, <1>10, <2>1 DEF Planned
<1> QED
  BY <1>5, <1>6, <1>9, <1>14, <1>15, <1>16, <1>17, <1>19, <1>20, <1>21, <1>22, <1>23, <1>24
  DEF Written, TablesInv

LEMMA Reopens ==
  ASSUME TablesInv, PlanAddsUp, DraftsSound, NEW w \in Workers, NEW q, q = req[w],
         Serves(w), Knows(w, q), ReopenInstallment(w)
  PROVE  Written(w, {inst[q.inst].exp})
<1>1. CASE Refuse(w)
  <2>1. UNCHANGED <<tables, draft, scene>>
    BY <1>1 DEF Refuse, End, tables
  <2> QED
    BY <2>1, Unwritten, EffectMore DEF Written
<1>2. CASE ~Refuse(w)
  <2>1. \E U, V : Reopening(req[w].inst, U, V)
    BY <1>2, ReopensRows
  <2>2. PICK U, V : Reopening(q.inst, U, V)
    BY <2>1
  <2> QED
    BY <2>2, ReopensWritten
<1> QED
  BY <1>1, <1>2

-----------------------------------------------------------------------------
(* What a transaction knows stays true while others write.                 *)

LEMMA Elsewhere ==
  ASSUME TablesInv, NEW w, NEW E, Effect(w, E), NEW e \in Keys, e \notin E
  PROVE  /\ exp'[e] = exp[e] /\ Plan(e)' = Plan(e)
         /\ \A i \in Plan(e) : /\ inst'[i] = inst[i]
                               /\ Paid(i)' = Paid(i) /\ History(i)' = History(i)
<1>1. exp'[e] = exp[e]
  BY DEF Effect
<1>2. \A i \in Plan(e) : /\ inst'[i] = inst[i] /\ Planned(i)' /\ Planned(i)
                         /\ Paid(i)' = Paid(i) /\ History(i)' = History(i)
  BY DEF Effect, Plan, Planned
<1>3. \A i \in Insts : Planned(i)' /\ inst'[i].exp = e => Planned(i) /\ inst[i].exp = e
  <2> SUFFICES ASSUME NEW i \in Insts, Planned(i)', inst'[i].exp = e
               PROVE  Planned(i) /\ inst[i].exp = e
    OBVIOUS
  <2>1. Planned(i)
    BY DEF Effect
  <2>2. inst'[i].status # "gone"
    BY DEF Planned
  <2> QED
    BY <2>1, <2>2 DEF Effect
<1>4. Plan(e)' = Plan(e)
  BY <1>2, <1>3 DEF Plan
<1> QED
  BY <1>1, <1>2, <1>4

LEMMA RemainingSums == \A S \in SUBSET Insts : SumOf(Remaining, S) = SumOver(RemainingOf, S)
  BY RemainingSum, InstsFinite

LEMMA RemainingSumsNext ==
  (\A S \in SUBSET Insts : SumOf(Remaining, S) = SumOver(RemainingOf, S))'
  BY RemainingSums, PTL

LEMMA StillPaying ==
  ASSUME TablesInv, NEW w, NEW E, Effect(w, E), NEW v, \A e \in E : ~Held(v, e),
         held'[v] = held[v], NEW i \in Insts, Paying(v, i)
  PROVE  /\ Paying(v, i)' /\ inst'[i] = inst[i] /\ Paid(i)' = Paid(i)
         /\ inst[i].exp \notin E
<1>1. inst[i].exp \in Keys /\ inst[i].exp \notin E /\ i \in Plan(inst[i].exp)
  BY DEF TablesInv, InstsSound, Paying, Plan
<1>2. inst'[i] = inst[i] /\ Paid(i)' = Paid(i) /\ exp'[inst[i].exp] = exp[inst[i].exp]
  BY <1>1, Elsewhere
<1> QED
  BY <1>1, <1>2 DEF Paying, Held, Planned

LEMMA StillUnpaid ==
  ASSUME TablesInv, NEW w, NEW E, Effect(w, E),
         \A k \in KeysOf(req[w]) : draft[k] = Drafted(req[w], k),
         NEW k \in Keys, NEW i, inst[i].exp \notin E, draft[k].insts = {i}, pay[k] = NoPay
  PROVE  pay'[k] = NoPay
<1> SUFFICES ASSUME pay'[k] # NoPay PROVE FALSE
  OBVIOUS
<1>1. /\ k \in KeysOf(req[w]) /\ Drafted(req[w], k).insts = {pay'[k].inst}
      /\ inst[pay'[k].inst].exp \in E
  BY DEF Effect
<1>2. pay'[k].inst = i
  BY <1>1
<1> QED
  BY <1>1, <1>2

LEMMA OtherKnows ==
  ASSUME TablesInv, TablesInv', NEW w, NEW E, Effect(w, E),
         \A k \in KeysOf(req[w]) : draft[k] = Drafted(req[w], k),
         NEW v, NEW q, Asks(q), \A k \in KeysOf(q) : draft[k] = Drafted(q, k), Knows(v, q),
         \A e \in E : ~Held(v, e),
         pc'[v] = pc[v], seen'[v] = seen[v], held'[v] = held[v]
  PROVE  Knows(v, q)'
<1>1. q.kind \in {"pay", "reopen"} => KnowsVersion(v, q)'
  <2> SUFFICES ASSUME q.kind \in {"pay", "reopen"} PROVE KnowsVersion(v, q)'
    OBVIOUS
  <2> DEFINE i == q.inst
  <2>1. i \in Insts /\ q.version \in Nat /\ KnowsVersion(v, q) /\ VersionKnown(q)
    BY DEF Asks, Knows, KnowsVersion
  <2>2. inst[i].version \in Nat /\ inst'[i].version \in Nat
    <3>1. inst[i].version \in Nat
      BY <2>1, InstFields DEF TablesInv
    <3>2. inst'[i] \in InstRows
      BY <2>1 DEF TablesInv, TablesTyped
    <3> QED
      BY <3>1, <3>2 DEF InstRows
  <2>3. CASE inst[i].status = "gone"
    <3>1. inst'[i].status = "gone"
      BY <2>1, <2>3 DEF Effect
    <3> QED
      BY <3>1 DEF KnowsVersion, VersionKnown, Planned
  <2>4. CASE inst[i].status # "gone"
    <3>1. Planned(i) /\ q.version <= inst[i].version
      BY <2>1, <2>4 DEF VersionKnown
    <3>2. \/ inst'[i].status = "gone"
          \/ /\ Planned(i)'
             /\ \/ inst'[i].version > inst[i].version
                \/ inst'[i].version = inst[i].version /\ Paid(i)' = Paid(i)
      BY <2>1, <3>1 DEF Effect
    <3>3. VersionKnown(q)'
      BY <2>1, <2>2, <3>1, <3>2 DEF VersionKnown
    <3>4. ASSUME pc'[v] = "installment", q.kind = "pay", Planned(i)', VersionFits(q)'
          PROVE  seen'[v] = Paid(i)'
      <4>1. inst'[i].version = q.version /\ inst'[i].status # "gone"
        BY <3>4 DEF VersionFits, Planned
      <4>2. Paid(i)' = Paid(i) /\ inst[i].version = q.version
        BY <2>1, <2>2, <3>1, <3>2, <4>1
      <4>3. seen[v] = Paid(i)
        BY <2>1, <3>1, <3>4, <4>2 DEF KnowsVersion, VersionFits
      <4> QED
        BY <4>2, <4>3
    <3> QED
      BY <3>3, <3>4 DEF KnowsVersion
  <2> QED
    BY <2>3, <2>4
<1>2. q.kind \in {"update", "void"} => KnowsExpense(v, q)'
  <2> SUFFICES ASSUME q.kind \in {"update", "void"} PROVE KnowsExpense(v, q)'
    OBVIOUS
  <2> DEFINE e == q.exp
  <2>1. e \in Keys /\ KnowsExpense(v, q) /\ exp[e] # NoExp
    BY DEF Asks, Knows, KnowsExpense
  <2>2. exp'[e] # NoExp
    BY <2>1 DEF Effect
  <2>3. CASE pc[v] \in {"plan", "source", "write"}
    <3>1. Held(v, e) /\ exp[e].status = "active" /\ e \notin E
      BY <2>1, <2>3 DEF KnowsExpense
    <3>2. /\ exp'[e] = exp[e] /\ Plan(e)' = Plan(e)
          /\ \A i \in Plan(e) : Paid(i)' = Paid(i) /\ History(i)' = History(i)
      BY <2>1, <3>1, Elsewhere
    <3>3. PlanLocked(q)' <=> PlanLocked(q)
      BY <3>2 DEF PlanLocked, Touched, Recorded, PlanChanged
    <3> QED
      BY <2>1, <2>2, <3>1, <3>2, <3>3 DEF KnowsExpense, Held
  <2>4. CASE pc[v] \notin {"plan", "source", "write"}
    BY <2>2, <2>4 DEF KnowsExpense
  <2> QED
    BY <2>3, <2>4
<1>3. q.kind = "pay" /\ pc[v] \in {"source", "write"} => KnowsPay(v, q)'
  <2> SUFFICES ASSUME q.kind = "pay", pc[v] \in {"source", "write"} PROVE KnowsPay(v, q)'
    OBVIOUS
  <2>1. q.inst \in Insts /\ q.key \in Keys /\ KnowsPay(v, q) /\ Paying(v, q.inst)
    BY DEF Asks, Knows, KnowsPay
  <2>2. /\ Paying(v, q.inst)' /\ inst'[q.inst] = inst[q.inst] /\ Paid(q.inst)' = Paid(q.inst)
        /\ inst[q.inst].exp \notin E
    BY <2>1, StillPaying
  <2>3. draft[q.key].insts = {q.inst}
    BY DEF KeysOf, Drafted
  <2>4. pay'[q.key] = NoPay
    BY <2>1, <2>2, <2>3, StillUnpaid DEF KnowsPay
  <2> QED
    BY <2>1, <2>2, <2>4 DEF KnowsPay
<1>4. q.kind = "reopen" /\ pc[v] = "write" => Paying(v, q.inst)'
  BY StillPaying DEF Asks, Knows
<1>5. q.kind = "bulk" /\ pc[v] \in {"source", "write"} => KnowsBulk(v, q)'
  <2> SUFFICES ASSUME q.kind = "bulk", pc[v] \in {"source", "write"} PROVE KnowsBulk(v, q)'
    OBVIOUS
  <2> DEFINE D == DOMAIN q.keys
  <2>1. /\ D \subseteq Insts /\ KnowsBulk(v, q)
        /\ \A i \in D : q.keys[i] \in Keys
        /\ \A i, j \in D : q.keys[i] = q.keys[j] => i = j
    BY DEF Asks, Knows
  <2>2. \A i \in D : /\ Paying(v, i)' /\ inst'[i] = inst[i] /\ Paid(i)' = Paid(i)
                     /\ inst[i].exp \notin E
    <3> TAKE i \in D
    <3> QED
      BY <2>1, StillPaying DEF KnowsBulk
  <2>3. \A i \in D : pay'[q.keys[i]] = NoPay
    <3> TAKE i \in D
    <3>1. KeysOf(q) = {q.keys[j] : j \in D}
      BY DEF KeysOf
    <3>2. draft[q.keys[i]] = Drafted(q, q.keys[i])
      BY <3>1
    <3>3. Drafted(q, q.keys[i]).insts = {j \in D : q.keys[j] = q.keys[i]}
      BY DEF Drafted
    <3>4. draft[q.keys[i]].insts = {i}
      BY <2>1, <3>2, <3>3
    <3> QED
      BY <2>1, <2>2, <3>4, StillUnpaid DEF KnowsBulk
  <2>4. SumOf(Remaining, D)' = SumOver(RemainingOf', D)
    BY <2>1, RemainingSumsNext
  <2>5. SumOver(RemainingOf', D) = SumOver(RemainingOf, D)
    BY <2>1, <2>2, InstsFinite, SumSame DEF RemainingOf, Remaining
  <2>6. SumOf(Remaining, D) = SumOver(RemainingOf, D)
    BY <2>1, RemainingSums
  <2> QED
    BY <2>1, <2>2, <2>3, <2>4, <2>5, <2>6 DEF KnowsBulk
<1> QED
  BY <1>1, <1>2, <1>3, <1>4, <1>5 DEF Knows

\* The other transactions, while w takes a step.
LEMMA Others ==
  ASSUME TablesInv, TablesInv', RequestsInv, NEW w \in Workers, NEW E, Effect(w, E),
         \A v \in Workers \ {w}, e \in E : ~Held(v, e),
         \A v \in Workers \ {w} : /\ pc'[v] = pc[v] /\ seen'[v] = seen[v]
                                  /\ held'[v] = held[v] /\ req'[v] = req[v]
                                  /\ \A k \in KeysOf(req[v]) : draft'[k] = draft[k]
  PROVE  \A v \in Workers \ {w} : Serves(v)' /\ Knows(v, req[v])'
<1> TAKE v \in Workers \ {w}
<1>1. PICK q : q = req[v]
  OBVIOUS
<1>2. /\ Asks(q) /\ Formed(q) /\ \A k \in KeysOf(q) : draft[k] = Drafted(q, k)
      /\ Knows(v, q) /\ \A k \in KeysOf(req[w]) : draft[k] = Drafted(req[w], k)
  BY <1>1 DEF RequestsInv, Serves
<1>3. Knows(v, q)'
  <2>1. pc'[v] = pc[v] /\ seen'[v] = seen[v] /\ held'[v] = held[v] /\ \A e \in E : ~Held(v, e)
    OBVIOUS
  <2> QED
    BY <1>2, <2>1, OtherKnows
<1>4. req'[v] = q
  BY <1>1
<1>5. /\ pc[v] \in At(q.kind) \cup Ended
      /\ pc[v] \in Ended => held[v] = {} /\ seen[v] = 0
      /\ q.kind = "none" => pc[v] = "idle"
  BY <1>1 DEF RequestsInv, Serves
<1>6. \A k \in KeysOf(q) : draft'[k] = Drafted(q, k)
  BY <1>1, <1>2
<1>7. Serves(v)'
  BY <1>2, <1>4, <1>5, <1>6 DEF Serves
<1> QED
  BY <1>3, <1>4, <1>7

\* A transaction that ends.
LEMMA Ends ==
  ASSUME IInv, NEW w \in Workers, NEW E, Written(w, E),
         \A v \in Workers \ {w}, e \in E : ~Held(v, e),
         NEW r \in {"ok", "refused"}, End(w, r), pc[w] # "idle"
  PROVE  IInv'
<1>1. /\ pc' = [pc EXCEPT ![w] = r] /\ held' = [held EXCEPT ![w] = {}]
      /\ seen' = [seen EXCEPT ![w] = 0] /\ req' = req /\ draft' = draft
  BY DEF End, Goto
<1>2. /\ TablesInv /\ TablesInv' /\ PlanAddsUp' /\ DraftsSound' /\ RequestsInv
      /\ RequestsTyped /\ LocksApart /\ Effect(w, E)
  BY DEF IInv, Written, RequestsInv
<1>3. /\ pc'[w] = r /\ held'[w] = {} /\ seen'[w] = 0 /\ r \in Ended
      /\ \A v \in Workers \ {w} : /\ pc'[v] = pc[v] /\ seen'[v] = seen[v]
                                  /\ held'[v] = held[v] /\ req'[v] = req[v]
                                  /\ \A k \in KeysOf(req[v]) : draft'[k] = draft[k]
  BY <1>1, <1>2 DEF RequestsTyped, Ended
<1>4. RequestsTyped'
  BY <1>1, <1>2 DEF RequestsTyped, Ended
<1>5. LocksApart'
  BY <1>2, <1>3 DEF LocksApart
<1>6. \A v \in Workers \ {w} : Serves(v)' /\ Knows(v, req[v])'
  BY <1>2, <1>3, Others
<1>7. PICK q : q = req[w]
  OBVIOUS
<1>8. /\ Asks(q) /\ Formed(q) /\ \A k \in KeysOf(q) : draft[k] = Drafted(q, k)
      /\ Knows(w, q) /\ (q.kind = "none" => pc[w] = "idle")
  BY <1>2, <1>7 DEF RequestsInv, Serves
<1>9. q.kind # "none" => Serves(w)'
  BY <1>1, <1>3, <1>7, <1>8 DEF Serves
<1>10. Knows(w, q)'
  <2>1. q.kind \in {"pay", "reopen"} => VersionKnown(q)'
    <3> SUFFICES ASSUME q.kind \in {"pay", "reopen"} PROVE VersionKnown(q)'
      OBVIOUS
    <3> DEFINE i == q.inst
    <3>1. i \in Insts /\ q.version \in Nat /\ VersionKnown(q)
      BY <1>8 DEF Asks, Knows, KnowsVersion
    <3>2. inst[i].version \in Nat /\ inst'[i] \in InstRows
      BY <1>2, <3>1, InstFields DEF TablesInv, TablesTyped
    <3>3. inst'[i].version \in Nat
      BY <3>2 DEF InstRows
    <3>4. CASE inst[i].status = "gone"
      BY <1>2, <3>1, <3>4 DEF Effect, VersionKnown
    <3>5. CASE Planned(i) /\ q.version <= inst[i].version
      <4>1. \/ inst'[i].status = "gone"
            \/ /\ Planned(i)'
               /\ \/ inst'[i].version > inst[i].version
                  \/ inst'[i].version = inst[i].version
        BY <1>2, <3>1, <3>5 DEF Effect
      <4> QED
        BY <3>1, <3>2, <3>3, <3>5, <4>1 DEF VersionKnown
    <3> QED
      BY <3>1, <3>4, <3>5 DEF VersionKnown
  <2>2. q.kind \in {"update", "void"} => exp'[q.exp] # NoExp
    BY <1>2, <1>8 DEF Knows, KnowsExpense, Asks, Effect
  <2> QED
    BY <1>3, <2>1, <2>2 DEF Knows, KnowsVersion, KnowsExpense, Ended
<1>11. q.kind # "none"
  BY <1>8
<1>12. Serves(w)' /\ Knows(w, req[w])'
  BY <1>1, <1>7, <1>9, <1>10, <1>11
<1> QED
  BY <1>2, <1>4, <1>5, <1>6, <1>12 DEF IInv, RequestsInv

LEMMA Refuses ==
  ASSUME IInv, NEW w \in Workers, NEW r \in {"ok", "refused"}, End(w, r), UNCHANGED tables,
         pc[w] # "idle"
  PROVE  IInv' /\ RecordKept
<1>1. UNCHANGED <<tables, draft, scene>>
  BY DEF End
<1>2. Written(w, {})
  BY <1>1, Unwritten DEF IInv, RequestsInv
<1> QED
  BY <1>2, Ends DEF Written

\* A transaction that takes locks and goes on.
LEMMA Proceeds ==
  ASSUME IInv, NEW w \in Workers, NEW step \in Steps, NEW ls, Proceed(w, step, ls),
         step \in At(req[w].kind), NEW q, q = req[w], Knows(w, q)'
  PROVE  IInv' /\ RecordKept
<1>1. /\ pc' = [pc EXCEPT ![w] = step] /\ held' = [held EXCEPT ![w] = @ \cup ls]
      /\ seen' = seen /\ req' = req /\ draft' = draft
      /\ \A v \in Workers \ {w} : held[v] \cap ls = {}
      /\ UNCHANGED <<tables, draft, scene>>
  BY DEF Proceed, Goto, Free
<1>2. Written(w, {})
  BY <1>1, Unwritten DEF IInv, RequestsInv
<1>3. /\ TablesInv /\ TablesInv' /\ PlanAddsUp' /\ DraftsSound' /\ RequestsInv
      /\ RequestsTyped /\ LocksApart /\ Effect(w, {}) /\ RecordKept
  BY <1>2 DEF IInv, Written, RequestsInv
<1>4. /\ pc'[w] = step /\ held'[w] = held[w] \cup ls
      /\ \A v \in Workers \ {w} : /\ pc'[v] = pc[v] /\ seen'[v] = seen[v]
                                  /\ held'[v] = held[v] /\ req'[v] = req[v]
                                  /\ \A k \in KeysOf(req[v]) : draft'[k] = draft[k]
  BY <1>1, <1>3 DEF RequestsTyped
<1>5. RequestsTyped'
  BY <1>1, <1>3 DEF RequestsTyped
<1>6. LocksApart'
  <2> SUFFICES ASSUME NEW u \in Workers, NEW v \in Workers, u # v
               PROVE  held'[u] \cap held'[v] = {}
    BY DEF LocksApart
  <2>1. held[u] \cap held[v] = {}
    BY <1>3 DEF LocksApart
  <2> QED
    BY <1>1, <1>4, <2>1
<1>7. \A v \in Workers \ {w} : Serves(v)' /\ Knows(v, req[v])'
  BY <1>3, <1>4, Others
<1>8. /\ Asks(q) /\ Formed(q) /\ \A k \in KeysOf(q) : draft[k] = Drafted(q, k)
  BY <1>3 DEF RequestsInv, Serves
<1>9. q.kind # "none" /\ step \notin Ended
  BY DEF At, Steps, Ended
<1>10. Serves(w)'
  BY <1>1, <1>4, <1>8, <1>9 DEF Serves
<1>11. Knows(w, req[w])'
  BY <1>1
<1> QED
  BY <1>3, <1>5, <1>6, <1>7, <1>10, <1>11 DEF IInv, RequestsInv

-----------------------------------------------------------------------------
(* The steps that look and lock.                                           *)

\* With the tables as they are, all that is read from them is as it was.
LEMMA SameKnown ==
  ASSUME TablesInv, UNCHANGED <<tables, scene>>
  PROVE  /\ \A i : Planned(i)' = Planned(i)
         /\ \A i \in Insts : Paid(i)' = Paid(i)
         /\ \A q : (PlanLocked(q)' <=> PlanLocked(q)) /\ VersionKnown(q)' = VersionKnown(q)
                   /\ VersionFits(q)' = VersionFits(q)
         /\ \A D \in SUBSET Insts : SumOf(Remaining, D)' = SumOf(Remaining, D)
<1>1. /\ exp' = exp /\ inst' = inst /\ pay' = pay /\ move' = move /\ inactive' = inactive
      /\ scene' = scene /\ TablesTyped /\ TablesTyped' /\ FinitePays
  BY DEF tables, TablesInv, TablesTyped
<1>2. /\ \A i : Planned(i)' = Planned(i) /\ History(i)' = History(i)
      /\ \A i \in Insts : Paid(i)' = Paid(i)
  BY <1>1, SameRows
<1>3. \A q : (PlanLocked(q)' <=> PlanLocked(q))
  BY <1>1, <1>2 DEF PlanLocked, Plan, Touched, Recorded, PlanChanged
<1>4. \A q : VersionKnown(q)' = VersionKnown(q) /\ VersionFits(q)' = VersionFits(q)
  BY <1>1, <1>2 DEF VersionKnown, VersionFits
<1>5. ASSUME NEW D \in SUBSET Insts
      PROVE  SumOf(Remaining, D)' = SumOf(Remaining, D)
  <2>1. SumOver(RemainingOf', D) = SumOver(RemainingOf, D)
    BY <1>1, <1>2, InstsFinite, SumSame DEF RemainingOf, Remaining
  <2> QED
    BY <2>1, RemainingSums, RemainingSumsNext
<1> QED
  BY <1>2, <1>3, <1>4, <1>5

\* What was known still is, if the step stays the same for Knows.
LEMMA KnowsOn ==
  ASSUME TablesInv, NEW w \in Workers, NEW q, Asks(q), Knows(w, q), UNCHANGED <<tables, scene>>,
         held[w] \subseteq held'[w], seen'[w] = seen[w],
         NEW r, pc'[w] = r, r # "installment",
         r \in {"source", "write"} => pc[w] \in {"source", "write"} \/ q.kind = "create",
         r = "plan" => pc[w] = "plan", r = "write" /\ q.kind = "reopen" => pc[w] = "write"
  PROVE  Knows(w, q)'
<1>1. /\ \A i : Planned(i)' = Planned(i)
      /\ \A i \in Insts : Paid(i)' = Paid(i)
      /\ (PlanLocked(q)' <=> PlanLocked(q)) /\ VersionKnown(q)' = VersionKnown(q)
      /\ \A D \in SUBSET Insts : SumOf(Remaining, D)' = SumOf(Remaining, D)
      /\ exp' = exp /\ inst' = inst /\ pay' = pay
  BY SameKnown DEF tables
<1>2. \A k : Held(w, k) => Held(w, k)'
  BY DEF Held
<1>3. \A i : Paying(w, i) => Paying(w, i)'
  BY <1>1, <1>2 DEF Paying
<1>4. q.kind \in {"pay", "reopen"} => KnowsVersion(w, q)'
  BY <1>1 DEF Knows, KnowsVersion
<1>5. q.kind \in {"update", "void"} => KnowsExpense(w, q)'
  BY <1>1, <1>2 DEF Knows, KnowsExpense
<1>6. q.kind = "pay" /\ r \in {"source", "write"} => KnowsPay(w, q)'
  BY <1>1, <1>3 DEF Knows, KnowsPay, Asks
<1>7. q.kind = "reopen" /\ r = "write" => Paying(w, q.inst)'
  BY <1>3 DEF Knows
<1>8. q.kind = "bulk" /\ r \in {"source", "write"} => KnowsBulk(w, q)'
  BY <1>1, <1>3 DEF Knows, KnowsBulk, Asks
<1> QED
  BY <1>4, <1>5, <1>6, <1>7, <1>8 DEF Knows

\* What a step of w keeps: the invariant, the record, and the promise of success.
Keeps(w, q) == IInv' /\ RecordKept /\ (pc'[w] = "ok" => PaidAsAsked(q)')

LEMMA ServesFacts ==
  ASSUME IInv, NEW w \in Workers, NEW q, q = req[w]
  PROVE  /\ TablesInv /\ PlanAddsUp /\ DraftsSound /\ RequestsTyped /\ Serves(w) /\ Knows(w, q)
         /\ Asks(q) /\ Formed(q) /\ pc[w] \in At(q.kind) \cup Ended
         /\ \A k \in KeysOf(q) : draft[k] = Drafted(q, k)
         /\ q.kind = "none" => pc[w] = "idle"
         /\ pc[w] \in Ended => held[w] = {} /\ seen[w] = 0
  BY DEF IInv, RequestsInv, Serves

LEMMA RefusesKeeps ==
  ASSUME IInv, NEW w \in Workers, NEW q, q = req[w], Refuse(w), pc[w] # "idle"
  PROVE  Keeps(w, q)
<1>1. End(w, "refused") /\ UNCHANGED tables
  BY DEF Refuse
<1>2. pc'[w] # "ok"
  BY <1>1, ServesFacts DEF End, Goto, RequestsTyped
<1> QED
  BY <1>1, <1>2, Refuses DEF Keeps

LEMMA ProceedsKeeps ==
  ASSUME IInv, NEW w \in Workers, NEW step \in Steps, NEW ls, Proceed(w, step, ls),
         NEW q, q = req[w], step \in At(q.kind), Knows(w, q)'
  PROVE  Keeps(w, q)
<1>1. pc'[w] = step /\ step # "ok"
  BY ServesFacts DEF Proceed, Goto, RequestsTyped, Steps
<1> QED
  BY <1>1, Proceeds DEF Keeps

LEMMA ProceedFacts ==
  ASSUME IInv, NEW w \in Workers, NEW step, NEW ls, Proceed(w, step, ls)
  PROVE  /\ UNCHANGED <<tables, scene>> /\ seen'[w] = seen[w] /\ pc'[w] = step
         /\ held'[w] = held[w] \cup ls /\ held[w] \subseteq held'[w]
<1>1. RequestsTyped
  BY DEF IInv, RequestsInv
<1> QED
  BY <1>1 DEF Proceed, Goto, RequestsTyped

LEMMA Looks ==
  ASSUME IInv, NEW w \in Workers, NEW q, q = req[w], Look(w)
  PROVE  Keeps(w, q)
<1>1. Asks(q) /\ pc[w] = "look" /\ q.kind = "create" /\ TablesInv /\ Knows(w, q)
  <2>1. Asks(q) /\ pc[w] \in At(q.kind) \cup Ended /\ pc[w] = "look" /\ TablesInv /\ Knows(w, q)
    BY ServesFacts DEF Look
  <2> QED
    BY <2>1 DEF At, Ended, Asks
<1>2. CASE exp[q.key] # NoExp
  <2>1. Answer(w, Matches(q))
    BY <1>2 DEF Look
  <2>2. PICK r \in {"ok", "refused"} : End(w, r) /\ UNCHANGED tables
    BY <2>1 DEF Answer
  <2> QED
    BY <1>1, <2>2, Refuses DEF Keeps, PaidAsAsked
<1>3. CASE exp[q.key] = NoExp
  <2>1. Proceed(w, "source", {})
    BY <1>3 DEF Look
  <2>2. Knows(w, q)'
    BY <1>1, <2>1, ProceedFacts, KnowsOn
  <2>3. "source" \in Steps /\ "source" \in At(q.kind)
    BY <1>1 DEF Steps, At
  <2> QED
    BY <2>1, <2>2, <2>3, ProceedsKeeps
<1> QED
  BY <1>2, <1>3

LEMMA SelectsPayer ==
  ASSUME IInv, NEW w \in Workers, NEW q, q = req[w], SelectPayer(w)
  PROVE  Keeps(w, q)
<1>1. /\ Asks(q) /\ pc[w] = "source" /\ q.kind \in {"create", "update", "pay", "bulk"}
      /\ TablesInv /\ Knows(w, q)
  <2>1. Asks(q) /\ pc[w] \in At(q.kind) \cup Ended /\ pc[w] = "source" /\ TablesInv /\ Knows(w, q)
    BY ServesFacts DEF SelectPayer
  <2> QED
    BY <2>1 DEF At, Ended, Asks
<1>2. CASE Refuse(w)
  BY <1>1, <1>2, RefusesKeeps
<1>3. CASE Proceed(w, "write", PayerLocks(Payers(q)))
  <2>1. Knows(w, q)'
    BY <1>1, <1>3, ProceedFacts, KnowsOn
  <2>2. "write" \in Steps /\ "write" \in At(q.kind)
    BY <1>1 DEF Steps, At
  <2> QED
    BY <1>3, <2>1, <2>2, ProceedsKeeps
<1> QED
  BY <1>2, <1>3 DEF SelectPayer

LEMMA LocksExpense ==
  ASSUME IInv, NEW w \in Workers, NEW q, q = req[w], LockExpense(w)
  PROVE  Keeps(w, q)
<1>1. /\ Asks(q) /\ pc[w] = "expense" /\ q.kind \in {"update", "void"} /\ q.exp \in Keys
      /\ TablesInv /\ Knows(w, q)
  <2>1. Asks(q) /\ pc[w] \in At(q.kind) \cup Ended /\ pc[w] = "expense" /\ TablesInv /\ Knows(w, q)
    BY ServesFacts DEF LockExpense
  <2> QED
    BY <2>1 DEF At, Ended, Asks
<1>2. CASE Refuse(w)
  BY <1>1, <1>2, RefusesKeeps
<1>3. CASE Proceed(w, "plan", ExpLocks(q.exp)) /\ exp[q.exp].status # "voided"
  <2>1. /\ UNCHANGED <<tables, scene>> /\ pc'[w] = "plan"
        /\ held'[w] = held[w] \cup ExpLocks(q.exp)
    BY <1>3, ProceedFacts
  <2>2. Held(w, q.exp)'
    BY <2>1 DEF Held, ExpLocks
  <2>3. exp[q.exp] # NoExp
    BY <1>1 DEF Knows, KnowsExpense
  <2>4. exp[q.exp].status = "active"
    BY <1>1, <1>3, <2>3, ExpFields DEF TablesInv, ExpsSound, ExpStates
  <2>5. exp' = exp
    BY <2>1 DEF tables
  <2>6. Knows(w, q)'
    BY <1>1, <2>1, <2>2, <2>3, <2>4, <2>5 DEF Knows, KnowsExpense
  <2>7. "plan" \in Steps /\ "plan" \in At(q.kind)
    BY <1>1 DEF Steps, At
  <2> QED
    BY <1>3, <2>6, <2>7, ProceedsKeeps
<1> QED
  BY <1>2, <1>3 DEF LockExpense

LEMMA LocksPlan ==
  ASSUME IInv, NEW w \in Workers, NEW q, q = req[w], LockPlan(w)
  PROVE  Keeps(w, q)
<1> DEFINE ls == InstLocks(Plan(q.exp))
                 \cup PayerLocks(IF q.kind = "update" /\ q.shape.method = "card" THEN {Card} ELSE {})
           step == IF q.kind = "update" THEN "source" ELSE "write"
<1>1. /\ Asks(q) /\ pc[w] = "plan" /\ q.kind \in {"update", "void"}
      /\ TablesInv /\ Knows(w, q)
  <2>1. Asks(q) /\ pc[w] \in At(q.kind) \cup Ended /\ pc[w] = "plan" /\ TablesInv /\ Knows(w, q)
    BY ServesFacts DEF LockPlan
  <2> QED
    BY <2>1 DEF At, Ended, Asks
<1>2. CASE Refuse(w)
  BY <1>1, <1>2, RefusesKeeps
<1>3. CASE Proceed(w, step, ls) /\ ~PlanLocked(q)
  <2> HIDE DEF ls
  <2>1. /\ UNCHANGED <<tables, scene>> /\ pc'[w] = step /\ held[w] \subseteq held'[w]
    BY <1>3, ProceedFacts
  <2>2. exp[q.exp] # NoExp /\ exp[q.exp].status = "active" /\ Held(w, q.exp)
    BY <1>1 DEF Knows, KnowsExpense
  <2>3. exp' = exp /\ ~PlanLocked(q)' /\ Held(w, q.exp)'
    BY <1>1, <1>3, <2>1, <2>2, SameKnown DEF tables, Held
  <2>4. Knows(w, q)'
    BY <1>1, <2>2, <2>3 DEF Knows, KnowsExpense
  <2>5. step \in Steps /\ step \in At(q.kind)
    BY <1>1 DEF Steps, At
  <2> HIDE DEF step
  <2> QED
    BY <1>3, <2>4, <2>5, ProceedsKeeps
<1> QED
  BY <1>2, <1>3 DEF LockPlan

LEMMA LocksInstallment ==
  ASSUME IInv, NEW w \in Workers, NEW q, q = req[w], LockInstallment(w)
  PROVE  Keeps(w, q)
<1> DEFINE i == q.inst
           step == IF q.kind = "pay" THEN "source" ELSE "write"
<1>1. /\ Asks(q) /\ pc[w] = "installment" /\ q.kind \in {"pay", "reopen"} /\ i \in Insts
      /\ TablesInv /\ Knows(w, q)
  <2>1. /\ Asks(q) /\ pc[w] \in At(q.kind) \cup Ended /\ pc[w] = "installment"
        /\ TablesInv /\ Knows(w, q)
    BY ServesFacts DEF LockInstallment
  <2> QED
    BY <2>1 DEF At, Ended, Asks
<1>2. CASE Refuse(w)
  BY <1>1, <1>2, RefusesKeeps
<1>3. CASE q.kind = "pay" /\ Answer(w, PaymentMatches(q))
  <2>1. PICK r \in {"ok", "refused"} : /\ End(w, r) /\ UNCHANGED tables
                                       /\ r = "ok" => PaymentMatches(q)
    BY <1>3 DEF Answer
  <2>2. IInv' /\ RecordKept
    BY <1>1, <2>1, Refuses
  <2>3. pc'[w] = "ok" => pay'[q.key] = Payment(i, q.amount)
    <3>1. pc'[w] = r
      BY <2>1, ServesFacts DEF End, Goto, RequestsTyped
    <3> QED
      BY <2>1, <3>1 DEF PaymentMatches, tables
  <2> QED
    BY <1>3, <2>2, <2>3 DEF Keeps, PaidAsAsked
<1>4. CASE /\ Planned(i) /\ exp[inst[i].exp].status = "active" /\ VersionFits(q)
           /\ q.kind = "pay" => pay[q.key] = NoPay /\ seen[w] + q.amount <= inst[i].amount
           /\ Proceed(w, step, InstLocks({i}))
  <2>1. /\ UNCHANGED <<tables, scene>> /\ pc'[w] = step /\ seen'[w] = seen[w]
        /\ held'[w] = held[w] \cup InstLocks({i})
    BY <1>4, ProceedFacts
  <2>2. /\ exp' = exp /\ inst' = inst /\ pay' = pay /\ Planned(i)' = Planned(i)
        /\ Paid(i)' = Paid(i) /\ VersionKnown(q)' = VersionKnown(q)
    BY <1>1, <2>1, SameKnown DEF tables
  <2>3. <<"expense", inst[i].exp>> \in InstLocks({i})
    BY DEF InstLocks, ExpLocks
  <2>4. Paying(w, i)'
    BY <1>4, <2>1, <2>2, <2>3 DEF Paying, Held
  <2>5. q.kind = "pay" => seen[w] = Paid(i)
    BY <1>1, <1>4 DEF Knows, KnowsVersion
  <2>6. step # "installment" /\ VersionKnown(q)
    BY <1>1 DEF Knows, KnowsVersion
  <2>7. KnowsVersion(w, q)'
    BY <2>1, <2>2, <2>6 DEF KnowsVersion
  <2>8. q.kind = "pay" => KnowsPay(w, q)'
    BY <1>4, <2>1, <2>2, <2>4, <2>5 DEF KnowsPay
  <2>9. Knows(w, q)'
    BY <1>1, <2>4, <2>7, <2>8 DEF Knows
  <2>10. step \in Steps /\ step \in At(q.kind)
    BY <1>1 DEF Steps, At
  <2> HIDE DEF step
  <2> QED
    BY <1>4, <2>9, <2>10, ProceedsKeeps
<1>5. \/ Refuse(w)
      \/ q.kind = "pay" /\ Answer(w, PaymentMatches(q))
      \/ /\ Planned(i) /\ exp[inst[i].exp].status = "active" /\ VersionFits(q)
         /\ q.kind = "pay" => pay[q.key] = NoPay /\ ~(seen[w] + q.amount > inst[i].amount)
         /\ Proceed(w, step, InstLocks({i}))
  BY DEF LockInstallment
<1>6. q.kind = "pay" /\ ~(seen[w] + q.amount > inst[i].amount) => seen[w] + q.amount <= inst[i].amount
  <2>1. inst[i].amount \in Nat /\ seen[w] \in Nat
    BY <1>1, InstFields, ServesFacts DEF TablesInv, RequestsTyped
  <2> QED
    BY <1>1, <2>1 DEF Asks
<1> QED
  BY <1>2, <1>3, <1>4, <1>5, <1>6

LEMMA LocksCard ==
  ASSUME IInv, NEW w \in Workers, NEW q, q = req[w], LockCard(w)
  PROVE  Keeps(w, q)
<1>1. /\ Asks(q) /\ pc[w] = "card" /\ q.kind = "bulk" /\ TablesInv /\ Knows(w, q)
  <2>1. Asks(q) /\ pc[w] \in At(q.kind) \cup Ended /\ pc[w] = "card" /\ TablesInv /\ Knows(w, q)
    BY ServesFacts DEF LockCard
  <2> QED
    BY <2>1 DEF At, Ended, Asks
<1>2. Proceed(w, "due", PayerLocks({Card}))
  BY DEF LockCard
<1>3. Knows(w, q)'
  BY <1>1, <1>2, ProceedFacts, KnowsOn
<1>4. "due" \in Steps /\ "due" \in At(q.kind)
  BY <1>1 DEF Steps, At
<1> QED
  BY <1>2, <1>3, <1>4, ProceedsKeeps

LEMMA LocksDue ==
  ASSUME IInv, NEW w \in Workers, NEW q, q = req[w], LockDue(w)
  PROVE  Keeps(w, q)
<1> DEFINE ls == InstLocks(Due(q.month))
           D == DOMAIN q.keys
<1>1. /\ Asks(q) /\ pc[w] = "due" /\ q.kind = "bulk" /\ TablesInv /\ Knows(w, q)
      /\ D \subseteq Insts /\ q.keys \in [D -> Keys]
  <2>1. Asks(q) /\ pc[w] \in At(q.kind) \cup Ended /\ pc[w] = "due" /\ TablesInv /\ Knows(w, q)
    BY ServesFacts DEF LockDue
  <2>2. q.kind = "bulk"
    BY <2>1 DEF At, Ended, Asks
  <2> QED
    BY <2>1, <2>2 DEF Asks
<1>2. CASE Refuse(w)
  BY <1>1, <1>2, RefusesKeeps
<1>3. CASE Answer(w, ReplayMatches(q))
  <2>1. PICK r \in {"ok", "refused"} : /\ End(w, r) /\ UNCHANGED tables
                                       /\ r = "ok" => ReplayMatches(q)
    BY <1>3 DEF Answer
  <2>2. IInv' /\ RecordKept
    BY <1>1, <2>1, Refuses
  <2>3. pc'[w] = r /\ pay' = pay
    BY <2>1, ServesFacts DEF End, Goto, RequestsTyped, tables
  <2>4. AmountOf(q)' = AmountOf(q)
    <3>1. PaidBy(q)' = PaidBy(q)
      BY <2>3 DEF PaidBy
    <3>2. Done(q)' = Done(q)
      BY <2>3 DEF Done, PayingFor
    <3>3. IsFiniteSet(Done(q)) /\ IsFiniteSet(Done(q)')
      BY <1>1, <3>2, InstsFinite DEF Done
    <3>4. AmountOf(q) = SumOver(PaidBy(q), Done(q))
      BY <3>3, AmountIs
    <3>5. AmountOf(q)' = SumOver(PaidBy(q)', Done(q)')
      BY <3>3, AmountIsNext
    <3> QED
      BY <3>1, <3>2, <3>4, <3>5
  <2>5. pc'[w] = "ok" => AmountOf(q)' = q.amount
    BY <2>1, <2>3, <2>4 DEF ReplayMatches, ReplaySum
  <2> QED
    BY <1>1, <2>2, <2>5 DEF Keeps, PaidAsAsked
<1>4. CASE Done(q) = {} /\ SelectionFits(q) /\ Proceed(w, "source", ls)
  <2>1. /\ UNCHANGED <<tables, scene>> /\ pc'[w] = "source"
        /\ held'[w] = held[w] \cup ls
    BY <1>4, ProceedFacts
  <2>2. /\ exp' = exp /\ inst' = inst /\ pay' = pay /\ \A i : Planned(i)' = Planned(i)
        /\ SumOf(Remaining, D)' = SumOf(Remaining, D)
    BY <1>1, <2>1, SameKnown DEF tables
  <2>3. Open(q.month) = D /\ q.amount <= SumOf(Remaining, D)
    BY <1>4 DEF SelectionFits
  <2>4. \A i \in D : /\ Planned(i) /\ exp[inst[i].exp].status = "active" /\ i \in Due(q.month)
                     /\ pay[q.keys[i]] = NoPay
    BY <1>4, <2>3 DEF Open, Due, Done, PayingFor
  <2>5. \A i \in D : <<"expense", inst[i].exp>> \in ls
    BY <2>4 DEF InstLocks, ExpLocks
  <2>6. \A i \in D : Paying(w, i)'
    BY <2>1, <2>2, <2>4, <2>5 DEF Paying, Held
  <2>7. KnowsBulk(w, q)'
    BY <2>2, <2>3, <2>4, <2>6 DEF KnowsBulk
  <2>8. Knows(w, q)'
    BY <1>1, <2>7 DEF Knows
  <2>9. "source" \in Steps /\ "source" \in At(q.kind)
    BY <1>1 DEF Steps, At
  <2> HIDE DEF ls
  <2> QED
    BY <1>4, <2>8, <2>9, ProceedsKeeps
<1> QED
  BY <1>2, <1>3, <1>4 DEF LockDue

LEMMA Fails ==
  ASSUME IInv, NEW w \in Workers, NEW q, q = req[w], Fail(w)
  PROVE  Keeps(w, q)
  BY RefusesKeeps DEF Fail, Steps

-----------------------------------------------------------------------------
(* Requests that begin.                                                    *)

LEMMA KeysAsked == \A q : Asks(q) => KeysOf(q) \subseteq Keys
<1> SUFFICES ASSUME NEW q, Asks(q) PROVE KeysOf(q) \subseteq Keys
  OBVIOUS
<1>1. q.kind \in {"create", "pay"} => KeysOf(q) = {q.key} /\ q.key \in Keys
  BY DEF KeysOf, Asks
<1>2. q.kind = "bulk" => /\ KeysOf(q) = {q.keys[i] : i \in DOMAIN q.keys}
                         /\ \A i \in DOMAIN q.keys : q.keys[i] \in Keys
  BY DEF KeysOf, Asks
<1>3. q.kind \notin {"create", "pay", "bulk"} => KeysOf(q) = {}
  BY DEF KeysOf
<1> QED
  BY <1>1, <1>2, <1>3

LEMMA DraftedKind == \A q, k : KeysOf(q) # {} => Drafted(q, k) # NoDraft
                               \/ q.kind = "none"
<1> TAKE q, k
<1>1. Drafted(q, k).kind = q.kind /\ NoDraft.kind = "none"
  BY DEF Drafted, NoDraft
<1> QED
  BY <1>1

LEMMA Begins ==
  ASSUME IInv, NEW w \in Workers, pc[w] \in Ended, NEW q, Asks(q), Formed(q), q.kind # "none",
         \A k \in KeysOf(q) : draft[k] \in {NoDraft, Drafted(q, k)},
         q.kind \in {"pay", "reopen"} => VersionKnown(q),
         q.kind \in {"update", "void"} => exp[q.exp] # NoExp,
         Begin(w, q)
  PROVE  IInv' /\ RecordKept /\ pc'[w] # "ok"
<1> DEFINE first == FirstStep(q.kind)
<1>1. /\ pc' = [pc EXCEPT ![w] = first] /\ req' = [req EXCEPT ![w] = q]
      /\ seen' = [seen EXCEPT ![w] = IF q.kind = "pay" /\ Planned(q.inst) THEN Paid(q.inst) ELSE 0]
      /\ draft' = [k \in Keys |-> IF k \in KeysOf(q) THEN Drafted(q, k) ELSE draft[k]]
      /\ UNCHANGED <<tables, held, scene>>
  BY DEF Begin, Goto
<1>2. /\ TablesInv /\ PlanAddsUp /\ RequestsInv /\ RequestsTyped /\ LocksApart /\ DraftsSound
      /\ \A v \in Workers : Asks(req[v]) /\ Serves(v) /\ Knows(v, req[v])
  BY DEF IInv, RequestsInv, Serves
<1>3. TablesInv' /\ PlanAddsUp' /\ Effect(w, {}) /\ RecordKept
  <2>1. UNCHANGED <<exp, inst, pay, move, scene>> /\ inactive' = inactive
    BY <1>1 DEF tables
  <2>2. inactive' \subseteq Accs \cup {Card}
    BY <1>2, <2>1 DEF TablesInv, TablesTyped
  <2> QED
    BY <1>2, <2>1, <2>2, Untouched
<1>4. first \in At(q.kind) /\ first \in Steps /\ first \notin Ended
      /\ first \notin {"plan", "source", "write", "ok"}
  BY DEF FirstStep, At, Steps, Ended, Asks
<1> HIDE DEF first
<1>5. /\ pc'[w] = first /\ req'[w] = q /\ held' = held
      /\ seen'[w] = IF q.kind = "pay" /\ Planned(q.inst) THEN Paid(q.inst) ELSE 0
      /\ \A v \in Workers \ {w} : /\ pc'[v] = pc[v] /\ seen'[v] = seen[v]
                                  /\ held'[v] = held[v] /\ req'[v] = req[v]
  BY <1>1, <1>2 DEF RequestsTyped
<1>6. \A v \in Workers : \A k \in KeysOf(req[v]) : draft'[k] = draft[k]
  <2> SUFFICES ASSUME NEW v \in Workers, NEW k \in KeysOf(req[v]) PROVE draft'[k] = draft[k]
    OBVIOUS
  <2>1. k \in Keys
    BY <1>2, KeysAsked
  <2>2. draft[k] = Drafted(req[v], k) /\ KeysOf(req[v]) # {}
    BY <1>2 DEF Serves
  <2>3. req[v].kind # "none"
    BY DEF KeysOf
  <2>4. draft[k] # NoDraft
    BY <2>2, <2>3, DraftedKind
  <2> QED
    BY <1>1, <2>1, <2>4
<1>7. RequestsTyped'
  <2>1. seen'[w] \in Nat
    <3>1. CASE q.kind = "pay" /\ Planned(q.inst)
      <4>1. q.inst \in Insts
        BY <3>1 DEF Asks
      <4>2. inst[q.inst].amount \in Nat
        BY <1>2, <4>1, InstFields DEF TablesInv
      <4>3. Paid(q.inst) \in 0..inst[q.inst].amount \/ Paid(q.inst) \in 0..0
        BY <1>2, <3>1, <4>1 DEF TablesInv, NeverOverpaid
      <4> QED
        BY <1>5, <3>1, <4>2, <4>3
    <3>2. CASE ~(q.kind = "pay" /\ Planned(q.inst))
      BY <1>5, <3>2
    <3> QED
      BY <3>1, <3>2
  <2> QED
    BY <1>1, <1>2, <1>4, <1>5, <2>1 DEF RequestsTyped
<1>8. LocksApart'
  BY <1>2, <1>5 DEF LocksApart
<1>9. DraftsSound'
  <2> SUFFICES ASSUME NEW k \in Keys, exp[k] # NoExp
               PROVE  draft'[k] = draft[k]
    BY <1>1, <1>2 DEF DraftsSound, tables
  <2>1. draft[k].kind = "create"
    BY <1>2 DEF DraftsSound
  <2>2. draft[k] # NoDraft
    BY <2>1 DEF NoDraft
  <2> QED
    BY <1>1, <2>2
<1>10. \A v \in Workers \ {w} : Serves(v)' /\ Knows(v, req[v])'
  BY <1>2, <1>3, <1>5, <1>6, Others
<1>11. Serves(w)'
  <2>1. \A k \in KeysOf(q) : draft'[k] = Drafted(q, k)
    BY <1>1, KeysAsked
  <2> QED
    BY <1>4, <1>5, <2>1 DEF Serves
<1>12. Knows(w, q)'
  <2>1. /\ \A i : Planned(i)' = Planned(i)
        /\ \A i \in Insts : Paid(i)' = Paid(i)
        /\ VersionKnown(q)' = VersionKnown(q) /\ exp' = exp
    BY <1>1, <1>2, SameKnown DEF tables
  <2>2. q.kind \in {"pay", "reopen"} => KnowsVersion(w, q)'
    BY <1>5, <2>1 DEF KnowsVersion, Asks
  <2>3. q.kind \in {"update", "void"} => KnowsExpense(w, q)'
    BY <1>4, <1>5, <2>1 DEF KnowsExpense
  <2> QED
    BY <1>4, <1>5, <2>2, <2>3 DEF Knows
<1>13. Knows(w, req[w])'
  BY <1>5, <1>12
<1> QED
  BY <1>3, <1>4, <1>5, <1>7, <1>8, <1>9, <1>10, <1>11, <1>13 DEF IInv, RequestsInv

LEMMA SceneFacts ==
  ASSUME TablesTyped
  PROVE  /\ Amounts \subseteq Nat \ {0} /\ NewKeys \subseteq Keys
         /\ Scenes[scene].shapes \subseteq AskedShapes
<1>1. scene \in DOMAIN Scenes
  BY DEF TablesTyped
<1>2. Amounts \subseteq Nat \ {0} /\ NewKeys \subseteq Keys
  BY <1>1, ScenesAssumption DEF Amounts, NewKeys
<1>3. ASSUME NEW s \in Scenes[scene].shapes
      PROVE  s \in AskedShapes
  <2>1. /\ s \in [method : {"direct", "card", "other"}, acc : Accs \cup {None},
                  amount : Nat \ {0}, count : Nat \ {0}, text : Nat]
        /\ (s.method = "direct") = (s.acc # None)
    BY <1>1, ScenesAssumption
  <2>2. s \in Shapes
    BY <2>1 DEF Shapes, Methods
  <2> QED
    BY <2>1, <2>2 DEF AskedShapes
<1> QED
  BY <1>2, <1>3

\* As many keys as instalments: no key for two of them.
LEMMA KeysApart ==
  ASSUME NEW S, IsFiniteSet(S), NEW g, g \in [S -> Keys],
         Cardinality({g[i] : i \in S}) = Cardinality(S)
  PROVE  \A i, j \in S : g[i] = g[j] => i = j
<1> DEFINE T == {g[i] : i \in S}
<1>1. g \in Surjection(S, T)
  BY DEF Surjection
<1>2. g \in Injection(S, T)
  BY <1>1, FS_Surjection
<1> QED
  BY <1>2 DEF Injection, IsInjective

\* What clients send.
LEMMA RequestsAsk ==
  ASSUME TablesInv, NEW q \in Requests
  PROVE  /\ Asks(q) /\ Formed(q) /\ q.kind # "none"
         /\ q.kind \in {"pay", "reopen"} => VersionKnown(q)
         /\ q.kind \in {"update", "void"} => exp[q.exp] # NoExp
<1>0. TablesTyped
  BY DEF TablesInv
<1>1. /\ Amounts \subseteq Nat \ {0} /\ NewKeys \subseteq Keys
      /\ Scenes[scene].shapes \subseteq AskedShapes
  BY <1>0, SceneFacts
<1>2. Payables \subseteq Insts /\ \A i \in Payables : Planned(i) /\ inst[i].version \in Nat
  BY <1>0, InstFields DEF Payables
<1>3. ASSUME NEW k \in NewKeys, NEW s \in Scenes[scene].shapes, q = Create(k, s)
      PROVE  Asks(q) /\ Formed(q) /\ q.kind = "create"
  <2>1. q.kind = "create" /\ q.key = k /\ q.shape = s
    BY <1>3 DEF Create
  <2> QED
    BY <1>1, <2>1 DEF Asks, Formed
<1>4. ASSUME NEW k \in Known, NEW s \in Scenes[scene].shapes, NEW v \in BOOLEAN,
             q = Update(k, s, v)
      PROVE  Asks(q) /\ Formed(q) /\ q.kind = "update" /\ exp[q.exp] # NoExp
  <2>1. q.kind = "update" /\ q.exp = k /\ q.shape = s /\ q.void = v
    BY <1>4 DEF Update
  <2> QED
    BY <1>1, <2>1 DEF Asks, Formed, Known
<1>5. ASSUME NEW k \in Known, q = VoidIt(k)
      PROVE  Asks(q) /\ Formed(q) /\ q.kind = "void" /\ exp[q.exp] # NoExp
  <2>1. q.kind = "void" /\ q.exp = k /\ q.void = TRUE
    BY <1>5 DEF VoidIt
  <2> QED
    BY <2>1 DEF Asks, Formed, Known
<1>6. ASSUME NEW i \in Payables, NEW k \in NewKeys, NEW n \in Amounts, NEW a \in Accs,
             q = PayOne(i, k, n, a)
      PROVE  Asks(q) /\ Formed(q) /\ q.kind = "pay" /\ VersionKnown(q)
  <2>1. /\ q.kind = "pay" /\ q.inst = i /\ q.version = inst[i].version /\ q.key = k
        /\ q.amount = n /\ q.acc = a
    BY <1>6 DEF PayOne
  <2>2. Asks(q)
    BY <1>1, <1>2, <2>1 DEF Asks
  <2>3. Formed(q)
    BY <1>6, <2>1 DEF Formed, PayOne
  <2> QED
    BY <1>2, <2>1, <2>2, <2>3 DEF VersionKnown
<1>7. ASSUME NEW i \in Payables, q = Reopen(i)
      PROVE  Asks(q) /\ Formed(q) /\ q.kind = "reopen" /\ VersionKnown(q)
  <2>1. q.kind = "reopen" /\ q.inst = i /\ q.version = inst[i].version
    BY <1>7 DEF Reopen
  <2> QED
    BY <1>2, <2>1 DEF Asks, Formed, VersionKnown
<1>8. ASSUME NEW S \in SUBSET Payables, NEW f \in [S -> NewKeys],
             Cardinality({f[i] : i \in S}) = Cardinality(S),
             NEW m, NEW n \in Amounts, NEW a \in Accs, q = PayMany(S, m, f, n, a)
      PROVE  Asks(q) /\ Formed(q) /\ q.kind = "bulk"
  <2>1. /\ q.kind = "bulk" /\ q.keys = f /\ q.amount = n /\ q.acc = a /\ q.month = m
        /\ q.versions = [i \in S |-> inst[i].version]
    BY <1>8 DEF PayMany
  <2>2. S \subseteq Insts /\ IsFiniteSet(S) /\ f \in [S -> Keys] /\ DOMAIN f = S
    BY <1>1, <1>2, InstsFinite
  <2>3. \A i, j \in S : f[i] = f[j] => i = j
    BY <1>8, <2>2, KeysApart
  <2>4. Asks(q)
    BY <1>1, <2>1, <2>2, <2>3 DEF Asks
  <2>5. Formed(q)
    BY <1>8, <2>1 DEF Formed, PayMany
  <2> QED
    BY <2>1, <2>4, <2>5
<1>9. \/ \E k \in NewKeys, s \in Scenes[scene].shapes : q = Create(k, s)
      \/ \E k \in Known, s \in Scenes[scene].shapes, v \in BOOLEAN : q = Update(k, s, v)
      \/ \E k \in Known : q = VoidIt(k)
      \/ \E i \in Payables, k \in NewKeys, n \in Amounts, a \in Accs : q = PayOne(i, k, n, a)
      \/ \E i \in Payables : q = Reopen(i)
      \/ \E S \in SUBSET Payables : \E f \in [S -> NewKeys], n \in Amounts, a \in Accs :
         \E m : /\ Cardinality({f[i] : i \in S}) = Cardinality(S)
                /\ q = PayMany(S, m, f, n, a)
  <2> DEFINE Many(S) == {PayMany(S, m, f, n, a) :
                   f \in {g \in [S -> NewKeys] : Cardinality({g[i] : i \in S}) = Cardinality(S)},
                   m \in {inst[i].number : i \in S}, n \in Amounts, a \in Accs}
             C1 == {Create(k, s) : k \in NewKeys, s \in Scenes[scene].shapes}
             C2 == {Update(k, s, v) : k \in Known, s \in Scenes[scene].shapes, v \in BOOLEAN}
             C3 == {VoidIt(k) : k \in Known}
             C4 == {PayOne(i, k, n, a) : i \in Payables, k \in NewKeys, n \in Amounts, a \in Accs}
             C5 == {Reopen(i) : i \in Payables}
             C6 == UNION {Many(S) : S \in (SUBSET Payables) \ {{}}}
  <2>1. Requests = Asked("create", C1) \cup Asked("update", C2) \cup Asked("void", C3)
                   \cup Asked("pay", C4) \cup Asked("reopen", C5) \cup Asked("bulk", C6)
    BY DEF Requests
  <2>2. q \in C1 => \E k \in NewKeys, s \in Scenes[scene].shapes : q = Create(k, s)
    OBVIOUS
  <2>3. q \in C2 => \E k \in Known, s \in Scenes[scene].shapes, v \in BOOLEAN : q = Update(k, s, v)
    OBVIOUS
  <2>4. q \in C3 => \E k \in Known : q = VoidIt(k)
    OBVIOUS
  <2>5. q \in C4 => \E i \in Payables, k \in NewKeys, n \in Amounts, a \in Accs :
                       q = PayOne(i, k, n, a)
    OBVIOUS
  <2>6. q \in C5 => \E i \in Payables : q = Reopen(i)
    OBVIOUS
  <2>7. ASSUME q \in C6
        PROVE  \E S \in SUBSET Payables : \E f \in [S -> NewKeys], n \in Amounts, a \in Accs :
                 \E m : /\ Cardinality({f[i] : i \in S}) = Cardinality(S)
                        /\ q = PayMany(S, m, f, n, a)
    <3> HIDE DEF Many
    <3>1. PICK S \in SUBSET Payables : q \in Many(S)
      BY <2>7
    <3>2. PICK f \in {g \in [S -> NewKeys] : Cardinality({g[i] : i \in S}) = Cardinality(S)},
               m \in {inst[i].number : i \in S}, n \in Amounts, a \in Accs :
            q = PayMany(S, m, f, n, a)
      BY <3>1 DEF Many
    <3> QED
      BY <3>2
  <2> HIDE DEF C1, C2, C3, C4, C5, C6
  <2>8. q \in C1 \/ q \in C2 \/ q \in C3 \/ q \in C4 \/ q \in C5 \/ q \in C6
    BY <2>1 DEF Asked
  <2> QED
    BY <2>2, <2>3, <2>4, <2>5, <2>6, <2>7, <2>8
<1> QED
  BY <1>3, <1>4, <1>5, <1>6, <1>7, <1>8, <1>9

LEMMA Starts ==
  ASSUME IInv, NEW w \in Workers, Start(w)
  PROVE  IInv' /\ RecordKept /\ pc'[w] # "ok"
<1>1. TablesInv
  BY DEF IInv
<1>2. PICK q \in Requests : Sendable(q) /\ Begin(w, q)
  BY DEF Start
<1>3. \A k \in KeysOf(q) : draft[k] \in {NoDraft, Drafted(q, k)}
  BY <1>2 DEF Sendable
<1> QED
  BY <1>1, <1>2, <1>3, RequestsAsk, Begins DEF Start

\* The same request with another amount.
LEMMA AmountChanged ==
  ASSUME NEW p, Asks(p), Formed(p), p.kind \in {"pay", "bulk"}, NEW n \in Nat \ {0},
         NEW q, q = [p EXCEPT !.amount = n]
  PROVE  /\ Asks(q) /\ Formed(q) /\ q.kind = p.kind /\ KeysOf(q) = KeysOf(p)
         /\ \A k : Drafted(q, k) = Drafted(p, k)
         /\ q.kind = "pay" => q.inst = p.inst /\ q.version = p.version
<1>1. CASE p.kind = "pay"
  <2>1. p = [kind |-> "pay", inst |-> p.inst, version |-> p.version, key |-> p.key,
             amount |-> p.amount, acc |-> p.acc]
    BY <1>1 DEF Formed
  <2>2. q = [kind |-> "pay", inst |-> p.inst, version |-> p.version, key |-> p.key,
             amount |-> n, acc |-> p.acc]
    BY <2>1
  <2>3. /\ q.kind = "pay" /\ q.inst = p.inst /\ q.version = p.version /\ q.key = p.key
        /\ q.amount = n /\ q.acc = p.acc
    BY <2>2
  <2>4. Formed(q)
    BY <2>2, <2>3 DEF Formed
  <2>5. Asks(q)
    BY <1>1, <2>3 DEF Asks
  <2>6. KeysOf(q) = KeysOf(p)
    BY <1>1, <2>3 DEF KeysOf
  <2>7. \A k : Drafted(q, k) = Drafted(p, k)
    BY <1>1, <2>3 DEF Drafted
  <2> QED
    BY <1>1, <2>3, <2>4, <2>5, <2>6, <2>7
<1>2. CASE p.kind = "bulk"
  <2>1. p = [kind |-> "bulk", month |-> p.month, keys |-> p.keys, versions |-> p.versions,
             amount |-> p.amount, acc |-> p.acc]
    BY <1>2 DEF Formed
  <2>2. q = [kind |-> "bulk", month |-> p.month, keys |-> p.keys, versions |-> p.versions,
             amount |-> n, acc |-> p.acc]
    BY <2>1
  <2>3. /\ q.kind = "bulk" /\ q.month = p.month /\ q.keys = p.keys /\ q.versions = p.versions
        /\ q.amount = n /\ q.acc = p.acc
    BY <2>2
  <2>4. Formed(q)
    BY <2>2, <2>3 DEF Formed
  <2>5. Asks(q)
    BY <1>2, <2>3 DEF Asks
  <2>6. KeysOf(q) = KeysOf(p)
    BY <1>2, <2>3 DEF KeysOf
  <2>7. \A k : Drafted(q, k) = Drafted(p, k)
    BY <1>2, <2>3 DEF Drafted
  <2> QED
    BY <1>2, <2>3, <2>4, <2>5, <2>6, <2>7
<1> QED
  BY <1>1, <1>2

LEMMA Retries ==
  ASSUME IInv, NEW w \in Workers, Retry(w)
  PROVE  IInv' /\ RecordKept /\ pc'[w] # "ok"
<1>1. PICK p : p = req[w]
  OBVIOUS
<1>2. /\ pc[w] \in Ended /\ pc[w] # "idle" /\ Asks(p) /\ Formed(p) /\ Knows(w, p)
      /\ p.kind # "none" /\ TablesInv /\ \A k \in KeysOf(p) : draft[k] = Drafted(p, k)
  <2>1. pc[w] \in Ended /\ pc[w] # "idle"
    BY DEF Retry
  <2> QED
    BY <1>1, <2>1, ServesFacts
<1>3. /\ p.kind \in {"pay", "reopen"} => VersionKnown(p)
      /\ p.kind \in {"update", "void"} => exp[p.exp] # NoExp
  BY <1>2 DEF Knows, KnowsVersion, KnowsExpense
<1>4. CASE Begin(w, p)
  BY <1>2, <1>3, <1>4, Begins
<1>5. ASSUME NEW n \in Amounts, p.kind \in {"pay", "bulk"}, Begin(w, [p EXCEPT !.amount = n])
      PROVE  IInv' /\ RecordKept /\ pc'[w] # "ok"
  <2>1. PICK q : q = [p EXCEPT !.amount = n]
    OBVIOUS
  <2>2. n \in Nat \ {0}
    BY <1>2, SceneFacts DEF TablesInv
  <2>3. /\ Asks(q) /\ Formed(q) /\ q.kind = p.kind /\ KeysOf(q) = KeysOf(p)
        /\ \A k : Drafted(q, k) = Drafted(p, k)
        /\ q.kind = "pay" => q.inst = p.inst /\ q.version = p.version
    BY <1>2, <1>5, <2>1, <2>2, AmountChanged
  <2>4. q.kind \in {"pay", "reopen"} => VersionKnown(q)
    BY <1>3, <1>5, <2>3 DEF VersionKnown
  <2>5. Begin(w, q)
    BY <1>5, <2>1
  <2>6. /\ \A k \in KeysOf(q) : draft[k] \in {NoDraft, Drafted(q, k)}
        /\ q.kind \notin {"none", "update", "void"}
    BY <1>2, <1>5, <2>3
  <2> QED
    BY <1>2, <2>3, <2>4, <2>5, <2>6, Begins
<1>6. Begin(w, p) \/ \E n \in Amounts : p.kind \in {"pay", "bulk"} /\ Begin(w, [p EXCEPT !.amount = n])
  BY <1>1 DEF Retry
<1> QED
  BY <1>4, <1>5, <1>6

-----------------------------------------------------------------------------
(* The steps that write.                                                   *)

\* A step that ends having written rows of expenses that no other holds.
LEMMA WritesKeeps ==
  ASSUME IInv, NEW w \in Workers, NEW q, q = req[w], NEW E, Written(w, E), pc[w] = "write",
         Refuse(w) \/ Commit(w),
         \A e \in E : Held(w, e) \/ \A v \in Workers \ {w} : ~Held(v, e),
         q.kind \in {"pay", "bulk"} /\ pc'[w] = "ok" => PaidAsAsked(q)'
  PROVE  Keeps(w, q)
<1>1. PICK r \in {"ok", "refused"} : End(w, r)
  BY DEF Refuse, Commit
<1>2. \A v \in Workers \ {w}, e \in E : ~Held(v, e)
  BY DEF IInv, RequestsInv, LocksApart, Held
<1>3. IInv' /\ RecordKept
  BY <1>1, <1>2, Ends DEF Written
<1>4. q.kind \notin {"pay", "bulk"} => PaidAsAsked(q)'
  BY DEF PaidAsAsked
<1> QED
  BY <1>3, <1>4 DEF Keeps

LEMMA WriteFacts ==
  ASSUME IInv, NEW w \in Workers, NEW q, q = req[w], pc[w] = "write"
  PROVE  /\ TablesInv /\ PlanAddsUp /\ DraftsSound /\ RequestsTyped /\ Serves(w) /\ Knows(w, q)
         /\ Asks(q)
         /\ q.kind \in {"update", "void"} => Held(w, q.exp)
         /\ q.kind \in {"pay", "reopen"} => Held(w, inst[q.inst].exp)
         /\ q.kind = "bulk" => \A i \in DOMAIN q.keys : Held(w, inst[i].exp)
  BY ServesFacts DEF Knows, KnowsExpense, KnowsPay, KnowsBulk, Paying

LEMMA CreatesKeeps ==
  ASSUME IInv, NEW w \in Workers, NEW q, q = req[w], CreateExpense(w)
  PROVE  Keeps(w, q)
<1>1. /\ pc[w] = "write" /\ q.kind = "create" /\ (Refuse(w) \/ Commit(w))
      /\ \A v \in Workers \ {w} : ~Held(v, q.key)
  BY DEF CreateExpense, Free, Held
<1>2. Written(w, {q.key})
  BY <1>1, WriteFacts, Creates
<1> QED
  BY <1>1, <1>2, WritesKeeps

LEMMA UpdatesKeeps ==
  ASSUME IInv, NEW w \in Workers, NEW q, q = req[w], UpdateExpense(w)
  PROVE  Keeps(w, q)
<1>1. pc[w] = "write" /\ q.kind = "update" /\ (Refuse(w) \/ Commit(w))
  BY DEF UpdateExpense
<1>2. Written(w, {q.exp}) /\ Held(w, q.exp)
  BY <1>1, WriteFacts, Updates
<1> QED
  BY <1>1, <1>2, WritesKeeps

LEMMA VoidsKeeps ==
  ASSUME IInv, NEW w \in Workers, NEW q, q = req[w], VoidExpense(w)
  PROVE  Keeps(w, q)
<1>1. pc[w] = "write" /\ q.kind = "void" /\ (Refuse(w) \/ Commit(w))
  BY DEF VoidExpense
<1>2. Written(w, {q.exp}) /\ Held(w, q.exp)
  BY <1>1, WriteFacts, Voids
<1> QED
  BY <1>1, <1>2, WritesKeeps

LEMMA PaysKeeps ==
  ASSUME IInv, NEW w \in Workers, NEW q, q = req[w], PayInstallment(w)
  PROVE  Keeps(w, q)
<1>1. pc[w] = "write" /\ q.kind = "pay" /\ (Refuse(w) \/ Commit(w))
  BY DEF PayInstallment
<1>2. /\ Written(w, {inst[q.inst].exp}) /\ Held(w, inst[q.inst].exp)
      /\ pc'[w] = "ok" => pay'[q.key] = Payment(q.inst, q.amount)
  BY <1>1, WriteFacts, Pays
<1>3. pc'[w] = "ok" => PaidAsAsked(q)'
  BY <1>1, <1>2 DEF PaidAsAsked
<1> QED
  BY <1>1, <1>2, <1>3, WritesKeeps

LEMMA ReopensKeeps ==
  ASSUME IInv, NEW w \in Workers, NEW q, q = req[w], ReopenInstallment(w)
  PROVE  Keeps(w, q)
<1>1. pc[w] = "write" /\ q.kind = "reopen" /\ (Refuse(w) \/ Commit(w))
  BY DEF ReopenInstallment
<1>2. Written(w, {inst[q.inst].exp}) /\ Held(w, inst[q.inst].exp)
  BY <1>1, WriteFacts, Reopens
<1> QED
  BY <1>1, <1>2, WritesKeeps

LEMMA BulkPaysKeeps ==
  ASSUME IInv, NEW w \in Workers, NEW q, q = req[w], BulkPay(w)
  PROVE  Keeps(w, q)
<1> DEFINE E == {inst[i].exp : i \in DOMAIN q.keys}
<1>1. pc[w] = "write" /\ q.kind = "bulk" /\ (Refuse(w) \/ Commit(w))
  BY DEF BulkPay
<1>2. /\ Written(w, E) /\ \A e \in E : Held(w, e)
      /\ pc'[w] = "ok" => AmountOf(q)' = q.amount
  BY <1>1, WriteFacts, BulkPays
<1>3. pc'[w] = "ok" => PaidAsAsked(q)'
  BY <1>1, <1>2 DEF PaidAsAsked
<1> HIDE DEF E
<1> QED
  BY <1>1, <1>2, <1>3, WritesKeeps

-----------------------------------------------------------------------------
(* Every step.                                                             *)

LEMMA StepKeeps ==
  ASSUME IInv, NEW w \in Workers, Step(w)
  PROVE  IInv' /\ RecordKept /\ (pc'[w] = "ok" => PaidAsAsked(req[w])')
<1>1. CASE Start(w) \/ Retry(w)
  BY <1>1, Starts, Retries
<1>2. CASE ~(Start(w) \/ Retry(w))
  <2>1. PICK q : q = req[w]
    OBVIOUS
  <2>2. Keeps(w, q)
    BY <1>2, <2>1, Looks, SelectsPayer, LocksExpense, LocksPlan, LocksInstallment, LocksCard,
       LocksDue, Fails, CreatesKeeps, UpdatesKeeps, VoidsKeeps, PaysKeeps, ReopensKeeps,
       BulkPaysKeeps DEF Step
  <2>3. req' = req
    BY <1>2 DEF Step, Look, SelectPayer, LockExpense, LockPlan, LockInstallment, LockCard,
         LockDue, Fail, CreateExpense, UpdateExpense, VoidExpense, PayInstallment,
         ReopenInstallment, BulkPay, Refuse, Answer, Commit, End, Proceed
  <2>4. req'[w] = q
    BY <2>1, <2>3
  <2> QED
    BY <2>2, <2>4 DEF Keeps
<1> QED
  BY <1>1, <1>2

\* A step of the rest of the system.
LEMMA RestKeeps ==
  ASSUME IInv, UNCHANGED <<pc, req, seen, held, draft, scene>>, TablesInv', PlanAddsUp',
         DraftsSound', \A w \in Workers : Effect(w, {})
  PROVE  IInv'
<1>1. /\ pc' = pc /\ req' = req /\ seen' = seen /\ held' = held /\ draft' = draft
      /\ TablesInv /\ RequestsTyped /\ LocksApart
      /\ \A w \in Workers : Serves(w) /\ Knows(w, req[w])
  BY DEF IInv, RequestsInv
<1>2. RequestsTyped' /\ LocksApart'
  BY <1>1 DEF RequestsTyped, LocksApart
<1>3. ASSUME NEW w \in Workers
      PROVE  Serves(w)' /\ Knows(w, req[w])'
  <2>1. PICK q : q = req[w]
    OBVIOUS
  <2>2. Asks(q) /\ Knows(w, q) /\ \A k \in KeysOf(q) : draft[k] = Drafted(q, k)
    BY <1>1, <2>1 DEF Serves
  <2>3. \A k \in KeysOf(req[w]) : draft[k] = Drafted(req[w], k)
    BY <2>1, <2>2
  <2>4. Knows(w, q)'
    BY <1>1, <2>2, <2>3, OtherKnows
  <2>5. req'[w] = q
    BY <1>1, <2>1
  <2>6. Serves(w)'
    BY <1>1 DEF Serves
  <2> QED
    BY <2>4, <2>5, <2>6
<1> QED
  BY <1>2, <1>3 DEF IInv, RequestsInv

LEMMA ReversesKeeps ==
  ASSUME IInv, NEW k \in AnyKey, ReverseDirectly(k)
  PROVE  IInv' /\ RecordKept
<1>1. UNCHANGED <<pc, req, seen, held, draft, scene>>
  BY DEF ReverseDirectly
<1>2. \A w : Written(w, {})
  <2> TAKE w
  <2> QED
    BY ReversesDirectly DEF IInv, RequestsInv
<1> QED
  BY <1>1, <1>2, RestKeeps DEF Written

LEMMA SwitchesKeeps ==
  ASSUME IInv, NEW p \in Accs \cup {Card}, SwitchPayer(p)
  PROVE  IInv' /\ RecordKept
<1>1. /\ UNCHANGED <<pc, req, seen, held, draft, scene>>
      /\ UNCHANGED <<exp, inst, pay, move, scene>>
      /\ inactive' \subseteq Accs \cup {Card}
  BY DEF SwitchPayer, IInv, TablesInv, TablesTyped
<1>2. \A w : TablesInv' /\ PlanAddsUp' /\ Effect(w, {}) /\ RecordKept
  <2> TAKE w
  <2> QED
    BY <1>1, Untouched DEF IInv
<1>3. DraftsSound'
  BY <1>1 DEF DraftsSound, IInv, RequestsInv
<1> QED
  BY <1>1, <1>2, <1>3, RestKeeps

LEMMA StutterKeeps ==
  ASSUME IInv, UNCHANGED vars
  PROVE  IInv' /\ RecordKept
<1>1. /\ UNCHANGED <<pc, req, seen, held, draft, scene>>
      /\ UNCHANGED <<exp, inst, pay, move, scene>>
      /\ inactive' \subseteq Accs \cup {Card}
  BY DEF vars, IInv, TablesInv, TablesTyped
<1>2. \A w : TablesInv' /\ PlanAddsUp' /\ Effect(w, {}) /\ RecordKept
  <2> TAKE w
  <2> QED
    BY <1>1, Untouched DEF IInv
<1>3. DraftsSound'
  BY <1>1 DEF DraftsSound, IInv, RequestsInv
<1> QED
  BY <1>1, <1>2, <1>3, RestKeeps

\* A step of w does not end the transaction of another.
LEMMA NextKeeps ==
  ASSUME IInv, [Next]_vars
  PROVE  /\ IInv' /\ RecordKept
         /\ \A w \in Workers : pc[w] # "ok" /\ pc'[w] = "ok" => PaidAsAsked(req[w])'
<1>1. ASSUME NEW w \in Workers, Step(w)
      PROVE  /\ IInv' /\ RecordKept
             /\ \A v \in Workers : pc[v] # "ok" /\ pc'[v] = "ok" => PaidAsAsked(req[v])'
  <2>1. \A v \in Workers \ {w} : pc'[v] = pc[v]
    <3>1. RequestsTyped
      BY DEF IInv, RequestsInv
    <3>2. \E r : Goto(w, r)
      BY <1>1 DEF Step, Start, Retry, Begin, Look, SelectPayer, LockExpense, LockPlan,
           LockInstallment, LockCard, LockDue, Fail, CreateExpense, UpdateExpense, VoidExpense,
           PayInstallment, ReopenInstallment, BulkPay, Refuse, Answer, Commit, End, Proceed
    <3> QED
      BY <3>1, <3>2 DEF Goto, RequestsTyped
  <2>2. IInv' /\ RecordKept /\ (pc'[w] = "ok" => PaidAsAsked(req[w])')
    BY <1>1, StepKeeps
  <2> QED
    BY <2>1, <2>2
<1>2. ASSUME NEW k \in Keys \cup Server, ReverseDirectly(k)
      PROVE  /\ IInv' /\ RecordKept /\ pc' = pc
  BY <1>2, ReversesKeeps DEF AnyKey, ReverseDirectly
<1>3. ASSUME NEW p \in Accs \cup {Card}, SwitchPayer(p)
      PROVE  /\ IInv' /\ RecordKept /\ pc' = pc
  BY <1>3, SwitchesKeeps DEF SwitchPayer
<1>4. ASSUME UNCHANGED vars
      PROVE  /\ IInv' /\ RecordKept /\ pc' = pc
  BY <1>4, StutterKeeps DEF vars
<1> QED
  BY <1>1, <1>2, <1>3, <1>4 DEF Next

-----------------------------------------------------------------------------
(* How a run begins.                                                       *)

OldKeys(b) == {Scenes[b].old[n] : n \in DOMAIN Scenes[b].old}
PaidRow(k, moved) ==
  [OldInst(k, 1) EXCEPT !.status = "paid", !.tx = IF moved THEN OldKey ELSE None]

\* The rows of the beginning, one by one.
OldRow(b, i, moved) ==
  IF b = "paid" /\ i = 1 THEN PaidRow(Scenes[b].old[1], moved)
  ELSE IF b = "paid" /\ i = 2 THEN OldInst(Scenes[b].old[1], 2)
  ELSE IF b = "two" /\ i \in {1, 2} THEN OldInst(Scenes[b].old[i], 1)
  ELSE NoInst
OldPay(k, moved, recorded) ==
  IF recorded /\ k = OldKey THEN [inst |-> 1, amount |-> 2, of |-> None, moved |-> moved] ELSE NoPay
OldMoved(b, a, k, moved) ==
  IF k = OldKey /\ b = "apart" THEN OldMove(a, <<0, 0>>)
  ELSE IF k = OldKey /\ moved THEN OldMove(a, <<1, 1>>)
  ELSE NoMove
Begun(b, a, moved, recorded) ==
  /\ scene = b /\ inactive = {}
  /\ exp = [k \in Keys |-> IF k \in OldKeys(b) THEN OldExpense(OldShape(b)) ELSE NoExp]
  /\ inst = [i \in Insts |-> OldRow(b, i, moved)]
  /\ pay = [k \in AnyKey |-> OldPay(k, moved, recorded)]
  /\ move = [k \in AnyKey |-> OldMoved(b, a, k, moved)]
  /\ \A k \in OldKeys(b) : draft[k].kind = "create" /\ draft[k].shape = OldShape(b)

LEMMA OldKeysAre ==
  ASSUME NEW b \in DOMAIN Scenes
  PROVE  /\ OldKeys(b) \subseteq Keys
         /\ b \in {"cash", "paid"} => OldKeys(b) = {Scenes[b].old[1]}
         /\ b = "two" => /\ OldKeys(b) = {Scenes[b].old[1], Scenes[b].old[2]}
                         /\ Scenes[b].old[1] # Scenes[b].old[2]
         /\ b \notin {"cash", "paid", "two"} => OldKeys(b) = {}
         /\ b \in {"paid", "two"} => 1 \in Insts /\ 2 \in Insts
<1> DEFINE ks == Scenes[b].old
<1>1. /\ ks \in Seq(Keys) /\ IsInjective(ks)
      /\ b \in {"paid", "two"} => MaxInst >= 2
  BY OldAssumption
<1>2. Len(ks) = CASE b \in {"cash", "paid"} -> 1 [] b = "two" -> 2 [] OTHER -> 0
  BY OldAssumption
<1>3. DOMAIN ks = 1..Len(ks) /\ \A n \in DOMAIN ks : ks[n] \in Keys
  BY <1>1
<1>4. b \in {"cash", "paid"} => DOMAIN ks = {1}
  BY <1>2, <1>3
<1>5. b = "two" => DOMAIN ks = {1, 2}
  BY <1>2, <1>3
<1>6. b \notin {"cash", "paid", "two"} => DOMAIN ks = {}
  BY <1>2, <1>3
<1>7. b = "two" => ks[1] # ks[2]
  BY <1>1, <1>5 DEF IsInjective
<1>8. b \in {"paid", "two"} => 1 \in Insts /\ 2 \in Insts
  BY <1>1, BoundsAssumption DEF Insts
<1> QED
  BY <1>3, <1>4, <1>5, <1>6, <1>7, <1>8 DEF OldKeys

LEMMA Begins0 ==
  ASSUME NEW b \in DOMAIN Scenes, NEW a \in Accs, NEW moved \in BOOLEAN, NEW recorded \in BOOLEAN,
         b # "paid" => moved = FALSE /\ recorded = FALSE,
         scene = b, inactive = {}, InitTables(b, a, moved, recorded)
  PROVE  Begun(b, a, moved, recorded)
<1> DEFINE ks == Scenes[b].old
           plan == CASE b = "paid" -> <<PaidRow(ks[1], moved), OldInst(ks[1], 2)>>
                     [] b = "two" -> <<OldInst(ks[1], 1), OldInst(ks[2], 1)>>
                     [] OTHER -> <<>>
<1>1. /\ exp = [k \in Keys |-> IF k \in OldKeys(b) THEN OldExpense(OldShape(b)) ELSE NoExp]
      /\ draft = [k \in Keys |-> IF k \in OldKeys(b)
                                 THEN [NoDraft EXCEPT !.kind = "create", !.shape = OldShape(b)]
                                 ELSE NoDraft]
  BY DEF InitTables, OldKeys
<1>2. inst = [i \in Insts |-> IF i <= Len(plan) THEN plan[i] ELSE NoInst]
  BY DEF InitTables, PaidRow
<1>3. \A i \in Insts : (IF i <= Len(plan) THEN plan[i] ELSE NoInst) = OldRow(b, i, moved)
  <2> SUFFICES ASSUME NEW i \in Insts
               PROVE  (IF i <= Len(plan) THEN plan[i] ELSE NoInst) = OldRow(b, i, moved)
    OBVIOUS
  <2>1. i \in Nat /\ i > 0
    BY BoundsAssumption DEF Insts
  <2>2. CASE b = "paid"
    <3>1. plan = <<PaidRow(ks[1], moved), OldInst(ks[1], 2)>>
      BY <2>2
    <3>2. Len(plan) = 2 /\ plan[1] = PaidRow(ks[1], moved) /\ plan[2] = OldInst(ks[1], 2)
      BY <3>1
    <3> HIDE DEF plan
    <3> QED
      BY <2>1, <2>2, <3>2 DEF OldRow
  <2>3. CASE b = "two"
    <3>1. plan = <<OldInst(ks[1], 1), OldInst(ks[2], 1)>>
      BY <2>3
    <3>2. Len(plan) = 2 /\ plan[1] = OldInst(ks[1], 1) /\ plan[2] = OldInst(ks[2], 1)
      BY <3>1
    <3> HIDE DEF plan
    <3> QED
      BY <2>1, <2>3, <3>2 DEF OldRow
  <2>4. CASE b \notin {"paid", "two"}
    <3>1. plan = <<>>
      BY <2>4
    <3>2. Len(plan) = 0
      BY <3>1
    <3> HIDE DEF plan
    <3> QED
      BY <2>1, <2>4, <3>2 DEF OldRow
  <2> QED
    BY <2>2, <2>3, <2>4
<1>4. inst = [i \in Insts |-> OldRow(b, i, moved)]
  BY <1>2, <1>3
<1>5. pay = [k \in AnyKey |-> OldPay(k, moved, recorded)]
  BY DEF InitTables, OldPay, AnyKey
<1>6. move = [k \in AnyKey |-> OldMoved(b, a, k, moved)]
  <2> DEFINE m(k) == CASE k = OldKey /\ b = "apart" -> OldMove(a, <<0, 0>>)
                       [] k = OldKey /\ moved -> OldMove(a, <<1, 1>>)
                       [] OTHER -> NoMove
  <2>1. move = [k \in AnyKey |-> m(k)]
    BY DEF InitTables, AnyKey
  <2>2. \A k \in AnyKey : m(k) = OldMoved(b, a, k, moved)
    <3> TAKE k \in AnyKey
    <3>1. CASE k = OldKey /\ b = "apart"
      BY <3>1 DEF OldMoved
    <3>2. CASE k = OldKey /\ b # "apart" /\ moved
      BY <3>2 DEF OldMoved
    <3>3. CASE ~(k = OldKey /\ b = "apart") /\ ~(k = OldKey /\ moved)
      BY <3>3 DEF OldMoved
    <3> QED
      BY <3>1, <3>2, <3>3
  <2> HIDE DEF m
  <2> QED
    BY <2>1, <2>2
<1>7. \A k \in OldKeys(b) : draft[k].kind = "create" /\ draft[k].shape = OldShape(b)
  BY <1>1, OldKeysAre DEF NoDraft
<1> QED
  BY <1>1, <1>4, <1>5, <1>6, <1>7 DEF Begun

LEMMA BegunExps ==
  ASSUME NEW b \in DOMAIN Scenes, NEW a \in Accs, NEW moved \in BOOLEAN, NEW recorded \in BOOLEAN,
         Begun(b, a, moved, recorded)
  PROVE  /\ exp \in [Keys -> ExpRows]
         /\ \A k \in Keys \ OldKeys(b) : exp[k] = NoExp
         /\ \A k \in OldKeys(b) : /\ k \in Keys /\ exp[k].status = "active" /\ exp[k].tx = None
                                  /\ exp[k].version = 1 /\ exp[k].shape = OldShape(b)
                                  /\ b \in {"cash", "paid", "two"} /\ exp[k] # NoExp
         /\ b \in {"cash", "paid", "two"} => OldShape(b) \in Shapes /\ OldShape(b).acc = None
         /\ b = "cash" => OldShape(b).method = "direct"
         /\ b = "paid" => /\ OldShape(b).method = "card" /\ OldShape(b).amount = 4
                          /\ OldShape(b).count = 2
         /\ b = "two" => /\ OldShape(b).method = "card" /\ OldShape(b).amount = 2
                         /\ OldShape(b).count = 1
<1> DEFINE s == OldShape(b)
<1>1. /\ OldKeys(b) \subseteq Keys
      /\ b \notin {"cash", "paid", "two"} => OldKeys(b) = {}
  BY OldKeysAre
<1>2. exp = [k \in Keys |-> IF k \in OldKeys(b) THEN OldExpense(s) ELSE NoExp]
  BY DEF Begun
<1>3. b = "cash" => s = [method |-> "direct", acc |-> None, amount |-> 2, count |-> 1, text |-> 1]
  BY DEF OldShape
<1>4. b = "paid" => s = [method |-> "card", acc |-> None, amount |-> 4, count |-> 2, text |-> 1]
  BY DEF OldShape
<1>5. b = "two" => s = [method |-> "card", acc |-> None, amount |-> 2, count |-> 1, text |-> 1]
  BY DEF OldShape
<1>6. b \in {"cash", "paid", "two"} => s \in Shapes /\ s.acc = None
  BY <1>3, <1>4, <1>5 DEF Shapes, Methods
<1> HIDE DEF s
<1>7. /\ OldExpense(s).status = "active" /\ OldExpense(s).tx = None /\ OldExpense(s).version = 1
      /\ OldExpense(s).shape = s
      /\ s \in Shapes => OldExpense(s) \in ExpRows
  BY DEF OldExpense, ExpRows, ExpStates
<1>8. OldExpense(s) # NoExp
  BY <1>7, NoRows
<1>9. \A k \in OldKeys(b) : b \in {"cash", "paid", "two"} /\ exp[k] = OldExpense(s) /\ k \in Keys
  BY <1>1, <1>2
<1>10. \A k \in Keys \ OldKeys(b) : exp[k] = NoExp
  BY <1>2
<1>11. \A k \in Keys : exp[k] \in ExpRows
  BY <1>6, <1>7, <1>9, <1>10, NoRows
<1>12. exp \in [Keys -> ExpRows]
  BY <1>2, <1>11
<1> QED
  BY <1>3, <1>4, <1>5, <1>6, <1>7, <1>8, <1>9, <1>10, <1>12 DEF s

LEMMA BegunInsts ==
  ASSUME NEW b \in DOMAIN Scenes, NEW a \in Accs, NEW moved \in BOOLEAN, NEW recorded \in BOOLEAN,
         Begun(b, a, moved, recorded)
  PROVE  /\ inst \in [Insts -> InstRows]
         /\ \A i \in Insts : Planned(i) <=> b \in {"paid", "two"} /\ i \in {1, 2}
         /\ \A i \in Insts : ~Planned(i) => inst[i] = NoInst
         /\ \A i \in Insts : Planned(i) =>
              /\ inst[i].amount = 2 /\ inst[i].number = (IF b = "two" THEN 1 ELSE i)
              /\ inst[i].exp = Scenes[b].old[IF b = "two" THEN i ELSE 1]
         /\ \A i \in Insts : inst[i].exp = None \/ inst[i].exp \in OldKeys(b)
         /\ \A i \in Insts : inst[i].status = "paid" <=> b = "paid" /\ i = 1
         /\ \A i \in Insts : inst[i].tx = IF b = "paid" /\ i = 1 /\ moved THEN OldKey ELSE None
<1>1. inst = [i \in Insts |-> OldRow(b, i, moved)]
  BY DEF Begun
<1>2. \A k, n : /\ OldInst(k, n).exp = k /\ OldInst(k, n).number = n /\ OldInst(k, n).amount = 2
                /\ OldInst(k, n).status = "planned" /\ OldInst(k, n).tx = None
  BY DEF OldInst
<1>3. \A k \in Keys, n \in Nat : OldInst(k, n) \in InstRows
  BY DEF OldInst, InstRows, InstStates
<1>4. \A k : /\ PaidRow(k, moved).exp = k /\ PaidRow(k, moved).number = 1
             /\ PaidRow(k, moved).amount = 2 /\ PaidRow(k, moved).status = "paid"
             /\ PaidRow(k, moved).tx = IF moved THEN OldKey ELSE None
  BY DEF OldInst, PaidRow
<1>5. \A k \in Keys : PaidRow(k, moved) \in InstRows
  BY DEF OldInst, PaidRow, InstRows, InstStates
<1>6. CASE b = "paid"
  <2>1. OldKeys(b) = {Scenes[b].old[1]} /\ Scenes[b].old[1] \in Keys
    BY <1>6, OldKeysAre
  <2>2. \A i \in Insts : /\ i = 1 => inst[i] = PaidRow(Scenes[b].old[1], moved)
                         /\ i = 2 => inst[i] = OldInst(Scenes[b].old[1], 2)
                         /\ i \notin {1, 2} => inst[i] = NoInst
    BY <1>1, <1>6 DEF OldRow
  <2>3. \A i \in Insts : Planned(i) <=> i \in {1, 2}
    BY <1>2, <1>4, <2>2, NoRows DEF Planned
  <2>4. \A i \in Insts : inst[i] \in InstRows
    BY <1>3, <1>5, <2>1, <2>2, NoRows
  <2>5. \A i \in Insts : inst[i].exp = None \/ inst[i].exp \in OldKeys(b)
    BY <1>2, <1>4, <2>1, <2>2, NoRows
  <2>6. \A i \in Insts : inst[i].status = "paid" <=> i = 1
    BY <1>2, <1>4, <2>2, NoRows
  <2>7. \A i \in Insts : inst[i].tx = IF i = 1 /\ moved THEN OldKey ELSE None
    BY <1>2, <1>4, <2>2, NoRows
  <2>8. \A i \in Insts : i \in {1, 2} => /\ inst[i].amount = 2 /\ inst[i].number = i
                                         /\ inst[i].exp = Scenes[b].old[1]
    BY <1>2, <1>4, <2>2
  <2> QED
    BY <1>1, <1>6, <2>2, <2>3, <2>4, <2>5, <2>6, <2>7, <2>8
<1>7. CASE b = "two"
  <2>1. /\ OldKeys(b) = {Scenes[b].old[1], Scenes[b].old[2]}
        /\ Scenes[b].old[1] \in Keys /\ Scenes[b].old[2] \in Keys
    BY <1>7, OldKeysAre
  <2>2. \A i \in Insts : /\ i \in {1, 2} => inst[i] = OldInst(Scenes[b].old[i], 1)
                         /\ i \notin {1, 2} => inst[i] = NoInst
    BY <1>1, <1>7 DEF OldRow
  <2>3. \A i \in Insts : Planned(i) <=> i \in {1, 2}
    BY <1>2, <2>2, NoRows DEF Planned
  <2>4. \A i \in Insts : inst[i] \in InstRows
    BY <1>3, <2>1, <2>2, NoRows
  <2>5. \A i \in Insts : inst[i].exp = None \/ inst[i].exp \in OldKeys(b)
    BY <1>2, <2>1, <2>2, NoRows
  <2>6. \A i \in Insts : inst[i].status # "paid" /\ inst[i].tx = None
    BY <1>2, <2>2, NoRows
  <2>7. \A i \in Insts : i \in {1, 2} => /\ inst[i].amount = 2 /\ inst[i].number = 1
                                         /\ inst[i].exp = Scenes[b].old[i]
    BY <1>2, <2>2
  <2> QED
    BY <1>1, <1>7, <2>2, <2>3, <2>4, <2>5, <2>6, <2>7
<1>8. CASE b \notin {"paid", "two"}
  <2>1. \A i \in Insts : inst[i] = NoInst
    BY <1>1, <1>8 DEF OldRow
  <2> QED
    BY <1>1, <1>8, <2>1, NoRows DEF Planned
<1> QED
  BY <1>6, <1>7, <1>8

LEMMA BegunMoney ==
  ASSUME NEW b \in DOMAIN Scenes, NEW a \in Accs, NEW moved \in BOOLEAN, NEW recorded \in BOOLEAN,
         recorded => 1 \in Insts,
         Begun(b, a, moved, recorded)
  PROVE  /\ pay \in [AnyKey -> PayRows] /\ move \in [AnyKey -> MoveRows] /\ OldKey \in AnyKey
         /\ \A k \in AnyKey : k # OldKey => pay[k] = NoPay /\ move[k] = NoMove
         /\ ~recorded => pay[OldKey] = NoPay
         /\ recorded => /\ pay[OldKey] # NoPay /\ pay[OldKey].inst = 1 /\ pay[OldKey].amount = 2
                        /\ pay[OldKey].of = None /\ (pay[OldKey].moved <=> moved)
         /\ b # "apart" /\ ~moved => move[OldKey] = NoMove
         /\ b = "apart" => /\ move[OldKey] # NoMove /\ move[OldKey].amount = 2
                           /\ move[OldKey].of = None /\ move[OldKey].text = <<0, 0>>
         /\ b # "apart" /\ moved =>
              /\ move[OldKey] # NoMove /\ move[OldKey].amount = 2
              /\ move[OldKey].of = None /\ move[OldKey].text = <<1, 1>>
<1>1. /\ pay = [k \in AnyKey |-> OldPay(k, moved, recorded)]
      /\ move = [k \in AnyKey |-> OldMoved(b, a, k, moved)]
  BY DEF Begun
<1>2. OldKey \in AnyKey
  BY BoundsAssumption DEF OldKey, AnyKey, Server
<1>3. \A t : /\ OldMove(a, t).amount = 2 /\ OldMove(a, t).of = None /\ OldMove(a, t).text = t
             /\ t \in Nat \X Nat => OldMove(a, t) \in MoveRows
  BY DEF OldMove, MoveRows
<1>4. \A t : OldMove(a, t) # NoMove
  BY <1>3, NoRows
<1>5. \A k \in AnyKey : k # OldKey => pay[k] = NoPay /\ move[k] = NoMove
  BY <1>1 DEF OldPay, OldMoved
<1>6. ~recorded => pay[OldKey] = NoPay
  BY <1>1, <1>2 DEF OldPay
<1>7. recorded => /\ pay[OldKey].inst = 1 /\ pay[OldKey].amount = 2
                  /\ pay[OldKey].of = None /\ (pay[OldKey].moved <=> moved)
  BY <1>1, <1>2 DEF OldPay
<1>8. recorded => pay[OldKey] # NoPay
  BY <1>7, NoRows
<1>9. /\ b # "apart" /\ ~moved => move[OldKey] = NoMove
      /\ b = "apart" => move[OldKey] = OldMove(a, <<0, 0>>)
      /\ b # "apart" /\ moved => move[OldKey] = OldMove(a, <<1, 1>>)
  BY <1>1, <1>2 DEF OldMoved
<1>10. \A k \in AnyKey : pay[k] \in PayRows
  <2>1. recorded => pay[OldKey] \in PayRows
    BY <1>1, <1>2 DEF OldPay, PayRows
  <2> QED
    BY <1>5, <1>6, <2>1, NoRows
<1>11. \A k \in AnyKey : move[k] \in MoveRows
  BY <1>3, <1>5, <1>9, NoRows
<1> QED
  BY <1>1, <1>2, <1>3, <1>4, <1>5, <1>6, <1>7, <1>8, <1>9, <1>10, <1>11

LEMMA BegunTables ==
  ASSUME NEW b \in DOMAIN Scenes, NEW a \in Accs, NEW moved \in BOOLEAN, NEW recorded \in BOOLEAN,
         b # "paid" => moved = FALSE /\ recorded = FALSE, Begun(b, a, moved, recorded)
  PROVE  TablesInv
<1>1. recorded => b = "paid" /\ 1 \in Insts /\ 2 \in Insts
  BY OldKeysAre
<1>2. /\ exp \in [Keys -> ExpRows]
      /\ \A k \in Keys \ OldKeys(b) : exp[k] = NoExp
      /\ \A k \in OldKeys(b) : /\ k \in Keys /\ exp[k].status = "active" /\ exp[k].tx = None
                               /\ exp[k].version = 1 /\ exp[k].shape = OldShape(b)
                               /\ b \in {"cash", "paid", "two"} /\ exp[k] # NoExp
      /\ b \in {"cash", "paid", "two"} => OldShape(b).acc = None
  BY BegunExps
<1>3. /\ inst \in [Insts -> InstRows]
      /\ \A i \in Insts : Planned(i) <=> b \in {"paid", "two"} /\ i \in {1, 2}
      /\ \A i \in Insts : ~Planned(i) => inst[i] = NoInst
      /\ \A i \in Insts : Planned(i) => inst[i].amount = 2 /\ inst[i].number \in {1, 2}
      /\ \A i \in Insts : inst[i].exp = None \/ inst[i].exp \in OldKeys(b)
      /\ \A i \in Insts : inst[i].status = "paid" <=> b = "paid" /\ i = 1
      /\ \A i \in Insts : inst[i].tx = IF b = "paid" /\ i = 1 /\ moved THEN OldKey ELSE None
      /\ \A i \in Insts : Planned(i) => inst[i].exp \in OldKeys(b)
  <2>1. \A i \in Insts : Planned(i) =>
          /\ inst[i].amount = 2 /\ inst[i].number = (IF b = "two" THEN 1 ELSE i)
          /\ inst[i].exp = Scenes[b].old[IF b = "two" THEN i ELSE 1]
    BY BegunInsts
  <2>2. \A i \in Insts : Planned(i) <=> b \in {"paid", "two"} /\ i \in {1, 2}
    BY BegunInsts
  <2>3. \A i \in Insts : Planned(i) => inst[i].amount = 2 /\ inst[i].number \in {1, 2}
    BY <2>1, <2>2
  <2>4. \A i \in Insts : Planned(i) => inst[i].exp \in OldKeys(b)
    BY <2>1, <2>2, OldKeysAre
  <2> QED
    BY <2>2, <2>3, <2>4, BegunInsts
<1>4. /\ pay \in [AnyKey -> PayRows] /\ move \in [AnyKey -> MoveRows] /\ OldKey \in AnyKey
      /\ \A k \in AnyKey : k # OldKey => pay[k] = NoPay /\ move[k] = NoMove
      /\ ~recorded => pay[OldKey] = NoPay
      /\ recorded => /\ pay[OldKey] # NoPay /\ pay[OldKey].inst = 1 /\ pay[OldKey].amount = 2
                     /\ pay[OldKey].of = None /\ (pay[OldKey].moved <=> moved)
      /\ b # "apart" /\ ~moved => move[OldKey] = NoMove
      /\ b = "apart" => /\ move[OldKey] # NoMove /\ move[OldKey].amount = 2
                        /\ move[OldKey].of = None /\ move[OldKey].text = <<0, 0>>
      /\ b # "apart" /\ moved => /\ move[OldKey] # NoMove /\ move[OldKey].amount = 2
                                 /\ move[OldKey].of = None /\ move[OldKey].text = <<1, 1>>
  BY <1>1, BegunMoney
<1>5. scene = b /\ inactive = {}
  BY DEF Begun
<1>6. TablesTyped
  BY <1>2, <1>3, <1>4, <1>5 DEF TablesTyped
<1>7. \A k \in AnyKey : pay[k].of = None /\ move[k].of = None /\ k # None
  BY <1>4, NoRows, NoneApart
<1>8. \A k \in AnyKey : pay[k] # NoPay => k = OldKey /\ recorded /\ b = "paid"
  BY <1>1, <1>4
<1>9. \A k \in AnyKey : move[k] # NoMove => k = OldKey /\ (b = "apart" \/ (moved /\ b = "paid"))
  BY <1>4
<1>10. \A k : (~PayReversed(k) /\ ~MoveReversed(k)) \/ k \notin AnyKey
  BY <1>6, <1>7, Domains DEF PayReversed, MoveReversed
<1>11. \A k \in AnyKey : Reversible(k) <=> move[k] # NoMove
  BY <1>7, <1>10 DEF Reversible
<1>12. FinitePays
  <2>1. {k \in AnyKey : pay[k] # NoPay} \subseteq {OldKey}
    BY <1>8
  <2> QED
    BY <2>1, FS_Singleton, FS_Subset DEF FinitePays
<1>13. PaysSound
  <2>1. \A k \in AnyKey : pay[k] # NoPay => pay[k].inst \in Insts /\ pay[k].amount > 0
    BY <1>1, <1>4, <1>8
  <2> QED
    BY <1>7, <2>1 DEF PaysSound
<1>14. MovesSound
  <2>1. \A k \in AnyKey : move[k] # NoMove => move[k].amount > 0
    BY <1>4, <1>9
  <2> QED
    BY <1>7, <2>1 DEF MovesSound
<1>15. OldKey \notin Keys
  BY KeysAssumption, BoundsAssumption DEF OldKey, Server
<1>16. Linked
  <2>1. \A k \in Keys : k \in AnyKey /\ move[k] = NoMove
    BY <1>9, <1>15 DEF AnyKey
  <2>2. ASSUME NEW k \in AnyKey, pay[k].moved
        PROVE  /\ move[k] # NoMove /\ move[k].amount = pay[k].amount
               /\ move[k].text[2] > 0 /\ move[k].of = pay[k].of
    <3>1. pay[k] # NoPay
      BY <2>2, NoRows
    <3>2. k = OldKey /\ recorded /\ b = "paid" /\ moved
      BY <1>4, <1>8, <2>2, <3>1
    <3> QED
      BY <1>4, <3>2
  <2> QED
    BY <2>1, <2>2 DEF Linked
<1>17. InstsSound
  <2>1. \A i \in Insts : Planned(i) =>
          /\ inst[i].exp \in Keys /\ exp[inst[i].exp] # NoExp
          /\ inst[i].amount > 0 /\ inst[i].number > 0
    BY <1>2, <1>3
  <2>2. \A i \in Insts : inst[i].tx # None => inst[i].status = "paid" /\ move[OldKey].text[2] > 0
    <3> SUFFICES ASSUME NEW i \in Insts, inst[i].tx # None
                 PROVE  inst[i].status = "paid" /\ move[OldKey].text[2] > 0
      OBVIOUS
    <3>1. b = "paid" /\ i = 1 /\ moved
      BY <1>3
    <3> QED
      BY <1>3, <1>4, <3>1
  <2>3. \A i, j \in Insts : inst[i].tx = inst[j].tx /\ inst[i].tx # None => i = j
    BY <1>3
  <2>4. \A k \in AnyKey : pay[k] # NoPay => Planned(pay[k].inst)
    BY <1>1, <1>3, <1>4, <1>8
  <2> QED
    BY <1>3, <2>1, <2>2, <2>3, <2>4 DEF InstsSound
<1>18. OldPaid
  BY <1>3, <1>4 DEF OldPaid
<1>19. ExpsSound
  <2>1. \A k \in Keys : exp[k].tx = None
    BY <1>2, NoRows
  <2>2. \A k \in Keys : exp[k].status = "none" => exp[k] = NoExp
    BY <1>2
  <2>3. \A k \in Keys : exp[k].status # "none" => exp[k].version > 0
    BY <1>2, NoRows
  <2>4. \A k \in Keys : exp[k].shape.acc = None
    BY <1>2, NoRows
  <2>5. \A k \in Keys : MovementShape(exp[k])
    BY <2>1, <2>4 DEF MovementShape
  <2> QED
    BY <2>1, <2>2, <2>3, <2>5 DEF ExpsSound
<1>20. \A i \in Insts : /\ History(i) = {} <=> ~(recorded /\ i = 1)
                        /\ recorded /\ i = 1 => History(i) = {OldKey} /\ OldKey \in ActivePayments(i)
  <2> TAKE i \in Insts
  <2>1. i # 0
    BY BoundsAssumption DEF Insts
  <2>2. \A k \in AnyKey : pay[k].inst = i <=> k = OldKey /\ recorded /\ i = 1
    BY <1>4, <2>1, NoRows
  <2>3. History(i) = {k \in AnyKey : pay[k].inst = i}
    BY <1>6, Domains DEF History
  <2> QED
    BY <1>4, <1>7, <1>10, <2>2, <2>3 DEF ActivePayments
<1>21. Books
  <2>1. \A k \in AnyKey : ~ExpenseOwns(k)
    <3>1. \A k \in Keys : exp[k].tx = None
      BY <1>2, NoRows
    <3> QED
      BY <1>7, <3>1 DEF ExpenseOwns
  <2>2. \A k \in AnyKey : Reversible(k) => Owned(k) \/ Apart(k)
    <3> SUFFICES ASSUME NEW k \in AnyKey, move[k] # NoMove, b # "apart"
                 PROVE  PaymentOwns(k) \/ InstOwns(k)
      BY <1>4, <1>9, <1>11 DEF Owned, Apart
    <3>1. k = OldKey /\ moved /\ b = "paid" /\ 1 \in Insts
      BY <1>9, OldKeysAre
    <3>2. CASE recorded
      BY <1>4, <1>7, <1>10, <3>1, <3>2 DEF PaymentOwns
    <3>3. CASE ~recorded
      BY <1>3, <1>20, <3>1, <3>3 DEF InstOwns
    <3> QED
      BY <3>2, <3>3
  <2>3. \A k \in AnyKey : Owned(k) => Reversible(k)
    <3> SUFFICES ASSUME NEW k \in AnyKey, PaymentOwns(k) \/ InstOwns(k)
                 PROVE  move[k] # NoMove
      BY <1>11, <2>1 DEF Owned
    <3>1. CASE PaymentOwns(k)
      BY <1>16, <3>1 DEF PaymentOwns, Linked
    <3>2. CASE InstOwns(k)
      <4>1. PICK i \in Insts : inst[i].tx = k
        BY <3>2 DEF InstOwns
      <4>2. k = OldKey /\ moved /\ b = "paid"
        BY <1>3, <1>7, <4>1
      <4> QED
        BY <1>4, <4>2
    <3> QED
      BY <3>1, <3>2
  <2>4. \A k \in Keys : exp[k].status = "active" /\ exp[k].tx # None =>
          move[exp[k].tx] = Spent(exp[k].shape)
    BY <1>2, NoRows
  <2>5. \A i \in Insts : inst[i].tx # None /\ History(i) # {} => ActivePayments(i) # {}
    BY <1>20
  <2> QED
    BY <2>2, <2>3, <2>4, <2>5 DEF Books
<1>22. NeverOverpaid
  <2> SUFFICES ASSUME NEW i \in Insts, Planned(i)
               PROVE  /\ Paid(i) \in 0..(IF exp[inst[i].exp].status = "voided" THEN 0
                                         ELSE inst[i].amount)
                      /\ inst[i].status = "paid" <=> Paid(i) = inst[i].amount
    BY DEF NeverOverpaid
  <2>1. exp[inst[i].exp].status = "active" /\ inst[i].amount = 2
    BY <1>2, <1>3
  <2>2. Paid(i) = IF b = "paid" /\ i = 1 THEN 2 ELSE 0
    <3>1. CASE recorded /\ i = 1
      <4>1. History(i) = {} \cup {OldKey} /\ IsFiniteSet({}) /\ OldKey \notin {}
        BY <1>20, <3>1, FS_EmptySet
      <4>2. SignedOf[OldKey] = 2
        BY <1>4, <3>1 DEF SignedOf, Signed
      <4>3. \A x \in {} \cup {OldKey} : SignedOf[x] \in Int
        BY <4>2
      <4>4. SumOver(SignedOf, {} \cup {OldKey}) = SignedOf[OldKey] + SumOver(SignedOf, {})
        BY <4>1, <4>3, SumAdd
      <4>5. SumOver(SignedOf, History(i)) = 2
        BY <4>1, <4>2, <4>4, SumEmpty
      <4> QED
        BY <1>1, <1>6, <1>12, <1>20, <3>1, <4>5, PaidIs
    <3>2. CASE ~(recorded /\ i = 1)
      <4>1. Paid(i) = IF inst[i].status = "paid" THEN 2 ELSE 0
        BY <1>6, <1>12, <1>20, <2>1, <3>2, PaidIs
      <4> QED
        BY <1>3, <4>1
    <3> QED
      BY <3>1, <3>2
  <2> QED
    BY <1>3, <2>1, <2>2
<1> QED
  BY <1>6, <1>12, <1>13, <1>14, <1>16, <1>17, <1>18, <1>19, <1>21, <1>22 DEF TablesInv

\* What the plans of the beginning add up to.
LEMMA OnePart ==
  ASSUME NEW i, inst[i].amount = 2, i \in Insts
  PROVE  SumOver(PlannedOf, {i}) = 2 /\ Cardinality({i}) = 1
<1>1. {i} = {} \cup {i} /\ IsFiniteSet({}) /\ i \notin {}
  BY FS_EmptySet
<1>2. PlannedOf[i] = 2 /\ \A x \in {} \cup {i} : PlannedOf[x] \in Int
  BY DEF PlannedOf
<1>3. SumOver(PlannedOf, {} \cup {i}) = PlannedOf[i] + SumOver(PlannedOf, {})
  BY <1>1, <1>2, SumAdd
<1>4. SumOver(PlannedOf, {}) = 0
  BY SumEmpty
<1>5. SumOver(PlannedOf, {} \cup {i}) = 2
  BY <1>2, <1>3, <1>4
<1>6. Cardinality({i}) = 1
  BY FS_Singleton, Zenon
<1> QED
  BY <1>1, <1>5, <1>6

LEMMA TwoParts ==
  ASSUME 1 \in Insts, 2 \in Insts, inst[1].amount = 2, inst[2].amount = 2
  PROVE  SumOver(PlannedOf, {1, 2}) = 4 /\ Cardinality({1, 2}) = 2
<1>1. {1, 2} = {1} \cup {2} /\ IsFiniteSet({1}) /\ 2 \notin {1} /\ Cardinality({1}) = 1
  <2>1. IsFiniteSet({1}) /\ Cardinality({1}) = 1
    BY FS_Singleton, Zenon
  <2> QED
    BY <2>1
<1>2. PlannedOf[2] = 2 /\ \A x \in {1} \cup {2} : PlannedOf[x] \in Int
  BY DEF PlannedOf
<1>3. SumOver(PlannedOf, {1} \cup {2}) = PlannedOf[2] + SumOver(PlannedOf, {1})
  BY <1>1, <1>2, SumAdd
<1>4. SumOver(PlannedOf, {1}) = 2
  BY OnePart
<1>5. Cardinality({1} \cup {2}) = 2
  <2>1. Cardinality({1} \cup {2})
          = IF 2 \in {1} THEN Cardinality({1}) ELSE Cardinality({1}) + 1
    BY <1>1, FS_AddElement, Zenon
  <2> QED
    BY <1>1, <2>1
<1> QED
  BY <1>1, <1>2, <1>3, <1>4, <1>5

LEMMA BegunPlans ==
  ASSUME NEW b \in DOMAIN Scenes, NEW a \in Accs, NEW moved \in BOOLEAN, NEW recorded \in BOOLEAN,
         Begun(b, a, moved, recorded)
  PROVE  PlanAddsUp
<1>1. /\ \A i \in Insts : Planned(i) <=> b \in {"paid", "two"} /\ i \in {1, 2}
      /\ \A i \in Insts : Planned(i) =>
           /\ inst[i].amount = 2 /\ inst[i].number = (IF b = "two" THEN 1 ELSE i)
           /\ inst[i].exp = Scenes[b].old[IF b = "two" THEN i ELSE 1]
  BY BegunInsts
<1>2. \A k \in Keys : PlanRight(k)
  <2> SUFFICES ASSUME NEW k \in Keys, exp[k].status = "active" PROVE PlanRight(k)
    BY DEF PlanRight
  <2>1. k \in OldKeys(b) /\ exp[k].shape = OldShape(b) /\ b \in {"cash", "paid", "two"}
    BY BegunExps, NoRows
  <2>2. CASE b = "cash"
    <3>1. Plan(k) = {}
      BY <1>1, <2>2 DEF Plan
    <3>2. OldShape(b).method = "direct"
      BY <2>2, BegunExps
    <3> QED
      BY <2>1, <3>1, <3>2 DEF PlanRight
  <2>3. CASE b = "paid"
    <3>1. k = Scenes[b].old[1] /\ 1 \in Insts /\ 2 \in Insts
      BY <2>1, <2>3, OldKeysAre
    <3>2. Plan(k) = {1, 2}
      BY <1>1, <2>3, <3>1 DEF Plan
    <3>3. inst[1].number = 1 /\ inst[2].number = 2 /\ inst[1].amount = 2 /\ inst[2].amount = 2
      BY <1>1, <2>3, <3>1
    <3>4. {inst[i].number : i \in Plan(k)} = 1..2
      BY <3>2, <3>3
    <3>5. OldShape(b).method = "card" /\ OldShape(b).amount = 4 /\ OldShape(b).count = 2
      BY <2>3, BegunExps
    <3> QED
      BY <2>1, <3>1, <3>2, <3>3, <3>4, <3>5, TwoParts DEF PlanRight
  <2>4. CASE b = "two"
    <3>1. /\ 1 \in Insts /\ 2 \in Insts /\ Scenes[b].old[1] # Scenes[b].old[2]
          /\ (k = Scenes[b].old[1] \/ k = Scenes[b].old[2])
      BY <2>1, <2>4, OldKeysAre
    <3>2. PICK n \in {1, 2} : k = Scenes[b].old[n]
      BY <3>1
    <3>3. Plan(k) = {n}
      BY <1>1, <2>4, <3>1, <3>2 DEF Plan
    <3>4. n \in Insts /\ inst[n].number = 1 /\ inst[n].amount = 2
      BY <1>1, <2>4, <3>1, <3>2
    <3>5. {inst[i].number : i \in Plan(k)} = 1..1
      BY <3>3, <3>4
    <3>6. OldShape(b).method = "card" /\ OldShape(b).amount = 2 /\ OldShape(b).count = 1
      BY <2>4, BegunExps
    <3> QED
      BY <2>1, <3>3, <3>4, <3>5, <3>6, OnePart DEF PlanRight
  <2> QED
    BY <2>1, <2>2, <2>3, <2>4
<1> QED
  BY <1>2, PlanAddsUpIs

LEMMA InitHolds == Init => IInv
<1> SUFFICES ASSUME Init PROVE IInv
  OBVIOUS
<1>1. PICK b \in DOMAIN Scenes, a \in Accs :
        \E moved, recorded \in IF b = "paid" THEN BOOLEAN ELSE {FALSE} :
          scene = b /\ InitTables(b, a, moved, recorded)
  BY DEF Init
<1>2. PICK moved \in BOOLEAN, recorded \in BOOLEAN :
        /\ b # "paid" => moved = FALSE /\ recorded = FALSE
        /\ scene = b /\ InitTables(b, a, moved, recorded)
  BY <1>1
<1>3. Begun(b, a, moved, recorded)
  BY <1>2, Begins0 DEF Init
<1>4. TablesInv /\ PlanAddsUp
  BY <1>2, <1>3, BegunTables, BegunPlans
<1>5. /\ pc = [w \in Workers |-> "idle"] /\ req = [w \in Workers |-> [kind |-> "none"]]
      /\ seen = [w \in Workers |-> 0] /\ held = [w \in Workers |-> {}]
  BY DEF Init
<1>6. RequestsTyped /\ LocksApart
  BY <1>5 DEF RequestsTyped, LocksApart, Ended
<1>7. DraftsSound
  <2> SUFFICES ASSUME NEW k \in Keys, exp[k] # NoExp
               PROVE  draft[k].kind = "create" /\ draft[k].shape.acc = None
    BY DEF DraftsSound
  <2>1. k \in OldKeys(b) /\ b \in {"cash", "paid", "two"} /\ OldShape(b).acc = None
    BY <1>3, BegunExps
  <2> QED
    BY <1>3, <2>1 DEF Begun
<1>8. ASSUME NEW w \in Workers
      PROVE  Serves(w) /\ Knows(w, req[w])
  <2>1. req[w].kind = "none" /\ pc[w] = "idle" /\ held[w] = {} /\ seen[w] = 0
    BY <1>5
  <2>2. KeysOf(req[w]) = {}
    BY <2>1 DEF KeysOf
  <2>3. Asks(req[w]) /\ Formed(req[w])
    BY <2>1 DEF Asks, Formed
  <2>4. Serves(w)
    BY <2>1, <2>2, <2>3 DEF Serves, Ended
  <2>5. Knows(w, req[w])
    BY <2>1 DEF Knows
  <2> QED
    BY <2>4, <2>5
<1> QED
  BY <1>4, <1>6, <1>7, <1>8 DEF IInv, RequestsInv

-----------------------------------------------------------------------------
(* What spending promises.                                                 *)

LEMMA InvariantHolds == Spec => []IInv
<1>1. IInv /\ [Next]_vars => IInv'
  BY NextKeeps
<1> QED
  BY <1>1, InitHolds, PTL DEF Spec

LEMMA SoundTyped == IInv => TypeOK
<1> SUFFICES ASSUME IInv PROVE TypeOK
  OBVIOUS
<1>0. TablesTyped /\ InstsSound /\ ExpsSound /\ RequestsTyped
  BY DEF IInv, TablesInv, RequestsInv
<1>1. \A k \in Keys : exp[k].status \in {"none", "active", "voided"} /\ MovementShape(exp[k])
  BY <1>0, ExpFields DEF ExpsSound, ExpStates
<1>2. \A i \in Insts : /\ inst[i].status \in {"none", "planned", "paid", "gone"}
                       /\ Planned(i) => inst[i].exp \in Keys /\ inst[i].amount > 0
  BY <1>0, InstFields DEF InstsSound, InstStates
<1>3. \A k \in Keys \cup Server :
        /\ pay[k] \in [inst : Insts \cup {0}, amount : Nat,
                       of : Keys \cup Server \cup {None}, moved : BOOLEAN]
        /\ move[k].acc \in Accs \cup {None}
  <2> SUFFICES ASSUME NEW k \in AnyKey
               PROVE  pay[k] \in PayRows /\ move[k].acc \in Accs \cup {None}
    BY DEF AnyKey, PayRows
  <2> QED
    BY <1>0, PayFields, MoveFields
<1>4. inactive \subseteq Accs \cup {Card}
  BY <1>0 DEF TablesTyped
<1>5. \A w \in Workers : pc[w] \in Ended => held[w] = {} /\ seen[w] = 0
  BY DEF IInv, RequestsInv, Serves
<1> QED
  BY <1>0, <1>1, <1>2, <1>3, <1>4, <1>5 DEF TypeOK, RequestsTyped

LEMMA SoundBooks == TablesInv => BooksAgree
<1> SUFFICES ASSUME TablesInv PROVE BooksAgree
  OBVIOUS
<1>0. /\ TablesTyped /\ Books /\ InstsSound /\ ExpsSound /\ Linked
      /\ DOMAIN pay = AnyKey /\ DOMAIN move = AnyKey
  BY Domains DEF TablesInv
<1>1. \A k \in AnyKey : k \in OwnedByExpense <=> ExpenseOwns(k)
  BY NoneApart DEF OwnedByExpense, ExpenseOwns
<1>2. \A k \in AnyKey : k \in OwnedByPayment <=> PaymentOwns(k)
  BY <1>0 DEF OwnedByPayment, PaymentOwns
<1>3. \A k \in AnyKey : k \in OwnedByInstallment <=> InstOwns(k)
  <2> TAKE k \in AnyKey
  <2>1. ASSUME NEW i \in Insts, inst[i].tx = k
        PROVE  Planned(i)
    <3>1. inst[i].tx # None
      BY <2>1, NoneApart
    <3> QED
      BY <1>0, <3>1, NoRows DEF InstsSound
  <2> QED
    BY <2>1, NoneApart DEF OwnedByInstallment, InstOwns
<1>4. OwnedByExpense \cup OwnedByPayment \cup OwnedByInstallment \subseteq AnyKey
  <2>1. OwnedByExpense \subseteq AnyKey
    BY <1>0, ExpFields DEF OwnedByExpense
  <2>2. OwnedByPayment \subseteq AnyKey
    BY <1>0 DEF OwnedByPayment
  <2>3. OwnedByInstallment \subseteq AnyKey
    <3>1. OldKey \in AnyKey
      BY BoundsAssumption DEF OldKey, AnyKey, Server
    <3> QED
      BY <1>0, <3>1, InstFields DEF OwnedByInstallment
  <2> QED
    BY <2>1, <2>2, <2>3
<1>5. \A k \in AnyKey : k \in OwnedByExpense \cup OwnedByPayment \cup OwnedByInstallment
                        <=> Owned(k)
  BY <1>1, <1>2, <1>3 DEF Owned
<1>6. \A k \in AnyKey : Owned(k) => ~Apart(k)
  <2> SUFFICES ASSUME NEW k \in AnyKey, Owned(k), k = OldKey, move[k].text = <<0, 0>>
               PROVE  FALSE
    BY DEF Apart
  <2>0. move[k].text[2] = 0
    OBVIOUS
  <2>1. CASE ExpenseOwns(k)
    <3>1. PICK j \in Keys : exp[j].tx = k
      BY <2>1 DEF ExpenseOwns
    <3>2. k # None /\ exp[j].tx \in {j} \cup (Server \ {OldKey})
      BY <1>0, <3>1, NoneApart DEF ExpsSound
    <3>3. OldKey \notin Keys
      BY KeysAssumption, BoundsAssumption DEF OldKey, Server
    <3> QED
      BY <3>1, <3>2, <3>3
  <2>2. CASE PaymentOwns(k)
    BY <1>0, <2>0, <2>2 DEF PaymentOwns, Linked
  <2>3. CASE InstOwns(k)
    <3>1. PICK i \in Insts : inst[i].tx = k
      BY <2>3 DEF InstOwns
    <3>2. inst[i].tx # None
      BY <3>1, NoneApart
    <3>3. Planned(i)
      BY <1>0, <3>2, NoRows DEF InstsSound
    <3> QED
      BY <1>0, <2>0, <3>2, <3>3 DEF InstsSound
  <2> QED
    BY <2>1, <2>2, <2>3 DEF Owned
<1>7. {k \in DOMAIN move : Reversible(k)} \ {k \in {OldKey} : move[k].text = <<0, 0>>}
        = OwnedByExpense \cup OwnedByPayment \cup OwnedByInstallment
  <2>1. \A k \in AnyKey : Reversible(k) /\ ~Apart(k) <=> Owned(k)
    BY <1>0, <1>6 DEF Books
  <2>2. \A j : j \in {k \in DOMAIN move : Reversible(k)} \ {k \in {OldKey} : move[k].text = <<0, 0>>}
               <=> j \in AnyKey /\ Reversible(j) /\ ~Apart(j)
    BY <1>0 DEF Apart
  <2> QED
    BY <1>4, <1>5, <2>1, <2>2
<1>8. \A k \in OwnedByPayment : move[k].amount = pay[k].amount
  BY <1>0 DEF OwnedByPayment, Linked
<1> QED
  BY <1>0, <1>7, <1>8 DEF BooksAgree, Books

\* Requests may race, repeat, fail and edit, void, pay, reopen at any time: no instalment
\* is ever overpaid, a voided expense keeps no payment, and the account books hold
\* exactly the movements that the spending tables say are in force.
THEOREM SpendingSoundHolds == Spec => []SpendingSound
<1>1. IInv => SpendingSound
  BY SoundTyped, SoundBooks DEF SpendingSound, IInv, TablesInv
<1> QED
  BY <1>1, InvariantHolds, PTL

\* The plan of an active card expense adds up to it and numbers its instalments without
\* a gap, whatever edits, payments and reopenings it has been through.
THEOREM PlanAddsUpHolds == Spec => []PlanAddsUp
<1>1. IInv => PlanAddsUp
  BY DEF IInv
<1> QED
  BY <1>1, InvariantHolds, PTL

\* An answer of success to a payment says that its amount was paid under its keys, by
\* this request or by an earlier one with the same keys.
THEOREM OkMeansPaidHolds == Spec => OkMeansPaid
<1>1. IInv /\ [Next]_vars =>
        [\A w \in Workers : pc[w] # "ok" /\ pc'[w] = "ok" => PaidAsAsked(req[w])']_vars
  BY NextKeeps
<1> QED
  BY <1>1, InvariantHolds, PTL DEF Spec, OkMeansPaid

\* No step changes or removes a recorded payment, or takes its instalment off the plan.
THEOREM HistoryKeptHolds == Spec => HistoryKept
<1>1. IInv /\ [Next]_vars =>
        [\A k \in DOMAIN pay : pay[k] # NoPay =>
           pay'[k] = pay[k] /\ inst'[pay[k].inst].status \in {"planned", "paid"}]_vars
  <2> SUFFICES ASSUME IInv, [Next]_vars, NEW k \in DOMAIN pay, pay[k] # NoPay
               PROVE  pay'[k] = pay[k] /\ inst'[pay[k].inst].status \in {"planned", "paid"}
    OBVIOUS
  <2>1. DOMAIN pay = AnyKey
    BY Domains DEF IInv, TablesInv
  <2> QED
    BY <2>1, NextKeeps DEF RecordKept
<1> QED
  BY <1>1, InvariantHolds, PTL DEF Spec, HistoryKept
=============================================================================
