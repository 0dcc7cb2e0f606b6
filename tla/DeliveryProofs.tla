--------------------------- MODULE DeliveryProofs ---------------------------
(***************************************************************************)
(* Theorems about what leaves the server: the reports (Reports), for any   *)
(* books that are sound, days, calendar, ranges and bounds; and the        *)
(* e-mails (OutboxDelivery), for any events, dispatchers, attempt limits,  *)
(* batch size, lease, delay and horizon.  The two share no variable.       *)
(*                                                                         *)
(* A report keeps ReportsInv: what it has read so far is what the books of *)
(* its snapshot say, and every request leaves books that are sound.        *)
(***************************************************************************)
EXTENDS OutboxDelivery, Reports, SumTheorems

-----------------------------------------------------------------------------
(* Types.                                                                  *)

AMove(day) ==
  [day : Until(day), type : {"income", "expense", "transfer"}, amount : Nat, back : Nat,
   managed : BOOLEAN]
ADue(day) ==
  [kind : {"receivable", "contribution", "card", "tax", "other"}, due : Days,
   month : Months \cup {0}, amount : Nat, live : BOOLEAN, paid : Until(day) \cup {0},
   occurrence : Nat]
AnEntry(day) == [of : Nat, day : Until(day), amount : Nat, back : Nat, move : Nat]
AnAccount(day) == [day : Until(day), amount : Int]
APlan == [active : BOOLEAN, next : Nat \ {0}, card : BOOLEAN, amount : Nat, ends : Nat]

LEMMA BooksParts ==
  ASSUME NEW day, NEW b \in BooksType(day)
  PROVE  /\ b.accounts \in Seq(AnAccount(day)) /\ b.moves \in Seq(AMove(day))
         /\ b.dues \in Seq(ADue(day)) /\ b.entries \in Seq(AnEntry(day))
         /\ b.plan \in APlan
         /\ b = [accounts |-> b.accounts, moves |-> b.moves, dues |-> b.dues,
                 entries |-> b.entries, plan |-> b.plan]
  BY DEF BooksType, AnAccount, AMove, ADue, AnEntry, APlan

LEMMA BooksMade ==
  ASSUME NEW day, NEW b,
         b = [accounts |-> b.accounts, moves |-> b.moves, dues |-> b.dues,
              entries |-> b.entries, plan |-> b.plan],
         b.accounts \in Seq(AnAccount(day)), b.moves \in Seq(AMove(day)),
         b.dues \in Seq(ADue(day)), b.entries \in Seq(AnEntry(day)), b.plan \in APlan
  PROVE  b \in BooksType(day)
  BY DEF BooksType, AnAccount, AMove, ADue, AnEntry, APlan

LEMMA UntilIs == \A d, n : n \in Until(d) <=> n \in Days /\ n <= d
  BY DEF Until

LEMMA DaysAre == MaxDay \in Nat /\ MaxDay >= 2 /\ Days = 1..MaxDay /\ FirstDay \in Days
                 /\ Days \subseteq Nat \ {0}
  BY DaysAssumption DEF Days, FirstDay

\* The parts of what the books hold, each with its type.
LEMMA MoveParts ==
  ASSUME NEW day, NEW b \in BooksType(day), NEW i \in 1..Len(b.moves)
  PROVE  /\ b.moves[i].day \in Until(day) /\ b.moves[i].amount \in Nat
         /\ b.moves[i].type \in {"income", "expense", "transfer"}
         /\ b.moves[i].back \in Nat /\ b.moves[i].managed \in BOOLEAN
<1>1. b.moves \in Seq(AMove(day)) BY BooksParts
<1>2. b.moves[i] \in AMove(day) BY <1>1
<1> QED BY <1>2 DEF AMove

LEMMA EntryParts ==
  ASSUME NEW day, NEW b \in BooksType(day), NEW e \in 1..Len(b.entries)
  PROVE  /\ b.entries[e].day \in Until(day) /\ b.entries[e].amount \in Nat
         /\ b.entries[e].of \in Nat /\ b.entries[e].back \in Nat /\ b.entries[e].move \in Nat
<1>1. b.entries \in Seq(AnEntry(day)) BY BooksParts
<1>2. b.entries[e] \in AnEntry(day) BY <1>1
<1> QED BY <1>2 DEF AnEntry

LEMMA DueParts ==
  ASSUME NEW day, NEW b \in BooksType(day), NEW k \in 1..Len(b.dues)
  PROVE  /\ b.dues[k].kind \in {"receivable", "contribution", "card", "tax", "other"}
         /\ b.dues[k].due \in Days /\ b.dues[k].month \in Months \cup {0}
         /\ b.dues[k].amount \in Nat /\ b.dues[k].live \in BOOLEAN
         /\ b.dues[k].paid \in Until(day) \cup {0} /\ b.dues[k].occurrence \in Nat
<1>1. b.dues \in Seq(ADue(day)) BY BooksParts
<1>2. b.dues[k] \in ADue(day) BY <1>1
<1> QED BY <1>2 DEF ADue

LEMMA AccountParts ==
  ASSUME NEW day, NEW b \in BooksType(day), NEW a \in 1..Len(b.accounts)
  PROVE  b.accounts[a].day \in Until(day) /\ b.accounts[a].amount \in Int
<1>1. b.accounts \in Seq(AnAccount(day)) BY BooksParts
<1>2. b.accounts[a] \in AnAccount(day) BY <1>1
<1> QED BY <1>2 DEF AnAccount

LEMMA PlanParts ==
  ASSUME NEW day, NEW b \in BooksType(day)
  PROVE  /\ b.plan.active \in BOOLEAN /\ b.plan.next \in Nat /\ b.plan.next >= 1
         /\ b.plan.card \in BOOLEAN /\ b.plan.amount \in Nat /\ b.plan.ends \in Nat
<1>1. b.plan \in APlan BY BooksParts
<1> QED BY <1>1 DEF APlan

LEMMA Lengths ==
  ASSUME NEW day, NEW b \in BooksType(day)
  PROVE  /\ Len(b.moves) \in Nat /\ Len(b.dues) \in Nat /\ Len(b.entries) \in Nat
         /\ Len(b.accounts) \in Nat
         /\ IsFiniteSet(1..Len(b.moves)) /\ IsFiniteSet(1..Len(b.dues))
         /\ IsFiniteSet(1..Len(b.entries)) /\ IsFiniteSet(1..Len(b.accounts))
<1>1. /\ b.accounts \in Seq(AnAccount(day)) /\ b.moves \in Seq(AMove(day))
      /\ b.dues \in Seq(ADue(day)) /\ b.entries \in Seq(AnEntry(day))
  BY BooksParts
<1>2. /\ Len(b.moves) \in Nat /\ Len(b.dues) \in Nat /\ Len(b.entries) \in Nat
      /\ Len(b.accounts) \in Nat
  BY <1>1
<1>3. \A n \in Nat : IsFiniteSet(1..n) BY FS_Interval
<1> QED BY <1>2, <1>3

\* Later days have the books of earlier ones.
LEMMA TypeLater ==
  ASSUME NEW day, NEW later, day \in Days, later \in Days, day <= later, NEW b \in BooksType(day)
  PROVE  b \in BooksType(later)
<1>1. Until(day) \subseteq Until(later) BY DaysAre DEF Until
<1>2. \A s : /\ s \in Seq(AnAccount(day)) => s \in Seq(AnAccount(later))
             /\ s \in Seq(AMove(day)) => s \in Seq(AMove(later))
             /\ s \in Seq(ADue(day)) => s \in Seq(ADue(later))
             /\ s \in Seq(AnEntry(day)) => s \in Seq(AnEntry(later))
  <2>1. /\ AnAccount(day) \subseteq AnAccount(later) /\ AMove(day) \subseteq AMove(later)
        /\ ADue(day) \subseteq ADue(later) /\ AnEntry(day) \subseteq AnEntry(later)
    BY <1>1 DEF AnAccount, AMove, ADue, AnEntry
  <2> HIDE DEF AnAccount, AMove, ADue, AnEntry
  <2> QED BY <2>1
<1> QED BY <1>2, BooksParts, BooksMade

LEMMA SoundLater ==
  ASSUME NEW day, NEW later, day \in Days, later \in Days, day <= later, NEW b, Sound(b, day)
  PROVE  Sound(b, later)
  BY TypeLater DEF Sound

-----------------------------------------------------------------------------
(* Sums.                                                                   *)

LEMMA SumOf ==
  ASSUME NEW f, NEW S, IsFiniteSet(S)
  PROVE  SumFunction([x \in S |-> f[x]]) = SumOver(f, S)
<1>1. SumFunction([x \in S |-> f[x]]) = SumOver([x \in S |-> f[x]], S) BY SumFunctionIs
<1>2. SumOver([x \in S |-> f[x]], S) = SumOver(f, S) BY SumSame
<1> QED BY <1>1, <1>2

WorthOf(b) == [e \in 1..Len(b.entries) |-> Worth(b, e)]
Until2(b, k, until) == {e \in Entries(b, k) : b.entries[e].day <= until}

LEMMA WorthTyped ==
  ASSUME NEW day, NEW b \in BooksType(day), NEW k, NEW until
  PROVE  /\ IsFiniteSet(Entries(b, k)) /\ IsFiniteSet(Until2(b, k, until))
         /\ Until2(b, k, until) \subseteq Entries(b, k) /\ Entries(b, k) \subseteq 1..Len(b.entries)
         /\ \A e \in 1..Len(b.entries) : /\ WorthOf(b)[e] = Worth(b, e) /\ WorthOf(b)[e] \in Int
                                         /\ Worth(b, e) \in Int
<1>1. IsFiniteSet(1..Len(b.entries)) BY Lengths
<1>2. /\ Entries(b, k) \subseteq 1..Len(b.entries)
      /\ Until2(b, k, until) \subseteq 1..Len(b.entries)
      /\ Until2(b, k, until) \subseteq Entries(b, k)
  BY DEF Entries, Until2
<1>3. \A e \in 1..Len(b.entries) : Worth(b, e) \in Int BY EntryParts DEF Worth
<1> QED BY <1>1, <1>2, <1>3, FS_Subset DEF WorthOf

LEMMA NetIs ==
  ASSUME NEW day, NEW b \in BooksType(day), NEW k, NEW until
  PROVE  /\ Net(b, k, until) = SumOver(WorthOf(b), Until2(b, k, until))
         /\ Net(b, k, until) \in Int
<1> DEFINE T == Until2(b, k, until)
           F == [e \in T |-> Worth(b, e)]
<1>1. IsFiniteSet(T) /\ \A e \in T : WorthOf(b)[e] \in Int /\ WorthOf(b)[e] = F[e]
  BY WorthTyped DEF WorthOf
<1>2. Net(b, k, until) = SumFunction(F) BY DEF Net, Until2
<1> HIDE DEF T
<1>3. SumFunction(F) = SumOver(F, T) BY SumFunctionIs
<1>4. SumOver(F, T) = SumOver(WorthOf(b), T) BY <1>1, SumSame
<1>5. SumOver(WorthOf(b), T) \in Int BY <1>1, SumType
<1> QED BY <1>2, <1>3, <1>4, <1>5 DEF T

\* Everything that has happened, happened by the last day.
LEMMA AllByTheEnd ==
  ASSUME NEW day \in Days, NEW b \in BooksType(day), NEW k, NEW until \in Days, day <= until
  PROVE  Until2(b, k, until) = Entries(b, k)
<1>1. \A e \in Entries(b, k) : b.entries[e].day <= until
  BY EntryParts, DaysAre DEF Entries, Until
<1> QED BY <1>1 DEF Until2

\* An entry more.
LEMMA NetEntered ==
  ASSUME NEW day \in Days, NEW b \in BooksType(day), NEW c \in BooksType(day),
         NEW x, c.entries = Append(b.entries, x), NEW k
  PROVE  Net(c, k, MaxDay) =
           Net(b, k, MaxDay) + IF x.of = k THEN IF x.back # 0 THEN -x.amount ELSE x.amount ELSE 0
<1> DEFINE n == Len(b.entries) + 1
           old == Entries(b, k)
<1>1. /\ b.entries \in Seq(AnEntry(day)) /\ c.entries \in Seq(AnEntry(day))
      /\ Len(b.entries) \in Nat
  BY BooksParts, Lengths
<1>2. /\ Len(c.entries) = n /\ c.entries[n] = x
      /\ \A e \in 1..Len(b.entries) : c.entries[e] = b.entries[e] /\ e # n
  BY <1>1
<1>3. MaxDay \in Days /\ day <= MaxDay BY DaysAre
<1>4. Net(b, k, MaxDay) = SumOver(WorthOf(b), Entries(b, k)) BY <1>3, NetIs, AllByTheEnd
<1>5. Net(c, k, MaxDay) = SumOver(WorthOf(c), Entries(c, k)) BY <1>3, NetIs, AllByTheEnd
<1>6. Entries(c, k) = old \cup IF x.of = k THEN {n} ELSE {}
  BY <1>1, <1>2 DEF Entries
<1>7. n \notin old BY <1>1 DEF Entries
<1>8. /\ IsFiniteSet(old) /\ \A e \in old : WorthOf(c)[e] = WorthOf(b)[e]
      /\ \A e \in old \cup {n} : WorthOf(c)[e] \in Int
  <2>1. IsFiniteSet(old) /\ old \subseteq 1..Len(b.entries) BY WorthTyped
  <2>2. \A e \in old : WorthOf(c)[e] = WorthOf(b)[e]
    BY <2>1, <1>1, <1>2 DEF WorthOf, Worth
  <2>3. old \cup {n} \subseteq 1..Len(c.entries) BY <2>1, <1>1, <1>2
  <2> QED BY <2>1, <2>2, <2>3, WorthTyped
<1>9. WorthOf(c)[n] = IF x.back # 0 THEN -x.amount ELSE x.amount
  BY <1>1, <1>2 DEF WorthOf, Worth
<1> HIDE DEF n, old
<1>10. SumOver(WorthOf(c), old) = SumOver(WorthOf(b), old) BY <1>8, SumSame
<1>11. SumOver(WorthOf(c), old) \in Int BY <1>8, SumType
<1>12. SumOver(WorthOf(c), old \cup {n}) = WorthOf(c)[n] + SumOver(WorthOf(c), old)
  BY <1>7, <1>8, SumAdd
<1>13. CASE x.of = k
  <2>1. Entries(c, k) = old \cup {n} BY <1>6, <1>13
  <2>2. WorthOf(c)[n] \in Int BY <1>8
  <2> QED BY <2>1, <2>2, <1>4, <1>5, <1>9, <1>10, <1>11, <1>12, <1>13 DEF old
<1>14. CASE x.of # k
  <2>1. Entries(c, k) = old BY <1>6, <1>14
  <2> QED BY <2>1, <1>4, <1>5, <1>10, <1>11, <1>14 DEF old
<1> QED BY <1>13, <1>14

LEMMA NetKept ==
  ASSUME NEW b, NEW c, c.entries = b.entries, NEW k, NEW until
  PROVE  Net(c, k, until) = Net(b, k, until) /\ Entries(c, k) = Entries(b, k)
<1>1. Entries(c, k) = Entries(b, k) BY DEF Entries
<1>2. \A e : Worth(c, e) = Worth(b, e) BY DEF Worth
<1> QED BY <1>1, <1>2 DEF Net

-----------------------------------------------------------------------------
(* What is settled is what was settled and not taken back.                 *)

\* The entries of a due that are taken back, and what takes them back.
Paired(b, k) == Entries(b, k) \ Active(b, k)
PartnerIn(b, k, e) ==
  IF b.entries[e].back # 0 THEN b.entries[e].back
  ELSE CHOOSE f \in Entries(b, k) : b.entries[f].back = e

LEMMA Partners ==
  ASSUME NEW day, NEW b, Sound(b, day), NEW k, NEW e \in Paired(b, k)
  PROVE  LET p == PartnerIn(b, k, e) IN
         /\ p \in Paired(b, k) /\ p # e /\ PartnerIn(b, k, p) = e
         /\ Worth(b, e) + Worth(b, p) = 0
<1> DEFINE p == PartnerIn(b, k, e)
<1>1. /\ b \in BooksType(day) /\ e \in 1..Len(b.entries) /\ b.entries[e].of = k
      /\ EntriesApart(b) /\ \A x \in 1..Len(b.entries) : EntrySound(b, x)
  BY DEF Sound, Paired, Entries
<1>2. \A x \in 1..Len(b.entries) : b.entries[x].back # 0 =>
         LET y == b.entries[x].back IN
         /\ y \in 1..Len(b.entries) /\ b.entries[y].back = 0 /\ b.entries[y].of = b.entries[x].of
         /\ b.entries[y].amount = b.entries[x].amount
  BY <1>1 DEF EntrySound
<1>3. \A x, y \in 1..Len(b.entries) :
         b.entries[x].back # 0 /\ b.entries[x].back = b.entries[y].back => x = y
  BY <1>1 DEF EntriesApart
<1>4. \A x \in 1..Len(b.entries) : b.entries[x].amount \in Nat /\ b.entries[x].back \in Nat
  BY <1>1, EntryParts
<1>5. CASE b.entries[e].back # 0
  <2>1. p = b.entries[e].back BY <1>5 DEF PartnerIn
  <2>2. /\ p \in 1..Len(b.entries) /\ b.entries[p].back = 0 /\ b.entries[p].of = k
        /\ b.entries[p].amount = b.entries[e].amount
    BY <1>1, <1>2, <1>5, <2>1
  <2>3. p \in Entries(b, k) /\ p # e /\ e \in Entries(b, k) BY <1>1, <1>5, <2>2 DEF Entries
  <2>4. p \notin Active(b, k) BY <2>1, <2>3 DEF Active
  <2>5. PartnerIn(b, k, p) = CHOOSE f \in Entries(b, k) : b.entries[f].back = p
    BY <2>2 DEF PartnerIn
  <2>6. PartnerIn(b, k, p) \in Entries(b, k) /\ b.entries[PartnerIn(b, k, p)].back = p
    BY <2>1, <2>3, <2>5
  <2>7. PartnerIn(b, k, p) \in 1..Len(b.entries) BY <2>6 DEF Entries
  <2>8. PartnerIn(b, k, p) = e BY <1>1, <1>3, <1>5, <2>1, <2>6, <2>7
  <2>9. Worth(b, e) = -b.entries[e].amount /\ Worth(b, p) = b.entries[e].amount
    BY <1>5, <2>2 DEF Worth
  <2>10. Worth(b, e) + Worth(b, p) = 0 BY <1>1, <1>4, <2>9
  <2> QED BY <2>3, <2>4, <2>8, <2>10 DEF Paired
<1>6. CASE b.entries[e].back = 0
  <2>1. PICK f \in Entries(b, k) : b.entries[f].back = e
    BY <1>1, <1>6 DEF Paired, Active
  <2>2. p = CHOOSE x \in Entries(b, k) : b.entries[x].back = e BY <1>6 DEF PartnerIn
  <2>3. p \in Entries(b, k) /\ b.entries[p].back = e BY <2>1, <2>2
  <2>4. p \in 1..Len(b.entries) /\ e # 0 /\ b.entries[p].back # 0
    BY <1>1, <2>3, Lengths DEF Entries
  <2>5. PartnerIn(b, k, p) = e BY <2>3, <2>4 DEF PartnerIn
  <2>6. p # e /\ p \notin Active(b, k) BY <1>6, <2>4 DEF Active
  <2>7. b.entries[p].amount = b.entries[e].amount BY <1>2, <2>3, <2>4
  <2>8. Worth(b, p) = -b.entries[e].amount /\ Worth(b, e) = b.entries[e].amount
    BY <1>6, <2>4, <2>7 DEF Worth
  <2>9. Worth(b, e) + Worth(b, p) = 0 BY <1>1, <1>4, <2>8
  <2> QED BY <2>3, <2>5, <2>6, <2>9 DEF Paired
<1> QED BY <1>1, <1>4, <1>5, <1>6

LEMMA NetIsActive ==
  ASSUME NEW day \in Days, NEW b, Sound(b, day), NEW k
  PROVE  /\ Net(b, k, MaxDay) = SumOver(WorthOf(b), Active(b, k))
         /\ IsFiniteSet(Active(b, k))
         /\ \A e \in Active(b, k) : WorthOf(b)[e] \in Nat /\ WorthOf(b)[e] = b.entries[e].amount
<1> DEFINE m == [e \in Paired(b, k) |-> PartnerIn(b, k, e)]
           A == Active(b, k)
           P == Paired(b, k)
<1>1. b \in BooksType(day) /\ MaxDay \in Days /\ day <= MaxDay BY DaysAre DEF Sound
<1>2. Net(b, k, MaxDay) = SumOver(WorthOf(b), Entries(b, k)) BY <1>1, NetIs, AllByTheEnd
<1>3. /\ IsFiniteSet(Entries(b, k)) /\ A \subseteq Entries(b, k) /\ P \subseteq Entries(b, k)
      /\ Entries(b, k) = A \cup P /\ A \cap P = {}
      /\ \A e \in Entries(b, k) : WorthOf(b)[e] \in Int /\ WorthOf(b)[e] = Worth(b, e)
  <2>1. A \subseteq Entries(b, k) BY DEF Active
  <2> QED BY <1>1, <2>1, WorthTyped DEF Paired
<1>4. IsFiniteSet(A) /\ IsFiniteSet(P) BY <1>3, FS_Subset
<1>5. m \in [P -> P] BY Partners
<1>6. \A e \in P : m[m[e]] = e /\ m[e] # e /\ WorthOf(b)[e] + WorthOf(b)[m[e]] = 0
  <2> SUFFICES ASSUME NEW e \in P PROVE m[m[e]] = e /\ m[e] # e
                                        /\ WorthOf(b)[e] + WorthOf(b)[m[e]] = 0
    OBVIOUS
  <2>1. m[e] = PartnerIn(b, k, e) /\ m[e] \in P /\ m[e] # e
        /\ PartnerIn(b, k, m[e]) = e /\ Worth(b, e) + Worth(b, m[e]) = 0
    BY Partners
  <2> QED BY <1>3, <2>1
<1>7. \A e \in A : WorthOf(b)[e] \in Nat /\ WorthOf(b)[e] = b.entries[e].amount
  BY <1>1, <1>3, EntryParts DEF Active, Entries, Worth
<1> HIDE DEF m, A, P
<1>8. SumOver(WorthOf(b), P) = 0 BY <1>3, <1>4, <1>5, <1>6, SumPairs
<1>9. SumOver(WorthOf(b), A \cup P) = SumOver(WorthOf(b), A) + SumOver(WorthOf(b), P)
  BY <1>3, <1>4, SumUnion
<1>10. SumOver(WorthOf(b), A) \in Int BY <1>3, <1>4, SumType
<1> QED BY <1>2, <1>3, <1>4, <1>7, <1>8, <1>9, <1>10 DEF A

\* What was settled once, is settled still, unless it is taken back.
LEMMA ActiveWithin ==
  ASSUME NEW day \in Days, NEW b, Sound(b, day), NEW k, NEW e \in Active(b, k)
  PROVE  b.entries[e].amount <= Net(b, k, MaxDay) /\ Net(b, k, MaxDay) \in Nat
<1> DEFINE A == Active(b, k)
<1>1. /\ Net(b, k, MaxDay) = SumOver(WorthOf(b), A) /\ IsFiniteSet(A)
      /\ \A x \in A : WorthOf(b)[x] \in Nat /\ WorthOf(b)[x] = b.entries[x].amount
  BY NetIsActive
<1> HIDE DEF A
<1>2. e \in A BY DEF A
<1>3. \A x \in A : WorthOf(b)[x] \in Int BY <1>1
<1>4. SumOver(WorthOf(b), A) = WorthOf(b)[e] + SumOver(WorthOf(b), A \ {e})
  BY <1>1, <1>2, <1>3, SumRemove
<1>5. IsFiniteSet(A \ {e}) BY <1>1, FS_Subset
<1>6. SumOver(WorthOf(b), A \ {e}) \in Nat BY <1>1, <1>5, SumNat
<1> QED BY <1>1, <1>2, <1>4, <1>6

-----------------------------------------------------------------------------
(* The requests keep the books sound.                                      *)

BooksGrow(b, c) ==
  /\ Len(b.moves) <= Len(c.moves) /\ \A i \in 1..Len(b.moves) : c.moves[i] = b.moves[i]
  /\ Len(b.entries) <= Len(c.entries) /\ \A e \in 1..Len(b.entries) : c.entries[e] = b.entries[e]
  /\ Len(b.dues) <= Len(c.dues) /\ \A k \in 1..Len(b.dues) : c.dues[k].kind = b.dues[k].kind

NewMove(c, i) ==
  LET m == c.moves[i] IN
  /\ m.back \in 0..Len(c.moves)
  /\ m.back # 0 => /\ c.moves[m.back].back = 0 /\ m.amount = c.moves[m.back].amount
                   /\ m.type = Opposite(c.moves[m.back].type)
  /\ m.back # 0 /\ c.moves[m.back].managed =>
       \E e \in 1..Len(c.entries) : c.entries[e].back # 0 /\ c.entries[e].move = i
NewEntry(c, e) ==
  /\ EntrySound(c, e)
  /\ \A f \in 1..Len(c.entries) \ {e} :
       /\ c.entries[e].back # 0 => c.entries[e].back # c.entries[f].back
       /\ c.entries[e].move # 0 => c.entries[e].move # c.entries[f].move

LEMMA OldEntry ==
  ASSUME NEW day, NEW b, Sound(b, day), NEW c, BooksGrow(b, c), NEW e \in 1..Len(b.entries),
         Len(c.moves) \in Nat, Len(c.entries) \in Nat, Len(c.dues) \in Nat
  PROVE  EntrySound(c, e)
<1>1. /\ b \in BooksType(day) /\ EntrySound(b, e)
      /\ Len(b.moves) \in Nat /\ Len(b.entries) \in Nat /\ Len(b.dues) \in Nat
  BY Lengths DEF Sound
<1>2. c.entries[e] = b.entries[e] /\ e \in 1..Len(c.entries) BY <1>1 DEF BooksGrow
<1> DEFINE x == b.entries[e]
<1>3. x.of \in 1..Len(b.dues) /\ x.of \in 1..Len(c.dues) /\ c.dues[x.of].kind = b.dues[x.of].kind
  <2>1. x.of \in 1..Len(b.dues) BY <1>1 DEF EntrySound
  <2>2. Len(b.dues) <= Len(c.dues) /\ \A k \in 1..Len(b.dues) : c.dues[k].kind = b.dues[k].kind
    BY DEF BooksGrow
  <2>3. Len(b.dues) \in Nat /\ Len(c.dues) \in Nat BY <1>1
  <2> HIDE DEF x
  <2> QED BY ONLY <2>1, <2>2, <2>3
<1>4. x.back # 0 => x.back \in 1..Len(b.entries) /\ x.back \in 1..Len(c.entries)
                    /\ c.entries[x.back] = b.entries[x.back]
  BY <1>1 DEF EntrySound, BooksGrow
<1>5. x.move # 0 => x.move \in 1..Len(b.moves) /\ x.move \in 1..Len(c.moves)
                    /\ c.moves[x.move] = b.moves[x.move]
  BY <1>1 DEF EntrySound, BooksGrow
<1>6. x.back # 0 => /\ c.entries[x.back].back = 0 /\ c.entries[x.back].of = x.of
                    /\ c.entries[x.back].amount = x.amount
                    /\ (c.entries[x.back].move = 0) = (x.move = 0)
                    /\ x.move # 0 => c.moves[x.move].back = c.entries[x.back].move
  BY <1>1, <1>4, <1>5 DEF EntrySound
<1>7. x.move # 0 => /\ c.dues[x.of].kind # "contribution"
                    /\ c.moves[x.move].managed /\ c.moves[x.move].amount = x.amount
                    /\ x.back = 0 => c.moves[x.move].back = 0
                                     /\ c.moves[x.move].type = SideOf(c.dues[x.of].kind)
  BY <1>1, <1>3, <1>5 DEF EntrySound
<1>8. c.dues[x.of].kind \in {"receivable", "card", "contribution"} BY <1>1, <1>3 DEF EntrySound
<1> QED BY <1>2, <1>3, <1>4, <1>5, <1>6, <1>7, <1>8 DEF EntrySound

LEMMA GrowsSound ==
  ASSUME NEW day, NEW b, Sound(b, day), NEW c \in BooksType(day), BooksGrow(b, c),
         \A i \in Len(b.moves) + 1..Len(c.moves) : NewMove(c, i),
         \A e \in Len(b.entries) + 1..Len(c.entries) : NewEntry(c, e),
         \A k \in 1..Len(c.dues) : DueSound(c, k)
  PROVE  Sound(c, day)
<1>1. /\ b \in BooksType(day) /\ MovesSound(b) /\ EntriesApart(b) /\ MovesFollow(b)
      /\ Len(b.moves) \in Nat /\ Len(b.entries) \in Nat /\ Len(b.dues) \in Nat
      /\ Len(c.moves) \in Nat /\ Len(c.entries) \in Nat /\ Len(c.dues) \in Nat
  BY Lengths DEF Sound
<1>2. \A i \in 1..Len(c.moves) : i \in 1..Len(b.moves) \/ i \in Len(b.moves) + 1..Len(c.moves)
  BY <1>1
<1>3. \A e \in 1..Len(c.entries) : e \in 1..Len(b.entries) \/ e \in Len(b.entries) + 1..Len(c.entries)
  BY <1>1
<1>4. \A e \in 1..Len(c.entries) : EntrySound(c, e)
  BY <1>1, <1>3, OldEntry DEF NewEntry
<1>5. \A i \in 1..Len(c.moves) : NewMove(c, i)
  <2> SUFFICES ASSUME NEW i \in 1..Len(b.moves) PROVE NewMove(c, i) BY <1>2
  <2>1. c.moves[i] = b.moves[i] BY DEF BooksGrow
  <2>2. b.moves[i].back \in 0..Len(b.moves) BY <1>1 DEF MovesSound
  <2>3. b.moves[i].back # 0 => /\ b.moves[b.moves[i].back].back = 0
                               /\ b.moves[i].amount = b.moves[b.moves[i].back].amount
                               /\ b.moves[i].type = Opposite(b.moves[b.moves[i].back].type)
    BY <1>1 DEF MovesSound, LedgerSound
  <2>4. b.moves[i].back # 0 => c.moves[b.moves[i].back] = b.moves[b.moves[i].back]
    BY <1>1, <2>2 DEF BooksGrow
  <2>5. ASSUME b.moves[i].back # 0, b.moves[b.moves[i].back].managed
        PROVE  \E e \in 1..Len(c.entries) : c.entries[e].back # 0 /\ c.entries[e].move = i
    <3>1. PICK e \in 1..Len(b.entries) : b.entries[e].back # 0 /\ b.entries[e].move = i
      BY <1>1, <2>5 DEF MovesFollow
    <3> QED BY <1>1, <3>1 DEF BooksGrow
  <2>6. c.moves[i].back \in 0..Len(c.moves) BY <1>1, <2>1, <2>2 DEF BooksGrow
  <2> QED BY <2>1, <2>3, <2>4, <2>5, <2>6 DEF NewMove
<1>6. MovesSound(c) /\ MovesFollow(c) BY <1>5 DEF MovesSound, LedgerSound, MovesFollow, NewMove
<1>7. EntriesApart(c)
  <2> SUFFICES ASSUME NEW e \in 1..Len(c.entries), NEW f \in 1..Len(c.entries), e # f
               PROVE  /\ c.entries[e].back # 0 => c.entries[e].back # c.entries[f].back
                      /\ c.entries[e].move # 0 => c.entries[e].move # c.entries[f].move
    BY DEF EntriesApart
  <2>1. CASE e \in Len(b.entries) + 1..Len(c.entries) BY <2>1 DEF NewEntry
  <2>2. CASE f \in Len(b.entries) + 1..Len(c.entries)
    <3>1. NewEntry(c, f) BY <2>2
    <3> QED BY <3>1 DEF NewEntry
  <2>3. CASE e \in 1..Len(b.entries) /\ f \in 1..Len(b.entries)
    <3>1. c.entries[e] = b.entries[e] /\ c.entries[f] = b.entries[f] BY <2>3 DEF BooksGrow
    <3> QED BY <1>1, <2>3, <3>1 DEF EntriesApart
  <2> QED BY <1>3, <2>1, <2>2, <2>3
<1> QED BY <1>4, <1>6, <1>7 DEF Sound

LEMMA OtherMoves ==
  ASSUME NEW a, NEW m, NEW d, NEW e, NEW p, NEW n, NEW b,
         b = [accounts |-> a, moves |-> m, dues |-> d, entries |-> e, plan |-> p]
  PROVE  [b EXCEPT !.moves = n] = [accounts |-> a, moves |-> n, dues |-> d, entries |-> e, plan |-> p]
  OBVIOUS

LEMMA OtherEntries ==
  ASSUME NEW a, NEW m, NEW d, NEW e, NEW p, NEW n, NEW b,
         b = [accounts |-> a, moves |-> m, dues |-> d, entries |-> e, plan |-> p]
  PROVE  [b EXCEPT !.entries = n] = [accounts |-> a, moves |-> m, dues |-> d, entries |-> n, plan |-> p]
  OBVIOUS

LEMMA PostedIs ==
  ASSUME NEW day, NEW b \in BooksType(day), NEW d \in Until(day),
         NEW type \in {"income", "expense", "transfer"}, NEW amount \in Nat, NEW back \in Nat,
         NEW managed \in BOOLEAN, NEW c, c = Posted(b, d, type, amount, back, managed)
  PROVE  /\ c \in BooksType(day)
         /\ c.accounts = b.accounts /\ c.dues = b.dues /\ c.entries = b.entries /\ c.plan = b.plan
         /\ Len(c.moves) = Len(b.moves) + 1
         /\ c.moves[Len(b.moves) + 1] = [day |-> d, type |-> type, amount |-> amount,
                                         back |-> back, managed |-> managed]
         /\ \A i \in 1..Len(b.moves) : c.moves[i] = b.moves[i]
<1> DEFINE m == [day |-> d, type |-> type, amount |-> amount, back |-> back, managed |-> managed]
<1>1. m \in AMove(day) BY DEF AMove
<1>2. /\ b.accounts \in Seq(AnAccount(day)) /\ b.moves \in Seq(AMove(day))
      /\ b.dues \in Seq(ADue(day)) /\ b.entries \in Seq(AnEntry(day)) /\ b.plan \in APlan
      /\ b = [accounts |-> b.accounts, moves |-> b.moves, dues |-> b.dues,
              entries |-> b.entries, plan |-> b.plan]
  BY BooksParts
<1>3. c = [accounts |-> b.accounts, moves |-> Append(b.moves, m), dues |-> b.dues,
           entries |-> b.entries, plan |-> b.plan]
  <2>1. c = [b EXCEPT !.moves = Append(b.moves, m)] BY DEF Posted
  <2> HIDE DEF m
  <2> QED BY <1>2, <2>1, OtherMoves
<1> HIDE DEF m
<1>4. Append(b.moves, m) \in Seq(AMove(day)) BY <1>1, <1>2
<1>5. c \in BooksType(day) BY <1>2, <1>3, <1>4, BooksMade
<1>6. c.moves = Append(b.moves, m) BY <1>3
<1>7. /\ Len(c.moves) = Len(b.moves) + 1 /\ c.moves[Len(b.moves) + 1] = m
      /\ \A i \in 1..Len(b.moves) : c.moves[i] = b.moves[i]
  BY <1>2, <1>6
<1> QED BY <1>3, <1>5, <1>7 DEF m

\* The books c are b with the entry x after the others.
EntryMade(b, c, x, day) ==
  /\ c \in BooksType(day)
  /\ c.accounts = b.accounts /\ c.dues = b.dues /\ c.moves = b.moves /\ c.plan = b.plan
  /\ c.entries = Append(b.entries, x)
  /\ Len(c.entries) = Len(b.entries) + 1
  /\ c.entries[Len(b.entries) + 1] = x
  /\ \A e \in 1..Len(b.entries) : c.entries[e] = b.entries[e]

LEMMA EnteredIs ==
  ASSUME NEW day, NEW b \in BooksType(day), NEW d \in Until(day),
         NEW k \in Nat, NEW amount \in Nat, NEW back \in Nat, NEW move \in Nat,
         NEW c, c = Entered(b, k, d, amount, back, move),
         NEW x, x = [of |-> k, day |-> d, amount |-> amount, back |-> back, move |-> move]
  PROVE  EntryMade(b, c, x, day)
<1>1. x \in AnEntry(day) BY DEF AnEntry
<1>2. /\ b.accounts \in Seq(AnAccount(day)) /\ b.moves \in Seq(AMove(day))
      /\ b.dues \in Seq(ADue(day)) /\ b.entries \in Seq(AnEntry(day)) /\ b.plan \in APlan
      /\ b = [accounts |-> b.accounts, moves |-> b.moves, dues |-> b.dues,
              entries |-> b.entries, plan |-> b.plan]
  BY BooksParts
<1>3. c = [accounts |-> b.accounts, moves |-> b.moves, dues |-> b.dues,
           entries |-> Append(b.entries, x), plan |-> b.plan]
  <2>1. c = [b EXCEPT !.entries = Append(b.entries, x)] BY DEF Entered
  <2> QED BY <1>2, <2>1, OtherEntries
<1>4. Append(b.entries, x) \in Seq(AnEntry(day)) BY <1>1, <1>2
<1>5. c \in BooksType(day) BY <1>2, <1>3, <1>4, BooksMade
<1>6. c.entries = Append(b.entries, x) BY <1>3
<1>7. /\ Len(c.entries) = Len(b.entries) + 1 /\ c.entries[Len(b.entries) + 1] = x
      /\ \A e \in 1..Len(b.entries) : c.entries[e] = b.entries[e]
  BY <1>2, <1>6
<1> QED BY <1>3, <1>5, <1>6, <1>7 DEF EntryMade

LEMMA OppositeTypes ==
  /\ \A type \in {"income", "expense", "transfer"} :
       Opposite(type) \in {"income", "expense", "transfer"}
  /\ \A kind : SideOf(kind) \in {"income", "expense", "transfer"}
  BY DEF Opposite, SideOf

LEMMA DueKept ==
  ASSUME NEW b, NEW c, NEW k, DueSound(b, k), c.dues[k] = b.dues[k],
         Net(c, k, MaxDay) = Net(b, k, MaxDay), c.plan.next = b.plan.next
  PROVE  DueSound(c, k)
  BY DEF DueSound

\* A movement that belongs to no entry.
LEMMA PostedSound ==
  ASSUME NEW day \in Days, NEW b, Sound(b, day), NEW d \in Until(day),
         NEW type \in {"income", "expense", "transfer"}, NEW amount \in Nat,
         NEW back \in 0..Len(b.moves), NEW managed \in BOOLEAN,
         back # 0 => /\ b.moves[back].back = 0 /\ amount = b.moves[back].amount
                     /\ type = Opposite(b.moves[back].type) /\ ~b.moves[back].managed
  PROVE  Sound(Posted(b, d, type, amount, back, managed), day)
<1> DEFINE c == Posted(b, d, type, amount, back, managed)
           n == Len(b.moves) + 1
<1>1. b \in BooksType(day) /\ Len(b.moves) \in Nat /\ Len(b.entries) \in Nat /\ Len(b.dues) \in Nat
      /\ back \in Nat
  BY Lengths DEF Sound
<1>2. /\ c \in BooksType(day)
      /\ c.accounts = b.accounts /\ c.dues = b.dues /\ c.entries = b.entries /\ c.plan = b.plan
      /\ Len(c.moves) = n
      /\ c.moves[n] = [day |-> d, type |-> type, amount |-> amount, back |-> back, managed |-> managed]
      /\ \A i \in 1..Len(b.moves) : c.moves[i] = b.moves[i]
  <2>1. c = Posted(b, d, type, amount, back, managed) OBVIOUS
  <2> HIDE DEF c
  <2> QED BY <1>1, <2>1, PostedIs
<1> HIDE DEF c
<1>3. BooksGrow(b, c) BY <1>1, <1>2 DEF BooksGrow
<1>4. \A i \in Len(b.moves) + 1..Len(c.moves) : NewMove(c, i)
  <2>1. Len(b.moves) + 1..Len(c.moves) = {n} BY <1>1, <1>2
  <2>2. back # 0 => c.moves[back] = b.moves[back] BY <1>2
  <2>3. NewMove(c, n) BY <1>1, <1>2, <2>2 DEF NewMove
  <2> QED BY <2>1, <2>3
<1>5. Len(b.entries) + 1..Len(c.entries) = {} BY <1>1, <1>2
<1>6. \A k \in 1..Len(c.dues) : DueSound(c, k)
  BY <1>2, NetKept, DueKept DEF Sound
<1>7. Sound(c, day) BY <1>2, <1>3, <1>4, <1>5, <1>6, GrowsSound
<1> QED BY <1>7 DEF c

\* An entry with what it adds to what is settled.
LEMMA DuesEntered ==
  ASSUME NEW day \in Days, NEW b, Sound(b, day), NEW c \in BooksType(day),
         c.dues = b.dues, c.plan = b.plan, NEW x, c.entries = Append(b.entries, x),
         NEW gain \in Int, gain = IF x.back # 0 THEN -x.amount ELSE x.amount,
         x.of \in 1..Len(b.dues),
         Net(b, x.of, MaxDay) + gain \in 0..b.dues[x.of].amount,
         b.dues[x.of].live \/ Net(b, x.of, MaxDay) + gain = 0
  PROVE  \A k \in 1..Len(c.dues) : DueSound(c, k)
<1> SUFFICES ASSUME NEW k \in 1..Len(c.dues) PROVE DueSound(c, k) OBVIOUS
<1>1. b \in BooksType(day) /\ DueSound(b, k) BY DEF Sound
<1>2. Net(c, k, MaxDay) = Net(b, k, MaxDay) + IF x.of = k THEN gain ELSE 0
  BY <1>1, NetEntered
<1>3. Net(b, k, MaxDay) \in Int BY <1>1, NetIs
<1>4. CASE x.of # k
  <2>1. Net(c, k, MaxDay) = Net(b, k, MaxDay) BY <1>2, <1>3, <1>4
  <2> QED BY <1>1, <2>1, DueKept
<1>5. CASE x.of = k
  <2>1. Net(c, k, MaxDay) = Net(b, k, MaxDay) + gain BY <1>2, <1>5
  <2> QED BY <1>1, <1>5, <2>1 DEF DueSound
<1> QED BY <1>4, <1>5

\* What is left of a due is what is not settled of it, at most.
LEMMA LeftFits ==
  ASSUME NEW day \in Days, NEW b, Sound(b, day), NEW k \in 1..Len(b.dues), NEW n \in Nat, n # 0,
         b.dues[k].kind \in {"receivable", "card", "contribution"}, n <= Left(b, k, MaxDay)
  PROVE  Net(b, k, MaxDay) + n \in 0..b.dues[k].amount
<1>1. b \in BooksType(day) /\ DueSound(b, k) BY DEF Sound
<1>2. b.dues[k].amount \in Nat BY <1>1, DueParts
<1>3. Net(b, k, MaxDay) \in 0..b.dues[k].amount BY <1>1 DEF DueSound
<1>4. CASE b.dues[k].kind # "card"
  <2>1. Settled(b, k, MaxDay) = Net(b, k, MaxDay) BY <1>4 DEF Settled
  <2> QED BY <1>2, <1>3, <2>1 DEF Left, AtLeast
<1>5. CASE b.dues[k].kind = "card"
  <2>1. Settled(b, k, MaxDay) = Clipped(CardSettled(b, k, MaxDay), b.dues[k].amount)
    BY <1>5 DEF Settled
  <2>2. CASE Entries(b, k) # {}
    <3>1. Settled(b, k, MaxDay) = Net(b, k, MaxDay)
      BY <1>2, <1>3, <2>1, <2>2 DEF CardSettled, Clipped, AtLeast, AtMost
    <3> QED BY <1>2, <1>3, <3>1 DEF Left, AtLeast
  <2>3. CASE Entries(b, k) = {}
    <3>1. MaxDay \in Days /\ day <= MaxDay BY DaysAre
    <3>2. Net(b, k, MaxDay) = SumOver(WorthOf(b), Entries(b, k)) BY <1>1, <3>1, NetIs, AllByTheEnd
    <3>3. Net(b, k, MaxDay) = 0 BY <2>3, <3>2, SumEmpty
    <3>4. CardSettled(b, k, MaxDay) \in Nat
      <4>1. MarkedPaid(b, k) \in Nat BY <1>2 DEF MarkedPaid
      <4> QED BY <2>3, <4>1 DEF CardSettled
    <3>5. Settled(b, k, MaxDay) \in Nat BY <1>2, <2>1, <3>4 DEF Clipped, AtLeast, AtMost
    <3> QED BY <1>2, <3>3, <3>5 DEF Left, AtLeast
  <2> QED BY <2>2, <2>3
<1> QED BY <1>4, <1>5

\* A collection or a payment, with its movement.
LEMMA SettledSound ==
  ASSUME NEW day \in Days, NEW b, Sound(b, day), NEW kind \in {"receivable", "card"},
         NEW k \in Live(b, kind), NEW d \in Until(day), NEW n \in Nat, n # 0,
         n <= Left(b, k, MaxDay)
  PROVE  Sound(Entered(Posted(b, d, SideOf(kind), n, 0, TRUE), k, d, n, 0, Len(b.moves) + 1), day)
<1> DEFINE p == Posted(b, d, SideOf(kind), n, 0, TRUE)
           c == Entered(p, k, d, n, 0, Len(b.moves) + 1)
           i == Len(b.moves) + 1
           e == Len(b.entries) + 1
           x == [of |-> k, day |-> d, amount |-> n, back |-> 0, move |-> i]
<1>1. b \in BooksType(day) /\ Len(b.moves) \in Nat /\ Len(b.entries) \in Nat /\ Len(b.dues) \in Nat
  BY Lengths DEF Sound
<1>2. k \in 1..Len(b.dues) /\ k \in Nat /\ b.dues[k].kind = kind /\ b.dues[k].live
      /\ i \in Nat /\ SideOf(kind) \in {"income", "expense", "transfer"}
  BY <1>1 DEF Live, SideOf
<1>3. /\ p \in BooksType(day)
      /\ p.dues = b.dues /\ p.entries = b.entries /\ p.plan = b.plan
      /\ Len(p.moves) = i
      /\ p.moves[i] = [day |-> d, type |-> SideOf(kind), amount |-> n, back |-> 0, managed |-> TRUE]
      /\ \A j \in 1..Len(b.moves) : p.moves[j] = b.moves[j]
  <2> DEFINE none == 0
             yes == TRUE
             side == SideOf(kind)
  <2>1. none \in Nat /\ yes \in BOOLEAN /\ p = Posted(b, d, side, n, none, yes)
        /\ side \in {"income", "expense", "transfer"}
    BY <1>2
  <2> HIDE DEF p, none, yes, side
  <2>2. /\ p \in BooksType(day)
        /\ p.dues = b.dues /\ p.entries = b.entries /\ p.plan = b.plan
        /\ Len(p.moves) = i
        /\ p.moves[i] = [day |-> d, type |-> side, amount |-> n, back |-> none,
                         managed |-> yes]
        /\ \A j \in 1..Len(b.moves) : p.moves[j] = b.moves[j]
    BY <1>1, <2>1, PostedIs
  <2> QED BY <2>2 DEF none, yes, side
<1> HIDE DEF p
<1>4. /\ c \in BooksType(day) /\ c.dues = p.dues /\ c.moves = p.moves /\ c.plan = p.plan
      /\ c.entries = Append(p.entries, x)
      /\ Len(c.entries) = Len(p.entries) + 1 /\ c.entries[Len(p.entries) + 1] = x
      /\ \A f \in 1..Len(p.entries) : c.entries[f] = p.entries[f]
  <2> DEFINE none == 0
  <2>1. none \in Nat /\ c = Entered(p, k, d, n, none, i)
        /\ x = [of |-> k, day |-> d, amount |-> n, back |-> none, move |-> i]
    OBVIOUS
  <2>2. i \in Nat /\ k \in Nat /\ p \in BooksType(day) BY <1>2, <1>3
  <2> HIDE DEF c, x, i, none
  <2>3. EntryMade(p, c, x, day) BY <2>1, <2>2, EnteredIs
  <2> QED BY ONLY <2>3 DEF EntryMade
<1> HIDE DEF c
<1>5. /\ c.dues = b.dues /\ c.plan = b.plan /\ c.entries = Append(b.entries, x)
      /\ Len(c.entries) = e /\ c.entries[e] = x
      /\ \A f \in 1..Len(b.entries) : c.entries[f] = b.entries[f]
      /\ Len(c.moves) = i
      /\ c.moves[i] = [day |-> d, type |-> SideOf(kind), amount |-> n, back |-> 0, managed |-> TRUE]
      /\ \A j \in 1..Len(b.moves) : c.moves[j] = b.moves[j]
  BY <1>3, <1>4
<1>6. BooksGrow(b, c) BY <1>1, <1>5 DEF BooksGrow
<1>7. \A j \in Len(b.moves) + 1..Len(c.moves) : NewMove(c, j)
  <2>1. Len(b.moves) + 1..Len(c.moves) = {i} BY <1>1, <1>5
  <2>2. NewMove(c, i) BY <1>1, <1>5 DEF NewMove
  <2> QED BY <2>1, <2>2
<1>8. \A f \in Len(b.entries) + 1..Len(c.entries) : NewEntry(c, f)
  <2>1. Len(b.entries) + 1..Len(c.entries) = {e} BY <1>1, <1>5
  <2>2. x.of = k /\ x.day = d /\ x.amount = n /\ x.back = 0 /\ x.move = i /\ i # 0
    BY <1>1
  <2>3. EntrySound(c, e)
    <3>1. /\ c.moves[i].managed /\ c.moves[i].amount = n /\ c.moves[i].back = 0
          /\ c.moves[i].type = SideOf(kind) /\ i \in 1..Len(c.moves)
      BY <1>1, <1>5
    <3>2. k \in 1..Len(c.dues) /\ c.dues[k].kind = kind BY <1>2, <1>5
    <3> HIDE DEF x, i, e
    <3> QED BY <1>5, <2>2, <3>1, <3>2 DEF EntrySound
  <2>4. \A f \in 1..Len(c.entries) \ {e} : i # c.entries[f].move
    <3> TAKE f \in 1..Len(c.entries) \ {e}
    <3>1. f \in 1..Len(b.entries) BY <1>1, <1>5
    <3>2. EntrySound(b, f) BY <3>1 DEF Sound
    <3>3. b.entries[f].move # i BY <1>1, <3>2 DEF EntrySound
    <3> QED BY <1>5, <3>1, <3>3
  <2>5. NewEntry(c, e) BY <1>5, <2>2, <2>3, <2>4 DEF NewEntry
  <2> QED BY <2>1, <2>5
<1>9. \A j \in 1..Len(c.dues) : DueSound(c, j)
  <2>1. x.of = k /\ x.amount = n /\ x.back = 0 OBVIOUS
  <2>2. Net(b, k, MaxDay) + n \in 0..b.dues[k].amount BY <1>2, LeftFits
  <2>3. n \in Int OBVIOUS
  <2> HIDE DEF x
  <2> QED BY <1>2, <1>4, <1>5, <2>1, <2>2, <2>3, DuesEntered
<1>10. Sound(c, day) BY <1>4, <1>6, <1>7, <1>8, <1>9, GrowsSound
<1> QED BY <1>10 DEF c, p

\* A receipt of a contribution.
LEMMA ReceiptSound ==
  ASSUME NEW day \in Days, NEW b, Sound(b, day),
         NEW k \in Live(b, "contribution"), NEW d \in Until(day), NEW n \in Nat, n # 0,
         n <= Left(b, k, MaxDay)
  PROVE  Sound(Entered(b, k, d, n, 0, 0), day)
<1> DEFINE c == Entered(b, k, d, n, 0, 0)
           e == Len(b.entries) + 1
           x == [of |-> k, day |-> d, amount |-> n, back |-> 0, move |-> 0]
<1>1. b \in BooksType(day) /\ Len(b.moves) \in Nat /\ Len(b.entries) \in Nat /\ Len(b.dues) \in Nat
  BY Lengths DEF Sound
<1>2. k \in 1..Len(b.dues) /\ k \in Nat /\ b.dues[k].kind = "contribution" /\ b.dues[k].live
  BY <1>1 DEF Live
<1>3. /\ c \in BooksType(day) /\ c.dues = b.dues /\ c.moves = b.moves /\ c.plan = b.plan
      /\ c.entries = Append(b.entries, x)
      /\ Len(c.entries) = e /\ c.entries[e] = x
      /\ \A f \in 1..Len(b.entries) : c.entries[f] = b.entries[f]
  <2> DEFINE none == 0
  <2>1. none \in Nat /\ c = Entered(b, k, d, n, none, none)
        /\ x = [of |-> k, day |-> d, amount |-> n, back |-> none, move |-> none]
    OBVIOUS
  <2> HIDE DEF c, x, none
  <2>2. EntryMade(b, c, x, day) BY <1>1, <1>2, <2>1, EnteredIs
  <2> QED BY <2>2 DEF EntryMade
<1> HIDE DEF c
<1>4. BooksGrow(b, c) BY <1>1, <1>3 DEF BooksGrow
<1>5. Len(b.moves) + 1..Len(c.moves) = {} BY <1>1, <1>3
<1>6. x.of = k /\ x.day = d /\ x.amount = n /\ x.back = 0 /\ x.move = 0 OBVIOUS
<1>7. \A f \in Len(b.entries) + 1..Len(c.entries) : NewEntry(c, f)
  <2>1. Len(b.entries) + 1..Len(c.entries) = {e} BY <1>1, <1>3
  <2>2. EntrySound(c, e) BY <1>1, <1>2, <1>3, <1>6 DEF EntrySound
  <2>3. NewEntry(c, e) BY <1>3, <1>6, <2>2 DEF NewEntry
  <2> QED BY <2>1, <2>3
<1>8. \A j \in 1..Len(c.dues) : DueSound(c, j)
  <2>1. Net(b, k, MaxDay) + n \in 0..b.dues[k].amount BY <1>2, LeftFits
  <2>2. n \in Int OBVIOUS
  <2> HIDE DEF x
  <2> QED BY <1>2, <1>3, <1>6, <2>1, <2>2, DuesEntered
<1>9. Sound(c, day) BY <1>3, <1>4, <1>5, <1>7, <1>8, GrowsSound
<1> QED BY <1>9 DEF c

\* Taking back: the entry, and its movement if it has one.
LEMMA TakenBackSound ==
  ASSUME today \in Days, NEW b, Sound(b, today), NEW k, NEW e \in Active(b, k),
         NEW d \in Until(today), NEW c, c = TakenBack(b, e, d)
  PROVE  /\ Sound(c, today)
         /\ c.dues = b.dues /\ c.plan = b.plan
         /\ Len(c.entries) = Len(b.entries) + 1
         /\ \A f \in 1..Len(b.entries) : c.entries[f] = b.entries[f]
         /\ c.entries[Len(b.entries) + 1].back = e
<1> DEFINE x == b.entries[e]
           i == Len(b.moves) + 1
           n == Len(b.entries) + 1
           side == Opposite(SideOf(b.dues[x.of].kind))
           move == IF x.move = 0 THEN 0 ELSE i
           p == IF x.move = 0 THEN b ELSE Posted(b, d, side, x.amount, x.move, TRUE)
           z == [of |-> x.of, day |-> today, amount |-> x.amount, back |-> e, move |-> move]
<1>1. b \in BooksType(today) /\ Len(b.moves) \in Nat /\ Len(b.entries) \in Nat /\ Len(b.dues) \in Nat
      /\ EntriesApart(b) /\ \A f \in 1..Len(b.entries) : EntrySound(b, f)
  BY Lengths DEF Sound
<1>2. /\ e \in 1..Len(b.entries) /\ x.of = k /\ x.back = 0 /\ e \in Nat /\ e # 0
      /\ \A f \in Entries(b, k) : b.entries[f].back # e
  BY <1>1 DEF Active, Entries
<1>3. /\ x.amount \in Nat /\ x.move \in Nat /\ x.of \in 1..Len(b.dues) /\ x.of \in Nat
      /\ b.dues[x.of].kind \in {"receivable", "card", "contribution"}
      /\ x.move # 0 => /\ x.move \in 1..Len(b.moves) /\ b.dues[x.of].kind # "contribution"
                       /\ b.moves[x.move].managed /\ b.moves[x.move].amount = x.amount
                       /\ b.moves[x.move].back = 0
                       /\ b.moves[x.move].type = SideOf(b.dues[x.of].kind)
  BY <1>1, <1>2, EntryParts DEF EntrySound
<1>4. side \in {"income", "expense", "transfer"} BY OppositeTypes DEF SideOf
<1>5. /\ p \in BooksType(today)
      /\ p.dues = b.dues /\ p.entries = b.entries /\ p.plan = b.plan
      /\ \A j \in 1..Len(b.moves) : p.moves[j] = b.moves[j]
      /\ IF x.move = 0 THEN p.moves = b.moves
         ELSE /\ Len(p.moves) = i
              /\ p.moves[i] = [day |-> d, type |-> side, amount |-> x.amount, back |-> x.move,
                               managed |-> TRUE]
  <2>1. CASE x.move = 0 BY <1>1, <2>1
  <2>2. CASE x.move # 0
    <3> DEFINE yes == TRUE
               amount == x.amount
               back == x.move
    <3>1. yes \in BOOLEAN /\ amount \in Nat /\ back \in Nat
          /\ p = Posted(b, d, side, amount, back, yes)
      BY <1>3, <2>2
    <3> HIDE DEF yes, amount, back, side, p
    <3>2. /\ p \in BooksType(today)
          /\ p.dues = b.dues /\ p.entries = b.entries /\ p.plan = b.plan
          /\ Len(p.moves) = Len(b.moves) + 1
          /\ p.moves[Len(b.moves) + 1] = [day |-> d, type |-> side, amount |-> amount, back |-> back,
                           managed |-> yes]
          /\ \A j \in 1..Len(b.moves) : p.moves[j] = b.moves[j]
      BY <1>1, <1>4, <3>1, PostedIs
    <3> QED BY <2>2, <3>2 DEF yes, amount, back
  <2> QED BY <2>1, <2>2
<1>6. c = Entered(p, x.of, today, x.amount, e, move) BY DEF TakenBack
<1> HIDE DEF p
<1>7. /\ c \in BooksType(today) /\ c.dues = p.dues /\ c.moves = p.moves /\ c.plan = p.plan
      /\ c.entries = Append(p.entries, z)
      /\ Len(c.entries) = Len(p.entries) + 1 /\ c.entries[Len(p.entries) + 1] = z
      /\ \A f \in 1..Len(p.entries) : c.entries[f] = p.entries[f]
  <2> DEFINE of == x.of
             amount == x.amount
  <2>1. /\ of \in Nat /\ amount \in Nat /\ e \in Nat /\ move \in Nat /\ today \in Until(today)
        /\ c = Entered(p, of, today, amount, e, move)
        /\ z = [of |-> of, day |-> today, amount |-> amount, back |-> e, move |-> move]
    BY <1>1, <1>2, <1>3, <1>6, DaysAre DEF Until
  <2>2. p \in BooksType(today) BY <1>5
  <2> HIDE DEF z, of, amount, move
  <2>3. EntryMade(p, c, z, today) BY ONLY <2>1, <2>2, EnteredIs
  <2> QED BY ONLY <2>3 DEF EntryMade
<1>8. /\ z.of = k /\ z.amount = x.amount /\ z.back = e /\ z.move = move BY <1>2
<1> HIDE DEF z
<1>9. /\ c.dues = b.dues /\ c.plan = b.plan /\ c.entries = Append(b.entries, z)
      /\ Len(c.entries) = n /\ c.entries[n] = z
      /\ \A f \in 1..Len(b.entries) : c.entries[f] = b.entries[f]
      /\ \A j \in 1..Len(b.moves) : c.moves[j] = b.moves[j]
  BY <1>5, <1>7
<1>10. x.move = 0 => c.moves = b.moves BY <1>5, <1>7
<1>11. x.move # 0 => /\ Len(c.moves) = i /\ c.moves[i].type = side /\ c.moves[i].amount = x.amount
                     /\ c.moves[i].back = x.move /\ c.moves[i].managed
  BY <1>5, <1>7
<1>12. BooksGrow(b, c) BY <1>1, <1>9, <1>10, <1>11 DEF BooksGrow
<1>13. \A j \in Len(b.moves) + 1..Len(c.moves) : NewMove(c, j)
  <2>1. CASE x.move = 0 BY <1>1, <1>10, <2>1
  <2>2. CASE x.move # 0
    <3>1. Len(b.moves) + 1..Len(c.moves) = {i} BY <1>1, <1>11, <2>2
    <3>2. n \in 1..Len(c.entries) /\ c.entries[n].back # 0 /\ c.entries[n].move = i
      BY <1>1, <1>2, <1>8, <1>9, <2>2
    <3>3. c.moves[x.move] = b.moves[x.move] /\ x.move \in 0..Len(c.moves)
      BY <1>1, <1>3, <1>9, <1>11, <2>2
    <3>4. /\ c.moves[i].back = x.move /\ c.moves[i].amount = b.moves[x.move].amount
          /\ c.moves[i].type = Opposite(b.moves[x.move].type) /\ b.moves[x.move].back = 0
      BY <1>3, <1>11, <2>2
    <3> HIDE DEF i, n, x
    <3>5. NewMove(c, i) BY <3>2, <3>3, <3>4 DEF NewMove
    <3> QED BY <3>1, <3>5
  <2> QED BY <2>1, <2>2
<1>14. \A f \in Len(b.entries) + 1..Len(c.entries) : NewEntry(c, f)
  <2>1. Len(b.entries) + 1..Len(c.entries) = {n} BY <1>1, <1>9
  <2>2. c.entries[e] = x /\ e \in 1..Len(c.entries) /\ k \in 1..Len(c.dues)
        /\ c.dues[k] = b.dues[k]
    BY <1>1, <1>2, <1>3, <1>9
  <2>3. EntrySound(c, n)
    <3>1. /\ c.entries[n].of = k /\ c.entries[n].amount = x.amount /\ c.entries[n].back = e
          /\ c.entries[n].move = move
      BY <1>8, <1>9
    <3>2. move # 0 => /\ x.move # 0 /\ move = i /\ move \in 1..Len(c.moves)
                      /\ c.dues[k].kind # "contribution"
                      /\ c.moves[move].managed /\ c.moves[move].amount = x.amount
                      /\ c.moves[move].back = x.move
      BY <1>1, <1>2, <1>3, <1>11, <2>2
    <3>3. (x.move = 0) = (move = 0) BY <1>1
    <3>4. c.dues[k].kind \in {"receivable", "card", "contribution"} BY <1>2, <1>3, <2>2
    <3> HIDE DEF n, x, move
    <3> QED BY <1>2, <2>2, <3>1, <3>2, <3>3, <3>4 DEF EntrySound
  <2>4. \A f \in 1..Len(c.entries) \ {n} : c.entries[f].back # e
                                           /\ (move # 0 => move # c.entries[f].move)
    <3> TAKE f \in 1..Len(c.entries) \ {n}
    <3>1. f \in 1..Len(b.entries) /\ c.entries[f] = b.entries[f] BY <1>1, <1>9
    <3>2. EntrySound(b, f) BY <1>1, <3>1
    <3>3. b.entries[f].back # e
      <4> SUFFICES ASSUME b.entries[f].back = e PROVE FALSE OBVIOUS
      <4>1. b.entries[f].of = k BY <1>2, <3>2 DEF EntrySound
      <4> QED BY <1>2, <3>1, <4>1 DEF Entries
    <3>4. b.entries[f].move # i BY <1>1, <3>2 DEF EntrySound
    <3> QED BY <3>1, <3>3, <3>4
  <2>5. NewEntry(c, n) BY <1>8, <1>9, <2>3, <2>4 DEF NewEntry
  <2> QED BY <2>1, <2>5
<1>15. \A j \in 1..Len(c.dues) : DueSound(c, j)
  <2>1. x.amount <= Net(b, k, MaxDay) /\ Net(b, k, MaxDay) \in Nat BY ActiveWithin
  <2>2. DueSound(b, k) BY <1>2, <1>3 DEF Sound
  <2>3. Net(b, k, MaxDay) \in 0..b.dues[k].amount
        /\ (~b.dues[k].live => Net(b, k, MaxDay) = 0)
    BY <2>2 DEF DueSound
  <2> DEFINE gain == -x.amount
  <2>4. b.dues[k].amount \in Nat /\ k \in 1..Len(b.dues) BY <1>1, <1>2, <1>3, DueParts
  <2>5. /\ gain \in Int /\ Net(b, k, MaxDay) + gain \in 0..b.dues[k].amount
        /\ b.dues[k].live \/ Net(b, k, MaxDay) + gain = 0
    <3>1. x.amount \in Nat BY <1>3
    <3> DEFINE total == Net(b, k, MaxDay)
               amount == x.amount
               worth == b.dues[k].amount
               live == b.dues[k].live
    <3>2. /\ total \in 0..worth /\ amount \in Nat /\ amount <= total /\ worth \in Nat
          /\ (~live => total = 0)
      BY <2>1, <2>3, <2>4, <3>1
    <3> HIDE DEF total, amount, worth, live
    <3>3. total + (-amount) \in 0..worth /\ -amount \in Int BY <3>2
    <3>4. live \/ total + (-amount) = 0 BY <3>2
    <3> QED BY <3>3, <3>4 DEF total, amount, worth, live
  <2>7. gain = IF z.back # 0 THEN -z.amount ELSE z.amount BY <1>2, <1>8
  <2>6. z.of = k BY <1>8
  <2> HIDE DEF gain
  <2> QED BY <1>7, <1>9, <2>4, <2>5, <2>6, <2>7, DuesEntered
<1>16. Sound(c, today) BY <1>7, <1>12, <1>13, <1>14, <1>15, GrowsSound
<1> QED BY <1>8, <1>9, <1>16

\* What else was settled stays so.
LEMMA TakenBackKeeps ==
  ASSUME today \in Days, NEW b, Sound(b, today), NEW k, NEW e \in Active(b, k),
         NEW d \in Until(today), NEW c, c = TakenBack(b, e, d), NEW f \in Active(b, k), f # e
  PROVE  f \in Active(c, k)
<1>1. /\ Sound(c, today) /\ Len(c.entries) = Len(b.entries) + 1
      /\ \A g \in 1..Len(b.entries) : c.entries[g] = b.entries[g]
      /\ c.entries[Len(b.entries) + 1].back = e
  BY TakenBackSound
<1>2. Len(b.entries) \in Nat BY Lengths DEF Sound
<1>3. f \in 1..Len(b.entries) /\ b.entries[f].of = k /\ b.entries[f].back = 0
      /\ \A g \in 1..Len(b.entries) : b.entries[g].of = k => b.entries[g].back # f
  BY DEF Active, Entries
<1>4. f \in 1..Len(c.entries) /\ c.entries[f] = b.entries[f] BY <1>1, <1>2, <1>3
<1>5. \A g \in 1..Len(c.entries) : c.entries[g].of = k => c.entries[g].back # f
  BY <1>1, <1>2, <1>3
<1> QED BY <1>3, <1>4, <1>5 DEF Active, Entries

LEMMA OtherDues ==
  ASSUME NEW a, NEW m, NEW d, NEW e, NEW p, NEW n, NEW b,
         b = [accounts |-> a, moves |-> m, dues |-> d, entries |-> e, plan |-> p]
  PROVE  [b EXCEPT !.dues = n] = [accounts |-> a, moves |-> m, dues |-> n, entries |-> e, plan |-> p]
  OBVIOUS

\* Books with other dues or another plan.
LEMMA DuesSound ==
  ASSUME NEW day \in Days, NEW b, Sound(b, day), NEW dues \in Seq(ADue(day)), NEW plan \in APlan,
         NEW c, c = [accounts |-> b.accounts, moves |-> b.moves, dues |-> dues,
                     entries |-> b.entries, plan |-> plan],
         Len(b.dues) <= Len(dues),
         \A k \in 1..Len(b.dues) : dues[k].kind = b.dues[k].kind,
         \A k \in 1..Len(dues) : DueSound(c, k)
  PROVE  Sound(c, day)
<1>1. /\ b \in BooksType(day) /\ b.accounts \in Seq(AnAccount(day)) /\ b.moves \in Seq(AMove(day))
      /\ b.entries \in Seq(AnEntry(day))
      /\ Len(b.moves) \in Nat /\ Len(b.entries) \in Nat /\ Len(b.dues) \in Nat
  BY BooksParts, Lengths DEF Sound
<1>2. /\ c.accounts = b.accounts /\ c.moves = b.moves /\ c.dues = dues /\ c.entries = b.entries
      /\ c.plan = plan
      /\ c = [accounts |-> c.accounts, moves |-> c.moves, dues |-> c.dues,
              entries |-> c.entries, plan |-> c.plan]
  OBVIOUS
<1>3. c \in BooksType(day)
  <2> HIDE DEF BooksType
  <2> QED BY <1>1, <1>2, BooksMade
<1>4. BooksGrow(b, c) BY <1>1, <1>2 DEF BooksGrow
<1>5. Len(b.moves) + 1..Len(c.moves) = {} /\ Len(b.entries) + 1..Len(c.entries) = {}
  BY <1>1, <1>2
<1>6. \A k \in 1..Len(c.dues) : DueSound(c, k) BY <1>2
<1> QED BY <1>3, <1>4, <1>5, <1>6, GrowsSound

WithDue(b, k, due) == [b EXCEPT !.dues = [b.dues EXCEPT ![k] = due]]

\* A due is void, or paid, or not paid any more.
LEMMA DueChanged ==
  ASSUME NEW day \in Days, NEW b, Sound(b, day), NEW k \in 1..Len(b.dues),
         NEW due \in ADue(day), NEW c, c = WithDue(b, k, due),
         due.kind = b.dues[k].kind, due.amount = b.dues[k].amount,
         due.occurrence = b.dues[k].occurrence,
         ~due.live => Net(b, k, MaxDay) = 0 /\ due.paid = 0,
         due.paid # 0 => due.kind = "tax" \/ (due.kind = "card" /\ due.paid <= FirstDay)
  PROVE  /\ Sound(c, day) /\ c.entries = b.entries /\ c.moves = b.moves /\ c.plan = b.plan
         /\ c.accounts = b.accounts /\ c.dues = [b.dues EXCEPT ![k] = due]
<1> DEFINE dues == [b.dues EXCEPT ![k] = due]
<1>1. /\ b \in BooksType(day) /\ b.dues \in Seq(ADue(day)) /\ b.plan \in APlan
      /\ b = [accounts |-> b.accounts, moves |-> b.moves, dues |-> b.dues,
              entries |-> b.entries, plan |-> b.plan]
  BY BooksParts DEF Sound
<1>2. /\ dues \in Seq(ADue(day)) /\ Len(dues) = Len(b.dues) /\ dues[k] = due
      /\ \A j \in 1..Len(b.dues) : j # k => dues[j] = b.dues[j]
      /\ Len(b.dues) \in Nat
  BY <1>1
<1> HIDE DEF dues
<1>3. c = [accounts |-> b.accounts, moves |-> b.moves, dues |-> dues,
           entries |-> b.entries, plan |-> b.plan]
  BY <1>1, OtherDues DEF dues, WithDue
<1>4. c.entries = b.entries /\ c.moves = b.moves /\ c.plan = b.plan /\ c.accounts = b.accounts
      /\ c.dues = dues
  BY <1>3
<1>5. \A j \in 1..Len(dues) : DueSound(c, j)
  <2> TAKE j \in 1..Len(dues)
  <2>1. DueSound(b, j) /\ j \in 1..Len(b.dues) BY <1>2 DEF Sound
  <2>2. Net(c, j, MaxDay) = Net(b, j, MaxDay)
    <3>1. c.entries = b.entries BY <1>4
    <3>2. \A i, until : Net(c, i, until) = Net(b, i, until) BY ONLY <3>1, NetKept
    <3> QED BY <3>2
  <2>3. CASE j # k
    <3>1. c.dues[j] = b.dues[j] BY <1>2, <1>4, <2>1, <2>3
    <3> QED BY <1>4, <2>1, <2>2, <3>1, DueKept
  <2>4. CASE j = k
    <3>1. c.dues[k] = due BY <1>2, <1>4
    <3> QED BY <1>4, <2>1, <2>2, <2>4, <3>1 DEF DueSound
  <2> QED BY <2>3, <2>4
<1>6. \A j \in 1..Len(b.dues) : dues[j].kind = b.dues[j].kind BY <1>2
<1>7. Len(b.dues) <= Len(dues) BY <1>2
<1>8. Sound(c, day) BY <1>1, <1>2, <1>3, <1>5, <1>6, <1>7, DuesSound
<1> QED BY <1>4, <1>8 DEF dues

\* An occurrence of the plan is realized: the plan goes on, with a new due if it is a card's.
LEMMA PlanSound ==
  ASSUME NEW day \in Days, NEW b, Sound(b, day), NEW plan \in APlan, plan.next >= b.plan.next,
         NEW c, c = [b EXCEPT !.plan = plan]
  PROVE  Sound(c, day) /\ c.plan = plan /\ c.dues = b.dues /\ c.moves = b.moves
<1>1. /\ b \in BooksType(day) /\ b.dues \in Seq(ADue(day)) /\ b.plan \in APlan
      /\ b = [accounts |-> b.accounts, moves |-> b.moves, dues |-> b.dues,
              entries |-> b.entries, plan |-> b.plan]
      /\ Len(b.dues) \in Nat
  BY BooksParts, Lengths DEF Sound
<1>2. c = [accounts |-> b.accounts, moves |-> b.moves, dues |-> b.dues,
           entries |-> b.entries, plan |-> plan]
  <2> DEFINE a == b.accounts
             m == b.moves
             d == b.dues
             e == b.entries
             p == b.plan
  <2>1. b = [accounts |-> a, moves |-> m, dues |-> d, entries |-> e, plan |-> p] BY <1>1
  <2> HIDE DEF a, m, d, e, p
  <2>2. c = [accounts |-> a, moves |-> m, dues |-> d, entries |-> e, plan |-> plan] BY <2>1
  <2> QED BY <2>2 DEF a, m, d, e, p
<1>3. c.entries = b.entries /\ c.dues = b.dues /\ c.plan = plan /\ c.moves = b.moves BY <1>2
<1>4. \A k \in 1..Len(b.dues) : DueSound(c, k)
  <2> TAKE k \in 1..Len(b.dues)
  <2>1. DueSound(b, k) BY DEF Sound
  <2>2. Net(c, k, MaxDay) = Net(b, k, MaxDay)
    <3>1. c.entries = b.entries BY <1>3
    <3>2. \A i, until : Net(c, i, until) = Net(b, i, until) BY ONLY <3>1, NetKept
    <3> QED BY <3>2
  <2>3. b.dues[k].occurrence \in Nat BY <1>1, DueParts
  <2>4. b.plan.next \in Nat /\ plan.next \in Nat BY <1>1 DEF APlan
  <2> QED BY <1>3, <2>1, <2>2, <2>3, <2>4 DEF DueSound
<1>5. Len(b.dues) <= Len(b.dues) BY <1>1
<1>6. Sound(c, day) BY <1>1, <1>2, <1>4, <1>5, DuesSound
<1> QED BY <1>3, <1>6

LEMMA DueAdded ==
  ASSUME NEW day \in Days, NEW b, Sound(b, day), NEW due \in ADue(day), due.live, due.paid = 0,
         due.occurrence < b.plan.next, NEW c, c = [b EXCEPT !.dues = Append(b.dues, due)]
  PROVE  Sound(c, day) /\ c.dues = Append(b.dues, due) /\ c.plan = b.plan
<1> DEFINE dues == Append(b.dues, due)
           n == Len(b.dues) + 1
<1>1. /\ b \in BooksType(day) /\ b.dues \in Seq(ADue(day)) /\ b.plan \in APlan
      /\ b = [accounts |-> b.accounts, moves |-> b.moves, dues |-> b.dues,
              entries |-> b.entries, plan |-> b.plan]
      /\ Len(b.dues) \in Nat
  BY BooksParts, Lengths DEF Sound
<1>2. /\ dues \in Seq(ADue(day)) /\ Len(dues) = n /\ dues[n] = due
      /\ \A j \in 1..Len(b.dues) : dues[j] = b.dues[j]
  BY <1>1
<1> HIDE DEF dues
<1>3. c = [accounts |-> b.accounts, moves |-> b.moves, dues |-> dues,
           entries |-> b.entries, plan |-> b.plan]
  BY <1>1, OtherDues DEF dues
<1>4. c.entries = b.entries /\ c.plan = b.plan /\ c.dues = dues BY <1>3
<1>5. \A j \in 1..Len(dues) : DueSound(c, j)
  <2> TAKE j \in 1..Len(dues)
  <2>1. \A i, until : Net(c, i, until) = Net(b, i, until)
    <3>1. c.entries = b.entries BY <1>4
    <3> QED BY ONLY <3>1, NetKept
  <2>2. CASE j \in 1..Len(b.dues)
    <3>1. DueSound(b, j) /\ c.dues[j] = b.dues[j] BY <1>2, <1>4, <2>2 DEF Sound
    <3>2. Net(c, j, MaxDay) = Net(b, j, MaxDay) BY <2>1
    <3> QED BY <1>4, <3>1, <3>2, DueKept
  <2>3. CASE j = n
    <3>1. Entries(b, n) = {}
      <4>1. \A e \in 1..Len(b.entries) : b.entries[e].of # n
        BY <1>1 DEF Sound, EntrySound
      <4> QED BY <4>1 DEF Entries
    <3>2. MaxDay \in Days /\ day <= MaxDay BY DaysAre
    <3>3. Net(b, n, MaxDay) = SumOver(WorthOf(b), Entries(b, n)) BY <1>1, <3>2, NetIs, AllByTheEnd
    <3>4. Net(c, n, MaxDay) = 0 BY <2>1, <3>1, <3>3, SumEmpty
    <3>5. c.dues[n] = due /\ due.amount \in Nat BY <1>2, <1>4 DEF ADue
    <3> HIDE DEF n
    <3> QED BY <1>4, <2>3, <3>4, <3>5 DEF DueSound
  <2> QED BY <1>1, <1>2, <2>2, <2>3
<1>6. \A j \in 1..Len(b.dues) : dues[j].kind = b.dues[j].kind BY <1>2
<1>7. Len(b.dues) <= Len(dues) BY <1>1, <1>2
<1>8. Sound(c, day) BY <1>1, <1>2, <1>3, <1>5, <1>6, <1>7, DuesSound
<1> QED BY <1>4, <1>8 DEF dues

LEMMA AccountAdded ==
  ASSUME NEW day \in Days, NEW b, Sound(b, day), NEW account \in AnAccount(day),
         NEW c, c = [b EXCEPT !.accounts = Append(b.accounts, account)]
  PROVE  Sound(c, day) /\ c.dues = b.dues /\ c.plan = b.plan
<1>1. /\ b \in BooksType(day) /\ b.dues \in Seq(ADue(day)) /\ b.plan \in APlan
      /\ b.accounts \in Seq(AnAccount(day)) /\ b.moves \in Seq(AMove(day))
      /\ b.entries \in Seq(AnEntry(day))
      /\ b = [accounts |-> b.accounts, moves |-> b.moves, dues |-> b.dues,
              entries |-> b.entries, plan |-> b.plan]
      /\ Len(b.dues) \in Nat /\ Len(b.moves) \in Nat /\ Len(b.entries) \in Nat
  BY BooksParts, Lengths DEF Sound
<1> DEFINE accounts == Append(b.accounts, account)
<1>2. accounts \in Seq(AnAccount(day)) BY <1>1
<1> HIDE DEF accounts
<1>3. c = [accounts |-> accounts, moves |-> b.moves, dues |-> b.dues,
           entries |-> b.entries, plan |-> b.plan]
  <2> DEFINE a == b.accounts
             m == b.moves
             d == b.dues
             e == b.entries
             p == b.plan
  <2>1. b = [accounts |-> a, moves |-> m, dues |-> d, entries |-> e, plan |-> p] BY <1>1
  <2>2. c = [b EXCEPT !.accounts = accounts] BY DEF accounts
  <2> HIDE DEF a, m, d, e, p
  <2>3. c = [accounts |-> accounts, moves |-> m, dues |-> d, entries |-> e, plan |-> p]
    BY <2>1, <2>2
  <2> QED BY <2>3 DEF a, m, d, e, p
<1>4. /\ c.entries = b.entries /\ c.plan = b.plan /\ c.dues = b.dues /\ c.moves = b.moves
      /\ c.accounts = accounts
      /\ c = [accounts |-> c.accounts, moves |-> c.moves, dues |-> c.dues,
              entries |-> c.entries, plan |-> c.plan]
  <2>1. /\ c.entries = b.entries /\ c.plan = b.plan /\ c.dues = b.dues /\ c.moves = b.moves
        /\ c.accounts = accounts
    BY <1>3
  <2> QED BY <1>3, <2>1
<1>5. c \in BooksType(day)
  <2>1. /\ c.moves \in Seq(AMove(day)) /\ c.dues \in Seq(ADue(day))
        /\ c.entries \in Seq(AnEntry(day)) /\ c.plan \in APlan
    BY ONLY <1>1, <1>4
  <2>2. c.accounts \in Seq(AnAccount(day)) BY ONLY <1>2, <1>4
  <2>3. c = [accounts |-> c.accounts, moves |-> c.moves, dues |-> c.dues,
             entries |-> c.entries, plan |-> c.plan]
    BY ONLY <1>4
  <2> QED BY ONLY <2>1, <2>2, <2>3, BooksMade
<1>6. BooksGrow(b, c) BY <1>1, <1>4 DEF BooksGrow
<1>7. Len(b.moves) + 1..Len(c.moves) = {} /\ Len(b.entries) + 1..Len(c.entries) = {}
  BY <1>1, <1>4
<1>8. \A k \in 1..Len(c.dues) : DueSound(c, k)
  <2> TAKE k \in 1..Len(c.dues)
  <2>1. DueSound(b, k) BY <1>4 DEF Sound
  <2>2. Net(c, k, MaxDay) = Net(b, k, MaxDay)
    <3>1. c.entries = b.entries BY <1>4
    <3> QED BY ONLY <3>1, NetKept
  <2>3. c.dues[k] = b.dues[k] /\ c.plan.next = b.plan.next BY ONLY <1>4
  <2> QED BY ONLY <2>1, <2>2, <2>3, DueKept
<1>9. Sound(c, day)
  <2>1. /\ \A i \in Len(b.moves) + 1..Len(c.moves) : NewMove(c, i)
        /\ \A e \in Len(b.entries) + 1..Len(c.entries) : NewEntry(c, e)
    BY ONLY <1>7
  <2>2. Sound(b, day) OBVIOUS
  <2> QED BY ONLY <1>5, <1>6, <1>8, <2>1, <2>2, GrowsSound
<1> QED BY <1>4, <1>9

-----------------------------------------------------------------------------
(* Every request.                                                          *)

\* Dues stay, with the occurrence that they came of.
Stays(b, c) ==
  /\ Len(b.dues) <= Len(c.dues)
  /\ \A k \in 1..Len(b.dues) : c.dues[k].occurrence = b.dues[k].occurrence

LEMMA SameStays ==
  ASSUME NEW day, NEW b, Sound(b, day), NEW c, c.dues = b.dues
  PROVE  Stays(b, c)
<1>1. Len(b.dues) \in Nat BY Lengths DEF Sound
<1> QED BY <1>1 DEF Stays

LEMMA PostedDues ==
  ASSUME NEW day, NEW b \in BooksType(day), NEW d, NEW type, NEW amount, NEW back, NEW managed
  PROVE  Posted(b, d, type, amount, back, managed).dues = b.dues
<1>1. b = [accounts |-> b.accounts, moves |-> b.moves, dues |-> b.dues,
           entries |-> b.entries, plan |-> b.plan]
  BY BooksParts
<1>2. "dues" \in DOMAIN b BY <1>1
<1> QED BY <1>2 DEF Posted

LEMMA SettleStep ==
  ASSUME today \in Days, Sound(books, today), NEW kind \in {"receivable", "card"},
         NEW k \in 1..Len(books.dues), NEW n \in 1..2, NEW day \in Until(today),
         SettleDue(kind, k, n, day)
  PROVE  Sound(books', today) /\ books'.dues = books.dues
<1>1. /\ k \in Live(books, kind) /\ n <= Left(books, k, MaxDay) /\ n \in Nat /\ n # 0
      /\ books' = Entered(Posted(books, day, SideOf(kind), n, 0, TRUE), k, day, n, 0,
                          Len(books.moves) + 1)
  BY DEF SettleDue, Fits, Change
<1>2. Sound(books', today) BY <1>1, SettledSound
<1>3. books'.dues = books.dues
  <2>1. books \in BooksType(today) BY DEF Sound
  <2>2. books = [accounts |-> books.accounts, moves |-> books.moves, dues |-> books.dues,
                 entries |-> books.entries, plan |-> books.plan]
    BY <2>1, BooksParts
  <2>3. "dues" \in DOMAIN books BY <2>2
  <2> QED BY <1>1, <2>3 DEF Entered, Posted
<1> QED BY <1>2, <1>3

LEMMA ReceiptStep ==
  ASSUME today \in Days, Sound(books, today),
         NEW k \in 1..Len(books.dues), NEW n \in 1..2, NEW day \in Until(today),
         CreateReceipt(k, n, day)
  PROVE  Sound(books', today) /\ books'.dues = books.dues
<1>1. /\ k \in Live(books, "contribution") /\ n <= Left(books, k, MaxDay) /\ n \in Nat /\ n # 0
      /\ books' = Entered(books, k, day, n, 0, 0)
  BY DEF CreateReceipt, Fits, Change
<1>2. Sound(books', today) BY <1>1, ReceiptSound
<1> QED BY <1>1, <1>2 DEF Entered

LEMMA VoidStep ==
  ASSUME today \in Days, Sound(books, today), NEW k \in 1..Len(books.dues), VoidReceivable(k)
  PROVE  Sound(books', today) /\ Stays(books, books')
<1> DEFINE old == books.dues[k]
           due == [old EXCEPT !.live = FALSE]
<1>1. /\ books.dues[k].kind = "receivable" /\ Net(books, k, MaxDay) = 0
      /\ books' = [books EXCEPT !.dues = [books.dues EXCEPT ![k] = due]]
  BY DEF VoidReceivable, Live, Change
<1>2. books \in BooksType(today) /\ DueSound(books, k) BY DEF Sound
<1>3. old \in ADue(today) BY <1>2, BooksParts
<1>4. due \in ADue(today) /\ due.kind = old.kind /\ due.amount = old.amount
      /\ due.occurrence = old.occurrence /\ due.paid = old.paid /\ ~due.live
  BY <1>3 DEF ADue
<1>5. due.paid = 0
  <2>1. old.paid # 0 => old.kind = "tax" \/ old.kind = "card" BY <1>2 DEF DueSound
  <2> QED BY <1>1, <1>4, <2>1
<1> HIDE DEF due
<1>6. Sound(books', today) /\ books'.dues = [books.dues EXCEPT ![k] = due]
  <2>1. /\ due \in ADue(today) /\ due.kind = books.dues[k].kind
        /\ due.amount = books.dues[k].amount /\ due.occurrence = books.dues[k].occurrence
        /\ books' = WithDue(books, k, due)
    BY <1>1, <1>4 DEF WithDue
  <2>2. ~due.live => Net(books, k, MaxDay) = 0 /\ due.paid = 0 BY <1>1, <1>5
  <2>3. due.paid # 0 => due.kind = "tax" \/ (due.kind = "card" /\ due.paid <= FirstDay)
    BY <1>4, <1>5
  <2> QED BY ONLY Sound(books, today), today \in Days, k \in 1..Len(books.dues), <2>1, <2>2, <2>3, DueChanged
<1>7. books.dues \in Seq(ADue(today)) BY <1>2, BooksParts
<1>8. Len(books'.dues) = Len(books.dues) /\ Len(books.dues) \in Nat
      /\ \A j \in 1..Len(books.dues) : books'.dues[j] = IF j = k THEN due ELSE books.dues[j]
  BY <1>6, <1>7
<1> QED BY <1>4, <1>6, <1>8 DEF Stays

WithPaid(b, k, day) == [b EXCEPT !.dues[k].paid = day]

LEMMA PaidStep ==
  ASSUME today \in Days, NEW b, Sound(b, today), NEW k \in 1..Len(b.dues),
         NEW day \in Until(today) \cup {0}, NEW c, c = WithPaid(b, k, day),
         day # 0 => b.dues[k].kind = "tax" /\ b.dues[k].live
  PROVE  Sound(c, today) /\ Stays(b, c) /\ c.entries = b.entries
         /\ Len(c.dues) = Len(b.dues)
<1> DEFINE old == b.dues[k]
           due == [old EXCEPT !.paid = day]
<1>1. c = [b EXCEPT !.dues = [b.dues EXCEPT ![k] = due]] BY DEF WithPaid
<1>2. b \in BooksType(today) /\ DueSound(b, k) BY DEF Sound
<1>3. old \in ADue(today) BY <1>2, BooksParts
<1>4. due \in ADue(today) /\ due.kind = old.kind /\ due.amount = old.amount
      /\ due.occurrence = old.occurrence /\ due.paid = day /\ due.live = old.live
  BY <1>3 DEF ADue
<1>5. ~due.live => Net(b, k, MaxDay) = 0 /\ due.paid = 0
  BY <1>2, <1>4 DEF DueSound
<1> HIDE DEF due
<1>6. Sound(c, today) /\ c.dues = [b.dues EXCEPT ![k] = due] /\ c.entries = b.entries
  <2>1. /\ due \in ADue(today) /\ due.kind = b.dues[k].kind
        /\ due.amount = b.dues[k].amount /\ due.occurrence = b.dues[k].occurrence
        /\ c = WithDue(b, k, due)
    BY <1>1, <1>4 DEF WithDue
  <2>2. ~due.live => Net(b, k, MaxDay) = 0 /\ due.paid = 0 BY <1>1, <1>5
  <2>3. due.paid # 0 => due.kind = "tax" \/ (due.kind = "card" /\ due.paid <= FirstDay)
    BY <1>4, <1>5
  <2> QED BY ONLY Sound(b, today), today \in Days, k \in 1..Len(b.dues), <2>1, <2>2, <2>3, DueChanged
<1>7. b.dues \in Seq(ADue(today)) BY <1>2, BooksParts
<1>8. Len(c.dues) = Len(b.dues) /\ Len(b.dues) \in Nat
      /\ \A j \in 1..Len(b.dues) : c.dues[j] = IF j = k THEN due ELSE b.dues[j]
  BY <1>6, <1>7
<1> QED BY <1>4, <1>6, <1>8 DEF Stays

LEMMA ReverseCollectionStep ==
  ASSUME today \in Days, Sound(books, today), NEW e \in 1..Len(books.entries), ReverseCollection(e)
  PROVE  Sound(books', today) /\ books'.dues = books.dues
<1>1. e \in Active(books, books.entries[e].of) /\ books' = TakenBack(books, e, today)
  BY DEF ReverseCollection, Change
<1>2. today \in Until(today) BY DaysAre DEF Until
<1> QED BY <1>1, <1>2, TakenBackSound

\* All payments of an instalment are taken back, one after the other.
TakesBack(g, b, k, N) ==
  g = [n \in 0..N |->
         IF n = 0 THEN [b EXCEPT !.dues[k].paid = 0]
         ELSE IF n \in Active(b, k) THEN TakenBack(g[n - 1], n, b.entries[n].day)
         ELSE g[n - 1]]

LEMMA TakesBackExists ==
  ASSUME NEW b, NEW k, NEW N \in Nat
  PROVE  \E g : TakesBack(g, b, k, N)
<1> DEFINE Bad == {n \in Nat : ~\E g : TakesBack(g, b, k, n)}
<1> SUFFICES ASSUME Bad # {} PROVE FALSE OBVIOUS
<1>1. PICK n \in Bad : \A m \in Bad : n <= m
  <2>1. \A x \in Bad : x \in Nat OBVIOUS
  <2> HIDE DEF Bad
  <2> QED BY <2>1, LeastNat
<1>2. n \in Nat /\ ~\E g : TakesBack(g, b, k, n) OBVIOUS
<1>3. CASE n = 0
  <2>1. TakesBack([m \in 0..0 |-> [b EXCEPT !.dues[k].paid = 0]], b, k, 0) BY DEF TakesBack
  <2> QED BY <1>2, <1>3, <2>1
<1>4. CASE n # 0
  <2>1. n - 1 \in Nat /\ n - 1 \notin Bad
    <3>1. n - 1 \in Nat /\ ~(n <= n - 1) BY <1>2, <1>4
    <3> HIDE DEF Bad
    <3> QED BY <1>1, <3>1
  <2>2. PICK h : TakesBack(h, b, k, n - 1) BY <2>1
  <2> DEFINE Following(m, last) == IF m \in Active(b, k) THEN TakenBack(last, m, b.entries[m].day)
                              ELSE last
             g == [m \in 0..n |-> IF m = n THEN Following(n, h[n - 1]) ELSE h[m]]
  <2>3. g = [m \in 0..n |->
               IF m = 0 THEN [b EXCEPT !.dues[k].paid = 0] ELSE Following(m, g[m - 1])]
    <3>1. \A m \in 0..n - 1 : g[m] = h[m] BY <1>2, <1>4
    <3>2. g[n] = Following(n, h[n - 1]) BY <1>2
    <3>3. \A m \in 0..n - 1 : h[m] = IF m = 0 THEN [b EXCEPT !.dues[k].paid = 0]
                                    ELSE Following(m, h[m - 1])
      BY <2>2 DEF TakesBack
    <3> HIDE DEF g, Following
    <3>4. \A m \in 0..n : g[m] = IF m = 0 THEN [b EXCEPT !.dues[k].paid = 0]
                                ELSE Following(m, g[m - 1])
      BY <1>2, <1>4, <3>1, <3>2, <3>3
    <3>5. g = [m \in 0..n |-> g[m]] BY DEF g
    <3> QED BY <3>4, <3>5
  <2>4. TakesBack(g, b, k, n) BY <2>3 DEF TakesBack
  <2> QED BY <1>2, <2>4
<1> QED BY <1>3, <1>4

LEMMA ReopenStep ==
  ASSUME today \in Days, Sound(books, today), NEW k \in 1..Len(books.dues), ReopenInstallment(k)
  PROVE  Sound(books', today) /\ Stays(books, books')
<1> DEFINE back == CHOOSE g : TakesBack(g, books, k, Len(books.entries))
           N == Len(books.entries)
<1>1. N \in Nat /\ books \in BooksType(today) BY Lengths DEF Sound
<1>2. TakesBack(back, books, k, N) BY <1>1, TakesBackExists
<1>3. books' = back[N] BY DEF ReopenInstallment, TakesBack, Change
<1> HIDE DEF back
<1>4. \A n \in 0..N : back[n] = IF n = 0 THEN [books EXCEPT !.dues[k].paid = 0]
                                ELSE IF n \in Active(books, k)
                                THEN TakenBack(back[n - 1], n, books.entries[n].day)
                                ELSE back[n - 1]
  BY <1>2 DEF TakesBack
<1> DEFINE Good(n) == /\ Sound(back[n], today) /\ Stays(books, back[n])
                      /\ \A e \in Active(books, k) : e > n => e \in Active(back[n], k)
           Bad == {n \in Nat : n <= N /\ ~Good(n)}
<1>5. ASSUME Bad # {} PROVE FALSE
  <2>1. PICK n \in Bad : \A m \in Bad : n <= m
    <3>1. \A x \in Bad : x \in Nat OBVIOUS
    <3> HIDE DEF Bad
    <3> QED BY <1>5, <3>1, LeastNat
  <2>2. n \in Nat /\ n <= N /\ ~Good(n) OBVIOUS
  <2>3. CASE n = 0
    <3> DEFINE c == [books EXCEPT !.dues[k].paid = 0]
               none == 0
    <3>1. none \in Until(today) \cup {0} /\ c = WithPaid(books, k, none) /\ none = 0
      BY DEF WithPaid
    <3>3. back[0] = c
      <4>1. 0 \in 0..N BY <1>1
      <4> QED BY <1>4, <4>1
    <3> HIDE DEF none, c
    <3>2. Sound(c, today) /\ Stays(books, c) /\ c.entries = books.entries
      BY <3>1, PaidStep
    <3>4. Active(c, k) = Active(books, k) BY <3>2 DEF Active, Entries
    <3> QED BY <2>2, <2>3, <3>2, <3>3, <3>4
  <2>4. CASE n # 0
    <3>1. n - 1 \in Nat /\ n - 1 <= N /\ ~(n <= n - 1) BY <1>1, <2>2, <2>4
    <3>2. Good(n - 1)
      <4>1. n - 1 \notin Bad
        <5> HIDE DEF Bad
        <5> QED BY <2>1, <3>1
      <4> QED BY <3>1, <4>1
    <3> DEFINE b == back[n - 1]
    <3>3. /\ Sound(b, today) /\ Stays(books, b)
          /\ \A e \in Active(books, k) : e > n - 1 => e \in Active(b, k)
      BY <3>2
    <3>4. \A e \in Active(books, k) : e \in Nat BY <1>1 DEF Active, Entries
    <3>5. CASE n \in Active(books, k)
      <4>1. back[n] = TakenBack(b, n, books.entries[n].day) BY <1>4, <2>2, <2>4, <3>5
      <4>2. books.entries[n].day \in Until(today)
        <5>1. n \in 1..Len(books.entries) BY <2>2, <2>4, <1>1
        <5> QED BY <1>1, <5>1, EntryParts
      <4>3. n \in Active(b, k) BY <3>1, <3>3, <3>4, <3>5
      <4> HIDE DEF b
      <4>4. Sound(back[n], today) /\ back[n].dues = b.dues BY <3>3, <4>1, <4>2, <4>3, TakenBackSound
      <4>5. Stays(books, back[n]) BY <3>3, <4>4 DEF Stays
      <4>6. \A e \in Active(books, k) : e > n => e \in Active(back[n], k)
        <5> SUFFICES ASSUME NEW e \in Active(books, k), e > n PROVE e \in Active(back[n], k)
          OBVIOUS
        <5>1. e \in Active(b, k) /\ e # n BY <2>2, <3>1, <3>3, <3>4
        <5> QED BY <3>3, <4>1, <4>2, <4>3, <5>1, TakenBackKeeps
      <4> QED BY <2>2, <4>4, <4>5, <4>6
    <3>6. CASE n \notin Active(books, k)
      <4>1. back[n] = b BY <1>4, <2>2, <2>4, <3>6
      <4>2. \A e \in Active(books, k) : e > n => e \in Active(b, k) BY <2>2, <3>3, <3>4
      <4> HIDE DEF b
      <4> QED BY <2>2, <3>3, <4>1, <4>2
    <3> QED BY <3>5, <3>6
  <2> QED BY <2>3, <2>4
<1>6. Good(N)
  <2>1. N \notin Bad BY <1>5
  <2> QED BY <1>1, <2>1
<1> QED BY <1>3, <1>6

LEMMA RealizeStep ==
  ASSUME today \in Days, Sound(books, today), Realize
  PROVE  Sound(books', today) /\ Stays(books, books')
<1> DEFINE n == books.plan.next
           next == n + PlanEvery
           goesOn == books.plan.ends = 0 \/ next <= books.plan.ends
           plan == [books.plan EXCEPT !.next = next, !.active = goesOn]
           planned == [books EXCEPT !.plan = plan]
           due == [kind |-> "card", due |-> Event(books, n), month |-> 0,
                   amount |-> books.plan.amount, live |-> TRUE, paid |-> 0, occurrence |-> n]
<1>1. books \in BooksType(today) /\ books.plan \in APlan /\ Len(books.dues) \in Nat
      /\ books.dues \in Seq(ADue(today))
  BY BooksParts, Lengths DEF Sound
<1>2. n \in Nat /\ n >= 1 /\ PlanEvery \in Nat /\ PlanEvery >= 1 /\ CardDelay \in Nat
      /\ books.plan.amount \in Nat
  BY <1>1, PlanAssumption DEF APlan
<1>3. plan \in APlan /\ plan.next = next /\ plan.card = books.plan.card
      /\ plan.amount = books.plan.amount /\ next >= n /\ n < next
  <2>1. next \in Nat \ {0} /\ next >= n /\ n < next BY <1>2
  <2>2. goesOn \in BOOLEAN OBVIOUS
  <2> HIDE DEF next, goesOn
  <2> QED BY <1>1, <2>1, <2>2 DEF APlan
<1>8. planned = [books EXCEPT !.plan.next = next, !.plan.active = goesOn]
  <2> DEFINE p == books.plan
  <2>1. [books EXCEPT !.plan.next = next, !.plan.active = goesOn]
          = [books EXCEPT !.plan = [p EXCEPT !.next = next, !.active = goesOn]]
    OBVIOUS
  <2> QED BY <2>1
<1>4. /\ n <= today /\ Event(books, n) <= MaxDay
      /\ books' = IF books.plan.card THEN [planned EXCEPT !.dues = Append(planned.dues, due)]
                  ELSE Posted(planned, n, "expense", books.plan.amount, 0, TRUE)
  <2> HIDE DEF planned
  <2> QED BY <1>8 DEF Realize, Change
<1>5. Sound(planned, today) /\ planned.plan = plan /\ planned.dues = books.dues
      /\ planned.moves = books.moves
  <2>1. plan.next >= books.plan.next BY <1>3
  <2> HIDE DEF plan
  <2> QED BY <1>3, <2>1, PlanSound
<1> HIDE DEF planned
<1>6. CASE books.plan.card
  <2>1. Event(books, n) \in Days BY <1>2, <1>4, DaysAre DEF Event
  <2>2. due \in ADue(today) /\ due.live /\ due.paid = 0 /\ due.occurrence = n
    BY <1>2, <2>1 DEF ADue
  <2>3. due.occurrence < planned.plan.next BY <1>3, <1>5, <2>2
  <2> HIDE DEF due, plan
  <2>4. books' = [planned EXCEPT !.dues = Append(planned.dues, due)] BY <1>4, <1>6
  <2>5. Sound(books', today) /\ books'.dues = Append(planned.dues, due)
    BY <1>5, <2>2, <2>3, <2>4, DueAdded
  <2>6. Len(books'.dues) = Len(books.dues) + 1
        /\ \A k \in 1..Len(books.dues) : books'.dues[k] = books.dues[k]
    BY <1>1, <1>5, <2>5
  <2> QED BY <1>1, <2>5, <2>6 DEF Stays
<1>7. CASE ~books.plan.card
  <2> DEFINE amount == books.plan.amount
             none == 0
             yes == TRUE
             side == "expense"
  <2>1. books' = Posted(planned, n, side, amount, none, yes) BY <1>4, <1>7
  <2>2. /\ n \in Until(today) /\ side \in {"income", "expense", "transfer"} /\ amount \in Nat
        /\ none \in 0..Len(planned.moves) /\ yes \in BOOLEAN /\ none = 0
    <3>1. Len(books.moves) \in Nat BY <1>1, Lengths
    <3> QED BY <1>2, <1>4, <1>5, <3>1, DaysAre DEF Until
  <2> HIDE DEF none, yes, side, amount, n
  <2>3. Sound(Posted(planned, n, side, amount, none, yes), today)
    BY <1>5, <2>2, PostedSound
  <2>4. books'.dues = books.dues
    <3>1. planned \in BooksType(today) BY <1>5 DEF Sound
    <3>2. none \in Nat BY <2>2
    <3> QED BY <1>5, <2>1, <3>1, PostedDues
  <2> QED BY <2>1, <2>3, <2>4, SameStays
<1> QED BY <1>6, <1>7

LEMMA MovementStep ==
  ASSUME today \in Days, Sound(books, today), NEW type \in {"income", "expense", "transfer"},
         NEW day \in Until(today), CreateMovement(type, 1, day)
  PROVE  Sound(books', today) /\ books'.dues = books.dues
<1> DEFINE none == 0
           no == FALSE
           one == 1
<1>1. books \in BooksType(today) /\ Len(books.moves) \in Nat BY Lengths DEF Sound
<1>2. /\ books' = Posted(books, day, type, one, none, no)
      /\ one \in Nat /\ none \in 0..Len(books.moves) /\ none \in Nat /\ none = 0 /\ no \in BOOLEAN
  BY <1>1 DEF CreateMovement, Change
<1> HIDE DEF none, no, one
<1>3. Sound(Posted(books, day, type, one, none, no), today) BY <1>2, PostedSound
<1>4. books'.dues = books.dues BY <1>1, <1>2, PostedDues
<1> QED BY <1>2, <1>3, <1>4

LEMMA ReverseMovementStep ==
  ASSUME today \in Days, Sound(books, today), NEW i \in 1..Len(books.moves), ReverseMovement(i)
  PROVE  Sound(books', today) /\ books'.dues = books.dues
<1> DEFINE no == FALSE
           side == Opposite(books.moves[i].type)
           amount == books.moves[i].amount
<1>1. books \in BooksType(today) /\ Len(books.moves) \in Nat BY Lengths DEF Sound
<1>2. /\ books' = Posted(books, today, side, amount, i, no)
      /\ books.moves[i].back = 0 /\ ~books.moves[i].managed
  BY DEF ReverseMovement, Change, Effective
<1>3. /\ amount \in Nat /\ no \in BOOLEAN /\ side \in {"income", "expense", "transfer"}
      /\ today \in Until(today) /\ i \in 0..Len(books.moves) /\ i \in Nat
      /\ amount = books.moves[i].amount /\ side = Opposite(books.moves[i].type)
  BY <1>1, MoveParts, OppositeTypes, DaysAre DEF Until
<1> HIDE DEF no, side, amount
<1>4. Sound(Posted(books, today, side, amount, i, no), today) BY <1>2, <1>3, PostedSound
<1>5. books'.dues = books.dues BY <1>1, <1>2, PostedDues
<1> QED BY <1>2, <1>4, <1>5

LEMMA AccountStep ==
  ASSUME today \in Days, Sound(books, today), CreateAccount(1)
  PROVE  Sound(books', today) /\ books'.dues = books.dues
<1> DEFINE account == [day |-> today, amount |-> 1]
<1>1. books' = [books EXCEPT !.accounts = Append(books.accounts, account)]
  BY DEF CreateAccount, Change
<1>2. account \in AnAccount(today) BY DaysAre DEF AnAccount, Until
<1> HIDE DEF account
<1> QED BY <1>1, <1>2, AccountAdded

LEMMA ChangedSound ==
  ASSUME today \in Days, Sound(books, today), Changed
  PROVE  Sound(books', today) /\ Stays(books, books') /\ UNCHANGED <<today, r, reports>>
         /\ changes < MaxChanges /\ changes' = changes + 1
<1>1. ASSUME NEW k \in 1..Len(books.dues), NEW n \in 1..2, NEW day \in Until(today),
             CreateCollection(k, n, day) \/ PayInstallment(k, n, day)
      PROVE  Sound(books', today) /\ books'.dues = books.dues
  BY <1>1, SettleStep DEF CreateCollection, PayInstallment
<1>2. ASSUME NEW k \in 1..Len(books.dues), NEW day \in Until(today), PayTax(k, day)
      PROVE  Sound(books', today) /\ Stays(books, books')
  <2>1. /\ books.dues[k].kind = "tax" /\ books.dues[k].live
        /\ books' = WithPaid(books, k, day)
    BY <1>2 DEF PayTax, Live, Change, WithPaid
  <2> QED BY <2>1, PaidStep
<1>3. Sound(books', today) /\ Stays(books, books')
  BY <1>1, <1>2, SameStays, ReceiptStep, VoidStep, ReverseCollectionStep, ReopenStep, RealizeStep,
     MovementStep, ReverseMovementStep, AccountStep DEF Changed
<1>4. UNCHANGED <<today, r, reports>> /\ changes < MaxChanges /\ changes' = changes + 1
  BY DEF Changed, CreateCollection, PayInstallment, SettleDue, CreateReceipt, VoidReceivable, PayTax,
     ReverseCollection, ReopenInstallment, Realize, CreateMovement, ReverseMovement,
     CreateAccount, Change
<1> QED BY <1>3, <1>4

-----------------------------------------------------------------------------
(* What a report knows.                                                    *)

Fields == {"kind", "step", "from", "to", "unit", "today", "view", "balance", "openings", "actual",
           "due", "unclassified", "plans"}
IsReport(x) == x = [f \in Fields |-> x[f]]

After(x, step, view) == [x EXCEPT !.step = step, !.view = view]

LEMMA ReadsKeep ==
  ASSUME NEW x, IsReport(x), NEW step, NEW view, NEW y, y = After(x, step, view)
  PROVE  /\ IsReport(y) /\ y.step = step /\ y.view = view
         /\ y.kind = x.kind /\ y.from = x.from /\ y.to = x.to /\ y.unit = x.unit
         /\ y.today = x.today /\ y.balance = x.balance /\ y.openings = x.openings
         /\ y.actual = x.actual /\ y.due = x.due /\ y.unclassified = x.unclassified
         /\ y.plans = x.plans
  BY DEF IsReport, Fields, After

LEMMA IsNoReport == IsReport(NoReport)
  BY DEF IsReport, Fields, NoReport

-----------------------------------------------------------------------------
(* The balance of a day is that of the day before, and what the day adds.  *)

AccountAmounts(b) == [a \in 1..Len(b.accounts) |-> b.accounts[a].amount]
SignedAmounts(b) == [i \in 1..Len(b.moves) |-> Signed(b, i)]
MoveAmounts(b) == [i \in 1..Len(b.moves) |-> b.moves[i].amount]

LEMMA OpenedIs ==
  ASSUME NEW day, NEW b \in BooksType(day), NEW S
  PROVE  /\ Opened(b, S) = SumOver(AccountAmounts(b), OpenedIn(b, S))
         /\ IsFiniteSet(OpenedIn(b, S))
         /\ \A a \in OpenedIn(b, S) : AccountAmounts(b)[a] \in Int
         /\ Opened(b, S) \in Int
<1> DEFINE T == OpenedIn(b, S)
           F == [a \in T |-> b.accounts[a].amount]
<1>1. T \subseteq 1..Len(b.accounts) BY DEF OpenedIn
<1>2. IsFiniteSet(T) /\ \A a \in T : F[a] = AccountAmounts(b)[a] /\ AccountAmounts(b)[a] \in Int
  BY <1>1, Lengths, FS_Subset, AccountParts DEF AccountAmounts
<1>3. Opened(b, S) = SumFunction(F) BY DEF Opened
<1> HIDE DEF T
<1>4. SumFunction(F) = SumOver(F, T) BY SumFunctionIs
<1>5. SumOver(F, T) = SumOver(AccountAmounts(b), T) BY <1>2, SumSame
<1>6. SumOver(AccountAmounts(b), T) \in Int BY <1>2, SumType
<1> QED BY <1>2, <1>3, <1>4, <1>5, <1>6 DEF T

LEMMA SignedTyped ==
  ASSUME NEW day, NEW b \in BooksType(day), NEW i \in 1..Len(b.moves)
  PROVE  Signed(b, i) \in Int
<1>1. b.moves[i].amount \in Nat /\ -b.moves[i].amount \in Int BY MoveParts
<1> QED BY <1>1 DEF Signed

LEMMA FlowIs ==
  ASSUME NEW day, NEW b \in BooksType(day), NEW S, S \subseteq 1..Len(b.moves)
  PROVE  /\ Flow(b, S) = SumOver(SignedAmounts(b), S) /\ IsFiniteSet(S)
         /\ \A i \in S : SignedAmounts(b)[i] \in Int
         /\ Flow(b, S) \in Int
<1> DEFINE F == [i \in S |-> Signed(b, i)]
<1>1. IsFiniteSet(S) /\ \A i \in S : F[i] = SignedAmounts(b)[i] /\ SignedAmounts(b)[i] \in Int
  BY Lengths, FS_Subset, SignedTyped DEF SignedAmounts
<1>2. Flow(b, S) = SumFunction(F) BY DEF Flow
<1>3. SumFunction(F) = SumOver(F, S) BY SumFunctionIs
<1>4. SumOver(F, S) = SumOver(SignedAmounts(b), S) BY <1>1, SumSame
<1>5. SumOver(SignedAmounts(b), S) \in Int BY <1>1, SumType
<1> QED BY <1>1, <1>2, <1>3, <1>4, <1>5

OfType(b, d, type) == {j \in MovesOn(b, {d}) : b.moves[j].type = type}

LEMMA TurnoverIs ==
  ASSUME NEW day, NEW b \in BooksType(day), NEW d, NEW type, NEW S, S = OfType(b, d, type)
  PROVE  /\ Turnover(b, d, type) = SumOver(MoveAmounts(b), S)
         /\ IsFiniteSet(S) /\ S \subseteq 1..Len(b.moves)
         /\ \A i \in S : MoveAmounts(b)[i] = b.moves[i].amount /\ MoveAmounts(b)[i] \in Nat
         /\ Turnover(b, d, type) \in Nat
<1> DEFINE F == [i \in S |-> b.moves[i].amount]
<1>1. S \subseteq 1..Len(b.moves) BY DEF MovesOn, Effective, OfType
<1>2. IsFiniteSet(S) /\ \A i \in S : F[i] = MoveAmounts(b)[i] /\ MoveAmounts(b)[i] \in Nat
                                     /\ MoveAmounts(b)[i] = b.moves[i].amount
  BY <1>1, Lengths, FS_Subset, MoveParts DEF MoveAmounts
<1>3. Turnover(b, d, type) = SumFunction(F) BY DEF Turnover, OfType
<1>4. SumFunction(F) = SumOver(F, S) BY SumFunctionIs
<1>5. SumOver(F, S) = SumOver(MoveAmounts(b), S) BY <1>2, SumSame
<1>6. SumOver(MoveAmounts(b), S) \in Nat BY <1>2, SumNat
<1> QED BY <1>1, <1>2, <1>3, <1>4, <1>5, <1>6

\* What moved is what came in, without what went out.
LEMMA FlowOfDay ==
  ASSUME NEW day, NEW b \in BooksType(day), NEW d
  PROVE  Flow(b, MovesOn(b, {d})) = Turnover(b, d, "income") - Turnover(b, d, "expense")
<1> DEFINE M == MovesOn(b, {d})
           In == OfType(b, d, "income")
           Out == OfType(b, d, "expense")
           Both == In \cup Out
           f == SignedAmounts(b)
           g == MoveAmounts(b)
<1>1. M \subseteq 1..Len(b.moves) BY DEF MovesOn, Effective
<1>2. Flow(b, M) = SumOver(f, M) /\ IsFiniteSet(M) /\ \A i \in M : f[i] \in Int
  BY <1>1, FlowIs
<1>3. /\ Turnover(b, d, "income") = SumOver(g, In) /\ Turnover(b, d, "expense") = SumOver(g, Out)
      /\ Turnover(b, d, "income") \in Nat /\ Turnover(b, d, "expense") \in Nat
      /\ IsFiniteSet(In) /\ IsFiniteSet(Out)
      /\ \A i \in In \cup Out : g[i] \in Nat
  <2>1. /\ Turnover(b, d, "income") = SumOver(g, In) /\ Turnover(b, d, "income") \in Nat
        /\ IsFiniteSet(In) /\ \A i \in In : g[i] \in Nat
    BY TurnoverIs
  <2>2. /\ Turnover(b, d, "expense") = SumOver(g, Out) /\ Turnover(b, d, "expense") \in Nat
        /\ IsFiniteSet(Out) /\ \A i \in Out : g[i] \in Nat
    BY TurnoverIs
  <2> HIDE DEF In, Out, g
  <2> QED BY <2>1, <2>2
<1>4. /\ \A i \in In : f[i] = g[i]
      /\ \A i \in Out : f[i] = -g[i]
      /\ \A i \in M \ Both : f[i] = 0
  BY <1>1, MoveParts DEF SignedAmounts, MoveAmounts, Signed, OfType
<1>5. Both \subseteq M /\ In \cap Out = {} /\ \A i \in Both : f[i] \in Int BY <1>2 DEF OfType
<1> HIDE DEF In, Out, M, f, g
<1>6. IsFiniteSet(Both) BY <1>3, FS_Union
<1>7. SumOver(f, In) = SumOver(g, In) BY <1>3, <1>4, SumSame
<1>8. SumOver(f, Out) = -SumOver(g, Out)
  <2>1. \A i \in Out : g[i] \in Int /\ f[i] = -g[i] BY <1>3, <1>4
  <2> QED BY <1>3, <2>1, SumNegative
<1>9. SumOver(f, In \cup Out) = SumOver(f, In) + SumOver(f, Out) BY <1>3, <1>5, SumUnion
<1> HIDE DEF Both
<1>10. SumOver(f, M) = SumOver(f, Both) BY <1>2, <1>4, <1>5, SumNothing
<1> QED BY <1>2, <1>3, <1>7, <1>8, <1>9, <1>10 DEF Both, M

BalanceOn(b, t, n) == BalanceUpTo(b, Until(n) \cap Until(t))
DayAdds(b, d) == Opened(b, {d}) + Turnover(b, d, "income") - Turnover(b, d, "expense")

LEMMA BalanceOfDay ==
  ASSUME NEW day, NEW b \in BooksType(day), NEW t \in Days, NEW d \in Days
  PROVE  /\ BalanceOn(b, t, d) = BalanceOn(b, t, d - 1) + IF d <= t THEN DayAdds(b, d) ELSE 0
         /\ BalanceOn(b, t, d - 1) \in Int /\ BalanceOn(b, t, d) \in Int /\ DayAdds(b, d) \in Int
<1> DEFINE S == Until(d - 1) \cap Until(t)
           T == Until(d) \cap Until(t)
           M == MovesOn(b, S)
           N == MovesOn(b, {d})
           A == OpenedIn(b, S)
           B == OpenedIn(b, {d})
<1>1. d \notin S /\ T = IF d <= t THEN S \cup {d} ELSE S
  <2>1. \A n \in Days : n <= d <=> n <= d - 1 \/ n = d BY DaysAre
  <2>2. ~(d <= d - 1) BY DaysAre
  <2> QED BY <2>1, <2>2, DaysAre DEF Until
<1>2. /\ MovesOn(b, S \cup {d}) = M \cup N /\ M \cap N = {}
      /\ OpenedIn(b, S \cup {d}) = A \cup B /\ A \cap B = {}
  BY <1>1 DEF MovesOn, OpenedIn
<1>3. M \subseteq 1..Len(b.moves) /\ N \subseteq 1..Len(b.moves) /\ M \cup N \subseteq 1..Len(b.moves)
      /\ MovesOn(b, T) \subseteq 1..Len(b.moves)
  BY DEF MovesOn, Effective
<1>4. /\ Opened(b, S) \in Int /\ Opened(b, {d}) \in Int /\ Flow(b, M) \in Int /\ Flow(b, N) \in Int
      /\ Opened(b, T) \in Int /\ Flow(b, MovesOn(b, T)) \in Int
      /\ Flow(b, N) = Turnover(b, d, "income") - Turnover(b, d, "expense")
      /\ Turnover(b, d, "income") \in Int /\ Turnover(b, d, "expense") \in Int
  <2>1. Opened(b, S) \in Int /\ Opened(b, {d}) \in Int /\ Opened(b, T) \in Int BY OpenedIs
  <2>2. Flow(b, M) \in Int /\ Flow(b, N) \in Int /\ Flow(b, MovesOn(b, T)) \in Int
    BY <1>3, FlowIs
  <2>3. Turnover(b, d, "income") \in Int /\ Turnover(b, d, "expense") \in Int
    <3>1. Turnover(b, d, "income") \in Nat BY TurnoverIs
    <3>2. Turnover(b, d, "expense") \in Nat BY TurnoverIs
    <3> QED BY <3>1, <3>2
  <2>4. Flow(b, N) = Turnover(b, d, "income") - Turnover(b, d, "expense") BY FlowOfDay
  <2> HIDE DEF S, T, M, N
  <2> QED BY <2>1, <2>2, <2>3, <2>4
<1>5. Opened(b, S \cup {d}) = Opened(b, S) + Opened(b, {d})
  <2> DEFINE f == AccountAmounts(b)
  <2>1. /\ Opened(b, S) = SumOver(f, A) /\ Opened(b, {d}) = SumOver(f, B)
        /\ Opened(b, S \cup {d}) = SumOver(f, A \cup B)
        /\ IsFiniteSet(A) /\ IsFiniteSet(B) /\ \A a \in A \cup B : f[a] \in Int
    BY <1>2, OpenedIs
  <2>2. A \cap B = {} BY <1>2
  <2> HIDE DEF f, A, B, S
  <2>3. SumOver(f, A \cup B) = SumOver(f, A) + SumOver(f, B) BY <2>1, <2>2, SumUnion
  <2> QED BY <2>1, <2>3
<1>6. Flow(b, M \cup N) = Flow(b, M) + Flow(b, N)
  <2> DEFINE f == SignedAmounts(b)
  <2>1. /\ Flow(b, M) = SumOver(f, M) /\ Flow(b, N) = SumOver(f, N)
        /\ Flow(b, M \cup N) = SumOver(f, M \cup N)
        /\ IsFiniteSet(M) /\ IsFiniteSet(N) /\ \A a \in M \cup N : f[a] \in Int
    BY <1>3, FlowIs
  <2> HIDE DEF f, M, N
  <2> QED BY <1>2, <2>1, SumUnion
<1>7. /\ BalanceOn(b, t, d - 1) = Opened(b, S) + Flow(b, M)
      /\ BalanceOn(b, t, d) = Opened(b, T) + Flow(b, MovesOn(b, T))
  BY DEF BalanceOn, BalanceUpTo
<1>8. CASE d <= t
  <2>1. T = S \cup {d} BY <1>1, <1>8
  <2>2. BalanceOn(b, t, d) = Opened(b, S) + Opened(b, {d}) + (Flow(b, M) + Flow(b, N))
    BY <1>2, <1>5, <1>6, <1>7, <2>1
  <2> HIDE DEF S, T, M, N
  <2> QED BY <1>4, <1>7, <1>8, <2>2 DEF DayAdds
<1>9. CASE ~(d <= t)
  <2>1. T = S BY <1>1, <1>9
  <2>2. BalanceOn(b, t, d) = BalanceOn(b, t, d - 1) BY <2>1 DEF BalanceOn
  <2> HIDE DEF S, T, M, N
  <2> QED BY <1>4, <1>7, <1>9, <2>2 DEF DayAdds
<1> QED BY <1>8, <1>9

-----------------------------------------------------------------------------
(* The periods of a report follow one another, from its first day to its last. *)

LEMMA PeriodEnds ==
  ASSUME NEW to \in Days, NEW cursor \in Days, cursor <= to, NEW unit
  PROVE  PeriodEnd(unit, cursor, to) \in cursor..to
<1> DEFINE ends == {d \in IF unit = "weekly" THEN WeekEnds ELSE MonthEnds : d >= cursor}
<1>1. PeriodEnd(unit, cursor, to) = IF ends # {} /\ Min(ends) < to THEN Min(ends) ELSE to
  BY DEF PeriodEnd
<1>2. ends \in SUBSET Nat /\ \A d \in ends : d >= cursor
  <2>1. WeekEnds \subseteq Nat /\ MonthEnds \subseteq Nat
    <3>1. 1..MaxDay \subseteq Nat OBVIOUS
    <3> QED BY <3>1, DaysAssumption
  <2> QED BY <2>1
<1>4. cursor \in Nat /\ to \in Nat BY DaysAre
<1> HIDE DEF ends
<1>3. ends # {} => Min(ends) \in ends BY <1>2, LeastNat DEF Min
<1>5. ends # {} => Min(ends) \in Nat /\ Min(ends) >= cursor BY <1>2, <1>3
<1> QED BY <1>1, <1>4, <1>5

Bounds(g, unit, from, to) ==
  g = [cursor \in from..to |->
         LET end == PeriodEnd(unit, cursor, to)
         IN <<<<cursor, end>>>> \o IF end = to THEN <<>> ELSE g[end + 1]]

LEMMA BoundsExist ==
  ASSUME NEW to \in Days, NEW from \in Days, from <= to, NEW unit
  PROVE  \E g : Bounds(g, unit, from, to)
<1> DEFINE Bad == {n \in Nat : n <= to - from /\ ~\E g : Bounds(g, unit, to - n, to)}
<1>0. to \in Nat /\ from \in Nat /\ to - from \in Nat /\ from >= 1 BY DaysAre
<1> SUFFICES ASSUME Bad # {} PROVE FALSE
  <2>1. ASSUME Bad = {} PROVE \E g : Bounds(g, unit, from, to)
    <3>1. to - from \notin Bad BY <2>1
    <3>2. to - (to - from) = from BY <1>0
    <3> QED BY <1>0, <3>1, <3>2
  <2> QED BY <2>1
<1>1. PICK n \in Bad : \A m \in Bad : n <= m
  <2>1. \A x \in Bad : x \in Nat OBVIOUS
  <2> HIDE DEF Bad
  <2> QED BY <2>1, LeastNat
<1>2. n \in Nat /\ n <= to - from /\ ~\E g : Bounds(g, unit, to - n, to) OBVIOUS
<1> DEFINE first == to - n
<1>3. first \in Days /\ first <= to /\ first \in Nat BY <1>0, <1>2, DaysAre
<1>4. \E h : n # 0 => Bounds(h, unit, first + 1, to)
  <2>1. CASE n = 0 BY <2>1
  <2>2. CASE n # 0
    <3>1. n - 1 \in Nat /\ n - 1 <= to - from /\ ~(n <= n - 1) /\ to - (n - 1) = first + 1
      BY <1>0, <1>2, <2>2
    <3>2. n - 1 \notin Bad
      <4> HIDE DEF Bad
      <4> QED BY <1>1, <3>1
    <3> QED BY <3>1, <3>2
  <2> QED BY <2>1, <2>2
<1>5. PICK h : n # 0 => Bounds(h, unit, first + 1, to) BY <1>4
<1> DEFINE Rest(g, cursor) ==
             LET end == PeriodEnd(unit, cursor, to)
             IN <<<<cursor, end>>>> \o IF end = to THEN <<>> ELSE g[end + 1]
           g == [cursor \in first..to |-> IF cursor = first THEN Rest(h, first) ELSE h[cursor]]
<1>6. \A cursor \in first..to : g[cursor] = Rest(g, cursor)
  <2> TAKE cursor \in first..to
  <2> DEFINE end == PeriodEnd(unit, cursor, to)
  <2>1. end \in cursor..to
    <3>1. cursor \in Days /\ cursor <= to BY <1>3, DaysAre
    <3> QED BY <3>1, PeriodEnds
  <2> HIDE DEF end
  <2>2. end # to => end + 1 \in first + 1..to /\ n # 0 BY <1>0, <1>2, <1>3, <2>1
  <2>3. end # to => g[end + 1] = h[end + 1] BY <1>3, <2>2
  <2>4. Rest(g, cursor) = Rest(h, cursor) BY <2>3 DEF end
  <2>5. CASE cursor = first BY <2>4, <2>5
  <2>6. CASE cursor # first
    <3>1. cursor \in first + 1..to /\ n # 0 BY <1>0, <1>2, <1>3, <2>6
    <3>2. h[cursor] = Rest(h, cursor) BY <1>5, <3>1 DEF Bounds
    <3> HIDE DEF Rest
    <3> QED BY <2>4, <2>6, <3>2
  <2> QED BY <2>5, <2>6
<1>7. Bounds(g, unit, first, to)
  <2>1. g = [cursor \in first..to |-> g[cursor]] OBVIOUS
  <2>2. g = [cursor \in first..to |-> Rest(g, cursor)]
    <3> HIDE DEF g, Rest
    <3> QED BY <1>6, <2>1
  <2> HIDE DEF g
  <2> QED BY <2>2 DEF Bounds
<1> QED BY <1>2, <1>7

Chain(s, from, to) ==
  /\ Len(s) \in Nat /\ Len(s) >= 1 /\ s[1][1] = from /\ s[Len(s)][2] = to
  /\ \A n \in 1..Len(s) : s[n][1] \in from..to /\ s[n][2] \in s[n][1]..to
  /\ \A n \in 1..Len(s) : n + 1 <= Len(s) => s[n + 1][1] = s[n][2] + 1

LEMMA ChainOne ==
  ASSUME NEW c \in Nat, NEW e \in Nat, c <= e
  PROVE  Chain(<<<<c, e>>>>, c, e) /\ <<<<c, e>>>> \in Seq(Nat \X Nat)
  BY DEF Chain

LEMMA Prepended ==
  ASSUME NEW X, NEW x \in X, NEW t \in Seq(X), NEW s, s = <<x>> \o t
  PROVE  /\ s \in Seq(X) /\ Len(s) = Len(t) + 1 /\ s[1] = x /\ Len(t) \in Nat
         /\ \A n \in 1..Len(t) : s[n + 1] = t[n]
         /\ \A n \in 2..Len(s) : s[n] = t[n - 1]
  OBVIOUS

LEMMA ChainMore ==
  ASSUME NEW c \in Nat, NEW e \in Nat, NEW to \in Nat, c <= e, e < to,
         NEW t \in Seq(Nat \X Nat), Chain(t, e + 1, to)
  PROVE  Chain(<<<<c, e>>>> \o t, c, to) /\ <<<<c, e>>>> \o t \in Seq(Nat \X Nat)
<1> DEFINE p == <<c, e>>
           s == <<p>> \o t
<1>2. /\ s \in Seq(Nat \X Nat) /\ Len(s) = Len(t) + 1 /\ s[1] = p /\ Len(t) \in Nat
      /\ \A n \in 1..Len(t) : s[n + 1] = t[n]
      /\ \A n \in 2..Len(s) : s[n] = t[n - 1]
  <2> HIDE DEF p
  <2> DEFINE X == Nat \X Nat
  <2>1. p \in X BY DEF p
  <2>2. t \in Seq(X) /\ s = <<p>> \o t OBVIOUS
  <2> HIDE DEF X, s
  <2> QED BY <2>1, <2>2, Prepended DEF X
<1>3. p[1] = c /\ p[2] = e OBVIOUS
<1> HIDE DEF s, p
<1>4. /\ Len(t) >= 1 /\ t[1][1] = e + 1 /\ t[Len(t)][2] = to
      /\ \A n \in 1..Len(t) : t[n][1] \in e + 1..to /\ t[n][2] \in t[n][1]..to
      /\ \A n \in 1..Len(t) : n + 1 <= Len(t) => t[n + 1][1] = t[n][2] + 1
  BY DEF Chain
<1>5. \A n \in 1..Len(s) : n = 1 \/ (n - 1 \in 1..Len(t) /\ s[n] = t[n - 1])
  <2> TAKE n \in 1..Len(s)
  <2>1. CASE n = 1 BY <2>1
  <2>2. CASE n # 1
    <3>1. n - 1 \in 1..Len(t) /\ (n - 1) + 1 = n BY <1>2, <2>2
    <3>2. n \in 2..Len(s) BY <1>2, <2>2
    <3>3. s[n] = t[n - 1] BY <1>2, <3>2
    <3> QED BY <3>1, <3>3
  <2> QED BY <2>1, <2>2
<1>6. Len(s) \in Nat /\ Len(s) >= 1 /\ s[1][1] = c BY <1>2, <1>3
<1>7. s[Len(s)][2] = to
  <2>1. Len(t) \in 1..Len(t) BY <1>2, <1>4
  <2>2. s[Len(t) + 1] = t[Len(t)] BY <1>2, <2>1
  <2> QED BY <1>2, <1>4, <2>2
<1>8. \A n \in 1..Len(s) : s[n][1] \in c..to /\ s[n][2] \in s[n][1]..to
  <2> TAKE n \in 1..Len(s)
  <2>1. CASE n = 1 BY <1>2, <1>3, <2>1
  <2>2. CASE n # 1
    <3>1. n - 1 \in 1..Len(t) /\ s[n] = t[n - 1] BY <1>5, <2>2
    <3>2. t[n - 1][1] \in e + 1..to /\ t[n - 1][2] \in t[n - 1][1]..to BY <1>4, <3>1
    <3> QED BY <3>1, <3>2
  <2> QED BY <2>1, <2>2
<1>9. \A n \in 1..Len(s) : n + 1 <= Len(s) => s[n + 1][1] = s[n][2] + 1
  <2> SUFFICES ASSUME NEW n \in 1..Len(s), n + 1 <= Len(s) PROVE s[n + 1][1] = s[n][2] + 1
    OBVIOUS
  <2>1. n \in 1..Len(t) /\ s[n + 1] = t[n] BY <1>2
  <2>2. CASE n = 1 BY <1>2, <1>3, <1>4, <2>1, <2>2
  <2>3. CASE n # 1
    <3>0. n - 1 \in 1..Len(t) /\ s[n] = t[n - 1] BY <1>5, <2>3
    <3>1. n - 1 \in 1..Len(t) /\ s[n] = t[n - 1] /\ (n - 1) + 1 = n BY <1>2, <3>0
    <3>2. t[(n - 1) + 1][1] = t[n - 1][2] + 1 BY <1>2, <1>4, <2>1, <3>1
    <3> QED BY <2>1, <3>1, <3>2
  <2> QED BY <2>2, <2>3
<1> QED BY <1>2, <1>6, <1>7, <1>8, <1>9 DEF Chain, s, p

LEMMA PeriodsFollow ==
  ASSUME NEW to \in Days, NEW from \in Days, from <= to, NEW unit
  PROVE  Chain(PeriodBounds(unit, from, to), from, to)
<1> DEFINE g == CHOOSE b : Bounds(b, unit, from, to)
<1>1. Bounds(g, unit, from, to) BY BoundsExist
<1>2. PeriodBounds(unit, from, to) = g[from] BY DEF PeriodBounds, Bounds
<1> HIDE DEF g
<1>0. to \in Nat /\ from \in Nat /\ to - from \in Nat /\ from >= 1 BY DaysAre
<1> DEFINE Good(c) == Chain(g[c], c, to) /\ g[c] \in Seq(Nat \X Nat)
           Bad == {n \in Nat : n <= to - from /\ ~Good(to - n)}
<1>3. ASSUME Bad # {} PROVE FALSE
  <2>1. PICK n \in Bad : \A m \in Bad : n <= m
    <3>1. \A x \in Bad : x \in Nat OBVIOUS
    <3> HIDE DEF Bad
    <3> QED BY <1>3, <3>1, LeastNat
  <2>2. n \in Nat /\ n <= to - from /\ ~Good(to - n) OBVIOUS
  <2> DEFINE c == to - n
             end == PeriodEnd(unit, c, to)
  <2>3. c \in from..to /\ c \in Days /\ c <= to /\ c \in Nat BY <1>0, <2>2, DaysAre
  <2>4. end \in c..to /\ end \in Nat BY <2>3, PeriodEnds
  <2>5. g[c] = <<<<c, end>>>> \o IF end = to THEN <<>> ELSE g[end + 1]
    BY <1>1, <2>3 DEF Bounds
  <2> HIDE DEF end
  <2>6. CASE end = to
    <3>1. <<<<c, end>>>> \in Seq(Nat \X Nat) BY <2>3, <2>4
    <3>2. <<<<c, end>>>> \o <<>> = <<<<c, end>>>> BY <3>1
    <3>3. g[c] = <<<<c, end>>>> BY <2>5, <2>6, <3>2
    <3>4. Chain(<<<<c, end>>>>, c, end) /\ <<<<c, end>>>> \in Seq(Nat \X Nat)
      <4> HIDE DEF c
      <4> QED BY <2>3, <2>4, ChainOne
    <3> HIDE DEF c
    <3>5. Good(c) BY <2>6, <3>3, <3>4
    <3> QED BY <2>2, <3>5 DEF c
  <2>7. CASE end # to
    <3> DEFINE m == to - (end + 1)
    <3>1. m \in Nat /\ m <= to - from /\ ~(n <= m) /\ to - m = end + 1 /\ end < to
      BY <1>0, <2>2, <2>3, <2>4, <2>7
    <3>2. Good(end + 1)
      <4>1. m \notin Bad
        <5> HIDE DEF Bad, m
        <5> QED BY <2>1, <3>1
      <4> QED BY <3>1, <4>1
    <3>3. g[c] = <<<<c, end>>>> \o g[end + 1] BY <2>5, <2>7
    <3> HIDE DEF c
    <3>4. Good(c) BY <1>0, <2>3, <2>4, <3>1, <3>2, <3>3, ChainMore
    <3> QED BY <2>2, <3>4 DEF c
  <2> QED BY <2>6, <2>7
<1>4. Good(from)
  <2>1. to - from \notin Bad BY <1>3
  <2>2. to - (to - from) = from BY <1>0
  <2> QED BY <1>0, <2>1, <2>2
<1> QED BY <1>2, <1>4

-----------------------------------------------------------------------------
(* What the periods add is what the balance grows by.                      *)

ShownDays(x) == {d \in x.from..x.to : d <= x.today}
AddsOf(x, period) ==
  SumFunction([d \in {n \in DOMAIN x.actual : n >= period[1] /\ n <= period[2]} |->
                 x.openings[d] + x.actual[d].inflow - x.actual[d].outflow])

\* A report that has read what was opened and what moved.
HasRead(x, b) ==
  /\ x.today \in Days /\ x.from \in Days /\ x.to \in Days /\ x.from <= x.to
  /\ x.balance = [opening |-> BalanceUpTo(b, Until(x.from - 1) \cap Until(x.today)),
                  closing |-> BalanceUpTo(b, Until(x.to) \cap Until(x.today))]
  /\ x.openings = [d \in ShownDays(x) |-> Opened(b, {d})]
  /\ x.actual = [d \in ShownDays(x) |-> [inflow |-> Turnover(b, d, "income"),
                                         outflow |-> Turnover(b, d, "expense")]]

DayFlows(b, t) == [d \in Days |-> IF d <= t THEN DayAdds(b, d) ELSE 0]

\* The days of a span add the difference of the balances around it.
LEMMA SpanAdds ==
  ASSUME NEW day, NEW b \in BooksType(day), NEW t \in Days, NEW first \in Days, NEW last \in Days,
         first <= last
  PROVE  /\ SumOver(DayFlows(b, t), first..last) = BalanceOn(b, t, last) - BalanceOn(b, t, first - 1)
         /\ \A d \in first..last : DayFlows(b, t)[d] \in Int
<1> DEFINE f == DayFlows(b, t)
           B(n) == BalanceOn(b, t, n)
           Good(n) == SumOver(f, first..first + n) = B(first + n) - B(first - 1)
           Bad == {n \in Nat : n <= last - first /\ ~Good(n)}
<1>0. first \in Nat /\ last \in Nat /\ first >= 1 /\ last <= MaxDay /\ MaxDay \in Nat
      /\ \A n \in first..last : n \in Days
  BY DaysAre
<1>1. \A d \in Days : /\ f[d] \in Int /\ B(d) \in Int /\ B(d - 1) \in Int
                      /\ B(d) = B(d - 1) + f[d]
  <2> TAKE d \in Days
  <2>1. /\ BalanceOn(b, t, d) = BalanceOn(b, t, d - 1) + IF d <= t THEN DayAdds(b, d) ELSE 0
        /\ BalanceOn(b, t, d - 1) \in Int /\ BalanceOn(b, t, d) \in Int /\ DayAdds(b, d) \in Int
    BY BalanceOfDay
  <2>2. f[d] = IF d <= t THEN DayAdds(b, d) ELSE 0 BY DEF DayFlows
  <2> HIDE DEF f
  <2> QED BY <2>1, <2>2
<1> HIDE DEF f, B
<1>2. ASSUME Bad # {} PROVE FALSE
  <2>1. PICK n \in Bad : \A m \in Bad : n <= m
    <3>1. \A x \in Bad : x \in Nat OBVIOUS
    <3> HIDE DEF Bad
    <3> QED BY <1>2, <3>1, LeastNat
  <2>2. n \in Nat /\ n <= last - first /\ ~Good(n) OBVIOUS
  <2>3. first + n \in Days /\ first + n \in Nat BY <1>0, <2>2, DaysAre
  <2>4. CASE n = 0
    <3>1. first..first + n = {} \cup {first} BY <1>0, <2>4
    <3>2. SumOver(f, {} \cup {first}) = f[first] + SumOver(f, {})
      <4>1. IsFiniteSet({}) /\ first \notin {} BY FS_EmptySet
      <4>2. \A x \in {} \cup {first} : f[x] \in Int BY <1>1
      <4> QED BY <4>1, <4>2, SumAdd
    <3>3. SumOver(f, {}) = 0 BY SumEmpty
    <3>4. B(first) = B(first - 1) + f[first] /\ f[first] \in Int /\ B(first - 1) \in Int BY <1>1
    <3>5. SumOver(f, first..first + n) = f[first]
      <4>1. SumOver(f, first..first + n) = SumOver(f, {} \cup {first}) BY <3>1
      <4> QED BY <4>1, <3>2, <3>3, <3>4
    <3>6. first + n = first BY <1>0, <2>4
    <3>7. SumOver(f, first..first + n) = B(first + n) - B(first - 1) BY <3>4, <3>5, <3>6
    <3> QED BY <2>2, <3>7
  <2>5. CASE n # 0
    <3> DEFINE S == first..first + (n - 1)
               d == first + n
    <3>1. n - 1 \in Nat /\ n - 1 <= last - first /\ ~(n <= n - 1) BY <1>0, <2>2, <2>5
    <3>2. Good(n - 1)
      <4>1. n - 1 \notin Bad
        <5> HIDE DEF Bad
        <5> QED BY <2>1, <3>1
      <4> QED BY <3>1, <4>1
    <3>3. first..d = S \cup {d} /\ d \notin S /\ first + (n - 1) = d - 1 BY <1>0, <2>2, <2>5
    <3>4. IsFiniteSet(S) /\ \A x \in S \cup {d} : f[x] \in Int
      <4>1. IsFiniteSet(S)
        <5>1. first + (n - 1) \in Int /\ first \in Int BY <1>0, <2>2
        <5> QED BY <5>1, FS_Interval
      <4>2. S \cup {d} \subseteq first..last BY <1>0, <2>2, <2>5
      <4> QED BY <1>0, <1>1, <4>1, <4>2
    <3>5. SumOver(f, S) = B(d - 1) - B(first - 1) BY <3>2, <3>3
    <3> HIDE DEF S, d
    <3>6. SumOver(f, S \cup {d}) = f[d] + SumOver(f, S) BY <3>3, <3>4, SumAdd
    <3>7. d \in Days BY <2>3 DEF d
    <3>8. B(d) = B(d - 1) + f[d] /\ f[d] \in Int /\ B(d - 1) \in Int /\ B(first - 1) \in Int
      BY <1>1, <3>7
    <3>9. SumOver(f, first..d) = B(d) - B(first - 1)
      <4>1. SumOver(f, first..d) = SumOver(f, S \cup {d}) BY <3>3
      <4>2. SumOver(f, first..d) = f[d] + (B(d - 1) - B(first - 1)) BY <4>1, <3>5, <3>6
      <4> QED BY <3>8, <4>2
    <3> QED BY <2>2, <3>9 DEF d
  <2> QED BY <2>4, <2>5
<1>3. Good(last - first)
  <2>1. last - first \notin Bad BY <1>2
  <2>2. last - first \in Nat BY <1>0
  <2> QED BY <2>1, <2>2
<1>4. first + (last - first) = last BY <1>0
<1> QED BY <1>0, <1>1, <1>3, <1>4 DEF f, B

LEMMA PeriodAdds ==
  ASSUME NEW day, NEW b \in BooksType(day), NEW x, HasRead(x, b), NEW period,
         period[1] \in x.from..x.to, period[2] \in period[1]..x.to
  PROVE  /\ AddsOf(x, period)
              = BalanceOn(b, x.today, period[2]) - BalanceOn(b, x.today, period[1] - 1)
         /\ BalanceOn(b, x.today, period[2]) \in Int
         /\ BalanceOn(b, x.today, period[1] - 1) \in Int
<1> DEFINE p == period[1]
           q == period[2]
           t == x.today
           S == {n \in DOMAIN x.actual : n >= p /\ n <= q}
           F == [d \in S |-> x.openings[d] + x.actual[d].inflow - x.actual[d].outflow]
           f == DayFlows(b, t)
<1>1. p \in Days /\ q \in Days /\ p <= q /\ t \in Days /\ p \in Nat /\ q \in Nat
  BY DaysAre DEF HasRead
<1>2. S = {d \in p..q : d <= t}
  <2>1. DOMAIN x.actual = {d \in x.from..x.to : d <= x.today} BY DEF HasRead, ShownDays
  <2>2. x.from \in Nat /\ x.to \in Nat BY DaysAre DEF HasRead
  <2> QED BY <1>1, <2>1, <2>2
<1>3. S \subseteq p..q /\ IsFiniteSet(p..q) /\ IsFiniteSet(S)
  <2>1. p \in Int /\ q \in Int BY <1>1
  <2>2. IsFiniteSet(p..q) BY <2>1, FS_Interval
  <2>3. S \subseteq p..q BY <1>2
  <2> HIDE DEF S, p, q
  <2> QED BY <2>2, <2>3, FS_Subset
<1>4. \A d \in S : F[d] = f[d]
  <2> SUFFICES ASSUME NEW d \in S PROVE F[d] = f[d] OBVIOUS
  <2>1. d \in ShownDays(x) BY DEF HasRead
  <2>2. /\ x.openings[d] = Opened(b, {d}) /\ x.actual[d].inflow = Turnover(b, d, "income")
        /\ x.actual[d].outflow = Turnover(b, d, "expense")
    BY <2>1 DEF HasRead
  <2>3. d \in Days /\ d <= t BY <1>1, <1>2, DaysAre
  <2>4. f[d] = DayAdds(b, d) BY <2>3 DEF DayFlows
  <2> QED BY <2>2, <2>4 DEF DayAdds
<1>5. \A d \in p..q \ S : f[d] = 0
  <2>1. \A d \in p..q \ S : d \in Days /\ ~(d <= t) BY <1>1, <1>2, DaysAre
  <2> QED BY <2>1 DEF DayFlows
<1>6. /\ SumOver(f, p..q) = BalanceOn(b, t, q) - BalanceOn(b, t, p - 1)
      /\ \A d \in p..q : f[d] \in Int
  BY <1>1, SpanAdds
<1>7. BalanceOn(b, t, q) \in Int /\ BalanceOn(b, t, p - 1) \in Int BY <1>1, BalanceOfDay
<1>8. AddsOf(x, period) = SumFunction(F) BY DEF AddsOf
<1> HIDE DEF S, f, p, q, t
<1>9. SumFunction(F) = SumOver(F, S) BY SumFunctionIs
<1>10. SumOver(F, S) = SumOver(f, S)
  <2> HIDE DEF F
  <2> QED BY <1>3, <1>4, SumSame
<1>11. SumOver(f, p..q) = SumOver(f, S) BY <1>3, <1>5, <1>6, SumNothing
<1> QED BY <1>6, <1>7, <1>8, <1>9, <1>10, <1>11 DEF p, q, t

\* The balance after each period, as a function; Adds of the report that is at hand is AddsOf.
Runs(g, x, periods) ==
  g = [n \in 0..Len(periods) |->
         IF n = 0 THEN x.balance.opening ELSE g[n - 1] + AddsOf(x, periods[n])]

LEMMA RunsExist ==
  ASSUME NEW x, NEW periods, Len(periods) \in Nat
  PROVE  \E g : Runs(g, x, periods)
<1> DEFINE Upto(g, N) == g = [n \in 0..N |-> IF n = 0 THEN x.balance.opening
                                            ELSE g[n - 1] + AddsOf(x, periods[n])]
           Bad == {n \in Nat : ~\E g : Upto(g, n)}
<1> SUFFICES ASSUME Bad # {} PROVE FALSE
  <2>1. ASSUME Bad = {} PROVE \E g : Runs(g, x, periods)
    <3>1. Len(periods) \notin Bad BY <2>1
    <3> QED BY <3>1 DEF Runs
  <2> QED BY <2>1
<1>1. PICK n \in Bad : \A m \in Bad : n <= m
  <2>1. \A y \in Bad : y \in Nat OBVIOUS
  <2> HIDE DEF Bad
  <2> QED BY <2>1, LeastNat
<1>2. n \in Nat /\ ~\E g : Upto(g, n) OBVIOUS
<1>3. CASE n = 0
  <2>1. Upto([m \in 0..0 |-> x.balance.opening], 0) OBVIOUS
  <2> QED BY <1>2, <1>3, <2>1
<1>4. CASE n # 0
  <2>1. n - 1 \in Nat /\ n - 1 \notin Bad
    <3>1. n - 1 \in Nat /\ ~(n <= n - 1) BY <1>2, <1>4
    <3> HIDE DEF Bad
    <3> QED BY <1>1, <3>1
  <2>2. PICK h : Upto(h, n - 1) BY <2>1
  <2> DEFINE Step(m, last) == last + AddsOf(x, periods[m])
             g == [m \in 0..n |-> IF m = n THEN Step(n, h[n - 1]) ELSE h[m]]
  <2>3. g = [m \in 0..n |-> IF m = 0 THEN x.balance.opening ELSE Step(m, g[m - 1])]
    <3>1. \A m \in 0..n - 1 : g[m] = h[m] BY <1>2, <1>4
    <3>2. g[n] = Step(n, h[n - 1]) BY <1>2
    <3>3. \A m \in 0..n - 1 : h[m] = IF m = 0 THEN x.balance.opening ELSE Step(m, h[m - 1])
      BY <2>2
    <3>5. g = [m \in 0..n |-> g[m]] OBVIOUS
    <3> HIDE DEF g, Step
    <3>4. \A m \in 0..n : g[m] = IF m = 0 THEN x.balance.opening ELSE Step(m, g[m - 1])
      BY <1>2, <1>4, <3>1, <3>2, <3>3
    <3> QED BY <3>4, <3>5
  <2> HIDE DEF g
  <2>4. Upto(g, n) BY <2>3
  <2> QED BY <1>2, <2>4
<1> QED BY <1>3, <1>4

LEMMA RunningReconciles ==
  ASSUME NEW day, NEW b \in BooksType(day), HasRead(r, b)
  PROVE  RunningBalance = r.balance.closing
<1> DEFINE periods == PeriodBounds(r.unit, r.from, r.to)
           g == CHOOSE h : Runs(h, r, periods)
           N == Len(periods)
           t == r.today
           End(n) == IF n = 0 THEN r.from - 1 ELSE periods[n][2]
<1>1. Chain(periods, r.from, r.to) BY PeriodsFollow DEF HasRead
<1>2. N \in Nat /\ N >= 1 BY <1>1 DEF Chain
<1>3. Runs(g, r, periods) BY <1>2, RunsExist
<1>4. RunningBalance = g[N] BY DEF RunningBalance, Runs, Adds, AddsOf
<1> HIDE DEF g, periods
<1>5. \A n \in 0..N : g[n] = IF n = 0 THEN r.balance.opening ELSE g[n - 1] + AddsOf(r, periods[n])
  BY <1>3 DEF Runs
<1>6. /\ r.balance.opening = BalanceOn(b, t, r.from - 1)
      /\ r.balance.closing = BalanceOn(b, t, r.to)
  BY DEF HasRead, BalanceOn
<1>7. \A n \in 1..N : /\ periods[n][1] \in r.from..r.to /\ periods[n][2] \in periods[n][1]..r.to
                      /\ periods[n][1] - 1 = End(n - 1)
  <2> TAKE n \in 1..N
  <2>1. periods[n][1] \in r.from..r.to /\ periods[n][2] \in periods[n][1]..r.to
    BY <1>1 DEF Chain
  <2>2. CASE n = 1 BY <1>1, <2>1, <2>2 DEF Chain
  <2>3. CASE n # 1
    <3>1. n - 1 \in 1..N /\ (n - 1) + 1 = n /\ (n - 1) + 1 <= N /\ n - 1 # 0 BY <1>2, <2>3
    <3>2. periods[(n - 1) + 1][1] = periods[n - 1][2] + 1 BY <1>1, <3>1 DEF Chain
    <3>3. periods[n - 1][2] \in Int /\ periods[n - 1][1] \in Int
      <4>1. r.from \in Int /\ r.to \in Int BY DaysAre DEF HasRead
      <4>2. periods[n - 1][1] \in r.from..r.to /\ periods[n - 1][2] \in periods[n - 1][1]..r.to
        BY <1>1, <3>1 DEF Chain
      <4> QED BY <4>1, <4>2
    <3> QED BY <2>1, <3>1, <3>2, <3>3
  <2> QED BY <2>2, <2>3
<1> DEFINE Bad == {n \in Nat : n <= N /\ g[n] # BalanceOn(b, t, End(n))}
<1>8. ASSUME Bad # {} PROVE FALSE
  <2>1. PICK n \in Bad : \A m \in Bad : n <= m
    <3>1. \A x \in Bad : x \in Nat OBVIOUS
    <3> HIDE DEF Bad
    <3> QED BY <1>8, <3>1, LeastNat
  <2>2. n \in Nat /\ n <= N /\ g[n] # BalanceOn(b, t, End(n)) OBVIOUS
  <2>3. CASE n = 0
    <3>1. 0 \in 0..N BY <1>2
    <3>2. g[0] = r.balance.opening BY <1>5, <3>1
    <3> QED BY <1>6, <2>2, <2>3, <3>2
  <2>4. CASE n # 0
    <3>1. n - 1 \in Nat /\ n - 1 <= N /\ ~(n <= n - 1) /\ n \in 1..N /\ n \in 0..N
      BY <1>2, <2>2, <2>4
    <3>2. g[n - 1] = BalanceOn(b, t, End(n - 1))
      <4>1. n - 1 \notin Bad
        <5> HIDE DEF Bad
        <5> QED BY <2>1, <3>1
      <4> QED BY <3>1, <4>1
    <3>3. g[n] = g[n - 1] + AddsOf(r, periods[n]) BY <1>5, <2>4, <3>1
    <3>4. /\ periods[n][1] \in r.from..r.to /\ periods[n][2] \in periods[n][1]..r.to
          /\ periods[n][1] - 1 = End(n - 1)
      BY <1>7, <3>1
    <3> DEFINE p == periods[n]
    <3>5. End(n) = p[2] BY <2>4
    <3> HIDE DEF End, p
    <3>6. /\ AddsOf(r, p) = BalanceOn(b, t, p[2]) - BalanceOn(b, t, p[1] - 1)
          /\ BalanceOn(b, t, p[2]) \in Int
          /\ BalanceOn(b, t, p[1] - 1) \in Int
      <4>1. p[1] \in r.from..r.to /\ p[2] \in p[1]..r.to BY <3>4 DEF p
      <4> QED BY <4>1, PeriodAdds
    <3>7. p[1] - 1 = End(n - 1) /\ g[n] = g[n - 1] + AddsOf(r, p) BY <3>3, <3>4 DEF p
    <3> QED BY <2>2, <3>2, <3>5, <3>6, <3>7
  <2> QED BY <2>3, <2>4
<1>9. g[N] = BalanceOn(b, t, End(N))
  <2>1. N \notin Bad BY <1>8
  <2> QED BY <1>2, <2>1
<1>10. End(N) = r.to BY <1>1, <1>2 DEF Chain
<1> QED BY <1>4, <1>6, <1>9, <1>10

-----------------------------------------------------------------------------
(* What a report has read is what its books say.                           *)

BalanceIn(x, b) ==
  x.balance = [opening |-> BalanceUpTo(b, Until(x.from - 1) \cap Until(x.today)),
               closing |-> BalanceUpTo(b, Until(x.to) \cap Until(x.today))]
OpeningsIn(x, b) == x.openings = [d \in ShownDays(x) |-> Opened(b, {d})]
ActualIn(x, b) ==
  x.actual = [d \in ShownDays(x) |-> [inflow |-> Turnover(b, d, "income"),
                                      outflow |-> Turnover(b, d, "expense")]]
DueIn(x, b) == x.due = DueItems(b, x.from, x.to, x.today)
UnclassifiedIn(x, b) == x.unclassified = Unclassified(b, x.from, x.to, x.today)
PlansIn(x, b) == x.plans = PlanItems(b, x.from, x.to, x.today)

CashSteps == {"ledger", "balance", "openings", "actual", "due", "unclassified", "plans", "compose",
              "done"}
CashSound(x) ==
  LET b == x.view[1] IN
  /\ x.step \in CashSteps
  /\ x.from \in Days /\ x.to \in Days /\ x.from <= x.to
  /\ IF x.step = "ledger" THEN x.view = <<>> ELSE x.view # <<>> /\ Sound(b, MaxDay)
  /\ x.step \notin {"ledger", "balance"} => BalanceIn(x, b)
  /\ x.step \notin {"ledger", "balance", "openings"} => OpeningsIn(x, b)
  /\ x.step \notin {"ledger", "balance", "openings", "actual"} => ActualIn(x, b)
  /\ x.step \notin {"ledger", "balance", "openings", "actual", "due"} => DueIn(x, b)
  /\ x.step \in {"plans", "compose", "done"} => UnclassifiedIn(x, b)
  /\ x.step \in {"compose", "done"} => PlansIn(x, b)

ReportSound(x, day) ==
  /\ IsReport(x) /\ x.today \in Until(day)
  /\ x.kind # "none" => x.today >= FirstDay
  /\ x.kind \in {"none", "cash", "digest"}
  /\ x.kind = "none" => x.step = "done"
  /\ x.kind = "cash" => CashSound(x)
  /\ x.kind = "digest" => x.step \in {"dues", "plans", "done"}

\* What every statement of the report has in common.
LEMMA ReadParts ==
  ASSUME today \in Days, Sound(books, today), ReportSound(r, today), NEW step, NEW next, NEW answer,
         Read(step, next, answer), IsReport(answer)
  PROVE  /\ r.kind = "cash" /\ r.step = step /\ CashSound(r) /\ r.today \in Until(today)
         /\ r.today >= FirstDay
         /\ IsReport(r') /\ r'.step = next /\ r'.view = <<View>> /\ r'.view # <<>>
         /\ r'.view[1] = View /\ Sound(View, MaxDay)
         /\ (r.step # "ledger" => View = r.view[1])
         /\ r'.kind = answer.kind /\ r'.from = answer.from /\ r'.to = answer.to
         /\ r'.today = answer.today /\ r'.balance = answer.balance
         /\ r'.openings = answer.openings /\ r'.actual = answer.actual /\ r'.due = answer.due
         /\ r'.unclassified = answer.unclassified /\ r'.plans = answer.plans
<1>1. /\ r.kind = "cash" /\ r.step = step /\ CashSound(r) /\ r.today \in Until(today)
      /\ r.today >= FirstDay
      /\ r' = [answer EXCEPT !.step = next, !.view = <<View>>]
  BY DEF Read, ReportSound
<1>2. r.step # "ledger" => View = r.view[1] /\ Sound(r.view[1], MaxDay)
  BY <1>1 DEF View, CashSound
<1>3. r.step = "ledger" => View = books BY <1>1 DEF View, CashSound
<1>4. Sound(books, MaxDay) BY DaysAre, SoundLater
<1>5. Sound(View, MaxDay) BY <1>2, <1>3, <1>4
<1> DEFINE view == <<View>>
           y == r'
<1>6. view # <<>> /\ view[1] = View OBVIOUS
<1>7. y = After(answer, next, view) BY <1>1 DEF After
<1> HIDE DEF view, y
<1>8. /\ IsReport(y) /\ y.step = next /\ y.view = view
      /\ y.kind = answer.kind /\ y.from = answer.from /\ y.to = answer.to
      /\ y.today = answer.today /\ y.balance = answer.balance /\ y.openings = answer.openings
      /\ y.actual = answer.actual /\ y.due = answer.due /\ y.unclassified = answer.unclassified
      /\ y.plans = answer.plans
  BY <1>7, ReadsKeep
<1> QED BY <1>1, <1>2, <1>5, <1>6, <1>8 DEF view, y

LEMMA LedgerRead ==
  ASSUME today \in Days, Sound(books, today), ReportSound(r, today), ReadLedger
  PROVE  ReportSound(r', today)
<1>1. IsReport(r) BY DEF ReportSound
<1> DEFINE next == IF LedgerSound(View) THEN "balance" ELSE "failed"
<1>2. Read("ledger", next, r) BY DEF ReadLedger
<1> HIDE DEF next
<1>3. /\ r.kind = "cash" /\ r.step = "ledger" /\ CashSound(r) /\ r.today \in Until(today)
      /\ r.today >= FirstDay
      /\ IsReport(r') /\ r'.step = next /\ r'.view # <<>> /\ r'.view[1] = View /\ Sound(View, MaxDay)
      /\ r'.kind = r.kind /\ r'.from = r.from /\ r'.to = r.to /\ r'.today = r.today
  BY <1>1, <1>2, ReadParts
<1>4. LedgerSound(View) BY <1>3 DEF Sound, MovesSound
<1>5. r'.step = "balance" BY <1>3, <1>4 DEF next
<1>6. CashSound(r') BY <1>3, <1>5 DEF CashSound, CashSteps
<1> QED BY <1>3, <1>6 DEF ReportSound

LEMMA BalanceRead ==
  ASSUME today \in Days, Sound(books, today), ReportSound(r, today), ReadBalance
  PROVE  ReportSound(r', today)
<1> DEFINE found == [opening |-> BalanceUpTo(View, Until(r.from - 1) \cap Until(r.today)),
                     closing |-> BalanceUpTo(View, Until(r.to) \cap Until(r.today))]
           a == [r EXCEPT !.balance = found]
<1>1. Read("balance", "openings", a) BY DEF ReadBalance
<1>2. /\ IsReport(a) /\ a.kind = r.kind /\ a.from = r.from /\ a.to = r.to /\ a.today = r.today
      /\ a.balance = found
  <2> HIDE DEF found
  <2> QED BY DEF ReportSound, IsReport, Fields
<1> HIDE DEF a
<1>3. /\ r.kind = "cash" /\ r.step = "balance" /\ CashSound(r) /\ r.today \in Until(today)
      /\ r.today >= FirstDay
      /\ IsReport(r') /\ r'.step = "openings" /\ r'.view # <<>> /\ r'.view[1] = View
      /\ Sound(View, MaxDay)
      /\ r'.kind = a.kind /\ r'.from = a.from /\ r'.to = a.to /\ r'.today = a.today
      /\ r'.balance = a.balance
  BY <1>1, <1>2, ReadParts
<1>4. BalanceIn(r', View)
  <2>1. r'.balance = found /\ r'.from = r.from /\ r'.to = r.to /\ r'.today = r.today
    BY <1>2, <1>3
  <2> QED BY <2>1 DEF BalanceIn
<1>5. CashSound(r') BY <1>2, <1>3, <1>4 DEF CashSound, CashSteps
<1> QED BY <1>2, <1>3, <1>5 DEF ReportSound

LEMMA OpeningsRead ==
  ASSUME today \in Days, Sound(books, today), ReportSound(r, today), ReadOpenings
  PROVE  ReportSound(r', today)
<1> DEFINE found == [d \in Shown |-> Opened(View, {d})]
           a == [r EXCEPT !.openings = found]
<1>1. Read("openings", "actual", a) BY DEF ReadOpenings
<1>2. /\ IsReport(a) /\ a.kind = r.kind /\ a.from = r.from /\ a.to = r.to /\ a.today = r.today
      /\ a.balance = r.balance /\ a.openings = found
  <2> HIDE DEF found
  <2> QED BY DEF ReportSound, IsReport, Fields
<1> HIDE DEF a
<1>3. /\ r.kind = "cash" /\ r.step = "openings" /\ CashSound(r) /\ r.today \in Until(today)
      /\ r.today >= FirstDay
      /\ IsReport(r') /\ r'.step = "actual" /\ r'.view # <<>> /\ r'.view[1] = View
      /\ Sound(View, MaxDay) /\ View = r.view[1]
      /\ r'.kind = a.kind /\ r'.from = a.from /\ r'.to = a.to /\ r'.today = a.today
      /\ r'.balance = a.balance /\ r'.openings = a.openings
  BY <1>1, <1>2, ReadParts
<1>4. BalanceIn(r', View) /\ OpeningsIn(r', View)
  <2>1. r'.balance = r.balance /\ r'.from = r.from /\ r'.to = r.to /\ r'.today = r.today
        /\ r'.openings = found
    BY <1>2, <1>3
  <2>2. BalanceIn(r, View) BY <1>3 DEF CashSound
  <2>3. ShownDays(r') = Shown BY <2>1 DEF ShownDays, Shown
  <2> QED BY <2>1, <2>2, <2>3 DEF BalanceIn, OpeningsIn
<1>5. CashSound(r') BY <1>2, <1>3, <1>4 DEF CashSound, CashSteps
<1> QED BY <1>2, <1>3, <1>5 DEF ReportSound

LEMMA ActualRead ==
  ASSUME today \in Days, Sound(books, today), ReportSound(r, today), ReadActual
  PROVE  ReportSound(r', today)
<1> DEFINE found == [d \in Shown |-> [inflow |-> Turnover(View, d, "income"),
                                      outflow |-> Turnover(View, d, "expense")]]
           a == [r EXCEPT !.actual = found]
<1>1. Read("actual", "due", a) BY DEF ReadActual
<1>2. /\ IsReport(a) /\ a.kind = r.kind /\ a.from = r.from /\ a.to = r.to /\ a.today = r.today
      /\ a.balance = r.balance /\ a.openings = r.openings /\ a.actual = found
  <2> HIDE DEF found
  <2> QED BY DEF ReportSound, IsReport, Fields
<1> HIDE DEF a
<1>3. /\ r.kind = "cash" /\ r.step = "actual" /\ CashSound(r) /\ r.today \in Until(today)
      /\ r.today >= FirstDay
      /\ IsReport(r') /\ r'.step = "due" /\ r'.view # <<>> /\ r'.view[1] = View
      /\ Sound(View, MaxDay) /\ View = r.view[1]
      /\ r'.kind = a.kind /\ r'.from = a.from /\ r'.to = a.to /\ r'.today = a.today
      /\ r'.balance = a.balance /\ r'.openings = a.openings /\ r'.actual = a.actual
  BY <1>1, <1>2, ReadParts
<1>4. BalanceIn(r', View) /\ OpeningsIn(r', View) /\ ActualIn(r', View)
  <2>1. r'.balance = r.balance /\ r'.from = r.from /\ r'.to = r.to /\ r'.today = r.today
        /\ r'.openings = r.openings /\ r'.actual = found
    BY <1>2, <1>3
  <2>2. BalanceIn(r, View) /\ OpeningsIn(r, View) BY <1>3 DEF CashSound
  <2>3. ShownDays(r') = Shown /\ ShownDays(r') = ShownDays(r) BY <2>1 DEF ShownDays, Shown
  <2> QED BY <2>1, <2>2, <2>3 DEF BalanceIn, OpeningsIn, ActualIn
<1>5. CashSound(r') BY <1>2, <1>3, <1>4 DEF CashSound, CashSteps
<1> QED BY <1>2, <1>3, <1>5 DEF ReportSound

\* What was read before stays read.
SameUntil(x, y) ==
  /\ y.kind = x.kind /\ y.from = x.from /\ y.to = x.to /\ y.today = x.today
  /\ y.balance = x.balance /\ y.openings = x.openings /\ y.actual = x.actual

LEMMA KeepsRead ==
  ASSUME NEW x, NEW y, SameUntil(x, y), NEW b, BalanceIn(x, b), OpeningsIn(x, b), ActualIn(x, b)
  PROVE  BalanceIn(y, b) /\ OpeningsIn(y, b) /\ ActualIn(y, b)
  BY DEF SameUntil, BalanceIn, OpeningsIn, ActualIn, ShownDays

LEMMA DueRead ==
  ASSUME today \in Days, Sound(books, today), ReportSound(r, today), ReadDueItems
  PROVE  ReportSound(r', today)
<1> DEFINE found == DueItems(View, r.from, r.to, r.today)
           a == [r EXCEPT !.due = found]
<1>1. Read("due", "unclassified", a) BY DEF ReadDueItems
<1>2. IsReport(a) /\ SameUntil(r, a) /\ a.due = found
  <2> HIDE DEF found
  <2> QED BY DEF ReportSound, IsReport, Fields, SameUntil
<1> HIDE DEF a
<1>3. /\ r.kind = "cash" /\ r.step = "due" /\ CashSound(r) /\ r.today \in Until(today)
      /\ r.today >= FirstDay
      /\ IsReport(r') /\ r'.step = "unclassified" /\ r'.view # <<>> /\ r'.view[1] = View
      /\ Sound(View, MaxDay) /\ View = r.view[1]
      /\ SameUntil(r, r') /\ r'.due = a.due
  BY <1>1, <1>2, ReadParts DEF SameUntil
<1>4. BalanceIn(r', View) /\ OpeningsIn(r', View) /\ ActualIn(r', View)
  <2>1. BalanceIn(r, View) /\ OpeningsIn(r, View) /\ ActualIn(r, View) BY <1>3 DEF CashSound
  <2> QED BY <1>3, <2>1, KeepsRead
<1>5. DueIn(r', View) BY <1>2, <1>3 DEF DueIn, SameUntil
<1>6. CashSound(r') BY <1>3, <1>4, <1>5 DEF CashSound, CashSteps, SameUntil
<1> QED BY <1>3, <1>6 DEF ReportSound, SameUntil

LEMMA UnclassifiedRead ==
  ASSUME today \in Days, Sound(books, today), ReportSound(r, today), ReadUnclassified
  PROVE  ReportSound(r', today)
<1> DEFINE found == Unclassified(View, r.from, r.to, r.today)
           a == [r EXCEPT !.unclassified = found]
<1>1. Read("unclassified", "plans", a) BY DEF ReadUnclassified
<1>2. IsReport(a) /\ SameUntil(r, a) /\ a.due = r.due /\ a.unclassified = found
  <2> HIDE DEF found
  <2> QED BY DEF ReportSound, IsReport, Fields, SameUntil
<1> HIDE DEF a
<1>3. /\ r.kind = "cash" /\ r.step = "unclassified" /\ CashSound(r) /\ r.today \in Until(today)
      /\ r.today >= FirstDay
      /\ IsReport(r') /\ r'.step = "plans" /\ r'.view # <<>> /\ r'.view[1] = View
      /\ Sound(View, MaxDay) /\ View = r.view[1]
      /\ SameUntil(r, r') /\ r'.due = a.due /\ r'.unclassified = a.unclassified
  BY <1>1, <1>2, ReadParts DEF SameUntil
<1>4. BalanceIn(r', View) /\ OpeningsIn(r', View) /\ ActualIn(r', View)
  <2>1. BalanceIn(r, View) /\ OpeningsIn(r, View) /\ ActualIn(r, View) BY <1>3 DEF CashSound
  <2> QED BY <1>3, <2>1, KeepsRead
<1>5. DueIn(r', View) /\ UnclassifiedIn(r', View)
  <2>1. DueIn(r, View) BY <1>3 DEF CashSound
  <2> QED BY <1>2, <1>3, <2>1 DEF DueIn, UnclassifiedIn, SameUntil
<1>6. CashSound(r') BY <1>3, <1>4, <1>5 DEF CashSound, CashSteps, SameUntil
<1> QED BY <1>3, <1>6 DEF ReportSound, SameUntil

LEMMA PlansRead ==
  ASSUME today \in Days, Sound(books, today), ReportSound(r, today), ReadPlans
  PROVE  ReportSound(r', today)
<1> DEFINE found == PlanItems(View, r.from, r.to, r.today)
           a == [r EXCEPT !.plans = found]
<1>1. Read("plans", "compose", a) BY DEF ReadPlans
<1>2. IsReport(a) /\ SameUntil(r, a) /\ a.due = r.due /\ a.unclassified = r.unclassified
      /\ a.plans = found
  <2> HIDE DEF found
  <2> QED BY DEF ReportSound, IsReport, Fields, SameUntil
<1> HIDE DEF a
<1>3. /\ r.kind = "cash" /\ r.step = "plans" /\ CashSound(r) /\ r.today \in Until(today)
      /\ r.today >= FirstDay
      /\ IsReport(r') /\ r'.step = "compose" /\ r'.view # <<>> /\ r'.view[1] = View
      /\ Sound(View, MaxDay) /\ View = r.view[1]
      /\ SameUntil(r, r') /\ r'.due = a.due /\ r'.unclassified = a.unclassified
      /\ r'.plans = a.plans
  BY <1>1, <1>2, ReadParts DEF SameUntil
<1>4. BalanceIn(r', View) /\ OpeningsIn(r', View) /\ ActualIn(r', View)
  <2>1. BalanceIn(r, View) /\ OpeningsIn(r, View) /\ ActualIn(r, View) BY <1>3 DEF CashSound
  <2> QED BY <1>3, <2>1, KeepsRead
<1>5. DueIn(r', View) /\ UnclassifiedIn(r', View) /\ PlansIn(r', View)
  <2>1. DueIn(r, View) /\ UnclassifiedIn(r, View) BY <1>3 DEF CashSound
  <2> QED BY <1>2, <1>3, <2>1 DEF DueIn, UnclassifiedIn, PlansIn, SameUntil
<1>6. CashSound(r') BY <1>3, <1>4, <1>5 DEF CashSound, CashSteps, SameUntil
<1> QED BY <1>3, <1>6 DEF ReportSound, SameUntil

LEMMA Composes ==
  ASSUME today \in Days, Sound(books, today), ReportSound(r, today), Compose
  PROVE  ReportSound(r', today)
<1>1. IsReport(r) BY DEF ReportSound
<1> DEFINE next == IF RunningBalance = r.balance.closing THEN "done" ELSE "failed"
<1>2. Read("compose", next, r) BY DEF Compose
<1> HIDE DEF next
<1>3. /\ r.kind = "cash" /\ r.step = "compose" /\ CashSound(r) /\ r.today \in Until(today)
      /\ r.today >= FirstDay
      /\ IsReport(r') /\ r'.step = next /\ r'.view # <<>> /\ r'.view[1] = View
      /\ Sound(View, MaxDay) /\ View = r.view[1]
      /\ SameUntil(r, r') /\ r'.due = r.due /\ r'.unclassified = r.unclassified
      /\ r'.plans = r.plans
  BY <1>1, <1>2, ReadParts DEF SameUntil
<1>4. /\ BalanceIn(r, View) /\ OpeningsIn(r, View) /\ ActualIn(r, View)
      /\ DueIn(r, View) /\ UnclassifiedIn(r, View) /\ PlansIn(r, View)
  BY <1>3 DEF CashSound
<1>5. next = "done"
  <2>1. r.today \in Days BY <1>3 DEF Until
  <2>2. HasRead(r, View)
    BY <1>3, <1>4, <2>1 DEF HasRead, BalanceIn, OpeningsIn, ActualIn, CashSound
  <2>3. View \in BooksType(MaxDay) BY <1>3 DEF Sound
  <2>4. RunningBalance = r.balance.closing BY <2>2, <2>3, RunningReconciles
  <2> QED BY <2>4 DEF next
<1>6. BalanceIn(r', View) /\ OpeningsIn(r', View) /\ ActualIn(r', View)
  BY <1>3, <1>4, KeepsRead
<1>7. DueIn(r', View) /\ UnclassifiedIn(r', View) /\ PlansIn(r', View)
  BY <1>3, <1>4 DEF DueIn, UnclassifiedIn, PlansIn, SameUntil
<1>8. CashSound(r') BY <1>3, <1>5, <1>6, <1>7 DEF CashSound, CashSteps, SameUntil
<1> QED BY <1>3, <1>8 DEF ReportSound, SameUntil

LEMMA AskStep ==
  ASSUME today \in Days, NEW kind, NEW from, NEW to, NEW unit, NEW step, Ask(kind, from, to, unit, step)
  PROVE  /\ IsReport(r') /\ r'.kind = kind /\ r'.step = step /\ r'.from = from /\ r'.to = to
         /\ r'.today = today /\ r'.view = <<>> /\ r'.due = {} /\ r'.plans = {}
         /\ UNCHANGED <<today, books, changes>> /\ reports < MaxReports /\ reports' = reports + 1
  BY DEF Ask, NoReport, IsReport, Fields

LEMMA DigestStep ==
  ASSUME today \in Days, ReportSound(r, today), ListOpenItems
  PROVE  /\ ReportSound(r', today) /\ r.kind = "digest" /\ r'.kind = "digest" /\ r'.today = r.today
         /\ UNCHANGED <<today, books, changes, reports>>
         /\ \/ /\ r.step = "dues" /\ r'.step = "plans" /\ r'.due = DigestDues(books, r.today)
            \/ /\ r.step = "plans" /\ r'.step = "done" /\ r'.due = r.due
               /\ r'.plans = DigestPlans(books, r.today)
<1> DEFINE place == CHOOSE n \in 1..2 : DigestOrder[n] = r.step
           a == IF r.step = "dues" THEN [r EXCEPT !.due = DigestDues(books, r.today)]
                ELSE [r EXCEPT !.plans = DigestPlans(books, r.today)]
<1>1. /\ r.kind = "digest" /\ r.step \in {"dues", "plans"}
      /\ r' = [a EXCEPT !.step = DigestOrder[place + 1]]
      /\ UNCHANGED <<today, books, changes, reports>>
  BY DEF ListOpenItems
<1>2. place = IF r.step = "dues" THEN 1 ELSE 2
  <2>1. DigestOrder[1] = "dues" /\ DigestOrder[2] = "plans" BY DEF DigestOrder
  <2>2. \A n \in 1..2 : n = 1 \/ n = 2 OBVIOUS
  <2>3. \E n \in 1..2 : DigestOrder[n] = r.step BY <1>1, <2>1
  <2>4. place \in 1..2 /\ DigestOrder[place] = r.step BY <2>3
  <2> QED BY <1>1, <2>1, <2>2, <2>4
<1>3. DigestOrder[place + 1] = IF r.step = "dues" THEN "plans" ELSE "done" BY <1>1, <1>2 DEF DigestOrder
<1> HIDE DEF place
<1>4. IsReport(r) /\ r.today \in Until(today) /\ r.today >= FirstDay BY <1>1 DEF ReportSound
<1>5. CASE r.step = "dues"
  <2> DEFINE found == DigestDues(books, r.today)
             next == "plans"
  <2>1. r' = [[r EXCEPT !.due = found] EXCEPT !.step = next] BY <1>1, <1>3, <1>5
  <2> HIDE DEF found
  <2>2. /\ IsReport(r') /\ r'.kind = r.kind /\ r'.step = "plans" /\ r'.due = found
        /\ r'.today = r.today
    BY <1>4, <2>1 DEF IsReport, Fields
  <2> QED BY <1>1, <1>4, <1>5, <2>2 DEF ReportSound, found
<1>6. CASE r.step = "plans"
  <2> DEFINE found == DigestPlans(books, r.today)
             next == "done"
  <2>1. r' = [[r EXCEPT !.plans = found] EXCEPT !.step = next] BY <1>1, <1>3, <1>6
  <2> HIDE DEF found
  <2>2. /\ IsReport(r') /\ r'.kind = r.kind /\ r'.step = "done" /\ r'.due = r.due
        /\ r'.today = r.today /\ r'.plans = found
    BY <1>4, <2>1 DEF IsReport, Fields
  <2> QED BY <1>1, <1>4, <1>6, <2>2 DEF ReportSound, found
<1> QED BY <1>1, <1>5, <1>6

LEMMA ReadsChangeNothing ==
  ASSUME NEW step, NEW next, NEW answer, Read(step, next, answer)
  PROVE  UNCHANGED <<today, books, changes, reports>>
  BY DEF Read

ReadsCash ==
  \/ ReadLedger \/ ReadBalance \/ ReadOpenings \/ ReadActual \/ ReadDueItems
  \/ ReadUnclassified \/ ReadPlans \/ Compose

LEMMA CashStep ==
  ASSUME today \in Days, Sound(books, today), ReportSound(r, today), ReadsCash
  PROVE  ReportSound(r', today) /\ r.kind = "cash" /\ r'.kind = "cash"
         /\ UNCHANGED <<today, books, changes, reports>>
<1>1. UNCHANGED <<today, books, changes, reports>> /\ r.kind = "cash"
  BY DEF ReadsCash, ReadLedger, ReadBalance, ReadOpenings, ReadActual, ReadDueItems, ReadUnclassified,
         ReadPlans, Compose, Read
<1>2. ReportSound(r', today)
  BY LedgerRead, BalanceRead, OpeningsRead, ActualRead, DueRead, UnclassifiedRead, PlansRead,
     Composes DEF ReadsCash
<1>3. r'.kind = "cash"
  <2>1. IsReport(r) BY DEF ReportSound
  <2>2. \A step, next : Read(step, next, r) => r'.kind = r.kind
    BY <2>1 DEF Read, IsReport, Fields
  <2>3. CASE ReadLedger \/ Compose BY <1>1, <2>2, <2>3 DEF ReadLedger, Compose
  <2>4. CASE ReadBalance BY <1>1, <2>1, <2>4 DEF ReadBalance, Read, IsReport, Fields
  <2>5. CASE ReadOpenings BY <1>1, <2>1, <2>5 DEF ReadOpenings, Read, IsReport, Fields
  <2>6. CASE ReadActual BY <1>1, <2>1, <2>6 DEF ReadActual, Read, IsReport, Fields
  <2>7. CASE ReadDueItems BY <1>1, <2>1, <2>7 DEF ReadDueItems, Read, IsReport, Fields
  <2>8. CASE ReadUnclassified BY <1>1, <2>1, <2>8 DEF ReadUnclassified, Read, IsReport, Fields
  <2>9. CASE ReadPlans BY <1>1, <2>1, <2>9 DEF ReadPlans, Read, IsReport, Fields
  <2> QED BY <2>3, <2>4, <2>5, <2>6, <2>7, <2>8, <2>9 DEF ReadsCash
<1> QED BY <1>1, <1>2, <1>3

\* What the digest has listed, is due, and came of an occurrence that the plan has passed.
DigestSound(x, b) ==
  x.kind = "digest" =>
    /\ x.step \in {"plans", "done"} => \A y \in x.due : y.k \in 1..Len(b.dues)
    /\ x.step = "done" => \A y \in x.due : \A n \in x.plans : b.dues[y.k].occurrence # n

ReportsInv ==
  /\ today \in Days /\ today >= FirstDay /\ changes \in 0..MaxChanges /\ reports \in 0..MaxReports
  /\ Sound(books, today) /\ ReportSound(r, today) /\ DigestSound(r, books)

LEMMA ReportsInvInit == ReportInit => ReportsInv
<1> SUFFICES ASSUME ReportInit PROVE ReportsInv OBVIOUS
<1>1. today \in Days /\ today >= FirstDay /\ changes \in 0..MaxChanges /\ reports \in 0..MaxReports
  BY DaysAre, ReportBoundsAssumption DEF ReportInit, FirstDay
<1>2. Sound(books, today) BY StartsAssumption DEF ReportInit
<1>3. ReportSound(r, today) /\ DigestSound(r, books)
  <2>1. IsReport(r) /\ r.kind = "none" /\ r.step = "done" /\ r.today = 1
    BY IsNoReport DEF ReportInit, NoReport
  <2>2. 1 \in Until(today) BY <1>1, DaysAre DEF Until
  <2> QED BY <2>1, <2>2 DEF ReportSound, DigestSound
<1> QED BY <1>1, <1>2, <1>3 DEF ReportsInv

LEMMA ReportsInvStep == ReportsInv /\ [ReportNext]_reportVars => ReportsInv'
<1> SUFFICES ASSUME ReportsInv, [ReportNext]_reportVars PROVE ReportsInv' OBVIOUS
<1>0. /\ today \in Days /\ today >= FirstDay /\ changes \in 0..MaxChanges /\ reports \in 0..MaxReports
      /\ Sound(books, today) /\ ReportSound(r, today) /\ DigestSound(r, books)
      /\ MaxChanges \in Nat /\ MaxReports \in Nat
  BY ReportBoundsAssumption DEF ReportsInv
<1>1. CASE Changed
  <2>1. /\ Sound(books', today) /\ Stays(books, books') /\ UNCHANGED <<today, r, reports>>
        /\ changes < MaxChanges /\ changes' = changes + 1
    BY <1>0, <1>1, ChangedSound
  <2>2. DigestSound(r', books')
    <3>1. r' = r /\ Len(books.dues) <= Len(books'.dues)
          /\ \A k \in 1..Len(books.dues) : books'.dues[k].occurrence = books.dues[k].occurrence
      BY <2>1 DEF Stays
    <3>2. Len(books.dues) \in Nat /\ Len(books'.dues) \in Nat BY <1>0, <2>1, Lengths DEF Sound
    <3>3. \A k \in 1..Len(books.dues) : k \in 1..Len(books'.dues) BY <3>1, <3>2
    <3> QED BY <1>0, <3>1, <3>3 DEF DigestSound
  <2> QED BY <1>0, <2>1, <2>2 DEF ReportsInv
<1>2. CASE \E range \in Ranges : GetCashFlowReport(range)
  <2>1. PICK range \in Ranges : GetCashFlowReport(range) BY <1>2
  <2> DEFINE kind == "cash"
             from == range[1]
             to == range[2]
             unit == range[3]
             step == "ledger"
  <2>2. Ask(kind, from, to, unit, step) BY <2>1 DEF GetCashFlowReport
  <2>3. from \in Days /\ to \in Days /\ from <= to BY RangesAssumption, DaysAre
  <2>4. kind = "cash" /\ step = "ledger" OBVIOUS
  <2> HIDE DEF kind, from, to, unit, step
  <2>5. /\ IsReport(r') /\ r'.kind = kind /\ r'.step = step /\ r'.from = from /\ r'.to = to
        /\ r'.today = today /\ r'.view = <<>>
        /\ UNCHANGED <<today, books, changes>> /\ reports < MaxReports /\ reports' = reports + 1
    BY <1>0, <2>2, AskStep
  <2>6. CashSound(r') BY <2>3, <2>4, <2>5 DEF CashSound, CashSteps
  <2>7. today \in Until(today) BY <1>0, DaysAre DEF Until
  <2>8. ReportSound(r', today') /\ DigestSound(r', books')
    BY <1>0, <2>4, <2>5, <2>6, <2>7 DEF ReportSound, DigestSound
  <2> QED BY <1>0, <2>5, <2>8 DEF ReportsInv
<1>3. CASE EnqueueDailyDigest
  <2> DEFINE kind == "digest"
             from == 1
             unit == "weekly"
             step == DigestOrder[1]
  <2>2. Ask(kind, from, MaxDay, unit, step) BY <1>3 DEF EnqueueDailyDigest
  <2>4. kind = "digest" /\ step = "dues" BY DEF DigestOrder
  <2> HIDE DEF kind, from, unit, step
  <2>5. /\ IsReport(r') /\ r'.kind = kind /\ r'.step = step /\ r'.today = today
        /\ UNCHANGED <<today, books, changes>> /\ reports < MaxReports /\ reports' = reports + 1
    BY <1>0, <2>2, AskStep
  <2>7. today \in Until(today) BY <1>0, DaysAre DEF Until
  <2>8. ReportSound(r', today') /\ DigestSound(r', books')
    BY <1>0, <2>4, <2>5, <2>7 DEF ReportSound, DigestSound
  <2> QED BY <1>0, <2>5, <2>8 DEF ReportsInv
<1>4. CASE ReadsCash
  <2>1. ReportSound(r', today) /\ r'.kind = "cash" /\ UNCHANGED <<today, books, changes, reports>>
    BY <1>0, <1>4, CashStep
  <2>2. DigestSound(r', books') BY <2>1 DEF DigestSound
  <2> QED BY <1>0, <2>1, <2>2 DEF ReportsInv
<1>5. CASE ListOpenItems
  <2>1. /\ ReportSound(r', today) /\ r.kind = "digest"
        /\ UNCHANGED <<today, books, changes, reports>>
        /\ \/ /\ r.step = "dues" /\ r'.step = "plans" /\ r'.due = DigestDues(books, r.today)
           \/ /\ r.step = "plans" /\ r'.step = "done" /\ r'.due = r.due
              /\ r'.plans = DigestPlans(books, r.today)
    BY <1>0, <1>5, DigestStep
  <2>2. DigestSound(r', books')
    <3>1. CASE r'.step = "plans"
      <4>1. r'.due = DigestDues(books, r.today) /\ books' = books BY <2>1, <3>1
      <4>2. \A y \in DigestDues(books, r.today) : y.k \in 1..Len(books.dues) BY DEF DigestDues
      <4> QED BY <3>1, <4>1, <4>2 DEF DigestSound
    <3>2. CASE r'.step = "done"
      <4>1. /\ r.step = "plans" /\ r'.due = r.due /\ r'.plans = DigestPlans(books, r.today)
            /\ books' = books
        BY <2>1, <3>2
      <4>2. \A y \in r.due : y.k \in 1..Len(books.dues) BY <1>0, <2>1, <4>1 DEF DigestSound
      <4>3. \A n \in DigestPlans(books, r.today) : n \in Nat /\ n >= books.plan.next
        BY DaysAre DEF DigestPlans, Occurrences
      <4>4. \A k \in 1..Len(books.dues) : books.dues[k].occurrence < books.plan.next
                                          /\ books.dues[k].occurrence \in Nat
        <5>1. books \in BooksType(today) BY <1>0 DEF Sound
        <5> QED BY <1>0, <5>1, DueParts DEF Sound, DueSound
      <4>5. books.plan.next \in Nat BY <1>0, PlanParts DEF Sound
      <4>6. \A y \in r.due : \A n \in DigestPlans(books, r.today) :
               books.dues[y.k].occurrence # n
        BY <4>2, <4>3, <4>4, <4>5
      <4> QED BY <3>2, <4>1, <4>2, <4>6 DEF DigestSound
    <3> QED BY <2>1, <3>1, <3>2
  <2> QED BY <1>0, <2>1, <2>2 DEF ReportsInv
<1>6. CASE NextDay
  <2>1. today' = today + 1 /\ today < MaxDay /\ UNCHANGED <<books, r, changes, reports>>
    BY <1>6 DEF NextDay
  <2>2. today' \in Days /\ today <= today' /\ today' >= FirstDay BY <1>0, <2>1, DaysAre DEF FirstDay
  <2>3. Sound(books, today') BY <1>0, <2>2, SoundLater
  <2>4. ReportSound(r, today')
    <3>1. r.today \in Until(today') BY <1>0, <2>2, DaysAre DEF Until, ReportSound
    <3> QED BY <1>0, <3>1 DEF ReportSound
  <2> QED BY <1>0, <2>1, <2>2, <2>3, <2>4 DEF ReportsInv
<1>7. CASE UNCHANGED reportVars
  BY <1>0, <1>7 DEF ReportsInv, reportVars
<1> QED BY <1>1, <1>2, <1>3, <1>4, <1>5, <1>6, <1>7 DEF ReportNext, Reported, ReadsCash

LEMMA ReportsInvariant == ReportSpec => []ReportsInv
<1>1. ReportInit => ReportsInv BY ReportsInvInit
<1>2. ReportsInv /\ [ReportNext]_reportVars => ReportsInv' BY ReportsInvStep
<1> QED BY <1>1, <1>2, PTL DEF ReportSpec

\* The books are of their types; a report that is composed of several statements
\* reconciles, whatever is committed between them and whichever range is asked for.
THEOREM BooksReconcileHolds == ReportSpec => []BooksReconcile
<1>1. ReportsInv => BooksReconcile
  <2> SUFFICES ASSUME ReportsInv PROVE BooksReconcile OBVIOUS
  <2>1. ReportTypeOK BY DEF ReportsInv, ReportSound, ReportTypeOK
  <2>2. r.step # "failed" BY DEF ReportsInv, ReportSound, CashSound, CashSteps
  <2> QED BY <2>1, <2>2 DEF BooksReconcile, ReportReconciles
<1> QED BY <1>1, ReportsInvariant, PTL

\* The digest never lists an occurrence of a plan together with the instalment that came
\* of it, although its two statements read different books.
THEOREM DigestNeverTwiceHolds == ReportSpec => []DigestNeverTwice
<1>1. ReportsInv => DigestNeverTwice BY DEF ReportsInv, DigestSound, DigestNeverTwice
<1> QED BY <1>1, ReportsInvariant, PTL

-----------------------------------------------------------------------------
(* The items of a report.                                                  *)

LEMMA SettledTyped ==
  ASSUME NEW b \in BooksType(MaxDay), NEW k \in 1..Len(b.dues), NEW day \in Int
  PROVE  /\ Settled(b, k, day) \in Int /\ b.dues[k].amount \in Nat
         /\ Left(b, k, day) \in Nat
         /\ MarkedPaid(b, k) \in {0, b.dues[k].amount}
         /\ Left(b, k, day) = IF b.dues[k].amount - Settled(b, k, day) > 0
                              THEN b.dues[k].amount - Settled(b, k, day) ELSE 0
<1>1. b.dues[k].amount \in Nat BY DueParts
<1>2. MarkedPaid(b, k) \in {0, b.dues[k].amount} BY DEF MarkedPaid
<1>3. Net(b, k, day) \in Int /\ Net(b, k, MaxDay) \in Int BY NetIs
<1>4. CardSettled(b, k, day) \in Int BY <1>1, <1>2, <1>3 DEF CardSettled
<1>5. Clipped(CardSettled(b, k, day), b.dues[k].amount) \in Int
  BY <1>1, <1>4 DEF Clipped, AtMost, AtLeast
<1>6. Settled(b, k, day) \in Int BY <1>1, <1>2, <1>3, <1>5 DEF Settled
<1>7. Left(b, k, day) = IF b.dues[k].amount - Settled(b, k, day) > 0
                        THEN b.dues[k].amount - Settled(b, k, day) ELSE 0
  BY <1>1, <1>6 DEF Left, AtLeast
<1> QED BY <1>1, <1>2, <1>6, <1>7

\* An item has its amount, its day, and is called overdue if it is before today.
ItemSound(i, from, to, day) ==
  /\ i.left \in Nat /\ i.due \in Nat
  /\ i.due \in from..to \/ (i.due < from /\ i.due < day)
  /\ i.left > 0 => (i.status = "overdue" <=> i.due < day)

ItemOf(b, kind, k, day) ==
  Item(<<kind, k>>, kind, b.dues[k].due, b.dues[k].amount, Settled(b, k, day),
       Status(b.dues[k].amount, Settled(b, k, day), b.dues[k].due, day))

LEMMA ItemIs ==
  ASSUME NEW id, NEW kind, NEW due, NEW total, NEW settled, NEW status
  PROVE  LET i == Item(id, kind, due, total, settled, status) IN
         /\ i.id = id /\ i.kind = kind /\ i.due = due /\ i.left = AtLeast(total - settled, 0)
         /\ i.status = status
         /\ i.side = IF kind \in {"receivable", "contribution"} THEN "inflow" ELSE "outflow"
  BY DEF Item

LEMMA StatusIs ==
  ASSUME NEW total \in Int, NEW settled \in Int, NEW due \in Int, NEW day \in Int,
         AtLeast(total - settled, 0) > 0
  PROVE  Status(total, settled, due, day) = "overdue" <=> due < day
<1>1. ~(total - settled <= 0) BY DEF AtLeast
<1> DEFINE none == total - settled <= 0
<1>2. ~none BY <1>1
<1> HIDE DEF none
<1>3. Status(total, settled, due, day) =
        IF none THEN "settled" ELSE IF due < day THEN "overdue"
        ELSE IF settled > 0 THEN "partial" ELSE "planned"
  BY DEF Status, none
<1> QED BY <1>2, <1>3

LEMMA LiveAre ==
  ASSUME NEW b \in BooksType(MaxDay), NEW kind
  PROVE  Live(b, kind) \subseteq 1..Len(b.dues) /\ IsFiniteSet(Live(b, kind))
<1>1. Live(b, kind) \subseteq 1..Len(b.dues) BY DEF Live
<1> QED BY <1>1, Lengths, FS_Subset

LEMMA CarriedAre ==
  ASSUME NEW b \in BooksType(MaxDay), NEW from \in Days, NEW to \in Days, NEW day \in Int,
         NEW S \in SUBSET (1..Len(b.dues)), NEW k \in Carried(b, S, from, to, day)
  PROVE  /\ k \in S /\ k \in 1..Len(b.dues) /\ b.dues[k].due \in Days
         /\ b.dues[k].due \in from..to \/ (b.dues[k].due < from /\ b.dues[k].due < day)
<1>1. k \in S /\ k \in 1..Len(b.dues) /\ b.dues[k].due \in Days BY DueParts DEF Carried
<1>2. b.dues[k].due \in from..to \/ b.dues[k].due < AtMost(from, day) BY DEF Carried
<1> QED BY <1>1, <1>2, DaysAre DEF AtMost

LEMMA ArmSound ==
  ASSUME NEW b \in BooksType(MaxDay), NEW from \in Days, NEW to \in Days, NEW day \in Int, NEW kind
  PROVE  /\ IsFiniteSet(ArmOf(b, kind, from, to, day))
         /\ \A i \in ArmOf(b, kind, from, to, day) : ItemSound(i, from, to, day) /\ i.kind = kind
<1> DEFINE S == Carried(b, Live(b, kind), from, to, day)
<1>1. ArmOf(b, kind, from, to, day) = {ItemOf(b, kind, k, day) : k \in S} BY DEF ArmOf, ItemOf
<1>2. S \subseteq Live(b, kind) /\ Live(b, kind) \in SUBSET (1..Len(b.dues)) /\ IsFiniteSet(S)
  <2>1. S \subseteq Live(b, kind) BY DEF Carried
  <2> QED BY <2>1, LiveAre, FS_Subset
<1>3. ASSUME NEW k \in S
      PROVE  ItemSound(ItemOf(b, kind, k, day), from, to, day) /\ ItemOf(b, kind, k, day).kind = kind
  <2>1. /\ k \in 1..Len(b.dues) /\ b.dues[k].due \in Days
        /\ b.dues[k].due \in from..to \/ (b.dues[k].due < from /\ b.dues[k].due < day)
    BY <1>2, CarriedAre
  <2> DEFINE i == ItemOf(b, kind, k, day)
             a == b.dues[k].amount
             s == Settled(b, k, day)
             due == b.dues[k].due
  <2>2. /\ i.kind = kind /\ i.due = due /\ i.left = AtLeast(a - s, 0)
        /\ i.status = Status(a, s, due, day)
    BY ItemIs DEF ItemOf
  <2>3. a \in Nat /\ a \in Int /\ s \in Int /\ due \in Nat /\ due \in Int
    <3>1. a \in Nat /\ s \in Int BY <2>1, SettledTyped
    <3>2. due \in Nat /\ due \in Int BY <2>1, DaysAre
    <3> HIDE DEF a, s, due
    <3> QED BY <3>1, <3>2
  <2>4. due \in from..to \/ (due < from /\ due < day) BY <2>1
  <2> HIDE DEF i, a, s, due
  <2>5. i.left \in Nat BY <2>2, <2>3 DEF AtLeast
  <2>6. i.left > 0 => (i.status = "overdue" <=> i.due < day) BY <2>2, <2>3, StatusIs
  <2>7. ItemSound(i, from, to, day) BY <2>2, <2>3, <2>4, <2>5, <2>6 DEF ItemSound
  <2> QED BY <2>2, <2>7 DEF i
<1>4. IsFiniteSet({ItemOf(b, kind, k, day) : k \in S})
  <2> DEFINE m == [k \in S |-> ItemOf(b, kind, k, day)]
  <2>1. Values(m, S) = {ItemOf(b, kind, k, day) : k \in S} BY DEF Values
  <2> HIDE DEF S, m
  <2> QED BY <1>2, <2>1, FiniteImage
<1> HIDE DEF S
<1> QED BY <1>1, <1>3, <1>4

\* The lines of the card.
Asked(b, from, to, day) ==
  {k \in Live(b, "card") : b.dues[k].due \in from..to \/ b.dues[k].due < AtMost(from, day)}
AskedOn(b, from, to, day, d) == {k \in Asked(b, from, to, day) : b.dues[k].due = d}
CardTotal(b, from, to, day, d) ==
  SumFunction([k \in AskedOn(b, from, to, day, d) |-> b.dues[k].amount])
CardPaid(b, from, to, day, d) ==
  SumFunction([k \in AskedOn(b, from, to, day, d) |-> Settled(b, k, day)])
CardLines(b, from, to, day) ==
  {n \in {b.dues[k].due : k \in Asked(b, from, to, day)} :
     n >= from \/ CardTotal(b, from, to, day, n) - CardPaid(b, from, to, day, n) > 0}
CardLine(b, from, to, day, d) ==
  Item(<<"card", d>>, "card", d, CardTotal(b, from, to, day, d), CardPaid(b, from, to, day, d),
       Status(CardTotal(b, from, to, day, d), CardPaid(b, from, to, day, d), d, day))

AmountsDue(b) == [k \in 1..Len(b.dues) |-> b.dues[k].amount]
SettledOn(b, day) == [k \in 1..Len(b.dues) |-> Settled(b, k, day)]
LeftOn(b, day) == [k \in 1..Len(b.dues) |-> Left(b, k, day)]

LEMMA CardItemsAre ==
  ASSUME NEW b, NEW from, NEW to, NEW day
  PROVE  CardItems(b, from, to, day) = {CardLine(b, from, to, day, d) : d \in CardLines(b, from, to, day)}
  BY DEF CardItems, CardLines, CardLine, CardTotal, CardPaid, AskedOn, Asked

LEMMA CardSums ==
  ASSUME NEW b \in BooksType(MaxDay), NEW from \in Days, NEW to \in Days, NEW day \in Int, NEW d
  PROVE  /\ IsFiniteSet(AskedOn(b, from, to, day, d))
         /\ AskedOn(b, from, to, day, d) \subseteq 1..Len(b.dues)
         /\ CardTotal(b, from, to, day, d) = SumOver(AmountsDue(b), AskedOn(b, from, to, day, d))
         /\ CardPaid(b, from, to, day, d) = SumOver(SettledOn(b, day), AskedOn(b, from, to, day, d))
         /\ CardTotal(b, from, to, day, d) \in Nat /\ CardPaid(b, from, to, day, d) \in Int
<1> DEFINE S == AskedOn(b, from, to, day, d)
           f == [k \in S |-> b.dues[k].amount]
           g == [k \in S |-> Settled(b, k, day)]
           A == AmountsDue(b)
           G == SettledOn(b, day)
<1>1. S \subseteq 1..Len(b.dues) BY LiveAre DEF AskedOn, Asked
<1>2. IsFiniteSet(S) BY <1>1, Lengths, FS_Subset
<1>3. /\ \A k \in S : f[k] = A[k] /\ A[k] \in Nat
      /\ \A k \in S : g[k] = G[k] /\ G[k] \in Int
  BY <1>1, SettledTyped DEF AmountsDue, SettledOn
<1>4. CardTotal(b, from, to, day, d) = SumOver(f, S) BY SumFunctionIs DEF CardTotal
<1>5. CardPaid(b, from, to, day, d) = SumOver(g, S) BY SumFunctionIs DEF CardPaid
<1> HIDE DEF S, f, g, A, G
<1>6. SumOver(f, S) = SumOver(A, S) /\ SumOver(g, S) = SumOver(G, S) BY <1>2, <1>3, SumSame
<1>7. SumOver(A, S) \in Nat BY <1>2, <1>3, SumNat
<1>8. SumOver(G, S) \in Int BY <1>2, <1>3, SumType
<1> QED BY <1>1, <1>2, <1>4, <1>5, <1>6, <1>7, <1>8 DEF S, A, G

LEMMA CardLinesSound ==
  ASSUME NEW b \in BooksType(MaxDay), NEW from \in Days, NEW to \in Days, NEW day \in Int
  PROVE  /\ IsFiniteSet(CardItems(b, from, to, day))
         /\ \A i \in CardItems(b, from, to, day) : ItemSound(i, from, to, day) /\ i.kind = "card"
<1> DEFINE L == CardLines(b, from, to, day)
<1>1. \A d \in L : d \in Days /\ (d \in from..to \/ (d < from /\ d < day))
  <2> SUFFICES ASSUME NEW d \in L
               PROVE  d \in Days /\ (d \in from..to \/ (d < from /\ d < day))
    OBVIOUS
  <2>1. PICK k \in Asked(b, from, to, day) : d = b.dues[k].due BY DEF CardLines
  <2>2. k \in 1..Len(b.dues) /\ (d \in from..to \/ d < AtMost(from, day))
    BY <2>1, LiveAre DEF Asked
  <2>3. d \in Days BY <2>1, <2>2, DueParts
  <2> QED BY <2>2, <2>3, DaysAre DEF AtMost
<1>2. IsFiniteSet(L)
  <2>1. L \subseteq 1..MaxDay BY <1>1, DaysAre
  <2>2. IsFiniteSet(1..MaxDay) BY DaysAre, FS_Interval
  <2> QED BY <2>1, <2>2, FS_Subset
<1>3. ASSUME NEW d \in L
      PROVE  ItemSound(CardLine(b, from, to, day, d), from, to, day)
             /\ CardLine(b, from, to, day, d).kind = "card"
  <2> DEFINE i == CardLine(b, from, to, day, d)
             a == CardTotal(b, from, to, day, d)
             s == CardPaid(b, from, to, day, d)
  <2>1. /\ i.kind = "card" /\ i.due = d /\ i.left = AtLeast(a - s, 0)
        /\ i.status = Status(a, s, d, day)
    BY ItemIs DEF CardLine
  <2>2. a \in Nat /\ a \in Int /\ s \in Int BY CardSums
  <2>3. d \in Nat /\ d \in Int /\ (d \in from..to \/ (d < from /\ d < day)) BY <1>1, DaysAre
  <2> HIDE DEF i, a, s, L
  <2>4. i.left \in Nat BY <2>1, <2>2 DEF AtLeast
  <2>5. i.left > 0 => (i.status = "overdue" <=> i.due < day) BY <2>1, <2>2, <2>3, StatusIs
  <2>6. ItemSound(i, from, to, day) BY <2>1, <2>3, <2>4, <2>5 DEF ItemSound
  <2> QED BY <2>1, <2>6 DEF i
<1>4. IsFiniteSet({CardLine(b, from, to, day, d) : d \in L})
  <2> DEFINE m == [d \in L |-> CardLine(b, from, to, day, d)]
  <2>1. Values(m, L) = {CardLine(b, from, to, day, d) : d \in L} BY DEF Values
  <2> HIDE DEF L, m
  <2> QED BY <1>2, <2>1, FiniteImage
<1> HIDE DEF L
<1>5. CardItems(b, from, to, day) = {CardLine(b, from, to, day, d) : d \in L}
  BY CardItemsAre DEF L
<1> QED BY <1>3, <1>4, <1>5

OtherLine(b, k) ==
  Item(<<"other", k>>, "other", b.dues[k].due, b.dues[k].amount, 0, "scheduled")
OtherAhead(b, from, to, day) ==
  {j \in Live(b, "other") : b.dues[j].due \in from..to /\ b.dues[j].due > day}

LEMMA OtherLinesSound ==
  ASSUME NEW b \in BooksType(MaxDay), NEW from \in Days, NEW to \in Days, NEW day \in Int
  PROVE  /\ IsFiniteSet(OtherItems(b, from, to, day))
         /\ \A i \in OtherItems(b, from, to, day) : ItemSound(i, from, to, day) /\ i.kind = "other"
<1> DEFINE S == OtherAhead(b, from, to, day)
           m == [k \in S |-> OtherLine(b, k)]
<1>1. OtherItems(b, from, to, day) = {m[k] : k \in S} BY DEF OtherItems, OtherLine, OtherAhead
<1>2. S \subseteq 1..Len(b.dues) BY LiveAre DEF OtherAhead
<1>3. IsFiniteSet(S) BY <1>2, Lengths, FS_Subset
<1>4. ASSUME NEW k \in S
      PROVE  ItemSound(m[k], from, to, day) /\ m[k].kind = "other"
  <2> DEFINE i == m[k]
             a == b.dues[k].amount
             due == b.dues[k].due
             word == "scheduled"
  <2>1. /\ i.kind = "other" /\ i.due = due /\ i.left = AtLeast(a - 0, 0) /\ i.status = word
    BY ItemIs DEF OtherLine
  <2>2. k \in 1..Len(b.dues) BY <1>2
  <2>3. a \in Nat /\ due \in Days /\ due \in from..to /\ due > day
    BY <2>2, DueParts DEF OtherAhead
  <2>4. word # "overdue" OBVIOUS
  <2> HIDE DEF i, a, due, word, S, m
  <2>5. due \in Nat BY <2>3, DaysAre
  <2>6. ItemSound(i, from, to, day) BY <2>1, <2>3, <2>4, <2>5 DEF ItemSound, AtLeast
  <2> QED BY <2>1, <2>6 DEF i
<1> HIDE DEF S, m
<1>5. IsFiniteSet(Values(m, S)) BY <1>3, FiniteImage
<1> QED BY <1>1, <1>4, <1>5 DEF Values

PlanLine(b, n, day) ==
  Item(<<"plan", n>>, IF b.plan.card THEN "card" ELSE "other", Event(b, n), b.plan.amount, 0,
       IF Event(b, n) < day THEN "overdue" ELSE "planned")
PlansAhead(b, from, to, day) ==
  {j \in Occurrences(b, to) : BelongsToReport(Event(b, j), from, to, day)}

LEMMA EventIs ==
  ASSUME NEW b \in BooksType(MaxDay), NEW n \in Days
  PROVE  Event(b, n) \in Nat /\ Event(b, n) >= n /\ b.plan.amount \in Nat
         /\ \A x \in Days : Event(b, x) = Event(b, n) => x = n
<1>1. CardDelay \in Nat /\ b.plan.card \in BOOLEAN /\ b.plan.amount \in Nat /\ n \in Nat
  BY PlanAssumption, PlanParts, DaysAre
<1> QED BY <1>1, DaysAre DEF Event

LEMMA PlanLinesSound ==
  ASSUME NEW b \in BooksType(MaxDay), NEW from \in Days, NEW to \in Days, NEW day \in Int
  PROVE  /\ IsFiniteSet(PlanItems(b, from, to, day))
         /\ \A i \in PlanItems(b, from, to, day) :
              ItemSound(i, from, to, day) /\ i.side = "outflow" /\ i.id[1] = "plan"
              /\ i.kind \in {"card", "other"}
<1> DEFINE S == PlansAhead(b, from, to, day)
           m == [n \in S |-> PlanLine(b, n, day)]
<1>1. PlanItems(b, from, to, day) = {m[n] : n \in S} BY DEF PlanItems, PlanLine, PlansAhead
<1>2. S \subseteq Days BY DEF PlansAhead, Occurrences
<1>3. IsFiniteSet(S)
  <2>1. IsFiniteSet(Days) BY DaysAre, FS_Interval
  <2> QED BY <1>2, <2>1, FS_Subset
<1>4. ASSUME NEW n \in S
      PROVE  ItemSound(m[n], from, to, day) /\ m[n].side = "outflow" /\ m[n].id[1] = "plan"
             /\ m[n].kind \in {"card", "other"}
  <2> DEFINE i == m[n]
             a == b.plan.amount
             e == Event(b, n)
             word == IF e < day THEN "overdue" ELSE "planned"
  <2>1. /\ i.due = e /\ i.left = AtLeast(a - 0, 0) /\ i.status = word /\ i.id = <<"plan", n>>
        /\ i.kind = (IF b.plan.card THEN "card" ELSE "other")
        /\ i.side = IF i.kind \in {"receivable", "contribution"} THEN "inflow" ELSE "outflow"
    BY ItemIs DEF PlanLine
  <2>2. n \in Days BY <1>2
  <2>3. a \in Nat /\ e \in Nat BY <2>2, EventIs
  <2>4. e <= to /\ (e < day \/ e >= from) BY DEF PlansAhead, BelongsToReport
  <2>5. word = "overdue" <=> e < day OBVIOUS
  <2>6. i.side = "outflow" /\ i.id[1] = "plan" /\ i.kind \in {"card", "other"} BY <2>1
  <2> HIDE DEF i, a, e, word, S, m
  <2>7. e \in from..to \/ (e < from /\ e < day) BY <2>3, <2>4, DaysAre
  <2>8. ItemSound(i, from, to, day) BY <2>1, <2>3, <2>5, <2>7 DEF ItemSound, AtLeast
  <2> QED BY <2>6, <2>8 DEF i
<1> HIDE DEF S, m
<1>5. IsFiniteSet(Values(m, S)) BY <1>3, FiniteImage
<1> QED BY <1>1, <1>4, <1>5 DEF Values

\* Everything that a report can list.
AllItems(b, from, to, day) == DueItems(b, from, to, day) \cup PlanItems(b, from, to, day)

LEMMA ItemsSound ==
  ASSUME NEW b \in BooksType(MaxDay), NEW from \in Days, NEW to \in Days, NEW day \in Int
  PROVE  /\ IsFiniteSet(AllItems(b, from, to, day))
         /\ \A i \in AllItems(b, from, to, day) : ItemSound(i, from, to, day)
<1> DEFINE A == ReceivableItems(b, from, to, day)
           B == ContributionItems(b, from, to, day)
           C == CardItems(b, from, to, day)
           D == TaxItems(b, from, to, day)
           E == OtherItems(b, from, to, day)
           F == PlanItems(b, from, to, day)
           P(i) == ItemSound(i, from, to, day)
<1>1. IsFiniteSet(A) /\ \A i \in A : P(i)
  <2> DEFINE kind == "receivable"
  <2>1. A = ArmOf(b, kind, from, to, day) BY DEF ReceivableItems
  <2> HIDE DEF kind
  <2> QED BY <2>1, ArmSound
<1>2. IsFiniteSet(B) /\ \A i \in B : P(i)
  <2> DEFINE kind == "contribution"
  <2>1. B = ArmOf(b, kind, from, to, day) BY DEF ContributionItems
  <2> HIDE DEF kind
  <2> QED BY <2>1, ArmSound
<1>3. IsFiniteSet(C) /\ \A i \in C : P(i) BY CardLinesSound
<1>4. IsFiniteSet(D) /\ \A i \in D : P(i)
  <2> DEFINE kind == "tax"
  <2>1. D = ArmOf(b, kind, from, to, day) BY DEF TaxItems
  <2> HIDE DEF kind
  <2> QED BY <2>1, ArmSound
<1>5. IsFiniteSet(E) /\ \A i \in E : P(i) BY OtherLinesSound
<1>6. IsFiniteSet(F) /\ \A i \in F : P(i) BY PlanLinesSound
<1>7. AllItems(b, from, to, day) = A \cup B \cup C \cup D \cup E \cup F
  BY DEF AllItems, DueItems
<1> HIDE DEF A, B, C, D, E, F
<1>8. IsFiniteSet(A \cup B) BY <1>1, <1>2, FS_Union
<1>9. IsFiniteSet(A \cup B \cup C) BY <1>3, <1>8, FS_Union
<1>10. IsFiniteSet(A \cup B \cup C \cup D) BY <1>4, <1>9, FS_Union
<1>11. IsFiniteSet(A \cup B \cup C \cup D \cup E) BY <1>5, <1>10, FS_Union
<1>12. IsFiniteSet(A \cup B \cup C \cup D \cup E \cup F) BY <1>6, <1>11, FS_Union
<1> HIDE DEF P
<1>13. \A i \in AllItems(b, from, to, day) : P(i) BY <1>1, <1>2, <1>3, <1>4, <1>5, <1>6, <1>7
<1> QED BY <1>7, <1>12, <1>13 DEF P

\* The amount of items, as a sum over some larger set.
Lefts(items) == [i \in items |-> i.left]

LEMMA AmountsIs ==
  ASSUME NEW U, IsFiniteSet(U), \A i \in U : i.left \in Nat, NEW S \in SUBSET U
  PROVE  /\ Amounts(S) = SumOver(Lefts(U), S) /\ IsFiniteSet(S) /\ Amounts(S) \in Nat
         /\ \A i \in S : Lefts(U)[i] = i.left /\ Lefts(U)[i] \in Int
<1> DEFINE F == [i \in S |-> i.left]
           G == Lefts(U)
<1>1. IsFiniteSet(S) BY FS_Subset
<1>2. \A i \in S : F[i] = G[i] /\ G[i] \in Nat /\ G[i] = i.left BY DEF Lefts
<1>3. Amounts(S) = SumOver(F, S) BY SumFunctionIs DEF Amounts
<1> HIDE DEF F, G
<1>4. SumOver(F, S) = SumOver(G, S) BY <1>1, <1>2, SumSame
<1>5. SumOver(G, S) \in Nat BY <1>1, <1>2, SumNat
<1> QED BY <1>1, <1>2, <1>3, <1>4, <1>5 DEF G

\* Items without an amount do not count.
LEMMA AmountsOf ==
  ASSUME NEW U, IsFiniteSet(U), \A i \in U : i.left \in Nat, NEW S \in SUBSET U,
         NEW T \in SUBSET S, \A i \in S \ T : i.left = 0
  PROVE  Amounts(S) = Amounts(T)
<1> DEFINE G == Lefts(U)
<1>1. /\ Amounts(S) = SumOver(G, S) /\ IsFiniteSet(S)
      /\ \A i \in S : G[i] = i.left /\ G[i] \in Int
  BY AmountsIs
<1>2. Amounts(T) = SumOver(G, T)
  <2>1. T \in SUBSET U OBVIOUS
  <2> HIDE DEF G
  <2> QED BY <2>1, AmountsIs DEF G
<1> HIDE DEF G
<1>3. \A i \in S \ T : G[i] = 0 BY <1>1
<1>4. SumOver(G, S) = SumOver(G, T) BY <1>1, <1>3, SumNothing
<1> QED BY <1>1, <1>2, <1>4

ListSaysTotals(items, from, to, day) ==
  LET list == ReportDueItems(items, from, to)
      late == {i \in list : i.status = "overdue"}
  IN /\ Amounts(late) = Amounts(Overdue(items, day))
     /\ Amounts(list \ late) = Amounts(Scheduled(items, from, to, day))

LEMMA ListIsTotals ==
  ASSUME NEW b \in BooksType(MaxDay), NEW from \in Days, NEW to \in Days, NEW day \in Int,
         NEW items, items = AllItems(b, from, to, day)
  PROVE  ListSaysTotals(items, from, to, day)
<1> DEFINE list == ReportDueItems(items, from, to)
           late == {i \in list : i.status = "overdue"}
           over == Overdue(items, day)
           ahead == Scheduled(items, from, to, day)
           rest == list \ late
<1>1. IsFiniteSet(items) /\ \A i \in items : i.left \in Nat /\ i.due \in Nat BY ItemsSound DEF ItemSound
<1>2. \A i \in items : /\ i.due \in from..to \/ (i.due < from /\ i.due < day)
                       /\ i.left > 0 => (i.status = "overdue" <=> i.due < day)
  BY ItemsSound DEF ItemSound
<1>3. from \in Nat /\ to \in Nat BY DaysAre
<1>4. late \in SUBSET items /\ rest \in SUBSET items BY DEF ReportDueItems
<1>5. over \in SUBSET late /\ \A i \in late \ over : i.left = 0
  BY <1>1, <1>2, <1>3 DEF ReportDueItems, Overdue, Lines
<1>6. ahead \in SUBSET rest /\ \A i \in rest \ ahead : i.left = 0
  BY <1>1, <1>2, <1>3 DEF ReportDueItems, Scheduled, Lines
<1> HIDE DEF list, late, over, ahead, rest
<1>7. Amounts(late) = Amounts(over) BY <1>1, <1>4, <1>5, AmountsOf
<1>8. Amounts(rest) = Amounts(ahead) BY <1>1, <1>4, <1>6, AmountsOf
<1> QED BY <1>7, <1>8 DEF ListSaysTotals, list, late, over, ahead, rest

LEMMA ListMatchesTotalsHolds == ReportsInv => ListMatchesTotals
<1> SUFFICES ASSUME ReportsInv, Finished PROVE ListMatchesTotals BY DEF ListMatchesTotals
<1> DEFINE items == r.due \cup r.plans
           b == r.view[1]
           from == r.from
           to == r.to
           day == r.today
<1>1. CashSound(r) /\ r.step = "done" /\ r.today \in Until(today)
  BY DEF ReportsInv, ReportSound, Finished
<1>2. /\ DueIn(r, r.view[1]) /\ PlansIn(r, r.view[1]) /\ from \in Days /\ to \in Days
      /\ Sound(b, MaxDay)
  BY <1>1 DEF CashSound
<1>3. items = AllItems(b, from, to, day) BY <1>2 DEF DueIn, PlansIn, AllItems
<1>4. b \in BooksType(MaxDay) /\ day \in Int BY <1>1, <1>2, DaysAre DEF Sound, Until
<1> HIDE DEF items, b, from, to, day
<1>5. ListSaysTotals(items, from, to, day) BY <1>2, <1>3, <1>4, ListIsTotals
<1>6. ListSaysTotals(r.due \cup r.plans, r.from, r.to, r.today)
  BY <1>5 DEF items, from, to, day
<1> QED BY ONLY <1>6 DEF ListMatchesTotals, ListSaysTotals

-----------------------------------------------------------------------------
(* What the items of all days amount to.                                   *)

ItemsOn(items, D) == {i \in items : i.due \in D}
DuesIn(b, kind, D) == {k \in Live(b, kind) : b.dues[k].due \in D}
DueDays(b) == [k \in 1..Len(b.dues) |-> b.dues[k].due]

LEMMA AmountsUnion ==
  ASSUME NEW S, NEW T, IsFiniteSet(S), IsFiniteSet(T), S \cap T = {},
         \A i \in S \cup T : i.left \in Nat
  PROVE  Amounts(S \cup T) = Amounts(S) + Amounts(T) /\ Amounts(S) \in Nat /\ Amounts(T) \in Nat
<1> DEFINE U == S \cup T
           G == Lefts(U)
<1>1. IsFiniteSet(U) /\ \A i \in U : i.left \in Nat BY FS_Union
<1>2. U \in SUBSET U /\ S \in SUBSET U /\ T \in SUBSET U OBVIOUS
<1> HIDE DEF U
<1>3. Amounts(U) = SumOver(G, U) /\ \A i \in U : G[i] \in Int BY <1>1, <1>2, AmountsIs
<1>4. Amounts(S) = SumOver(G, S) /\ Amounts(S) \in Nat BY <1>1, <1>2, AmountsIs
<1>5. Amounts(T) = SumOver(G, T) /\ Amounts(T) \in Nat BY <1>1, <1>2, AmountsIs
<1> HIDE DEF G
<1>6. SumOver(G, S \cup T) = SumOver(G, S) + SumOver(G, T) BY <1>3, SumUnion DEF U
<1> QED BY <1>3, <1>4, <1>5, <1>6 DEF U

LEMMA LeftsTyped ==
  ASSUME NEW b \in BooksType(MaxDay), NEW kind, NEW day \in Int, NEW D
  PROVE  /\ IsFiniteSet(DuesIn(b, kind, D)) /\ DuesIn(b, kind, D) \subseteq 1..Len(b.dues)
         /\ \A k \in 1..Len(b.dues) : LeftOn(b, day)[k] = Left(b, k, day) /\ LeftOn(b, day)[k] \in Nat
         /\ SumOver(LeftOn(b, day), DuesIn(b, kind, D)) \in Nat
<1> DEFINE S == DuesIn(b, kind, D)
           F == LeftOn(b, day)
<1>1. S \subseteq 1..Len(b.dues) BY LiveAre DEF DuesIn
<1>2. IsFiniteSet(S) BY <1>1, Lengths, FS_Subset
<1>3. \A k \in 1..Len(b.dues) : F[k] = Left(b, k, day) /\ F[k] \in Nat BY SettledTyped DEF LeftOn
<1> HIDE DEF S, F
<1>4. SumOver(F, S) \in Nat BY <1>1, <1>2, <1>3, SumNat
<1> QED BY <1>1, <1>2, <1>3, <1>4 DEF S, F

\* One arm of the union.
LEMMA ArmAmounts ==
  ASSUME NEW b \in BooksType(MaxDay), NEW from, from = 1, NEW day \in Int, NEW kind, NEW D
  PROVE  Amounts(ItemsOn(ArmOf(b, kind, from, MaxDay, day), D))
           = SumOver(LeftOn(b, day), DuesIn(b, kind, D))
<1> DEFINE U == ArmOf(b, kind, from, MaxDay, day)
           S == DuesIn(b, kind, D)
           m == [k \in 1..Len(b.dues) |-> ItemOf(b, kind, k, day)]
           f == Lefts(U)
           h == LeftOn(b, day)
           T == ItemsOn(U, D)
<1>1. from \in Days /\ MaxDay \in Days BY DaysAre
<1>2. IsFiniteSet(U) /\ \A i \in U : i.left \in Nat BY <1>1, ArmSound DEF ItemSound
<1>3. Live(b, kind) \subseteq 1..Len(b.dues) /\ \A k \in Live(b, kind) : b.dues[k].due \in from..MaxDay
  BY LiveAre, DueParts, DaysAre
<1>4. Carried(b, Live(b, kind), from, MaxDay, day) = Live(b, kind) BY <1>3 DEF Carried
<1>5. U = {ItemOf(b, kind, k, day) : k \in Live(b, kind)} BY <1>4 DEF ArmOf, ItemOf
<1>6. ASSUME NEW k \in 1..Len(b.dues)
      PROVE  /\ m[k] = ItemOf(b, kind, k, day) /\ m[k].due = b.dues[k].due
             /\ m[k].id = <<kind, k>> /\ m[k].left = Left(b, k, day)
  BY ItemIs DEF ItemOf, Left
<1>7. T = Values(m, S)
  <2>1. U = {m[k] : k \in Live(b, kind)} BY <1>3, <1>5, <1>6
  <2>2. \A k \in Live(b, kind) : m[k].due = b.dues[k].due BY <1>3, <1>6
  <2> HIDE DEF U, m
  <2> QED BY <2>1, <2>2 DEF ItemsOn, DuesIn, Values
<1>8. S \subseteq 1..Len(b.dues) /\ IsFiniteSet(S) /\ \A k \in S : h[k] = Left(b, k, day) /\ h[k] \in Nat
  BY LeftsTyped
<1>9. T \in SUBSET U BY DEF ItemsOn
<1>10. OneOrigin(m, S)
  <2>1. \A k \in S : m[k].id = <<kind, k>> BY <1>6, <1>8
  <2> HIDE DEF m, S
  <2>2. \A k, j \in S : m[k] = m[j] => <<kind, k>> = <<kind, j>> BY <2>1
  <2> QED BY <2>2 DEF OneOrigin
<1>11. Along(f, m, h, S)
  <2> SUFFICES ASSUME NEW k \in S PROVE f[m[k]] \in Int /\ h[k] = f[m[k]] BY DEF Along
  <2>1. k \in 1..Len(b.dues) /\ m[k] \in U BY <1>7, <1>8, <1>9 DEF Values
  <2>2. f[m[k]] = m[k].left BY <2>1 DEF Lefts
  <2>3. m[k].left = h[k] BY <1>6, <1>8, <2>1
  <2> HIDE DEF f, m, h, S
  <2> QED BY <1>8, <2>2, <2>3
<1> HIDE DEF U, S, m, f, h, T
<1>12. SumOver(f, Values(m, S)) = SumOver(h, S) BY <1>8, <1>10, <1>11, SumImage
<1>13. Amounts(T) = SumOver(f, T) BY <1>2, <1>9, AmountsIs DEF f
<1>14. Amounts(T) = SumOver(h, S) BY <1>7, <1>12, <1>13
<1> QED BY <1>14 DEF T, U, S, h

\* Nothing of a card is settled by more than it is worth.
LEMMA CardLeft ==
  ASSUME NEW b \in BooksType(MaxDay), NEW day \in Int, NEW k \in Live(b, "card")
  PROVE  /\ k \in 1..Len(b.dues)
         /\ Left(b, k, day) = b.dues[k].amount - Settled(b, k, day)
<1>1. k \in 1..Len(b.dues) /\ b.dues[k].kind = "card" BY DEF Live
<1>2. Settled(b, k, day) = Clipped(CardSettled(b, k, day), b.dues[k].amount) BY <1>1 DEF Settled
<1>3. Net(b, k, day) \in Int BY NetIs
<1>4. b.dues[k].amount \in Nat /\ MarkedPaid(b, k) \in {0, b.dues[k].amount} BY <1>1, SettledTyped
<1>5. CardSettled(b, k, day) \in Int BY <1>3, <1>4 DEF CardSettled
<1>6. Settled(b, k, day) <= b.dues[k].amount /\ Settled(b, k, day) \in Int
  BY <1>2, <1>4, <1>5 DEF Clipped, AtMost, AtLeast
<1>7. Left(b, k, day) = IF b.dues[k].amount - Settled(b, k, day) > 0
                        THEN b.dues[k].amount - Settled(b, k, day) ELSE 0
  BY <1>1, SettledTyped
<1> QED BY <1>1, <1>4, <1>6, <1>7

CardsOn(b, d) == {k \in Live(b, "card") : b.dues[k].due = d}

LEMMA CardLineLeft ==
  ASSUME NEW b \in BooksType(MaxDay), NEW from, from = 1, NEW day \in Int, NEW d
  PROVE  /\ AskedOn(b, from, MaxDay, day, d) = CardsOn(b, d)
         /\ CardLine(b, from, MaxDay, day, d).left
              = SumOver(LeftOn(b, day), CardsOn(b, d))
         /\ CardLine(b, from, MaxDay, day, d).due = d
         /\ CardLine(b, from, MaxDay, day, d).id = <<"card", d>>
<1> DEFINE S == AskedOn(b, from, MaxDay, day, d)
           a == AmountsDue(b)
           s == SettledOn(b, day)
           x == LeftOn(b, day)
<1>1. from \in Days /\ MaxDay \in Days BY DaysAre
<1>2. Live(b, "card") \subseteq 1..Len(b.dues)
      /\ \A k \in Live(b, "card") : b.dues[k].due \in from..MaxDay
  BY LiveAre, DueParts, DaysAre
<1>3. Asked(b, from, MaxDay, day) = Live(b, "card") BY <1>2 DEF Asked
<1>4. S = CardsOn(b, d) BY <1>3 DEF AskedOn, CardsOn
<1>5. /\ IsFiniteSet(S) /\ S \subseteq 1..Len(b.dues)
      /\ CardTotal(b, from, MaxDay, day, d) = SumOver(a, S)
      /\ CardPaid(b, from, MaxDay, day, d) = SumOver(s, S)
  BY <1>1, CardSums
<1>6. \A k \in S : x[k] \in Nat /\ s[k] \in Int /\ a[k] = x[k] + s[k]
  <2> SUFFICES ASSUME NEW k \in S PROVE x[k] \in Nat /\ s[k] \in Int /\ a[k] = x[k] + s[k] OBVIOUS
  <2>1. k \in Live(b, "card") /\ k \in 1..Len(b.dues) BY <1>4, <1>5 DEF CardsOn
  <2>2. /\ x[k] = Left(b, k, day) /\ s[k] = Settled(b, k, day) /\ a[k] = b.dues[k].amount
        /\ Left(b, k, day) \in Nat /\ Settled(b, k, day) \in Int /\ b.dues[k].amount \in Nat
    BY <2>1, SettledTyped DEF LeftOn, SettledOn, AmountsDue
  <2>3. Left(b, k, day) = b.dues[k].amount - Settled(b, k, day) BY <2>1, CardLeft
  <2> QED BY <2>2, <2>3
<1>7. /\ CardLine(b, from, MaxDay, day, d).left
           = AtLeast(CardTotal(b, from, MaxDay, day, d) - CardPaid(b, from, MaxDay, day, d), 0)
      /\ CardLine(b, from, MaxDay, day, d).due = d
      /\ CardLine(b, from, MaxDay, day, d).id = <<"card", d>>
  BY ItemIs DEF CardLine
<1> HIDE DEF S, a, s, x
<1>8. \A k \in S : x[k] \in Int /\ s[k] \in Int /\ a[k] = x[k] + s[k] BY <1>6
<1>9. SumOver(a, S) = SumOver(x, S) + SumOver(s, S)
  <2>1. IsFiniteSet(S) BY <1>5
  <2> QED BY ONLY <1>8, <2>1, SumPlus
<1>10. SumOver(x, S) \in Nat BY <1>5, <1>6, SumNat
<1>11. SumOver(s, S) \in Int BY <1>5, <1>6, SumType
<1>12. CardLine(b, from, MaxDay, day, d).left = SumOver(x, S)
  BY <1>5, <1>7, <1>9, <1>10, <1>11 DEF AtLeast
<1> QED BY <1>4, <1>7, <1>12 DEF S, x

LEMMA CardAmounts ==
  ASSUME NEW b \in BooksType(MaxDay), NEW from, from = 1, NEW day \in Int, NEW D
  PROVE  Amounts(ItemsOn(CardItems(b, from, MaxDay, day), D))
           = SumOver(LeftOn(b, day), DuesIn(b, "card", D))
<1> DEFINE U == CardItems(b, from, MaxDay, day)
           S == DuesIn(b, "card", D)
           L == CardLines(b, from, MaxDay, day)
           R == L \cap D
           m == [d \in L |-> CardLine(b, from, MaxDay, day, d)]
           f == Lefts(U)
           g == LeftOn(b, day)
           h == [d \in R |-> CardLine(b, from, MaxDay, day, d).left]
           T == ItemsOn(U, D)
           due == DueDays(b)
<1>0. b \in BooksType(MaxDay) /\ from = 1 /\ day \in Int OBVIOUS
<1>1. from \in Days /\ MaxDay \in Days BY DaysAre
<1>2. IsFiniteSet(U) /\ \A i \in U : i.left \in Nat BY <1>1, CardLinesSound DEF ItemSound
<1>3. Live(b, "card") \subseteq 1..Len(b.dues)
      /\ \A k \in Live(b, "card") : b.dues[k].due \in from..MaxDay
  BY LiveAre, DueParts, DaysAre
<1>4. L = {b.dues[k].due : k \in Live(b, "card")}
  <2>1. Asked(b, from, MaxDay, day) = Live(b, "card") BY <1>3 DEF Asked
  <2>2. \A k \in Live(b, "card") : b.dues[k].due >= from BY <1>3
  <2> QED BY <2>1, <2>2 DEF CardLines
<1>5. U = {m[d] : d \in L} /\ \A d \in L : m[d] = CardLine(b, from, MaxDay, day, d)
  BY CardItemsAre
<1>6. \A d \in L : m[d].due = d /\ m[d].id = <<"card", d>>
  <2> SUFFICES ASSUME NEW d \in L PROVE m[d].due = d /\ m[d].id = <<"card", d>> OBVIOUS
  <2> DEFINE line == CardLine(b, from, MaxDay, day, d)
  <2>1. line.due = d /\ line.id = <<"card", d>> BY ONLY <1>0, CardLineLeft
  <2>2. m[d] = line BY <1>5
  <2> HIDE DEF m, line
  <2> QED BY <2>1, <2>2
<1>7. T = Values(m, R)
  <2> HIDE DEF U, m, L
  <2> QED BY <1>5, <1>6 DEF ItemsOn, Values
<1>8. IsFiniteSet(R)
  <2>1. L \subseteq 1..MaxDay BY <1>3, <1>4
  <2>2. IsFiniteSet(1..MaxDay) BY DaysAre, FS_Interval
  <2> QED BY <2>1, <2>2, FS_Subset
<1>9. OneOrigin(m, R)
  <2> HIDE DEF m, L
  <2>1. \A x, y \in R : m[x] = m[y] => <<"card", x>> = <<"card", y>> BY <1>6
  <2> QED BY <2>1 DEF OneOrigin
<1>10. Along(f, m, h, R)
  <2> SUFFICES ASSUME NEW d \in R PROVE f[m[d]] \in Int /\ h[d] = f[m[d]] BY DEF Along
  <2>1. m[d] \in U BY <1>5
  <2>2. f[m[d]] = m[d].left /\ m[d].left \in Nat BY <1>2, <2>1 DEF Lefts
  <2>3. h[d] = m[d].left BY <1>5
  <2> HIDE DEF f, m, h, R
  <2> QED BY <2>2, <2>3
<1>11. IsFiniteSet(S) /\ S \subseteq 1..Len(b.dues) /\ \A k \in S : g[k] \in Int BY LeftsTyped
<1>12. \A k \in S : due[k] \in R /\ due[k] = b.dues[k].due BY <1>4, <1>11 DEF DuesIn, DueDays
<1>13. \A d \in R : h[d] = SumOver(g, Group(due, S, d))
  <2> SUFFICES ASSUME NEW d \in R PROVE h[d] = SumOver(g, Group(due, S, d)) OBVIOUS
  <2> DEFINE line == CardLine(b, from, MaxDay, day, d)
  <2>1. line.left = SumOver(g, CardsOn(b, d))
    BY ONLY <1>0, CardLineLeft
  <2>3. h[d] = line.left OBVIOUS
  <2>2. CardsOn(b, d) = Group(due, S, d)
    BY <1>12 DEF DuesIn, Group, CardsOn
  <2> HIDE DEF h, g, line
  <2> QED BY <2>1, <2>2, <2>3
<1>14. T \in SUBSET U BY DEF ItemsOn
<1> HIDE DEF U, S, L, R, m, f, g, h, T, due
<1>15. Amounts(T) = SumOver(f, T) BY <1>2, <1>14, AmountsIs DEF f
<1>16. SumOver(f, Values(m, R)) = SumOver(h, R) BY <1>8, <1>9, <1>10, SumImage
<1>17. SumOver(h, R) = SumOver(g, S)
  <2>1. (\A k \in S : due[k] \in R) /\ (\A k \in S : g[k] \in Int) /\ IsFiniteSet(S)
    BY <1>11, <1>12
  <2> QED BY ONLY <1>8, <1>13, <2>1, SumGroups
<1>18. Amounts(T) = SumOver(g, S) BY <1>7, <1>15, <1>16, <1>17
<1> QED BY <1>18 DEF T, U, g, S

OthersOn(b, day, D) == {k \in DuesIn(b, "other", D) : b.dues[k].due > day}

LEMMA OtherAmounts ==
  ASSUME NEW b \in BooksType(MaxDay), NEW from, from = 1, NEW day \in Int, NEW D
  PROVE  Amounts(ItemsOn(OtherItems(b, from, MaxDay, day), D))
           = SumOver(AmountsDue(b), OthersOn(b, day, D))
<1> DEFINE U == OtherItems(b, from, MaxDay, day)
           S == OthersOn(b, day, D)
           m == [k \in 1..Len(b.dues) |-> OtherLine(b, k)]
           f == Lefts(U)
           h == AmountsDue(b)
           T == ItemsOn(U, D)
           A == OtherAhead(b, from, MaxDay, day)
<1>1. from \in Days /\ MaxDay \in Days BY DaysAre
<1>2. IsFiniteSet(U) /\ \A i \in U : i.left \in Nat BY <1>1, OtherLinesSound DEF ItemSound
<1>3. Live(b, "other") \subseteq 1..Len(b.dues)
      /\ \A k \in Live(b, "other") : b.dues[k].due \in from..MaxDay
  BY LiveAre, DueParts, DaysAre
<1>4. A \subseteq 1..Len(b.dues) /\ S = {k \in A : b.dues[k].due \in D}
  BY <1>3 DEF OtherAhead, OthersOn, DuesIn
<1>5. U = {OtherLine(b, k) : k \in A} BY DEF OtherItems, OtherLine, OtherAhead
<1>6. ASSUME NEW k \in 1..Len(b.dues)
      PROVE  /\ m[k] = OtherLine(b, k) /\ m[k].due = b.dues[k].due
             /\ m[k].id = <<"other", k>> /\ m[k].left = b.dues[k].amount
             /\ h[k] = b.dues[k].amount /\ h[k] \in Nat
  <2> DEFINE line == OtherLine(b, k)
             a == b.dues[k].amount
  <2>1. line.due = b.dues[k].due /\ line.id = <<"other", k>> /\ line.left = AtLeast(a - 0, 0)
    BY ItemIs DEF OtherLine
  <2>2. a \in Nat BY DueParts
  <2>3. AtLeast(a - 0, 0) = a BY <2>2 DEF AtLeast
  <2>4. h[k] = a BY DEF AmountsDue
  <2>5. m[k] = line OBVIOUS
  <2> HIDE DEF line, m, h
  <2> QED BY <2>1, <2>2, <2>3, <2>4, <2>5 DEF line
<1>7. T = Values(m, S)
  <2>1. U = {m[k] : k \in A} BY <1>4, <1>5, <1>6
  <2>2. \A k \in A : m[k].due = b.dues[k].due BY <1>4, <1>6
  <2>3. T = {i \in U : i.due \in D} BY DEF ItemsOn
  <2> DEFINE V == Values(m, S)
  <2>4. V = {m[k] : k \in S} BY DEF Values
  <2>5. S = {k \in A : b.dues[k].due \in D} BY <1>4
  <2> HIDE DEF U, m, A, S, T, V
  <2>6. ASSUME NEW i \in T PROVE i \in V
    <3>1. PICK k \in A : i = m[k] BY ONLY <2>1, <2>3, <2>6
    <3>2. i.due \in D BY ONLY <2>3, <2>6
    <3>3. k \in S BY ONLY <2>2, <2>5, <3>1, <3>2
    <3> QED BY ONLY <2>4, <3>1, <3>3
  <2>7. ASSUME NEW i \in V PROVE i \in T
    <3>1. PICK k \in S : i = m[k] BY ONLY <2>4, <2>7
    <3>2. k \in A /\ b.dues[k].due \in D BY ONLY <2>5, <3>1
    <3>3. i.due \in D BY ONLY <2>2, <3>1, <3>2
    <3>4. i \in U BY ONLY <2>1, <3>1, <3>2
    <3> QED BY ONLY <2>3, <3>3, <3>4
  <2>8. T = V BY ONLY <2>6, <2>7
  <2> QED BY ONLY <2>8 DEF V
<1>8. S \subseteq 1..Len(b.dues) /\ IsFiniteSet(S)
  <2>1. S \subseteq 1..Len(b.dues) BY <1>4
  <2> QED BY <2>1, Lengths, FS_Subset
<1>9. T \in SUBSET U BY DEF ItemsOn
<1>10. OneOrigin(m, S)
  <2>1. \A k \in S : m[k].id = <<"other", k>> BY <1>6, <1>8
  <2> HIDE DEF m, S
  <2>2. \A k, j \in S : m[k] = m[j] => <<"other", k>> = <<"other", j>> BY <2>1
  <2> QED BY <2>2 DEF OneOrigin
<1>11. Along(f, m, h, S)
  <2> SUFFICES ASSUME NEW k \in S PROVE f[m[k]] \in Int /\ h[k] = f[m[k]] BY DEF Along
  <2>1. k \in 1..Len(b.dues) /\ m[k] \in U BY <1>7, <1>8, <1>9 DEF Values
  <2>2. f[m[k]] = m[k].left BY <2>1 DEF Lefts
  <2>3. m[k].left = h[k] /\ h[k] \in Nat BY <1>6, <2>1
  <2> HIDE DEF f, m, h, S
  <2> QED BY <2>2, <2>3
<1> HIDE DEF U, S, m, f, h, T, A
<1>12. SumOver(f, Values(m, S)) = SumOver(h, S) BY <1>8, <1>10, <1>11, SumImage
<1>13. Amounts(T) = SumOver(f, T) BY <1>2, <1>9, AmountsIs DEF f
<1>14. Amounts(T) = SumOver(h, S) BY <1>7, <1>12, <1>13
<1> QED BY <1>14 DEF T, U, S, h

\* The plan's occurrences that are ahead, with the day on which each is paid in D.
PlansOn(b, D) == {n \in Occurrences(b, MaxDay) : Event(b, n) <= MaxDay /\ Event(b, n) \in D}

LEMMA PlanAmounts ==
  ASSUME NEW b \in BooksType(MaxDay), NEW from, from = 1, NEW day \in Int, NEW D
  PROVE  /\ Amounts(ItemsOn(PlanItems(b, from, MaxDay, day), D))
              = Cardinality(PlansOn(b, D)) * b.plan.amount
         /\ IsFiniteSet(PlansOn(b, D))
<1> DEFINE U == PlanItems(b, from, MaxDay, day)
           S == PlansOn(b, D)
           m == [n \in Days |-> PlanLine(b, n, day)]
           f == Lefts(U)
           a == b.plan.amount
           h == [n \in Days |-> a]
           T == ItemsOn(U, D)
           A == PlansAhead(b, from, MaxDay, day)
<1>1. from \in Days /\ MaxDay \in Days BY DaysAre
<1>2. IsFiniteSet(U) /\ \A i \in U : i.left \in Nat BY <1>1, PlanLinesSound DEF ItemSound
<1>3. ASSUME NEW n \in Days
      PROVE  /\ m[n].due = Event(b, n) /\ m[n].id = <<"plan", n>> /\ m[n].left = a
             /\ m[n] = PlanLine(b, n, day) /\ Event(b, n) \in Nat /\ Event(b, n) >= from
  <2> DEFINE line == PlanLine(b, n, day)
  <2>1. line.due = Event(b, n) /\ line.id = <<"plan", n>> /\ line.left = AtLeast(a - 0, 0)
    BY ItemIs DEF PlanLine
  <2>2. a \in Nat /\ Event(b, n) \in Nat /\ Event(b, n) >= n BY EventIs
  <2>3. AtLeast(a - 0, 0) = a BY <2>2 DEF AtLeast
  <2>4. m[n] = line OBVIOUS
  <2>5. Event(b, n) >= from BY <2>2, DaysAre
  <2> HIDE DEF line, m, a
  <2> QED BY <2>1, <2>2, <2>3, <2>4, <2>5 DEF line
<1>4. A \subseteq Days /\ A = {n \in Occurrences(b, MaxDay) : Event(b, n) <= MaxDay}
  <2>1. Occurrences(b, MaxDay) \subseteq Days BY DEF Occurrences
  <2>2. \A n \in Occurrences(b, MaxDay) : BelongsToReport(Event(b, n), from, MaxDay, day)
                                          <=> Event(b, n) <= MaxDay
    BY <1>3, <2>1 DEF BelongsToReport
  <2> QED BY <2>1, <2>2 DEF PlansAhead
<1>5. S = {n \in A : Event(b, n) \in D} BY <1>4 DEF PlansOn
<1>6. U = {PlanLine(b, n, day) : n \in A} BY DEF PlanItems, PlanLine, PlansAhead
<1>7. T = Values(m, S)
  <2>1. U = {m[n] : n \in A} BY <1>4, <1>6
  <2>2. \A n \in A : m[n].due = Event(b, n) BY <1>3, <1>4
  <2> HIDE DEF U, m, A, S
  <2> QED BY <1>5, <2>1, <2>2 DEF ItemsOn, Values
<1>8. S \subseteq Days /\ IsFiniteSet(S)
  <2>1. S \subseteq Days BY <1>4, <1>5
  <2>2. IsFiniteSet(Days) BY DaysAre, FS_Interval
  <2> QED BY <2>1, <2>2, FS_Subset
<1>9. T \in SUBSET U BY DEF ItemsOn
<1>10. OneOrigin(m, S)
  <2>1. \A n \in S : m[n].id = <<"plan", n>> BY <1>3, <1>8
  <2> HIDE DEF m, S
  <2>2. \A n, j \in S : m[n] = m[j] => <<"plan", n>> = <<"plan", j>> BY <2>1
  <2> QED BY <2>2 DEF OneOrigin
<1>11. a \in Int /\ \A n \in S : h[n] = a
  <2>1. a \in Nat BY PlanParts
  <2> QED BY <1>8, <2>1
<1>12. Along(f, m, h, S)
  <2> SUFFICES ASSUME NEW n \in S PROVE f[m[n]] \in Int /\ h[n] = f[m[n]] BY DEF Along
  <2>1. n \in Days /\ m[n] \in U BY <1>7, <1>8, <1>9 DEF Values
  <2>2. f[m[n]] = m[n].left BY <2>1 DEF Lefts
  <2>3. m[n].left = a /\ h[n] = a BY <1>3, <1>11, <2>1
  <2> HIDE DEF f, m, h, S, a
  <2> QED BY <1>11, <2>2, <2>3
<1> HIDE DEF U, S, m, f, h, T, A, a
<1>13. SumOver(f, Values(m, S)) = SumOver(h, S) BY <1>8, <1>10, <1>12, SumImage
<1>14. SumOver(h, S) = Cardinality(S) * a BY <1>8, <1>11, SumConstant
<1>15. Amounts(T) = SumOver(f, T) BY <1>2, <1>9, AmountsIs DEF f
<1>16. Amounts(T) = Cardinality(S) * a BY <1>7, <1>13, <1>14, <1>15
<1> QED BY <1>8, <1>16 DEF T, U, S, a

\* The arms have no item in common.
LEMMA ArmTags ==
  ASSUME NEW b \in BooksType(MaxDay), NEW from, NEW day
  PROVE  /\ \A i \in ReceivableItems(b, from, MaxDay, day) :
              i.id[1] = "receivable" /\ i.kind = "receivable" /\ i.side = "inflow"
         /\ \A i \in ContributionItems(b, from, MaxDay, day) :
              i.id[1] = "contribution" /\ i.kind = "contribution" /\ i.side = "inflow"
         /\ \A i \in CardItems(b, from, MaxDay, day) :
              i.id[1] = "card" /\ i.kind = "card" /\ i.side = "outflow"
         /\ \A i \in TaxItems(b, from, MaxDay, day) :
              i.id[1] = "tax" /\ i.kind = "tax" /\ i.side = "outflow"
         /\ \A i \in OtherItems(b, from, MaxDay, day) :
              i.id[1] = "other" /\ i.kind = "other" /\ i.side = "outflow"
         /\ \A i \in PlanItems(b, from, MaxDay, day) :
              i.id[1] = "plan" /\ i.kind \in {"card", "other"} /\ i.side = "outflow"
<1>1. ASSUME NEW kind, NEW i \in ArmOf(b, kind, from, MaxDay, day)
      PROVE  /\ i.id[1] = kind /\ i.kind = kind
             /\ i.side = IF kind \in {"receivable", "contribution"} THEN "inflow" ELSE "outflow"
  <2>1. PICK k \in Carried(b, Live(b, kind), from, MaxDay, day) : i = ItemOf(b, kind, k, day)
    BY DEF ArmOf, ItemOf
  <2>2. /\ i.id = <<kind, k>> /\ i.kind = kind
        /\ i.side = IF kind \in {"receivable", "contribution"} THEN "inflow" ELSE "outflow"
    BY <2>1, ItemIs DEF ItemOf
  <2>3. <<kind, k>>[1] = kind OBVIOUS
  <2> QED BY <2>2, <2>3
<1>2. \A i \in ReceivableItems(b, from, MaxDay, day) :
        i.id[1] = "receivable" /\ i.kind = "receivable" /\ i.side = "inflow"
  <2> DEFINE kind == "receivable"
  <2>1. ReceivableItems(b, from, MaxDay, day) = ArmOf(b, kind, from, MaxDay, day)
        /\ kind \in {"receivable", "contribution"}
    BY DEF ReceivableItems
  <2> HIDE DEF kind
  <2>2. \A i \in ReceivableItems(b, from, MaxDay, day) :
          i.id[1] = kind /\ i.kind = kind /\ i.side = "inflow"
    BY <1>1, <2>1
  <2> QED BY <2>2 DEF kind
<1>3. \A i \in ContributionItems(b, from, MaxDay, day) :
        i.id[1] = "contribution" /\ i.kind = "contribution" /\ i.side = "inflow"
  <2> DEFINE kind == "contribution"
  <2>1. ContributionItems(b, from, MaxDay, day) = ArmOf(b, kind, from, MaxDay, day)
        /\ kind \in {"receivable", "contribution"}
    BY DEF ContributionItems
  <2> HIDE DEF kind
  <2>2. \A i \in ContributionItems(b, from, MaxDay, day) :
          i.id[1] = kind /\ i.kind = kind /\ i.side = "inflow"
    BY <1>1, <2>1
  <2> QED BY <2>2 DEF kind
<1>4. \A i \in TaxItems(b, from, MaxDay, day) :
        i.id[1] = "tax" /\ i.kind = "tax" /\ i.side = "outflow"
  <2> DEFINE kind == "tax"
  <2>1. TaxItems(b, from, MaxDay, day) = ArmOf(b, kind, from, MaxDay, day)
        /\ kind \notin {"receivable", "contribution"}
    BY DEF TaxItems
  <2> HIDE DEF kind
  <2>2. \A i \in TaxItems(b, from, MaxDay, day) :
          i.id[1] = kind /\ i.kind = kind /\ i.side = "outflow"
    BY <1>1, <2>1
  <2> QED BY <2>2 DEF kind
<1>5. \A i \in CardItems(b, from, MaxDay, day) :
        i.id[1] = "card" /\ i.kind = "card" /\ i.side = "outflow"
  <2> SUFFICES ASSUME NEW i \in CardItems(b, from, MaxDay, day)
               PROVE  i.id[1] = "card" /\ i.kind = "card" /\ i.side = "outflow"
    OBVIOUS
  <2>1. PICK d \in CardLines(b, from, MaxDay, day) : i = CardLine(b, from, MaxDay, day, d)
    BY CardItemsAre
  <2>2. i.id = <<"card", d>> /\ i.kind = "card" /\ i.side = "outflow"
    BY <2>1, ItemIs DEF CardLine
  <2> QED BY <2>2
<1>6. \A i \in OtherItems(b, from, MaxDay, day) :
        i.id[1] = "other" /\ i.kind = "other" /\ i.side = "outflow"
  <2> SUFFICES ASSUME NEW i \in OtherItems(b, from, MaxDay, day)
               PROVE  i.id[1] = "other" /\ i.kind = "other" /\ i.side = "outflow"
    OBVIOUS
  <2>1. PICK k : i = OtherLine(b, k) BY DEF OtherItems, OtherLine
  <2>2. i.id = <<"other", k>> /\ i.kind = "other" /\ i.side = "outflow"
    BY <2>1, ItemIs DEF OtherLine
  <2> QED BY <2>2
<1>7. \A i \in PlanItems(b, from, MaxDay, day) :
        i.id[1] = "plan" /\ i.kind \in {"card", "other"} /\ i.side = "outflow"
  <2> SUFFICES ASSUME NEW i \in PlanItems(b, from, MaxDay, day)
               PROVE  i.id[1] = "plan" /\ i.kind \in {"card", "other"} /\ i.side = "outflow"
    OBVIOUS
  <2>1. PICK n : i = PlanLine(b, n, day) BY DEF PlanItems, PlanLine
  <2> DEFINE kind == IF b.plan.card THEN "card" ELSE "other"
  <2>2. /\ i.id = <<"plan", n>> /\ i.kind = kind
        /\ i.side = IF kind \in {"receivable", "contribution"} THEN "inflow" ELSE "outflow"
    BY <2>1, ItemIs DEF PlanLine
  <2>3. kind \in {"card", "other"} OBVIOUS
  <2> QED BY <2>2, <2>3
<1> QED BY <1>2, <1>3, <1>4, <1>5, <1>6, <1>7

\* What all items on the days of D amount to: the inflow, the outflow, and both.
InflowOn(b, day, D) ==
  SumOver(LeftOn(b, day), DuesIn(b, "receivable", D))
    + SumOver(LeftOn(b, day), DuesIn(b, "contribution", D))
OutflowOn(b, day, D) ==
  SumOver(LeftOn(b, day), DuesIn(b, "card", D)) + SumOver(LeftOn(b, day), DuesIn(b, "tax", D))
    + SumOver(AmountsDue(b), OthersOn(b, day, D)) + Cardinality(PlansOn(b, D)) * b.plan.amount

ReceivablesOn(b, from, day, D) == ItemsOn(ReceivableItems(b, from, MaxDay, day), D)
ContributionsOn(b, from, day, D) == ItemsOn(ContributionItems(b, from, MaxDay, day), D)
CardLinesOn(b, from, day, D) == ItemsOn(CardItems(b, from, MaxDay, day), D)
TaxesOn(b, from, day, D) == ItemsOn(TaxItems(b, from, MaxDay, day), D)
OtherLinesOn(b, from, day, D) == ItemsOn(OtherItems(b, from, MaxDay, day), D)
PlanLinesOn(b, from, day, D) == ItemsOn(PlanItems(b, from, MaxDay, day), D)

LEMMA ArmsOn ==
  ASSUME NEW b \in BooksType(MaxDay), NEW from, from = 1, NEW day \in Int, NEW D
  PROVE  /\ Amounts(ReceivablesOn(b, from, day, D))
              = SumOver(LeftOn(b, day), DuesIn(b, "receivable", D))
         /\ Amounts(ContributionsOn(b, from, day, D))
              = SumOver(LeftOn(b, day), DuesIn(b, "contribution", D))
         /\ Amounts(CardLinesOn(b, from, day, D)) = SumOver(LeftOn(b, day), DuesIn(b, "card", D))
         /\ Amounts(TaxesOn(b, from, day, D)) = SumOver(LeftOn(b, day), DuesIn(b, "tax", D))
         /\ Amounts(OtherLinesOn(b, from, day, D)) = SumOver(AmountsDue(b), OthersOn(b, day, D))
         /\ Amounts(PlanLinesOn(b, from, day, D)) = Cardinality(PlansOn(b, D)) * b.plan.amount
<1>0. b \in BooksType(MaxDay) /\ from = 1 /\ day \in Int OBVIOUS
<1>1. ASSUME NEW kind, NEW U, U = ArmOf(b, kind, from, MaxDay, day)
      PROVE  Amounts(ItemsOn(U, D)) = SumOver(LeftOn(b, day), DuesIn(b, kind, D))
  <2>1. Amounts(ItemsOn(ArmOf(b, kind, from, MaxDay, day), D))
          = SumOver(LeftOn(b, day), DuesIn(b, kind, D))
    BY ONLY <1>0, ArmAmounts
  <2> QED BY ONLY <1>1, <2>1
<1>2. Amounts(ReceivablesOn(b, from, day, D)) = SumOver(LeftOn(b, day), DuesIn(b, "receivable", D))
  <2> DEFINE kind == "receivable"
  <2>1. ReceivableItems(b, from, MaxDay, day) = ArmOf(b, kind, from, MaxDay, day)
    BY DEF ReceivableItems
  <2> HIDE DEF kind
  <2>2. Amounts(ReceivablesOn(b, from, day, D)) = SumOver(LeftOn(b, day), DuesIn(b, kind, D))
    BY <1>1, <2>1 DEF ReceivablesOn
  <2> QED BY <2>2 DEF kind
<1>3. Amounts(ContributionsOn(b, from, day, D))
        = SumOver(LeftOn(b, day), DuesIn(b, "contribution", D))
  <2> DEFINE kind == "contribution"
  <2>1. ContributionItems(b, from, MaxDay, day) = ArmOf(b, kind, from, MaxDay, day)
    BY DEF ContributionItems
  <2> HIDE DEF kind
  <2>2. Amounts(ContributionsOn(b, from, day, D)) = SumOver(LeftOn(b, day), DuesIn(b, kind, D))
    BY <1>1, <2>1 DEF ContributionsOn
  <2> QED BY <2>2 DEF kind
<1>4. Amounts(TaxesOn(b, from, day, D)) = SumOver(LeftOn(b, day), DuesIn(b, "tax", D))
  <2> DEFINE kind == "tax"
  <2>1. TaxItems(b, from, MaxDay, day) = ArmOf(b, kind, from, MaxDay, day)
    BY DEF TaxItems
  <2> HIDE DEF kind
  <2>2. Amounts(TaxesOn(b, from, day, D)) = SumOver(LeftOn(b, day), DuesIn(b, kind, D))
    BY <1>1, <2>1 DEF TaxesOn
  <2> QED BY <2>2 DEF kind
<1>5. Amounts(CardLinesOn(b, from, day, D)) = SumOver(LeftOn(b, day), DuesIn(b, "card", D))
  BY CardAmounts DEF CardLinesOn
<1>6. Amounts(OtherLinesOn(b, from, day, D)) = SumOver(AmountsDue(b), OthersOn(b, day, D))
  BY OtherAmounts DEF OtherLinesOn
<1>7. Amounts(PlanLinesOn(b, from, day, D)) = Cardinality(PlansOn(b, D)) * b.plan.amount
  BY PlanAmounts DEF PlanLinesOn
<1> QED BY <1>2, <1>3, <1>4, <1>5, <1>6, <1>7

\* Sets of items that have no tag in common.
Tagged(S, tag) == IsFiniteSet(S) /\ \A i \in S : i.left \in Nat /\ i.id[1] = tag

LEMMA ArmsTagged ==
  ASSUME NEW b \in BooksType(MaxDay), NEW from, from = 1, NEW day \in Int, NEW D
  PROVE  /\ Tagged(ReceivablesOn(b, from, day, D), "receivable")
         /\ Tagged(ContributionsOn(b, from, day, D), "contribution")
         /\ Tagged(CardLinesOn(b, from, day, D), "card")
         /\ Tagged(TaxesOn(b, from, day, D), "tax")
         /\ Tagged(OtherLinesOn(b, from, day, D), "other")
         /\ Tagged(PlanLinesOn(b, from, day, D), "plan")
<1> DEFINE A == ReceivableItems(b, from, MaxDay, day)
           B == ContributionItems(b, from, MaxDay, day)
           C == CardItems(b, from, MaxDay, day)
           T == TaxItems(b, from, MaxDay, day)
           E == OtherItems(b, from, MaxDay, day)
           F == PlanItems(b, from, MaxDay, day)
           U == AllItems(b, from, MaxDay, day)
<1>1. U = A \cup B \cup C \cup T \cup E \cup F BY DEF AllItems, DueItems
<1>2. IsFiniteSet(U) /\ \A i \in U : i.left \in Nat
  <2>1. from \in Days /\ MaxDay \in Days BY DaysAre
  <2> HIDE DEF U
  <2> QED BY <2>1, ItemsSound DEF ItemSound, U
<1>3. /\ \A i \in A : i.id[1] = "receivable"
      /\ \A i \in B : i.id[1] = "contribution"
      /\ \A i \in C : i.id[1] = "card"
      /\ \A i \in T : i.id[1] = "tax"
      /\ \A i \in E : i.id[1] = "other"
      /\ \A i \in F : i.id[1] = "plan"
  BY ArmTags
<1> HIDE DEF A, B, C, T, E, F, U
<1>4. ASSUME NEW S \in SUBSET U, NEW tag, \A i \in S : i.id[1] = tag
      PROVE  Tagged(ItemsOn(S, D), tag)
  <2>1. ItemsOn(S, D) \in SUBSET U BY DEF ItemsOn
  <2>2. IsFiniteSet(ItemsOn(S, D)) BY <1>2, <2>1, FS_Subset
  <2>3. \A i \in ItemsOn(S, D) : i.left \in Nat /\ i.id[1] = tag
    BY <1>2, <1>4 DEF ItemsOn
  <2> QED BY <2>2, <2>3 DEF Tagged
<1>5. /\ A \in SUBSET U /\ B \in SUBSET U /\ C \in SUBSET U /\ T \in SUBSET U
      /\ E \in SUBSET U /\ F \in SUBSET U
  BY <1>1
<1>6. Tagged(ItemsOn(A, D), "receivable") /\ Tagged(ItemsOn(B, D), "contribution") BY <1>3, <1>4, <1>5
<1>7. Tagged(ItemsOn(C, D), "card") /\ Tagged(ItemsOn(T, D), "tax") BY <1>3, <1>4, <1>5
<1>8. Tagged(ItemsOn(E, D), "other") /\ Tagged(ItemsOn(F, D), "plan") BY <1>3, <1>4, <1>5
<1> QED BY <1>6, <1>7, <1>8 DEF A, B, C, T, E, F, ReceivablesOn, ContributionsOn, CardLinesOn,
                             TaxesOn, OtherLinesOn, PlanLinesOn

LEMMA TagsApart ==
  ASSUME NEW S, NEW s, Tagged(S, s), NEW T, IsFiniteSet(T), \A i \in T : i.left \in Nat,
         \A i \in T : i.id[1] # s
  PROVE  /\ Amounts(T \cup S) = Amounts(T) + Amounts(S) /\ Amounts(T) \in Nat /\ Amounts(S) \in Nat
         /\ IsFiniteSet(T \cup S) /\ \A i \in T \cup S : i.left \in Nat
<1>1. IsFiniteSet(S) /\ (\A i \in S : i.left \in Nat) /\ S \cap T = {} BY DEF Tagged
<1>2. \A i \in T \cup S : i.left \in Nat BY <1>1
<1>3. T \cap S = {} BY <1>1
<1>4. Amounts(T \cup S) = Amounts(T) + Amounts(S) /\ Amounts(T) \in Nat /\ Amounts(S) \in Nat
  BY <1>1, <1>2, <1>3, AmountsUnion
<1>5. IsFiniteSet(T \cup S) BY <1>1, FS_Union
<1> QED BY <1>2, <1>4, <1>5

InflowItemsOn(b, from, day, D) == ReceivablesOn(b, from, day, D) \cup ContributionsOn(b, from, day, D)
OutflowItemsOn(b, from, day, D) ==
  CardLinesOn(b, from, day, D) \cup TaxesOn(b, from, day, D) \cup OtherLinesOn(b, from, day, D)
    \cup PlanLinesOn(b, from, day, D)

LEMMA WholeAmounts ==
  ASSUME NEW b \in BooksType(MaxDay), NEW from, from = 1, NEW day \in Int, NEW D
  PROVE  /\ Amounts(InflowItemsOn(b, from, day, D)) = InflowOn(b, day, D)
         /\ Amounts(OutflowItemsOn(b, from, day, D)) = OutflowOn(b, day, D)
         /\ Amounts(InflowItemsOn(b, from, day, D) \cup OutflowItemsOn(b, from, day, D))
              = InflowOn(b, day, D) + OutflowOn(b, day, D)
<1> DEFINE A == ReceivablesOn(b, from, day, D)
           B == ContributionsOn(b, from, day, D)
           C == CardLinesOn(b, from, day, D)
           T == TaxesOn(b, from, day, D)
           E == OtherLinesOn(b, from, day, D)
           F == PlanLinesOn(b, from, day, D)
<1>1. /\ Tagged(A, "receivable") /\ Tagged(B, "contribution") /\ Tagged(C, "card")
      /\ Tagged(T, "tax") /\ Tagged(E, "other") /\ Tagged(F, "plan")
  BY ArmsTagged
<1>2. /\ Amounts(A) = SumOver(LeftOn(b, day), DuesIn(b, "receivable", D))
      /\ Amounts(B) = SumOver(LeftOn(b, day), DuesIn(b, "contribution", D))
      /\ Amounts(C) = SumOver(LeftOn(b, day), DuesIn(b, "card", D))
      /\ Amounts(T) = SumOver(LeftOn(b, day), DuesIn(b, "tax", D))
      /\ Amounts(E) = SumOver(AmountsDue(b), OthersOn(b, day, D))
      /\ Amounts(F) = Cardinality(PlansOn(b, D)) * b.plan.amount
  BY ArmsOn
<1> HIDE DEF A, B, C, T, E, F
<1>3. /\ \A i \in A : i.id[1] = "receivable" /\ i.left \in Nat
      /\ \A i \in B : i.id[1] = "contribution" /\ i.left \in Nat
      /\ \A i \in C : i.id[1] = "card" /\ i.left \in Nat
      /\ \A i \in T : i.id[1] = "tax" /\ i.left \in Nat
      /\ \A i \in E : i.id[1] = "other" /\ i.left \in Nat
      /\ \A i \in F : i.id[1] = "plan" /\ i.left \in Nat
      /\ IsFiniteSet(A) /\ IsFiniteSet(C)
  BY <1>1 DEF Tagged
<1>4. /\ Amounts(A \cup B) = Amounts(A) + Amounts(B) /\ IsFiniteSet(A \cup B)
      /\ Amounts(A) \in Nat /\ Amounts(B) \in Nat
  <2>1. \A i \in A : i.id[1] # "contribution" /\ i.left \in Nat BY <1>3
  <2> QED BY <1>1, <1>3, <2>1, TagsApart
<1>5. /\ Amounts(C \cup T) = Amounts(C) + Amounts(T) /\ IsFiniteSet(C \cup T)
      /\ Amounts(C) \in Nat /\ Amounts(T) \in Nat
  <2>1. \A i \in C : i.id[1] # "tax" /\ i.left \in Nat BY <1>3
  <2> QED BY <1>1, <1>3, <2>1, TagsApart
<1>6. /\ Amounts(C \cup T \cup E) = Amounts(C \cup T) + Amounts(E) /\ IsFiniteSet(C \cup T \cup E)
      /\ Amounts(E) \in Nat
  <2>1. \A i \in C \cup T : i.id[1] # "other" /\ i.left \in Nat BY <1>3
  <2> QED BY <1>1, <1>5, <2>1, TagsApart
<1>7. /\ Amounts(C \cup T \cup E \cup F) = Amounts(C \cup T \cup E) + Amounts(F)
      /\ IsFiniteSet(C \cup T \cup E \cup F) /\ Amounts(F) \in Nat
  <2>1. \A i \in C \cup T \cup E : i.id[1] # "plan" /\ i.left \in Nat BY <1>3
  <2> QED BY <1>1, <1>6, <2>1, TagsApart
<1> DEFINE In == A \cup B
           Out == C \cup T \cup E \cup F
<1>8. Amounts(In \cup Out) = Amounts(In) + Amounts(Out)
  <2>1. In \cap Out = {} /\ \A i \in In \cup Out : i.left \in Nat BY <1>3
  <2>2. IsFiniteSet(In) /\ IsFiniteSet(Out) BY <1>4, <1>7
  <2> HIDE DEF In, Out
  <2> QED BY <2>1, <2>2, AmountsUnion
<1>9. In = InflowItemsOn(b, from, day, D) /\ Out = OutflowItemsOn(b, from, day, D)
  BY DEF InflowItemsOn, OutflowItemsOn, A, B, C, T, E, F
<1>10. Amounts(In) = InflowOn(b, day, D) BY <1>2, <1>4 DEF InflowOn
<1>11. Amounts(Out) = OutflowOn(b, day, D) BY <1>2, <1>5, <1>6, <1>7 DEF OutflowOn
<1> HIDE DEF In, Out
<1> QED BY <1>8, <1>9, <1>10, <1>11

-----------------------------------------------------------------------------
(* The reports about the books of today.                                   *)

\* What has happened by a day is settled then as it is ever after.
LEMMA SettledStays ==
  ASSUME NEW t \in Days, NEW b \in BooksType(t), NEW u \in Int, t <= u, NEW k \in 1..Len(b.dues)
  PROVE  Settled(b, k, u) = Settled(b, k, t) /\ Left(b, k, u) = Left(b, k, t)
         /\ Net(b, k, u) = Net(b, k, t)
<1>1. \A e \in Entries(b, k) : b.entries[e].day <= t /\ b.entries[e].day <= u
  <2> SUFFICES ASSUME NEW e \in Entries(b, k)
               PROVE  b.entries[e].day <= t /\ b.entries[e].day <= u
    OBVIOUS
  <2>1. b.entries[e].day \in Until(t) BY EntryParts DEF Entries
  <2> DEFINE d == b.entries[e].day
  <2>2. d \in Nat /\ d <= t /\ t \in Nat BY <2>1, DaysAre DEF Until
  <2> HIDE DEF d
  <2>3. d <= t /\ d <= u BY <2>2
  <2> QED BY <2>3 DEF d
<1>2. Until2(b, k, u) = Entries(b, k) /\ Until2(b, k, t) = Entries(b, k) BY <1>1 DEF Until2
<1>3. Net(b, k, u) = Net(b, k, t) BY <1>2, NetIs
<1>4. b.dues[k].paid <= t /\ b.dues[k].paid <= u
  <2>1. b.dues[k].paid \in Until(t) \cup {0} BY DueParts
  <2> DEFINE d == b.dues[k].paid
  <2>2. d \in Nat /\ d <= t /\ t \in Nat BY <2>1, DaysAre DEF Until
  <2> HIDE DEF d
  <2>3. d <= t /\ d <= u BY <2>2
  <2> QED BY <2>3 DEF d
<1>5. CardSettled(b, k, u) = CardSettled(b, k, t) BY <1>3, <1>4 DEF CardSettled
<1>6. Settled(b, k, u) = Settled(b, k, t) BY <1>3, <1>5 DEF Settled
<1> QED BY <1>3, <1>6 DEF Left

\* The days before a day.
Before(day) == {n \in Nat : n < day}

LEMMA OverdueAmounts ==
  ASSUME NEW b \in BooksType(MaxDay), NEW from, from = 1, NEW day \in Int,
         NEW late, late = Overdue(AllItems(b, from, MaxDay, day), day)
  PROVE  /\ Amounts(InflowOf(late)) = InflowOn(b, day, Before(day))
         /\ Amounts({i \in late : i.kind = "receivable"})
              = SumOver(LeftOn(b, day), DuesIn(b, "receivable", Before(day)))
         /\ Amounts(late) = InflowOn(b, day, Before(day)) + OutflowOn(b, day, Before(day))
<1> DEFINE U == AllItems(b, from, MaxDay, day)
           D == Before(day)
           In == InflowItemsOn(b, from, day, D)
           Out == OutflowItemsOn(b, from, day, D)
           Mine == ReceivablesOn(b, from, day, D)
           A == ReceivableItems(b, from, MaxDay, day)
           B == ContributionItems(b, from, MaxDay, day)
           C == CardItems(b, from, MaxDay, day)
           T == TaxItems(b, from, MaxDay, day)
           E == OtherItems(b, from, MaxDay, day)
           F == PlanItems(b, from, MaxDay, day)
<1>0. b \in BooksType(MaxDay) /\ from = 1 /\ day \in Int OBVIOUS
<1>1. IsFiniteSet(U) /\ \A i \in U : i.left \in Nat /\ i.due \in Nat
  <2>1. from \in Days /\ MaxDay \in Days BY DaysAre
  <2> HIDE DEF U
  <2> QED BY <2>1, ItemsSound DEF ItemSound, U
<1>2. U = A \cup B \cup C \cup T \cup E \cup F BY DEF AllItems, DueItems
<1>3. /\ \A i \in A : i.kind = "receivable" /\ i.side = "inflow"
      /\ \A i \in B : i.kind = "contribution" /\ i.side = "inflow"
      /\ \A i \in C : i.kind = "card" /\ i.side = "outflow"
      /\ \A i \in T : i.kind = "tax" /\ i.side = "outflow"
      /\ \A i \in E : i.kind = "other" /\ i.side = "outflow"
      /\ \A i \in F : i.kind \in {"card", "other"} /\ i.side = "outflow"
  BY <1>0, ArmTags
<1>4. /\ Mine = ItemsOn(A, D) /\ In = ItemsOn(A, D) \cup ItemsOn(B, D)
      /\ Out = ItemsOn(C, D) \cup ItemsOn(T, D) \cup ItemsOn(E, D) \cup ItemsOn(F, D)
  BY DEF InflowItemsOn, OutflowItemsOn, ReceivablesOn, ContributionsOn, CardLinesOn, TaxesOn,
         OtherLinesOn, PlanLinesOn
<1>5. late = {i \in U : i.left > 0 /\ i.due < day} BY DEF Overdue, Lines
<1> DEFINE late1 == InflowOf(late)
           late2 == {i \in late : i.kind = "receivable"}
<1>6. late1 = {i \in late : i.side = "inflow"} BY DEF InflowOf
<1>7. \A i \in U : i.due \in D <=> i.due < day BY <1>1 DEF Before
<1>8. /\ Amounts(In) = InflowOn(b, day, D)
      /\ Amounts(In \cup Out) = InflowOn(b, day, D) + OutflowOn(b, day, D)
  BY ONLY <1>0, WholeAmounts
<1>9. Amounts(Mine) = SumOver(LeftOn(b, day), DuesIn(b, "receivable", D)) BY ONLY <1>0, ArmsOn
<1> HIDE DEF U, D, In, Out, Mine, A, B, C, T, E, F, late1, late2
<1>10. /\ In \in SUBSET U /\ late1 \in SUBSET In /\ \A i \in In \ late1 : i.left = 0
  <2>1. In \in SUBSET U BY <1>2, <1>4 DEF ItemsOn
  <2>2. late1 \in SUBSET In BY <1>2, <1>3, <1>4, <1>5, <1>6, <1>7 DEF ItemsOn
  <2>3. \A i \in In \ late1 : i.left = 0
    BY <1>1, <1>2, <1>3, <1>4, <1>5, <1>6, <1>7 DEF ItemsOn
  <2> QED BY <2>1, <2>2, <2>3
<1>11. Mine \in SUBSET U /\ late2 \in SUBSET Mine /\ \A i \in Mine \ late2 : i.left = 0
  <2>1. Mine \in SUBSET U BY <1>2, <1>4 DEF ItemsOn
  <2>2. late2 \in SUBSET Mine BY <1>2, <1>3, <1>4, <1>5, <1>7 DEF ItemsOn, late2
  <2>3. \A i \in Mine \ late2 : i.left = 0
    BY <1>1, <1>2, <1>3, <1>4, <1>5, <1>7 DEF ItemsOn, late2
  <2> QED BY <2>1, <2>2, <2>3
<1>12. In \cup Out \in SUBSET U /\ late \in SUBSET (In \cup Out)
       /\ \A i \in (In \cup Out) \ late : i.left = 0
  <2>1. In \cup Out = ItemsOn(U, D) BY <1>2, <1>4 DEF ItemsOn
  <2> QED BY <1>1, <1>5, <1>7, <2>1 DEF ItemsOn
<1>13. Amounts(In) = Amounts(late1) BY ONLY <1>1, <1>10, AmountsOf
<1>14. Amounts(Mine) = Amounts(late2) BY ONLY <1>1, <1>11, AmountsOf
<1> DEFINE Both == In \cup Out
<1>15. Amounts(Both) = Amounts(late)
  <2>1. Both \in SUBSET U /\ late \in SUBSET Both /\ \A i \in Both \ late : i.left = 0 BY <1>12
  <2> HIDE DEF Both
  <2> QED BY ONLY <1>1, <2>1, AmountsOf
<1> QED BY <1>8, <1>9, <1>13, <1>14, <1>15 DEF D, late1, late2

LEMMA ByTheEnd ==
  ASSUME NEW day \in Days, NEW b \in BooksType(day)
  PROVE  /\ b \in BooksType(MaxDay) /\ MaxDay \in Days /\ MaxDay \in Int
         /\ day \in Int /\ day <= MaxDay
<1>1. MaxDay \in Days /\ MaxDay \in Int /\ day \in Int /\ day <= MaxDay BY DaysAre
<1>2. b \in BooksType(MaxDay) BY <1>1, TypeLater
<1> QED BY <1>1, <1>2

\* Every month that a due can have is one of the months of the reports.
LEMMA MonthsAre ==
  /\ IsFiniteSet(Months)
  /\ \A d \in Days : MonthOf(d) \in Months
  /\ 0 \notin Months
<1> DEFINE EndsBefore(d) == {x \in MonthEnds : x < d}
<1>1. MaxDay \in Days /\ Days \subseteq Nat /\ MonthEnds \subseteq Days /\ IsFiniteSet(Days)
  BY DaysAre, DaysAssumption, FS_Interval
<1>2. IsFiniteSet(MonthEnds) BY <1>1, FS_Subset
<1>3. \A d : IsFiniteSet(EndsBefore(d)) BY <1>2, FS_Subset
<1>4. \A d \in Days : EndsBefore(d) \subseteq EndsBefore(MaxDay)
  <2> SUFFICES ASSUME NEW d \in Days, NEW x \in MonthEnds, x < d PROVE x < MaxDay OBVIOUS
  <2>1. d \in Nat /\ d <= MaxDay /\ x \in Nat /\ MaxDay \in Nat BY <1>1, DaysAre
  <2> QED BY <2>1
<1>5. \A d : MonthOf(d) = 1 + Cardinality(EndsBefore(d)) BY DEF MonthOf
<1> HIDE DEF EndsBefore
<1>6. \A d : Cardinality(EndsBefore(d)) \in Nat BY <1>3, FS_CardinalityType
<1>7. \A d \in Days : Cardinality(EndsBefore(d)) <= Cardinality(EndsBefore(MaxDay)) BY <1>3, <1>4, FS_Subset
<1>8. Months = 1..(1 + Cardinality(EndsBefore(MaxDay))) BY <1>5 DEF Months
<1> DEFINE n == 1 + Cardinality(EndsBefore(MaxDay))
<1>9. n \in Nat BY <1>6
<1>10. \A d \in Days : MonthOf(d) \in 1..n BY <1>5, <1>6, <1>7
<1> HIDE DEF n
<1>11. IsFiniteSet(1..n) /\ 0 \notin 1..n BY <1>9, FS_Interval
<1> QED BY <1>8, <1>10, <1>11 DEF n

MonthsOfDues(b) ==
  [k \in 1..Len(b.dues) |->
     IF b.dues[k].month # 0 THEN b.dues[k].month ELSE MonthOf(b.dues[k].due)]

\* What is late of a kind, in all months.
LEMMA MonthsOf ==
  ASSUME NEW day \in Days, NEW b \in BooksType(day), NEW kind
  PROVE  /\ \A m \in Months : MonthOutstanding(b, kind, m, Until(day - 1)) \in Int
         /\ SumOver([m \in Months |-> MonthOutstanding(b, kind, m, Until(day - 1))], Months)
              = SumOver(LeftOn(b, day), DuesIn(b, kind, Before(day)))
<1> DEFINE S == DuesIn(b, kind, Before(day))
           f == LeftOn(b, day)
           month == MonthsOfDues(b)
           h == [m \in Months |-> MonthOutstanding(b, kind, m, Until(day - 1))]
<1>1. b \in BooksType(MaxDay) /\ MaxDay \in Days /\ day \in Int /\ day <= MaxDay
  BY ByTheEnd
<1>2. /\ IsFiniteSet(S) /\ S \subseteq 1..Len(b.dues)
      /\ \A k \in 1..Len(b.dues) : f[k] = Left(b, k, day) /\ f[k] \in Nat
  BY <1>1, LeftsTyped
<1>3. \A k \in 1..Len(b.dues) : Left(b, k, MaxDay) = Left(b, k, day)
  <2>1. MaxDay \in Int BY DaysAre
  <2> QED BY <1>1, <2>1, SettledStays
<1>4. \A k \in 1..Len(b.dues) : /\ b.dues[k].due \in Days /\ b.dues[k].month \in Months \cup {0}
                                /\ b.dues[k].due \in Before(day) <=> b.dues[k].due \in Until(day - 1)
  <2> SUFFICES ASSUME NEW k \in 1..Len(b.dues)
               PROVE  /\ b.dues[k].due \in Days /\ b.dues[k].month \in Months \cup {0}
                      /\ b.dues[k].due \in Before(day) <=> b.dues[k].due \in Until(day - 1)
    OBVIOUS
  <2>1. b.dues[k].due \in Days /\ b.dues[k].month \in Months \cup {0} BY DueParts
  <2> DEFINE d == b.dues[k].due
  <2>2. d \in Days /\ d \in Nat BY <2>1, DaysAre
  <2> HIDE DEF d
  <2>3. d \in Before(day) <=> d \in Until(day - 1) BY <1>1, <2>2 DEF Before, Until
  <2> QED BY <2>1, <2>3 DEF d
<1>5. \A k \in 1..Len(b.dues) :
        /\ month[k] \in Months
        /\ \A m \in Months : InMonth(b, k, m) <=> month[k] = m
  BY <1>4, MonthsAre DEF InMonth, MonthsOfDues
<1>6. ASSUME NEW m \in Months
      PROVE  h[m] = SumOver(f, Group(month, S, m)) /\ SumOver(f, Group(month, S, m)) \in Int
  <2> DEFINE R == {k \in Live(b, kind) : InMonth(b, k, m) /\ b.dues[k].due \in Until(day - 1)}
             x == [k \in R |-> Left(b, k, MaxDay)]
             y == Group(month, S, m)
  <2>1. Live(b, kind) \subseteq 1..Len(b.dues) BY DEF Live
  <2>2. R = y BY <1>4, <1>5, <2>1 DEF DuesIn, Group
  <2>3. h[m] = SumOver(x, R) BY SumFunctionIs DEF MonthOutstanding, LeftOf
  <2>4. \A k \in R : x[k] = f[k] /\ f[k] \in Nat /\ f[k] \in Int BY <1>2, <1>3, <2>1
  <2>5. y \subseteq S BY DEF Group
  <2> HIDE DEF R, x, h, f, S, y
  <2>6. IsFiniteSet(R) BY <1>2, <2>2, <2>5, FS_Subset
  <2>7. SumOver(x, R) = SumOver(f, R) BY <2>4, <2>6, SumSame
  <2>8. SumOver(f, R) \in Int BY <2>4, <2>6, SumType
  <2> QED BY <2>2, <2>3, <2>7, <2>8 DEF y
<1>7. \A m \in Months : h[m] = MonthOutstanding(b, kind, m, Until(day - 1)) OBVIOUS
<1> HIDE DEF S, f, month, h
<1>8. (\A k \in S : f[k] \in Int) /\ (\A k \in S : month[k] \in Months) BY <1>2, <1>5
<1>9. \A m \in Months : h[m] = SumOver(f, Group(month, S, m)) BY <1>6
<1>10. IsFiniteSet(S) /\ IsFiniteSet(Months) BY <1>2, MonthsAre
<1>11. SumOver(h, Months) = SumOver(f, S) BY ONLY <1>8, <1>9, <1>10, SumGroups
<1>12. \A m \in Months : MonthOutstanding(b, kind, m, Until(day - 1)) \in Int BY <1>6, <1>7
<1> QED BY <1>11, <1>12 DEF h, f, S

LEMMA ProjectsAgree ==
  ASSUME NEW day \in Days, NEW b \in BooksType(day)
  PROVE  SumFunction([m \in Months |-> ProjectsOverdue(b, m, day)]) = InflowOn(b, day, Before(day))
<1> DEFINE x == [m \in Months |-> MonthOutstanding(b, "receivable", m, Until(day - 1))]
           y == [m \in Months |-> MonthOutstanding(b, "contribution", m, Until(day - 1))]
           h == [m \in Months |-> ProjectsOverdue(b, m, day)]
<1>1. ASSUME NEW kind
      PROVE  /\ \A m \in Months : MonthOutstanding(b, kind, m, Until(day - 1)) \in Int
             /\ SumOver([m \in Months |-> MonthOutstanding(b, kind, m, Until(day - 1))], Months)
                  = SumOver(LeftOn(b, day), DuesIn(b, kind, Before(day)))
  BY MonthsOf
<1>2. /\ \A m \in Months : MonthOutstanding(b, "receivable", m, Until(day - 1)) \in Int
      /\ SumOver(x, Months) = SumOver(LeftOn(b, day), DuesIn(b, "receivable", Before(day)))
  BY <1>1
<1>3. /\ \A m \in Months : MonthOutstanding(b, "contribution", m, Until(day - 1)) \in Int
      /\ SumOver(y, Months) = SumOver(LeftOn(b, day), DuesIn(b, "contribution", Before(day)))
  BY <1>1
<1>4. \A m \in Months : x[m] \in Int /\ y[m] \in Int /\ h[m] = x[m] + y[m]
  BY <1>2, <1>3 DEF ProjectsOverdue
<1>5. SumFunction(h) = SumOver(h, Months) BY SumFunctionIs
<1> HIDE DEF x, y, h
<1>6. IsFiniteSet(Months) BY MonthsAre
<1>7. SumOver(h, Months) = SumOver(x, Months) + SumOver(y, Months) BY ONLY <1>4, <1>6, SumPlus
<1> QED BY <1>2, <1>3, <1>5, <1>7 DEF h, InflowOn

\* The receivables page has those of the customers.
LEMMA PageAgrees ==
  ASSUME NEW day \in Days, NEW b \in BooksType(day)
  PROVE  ReceivablesOverdue(b, day) = SumOver(LeftOn(b, day), DuesIn(b, "receivable", Before(day)))
<1> DEFINE S == DuesIn(b, "receivable", Before(day))
           f == LeftOn(b, day)
           T == {k \in Live(b, "receivable") :
                   Status(b.dues[k].amount, Net(b, k, MaxDay), b.dues[k].due, day) = "overdue"}
           x == [k \in T |-> Left(b, k, MaxDay)]
<1>1. b \in BooksType(MaxDay) /\ MaxDay \in Days /\ day \in Int /\ day <= MaxDay /\ MaxDay \in Int
  BY ByTheEnd
<1>2. ReceivablesOverdue(b, day) = SumOver(x, T) BY SumFunctionIs DEF ReceivablesOverdue, LeftOf
<1>3. /\ IsFiniteSet(S) /\ S \subseteq 1..Len(b.dues)
      /\ \A k \in 1..Len(b.dues) : f[k] = Left(b, k, day) /\ f[k] \in Nat
  BY <1>1, LeftsTyped
<1>4. \A k \in 1..Len(b.dues) : /\ Left(b, k, MaxDay) = Left(b, k, day)
                                /\ Net(b, k, MaxDay) = Net(b, k, day)
  BY <1>1, SettledStays
<1>5. ASSUME NEW k \in Live(b, "receivable")
      PROVE  /\ k \in 1..Len(b.dues)
             /\ k \in T <=> b.dues[k].due < day /\ Left(b, k, day) > 0
             /\ k \in S <=> b.dues[k].due < day
  <2>1. k \in 1..Len(b.dues) /\ b.dues[k].kind = "receivable" BY DEF Live
  <2>2. Settled(b, k, day) = Net(b, k, day) BY <2>1 DEF Settled
  <2> DEFINE a == b.dues[k].amount
             s == Net(b, k, MaxDay)
             due == b.dues[k].due
  <2>3. a \in Nat /\ s \in Int /\ Left(b, k, day) = AtLeast(a - s, 0) /\ Left(b, k, day) \in Nat
    BY <1>1, <1>4, <2>1, <2>2, SettledTyped DEF Left
  <2>4. due \in Days /\ due \in Nat BY <2>1, DueParts, DaysAre
  <2>5. k \in S <=> due \in Before(day) BY DEF DuesIn
  <2>6. k \in T <=> Status(a, s, due, day) = "overdue" OBVIOUS
  <2> HIDE DEF a, s, due, S, T
  <2>7. due \in Before(day) <=> due < day BY <2>4 DEF Before
  <2>8. CASE AtLeast(a - s, 0) > 0
    <3>1. a \in Int /\ s \in Int /\ due \in Int BY <2>3, <2>4
    <3>2. Status(a, s, due, day) = "overdue" <=> due < day BY ONLY <1>1, <2>8, <3>1, StatusIs
    <3> QED BY <2>1, <2>3, <2>5, <2>6, <2>7, <2>8, <3>2 DEF due
  <2>9. CASE ~(AtLeast(a - s, 0) > 0)
    <3>1. a - s <= 0 BY <2>3, <2>9 DEF AtLeast
    <3>2. Status(a, s, due, day) = "settled" BY <3>1 DEF Status
    <3>3. Status(a, s, due, day) # "overdue" BY <3>2
    <3> QED BY <2>1, <2>3, <2>5, <2>6, <2>7, <2>9, <3>3 DEF due
  <2> QED BY <2>8, <2>9
<1>6. S \subseteq Live(b, "receivable") /\ T \subseteq Live(b, "receivable") BY DEF DuesIn
<1>7. \A k \in T : x[k] = f[k] BY <1>3, <1>4, <1>5, <1>6
<1> HIDE DEF S, f, T, x
<1>8. T \in SUBSET S BY <1>5, <1>6
<1>9. \A k \in S \ T : f[k] = 0 BY <1>3, <1>5, <1>6
<1>10. (\A k \in S : f[k] \in Int) /\ IsFiniteSet(S) BY <1>3
<1>11. SumOver(f, S) = SumOver(f, T) BY ONLY <1>8, <1>9, <1>10, SumNothing
<1>12. IsFiniteSet(T) BY <1>8, <1>10, FS_Subset
<1>13. SumOver(x, T) = SumOver(f, T) BY <1>7, <1>12, SumSame
<1> QED BY <1>2, <1>11, <1>13 DEF S, f

\* What the digest of a day has, as a sum over dues.
DigestOf(b, t) ==
  {j \in 1..Len(b.dues) : /\ b.dues[j].live /\ b.dues[j].due <= t
                          /\ b.dues[j].kind # "other" /\ Left(b, j, t) > 0}

LEMMA DigestAmounts ==
  ASSUME NEW b \in BooksType(MaxDay), NEW t \in Int
  PROVE  Amounts(DigestDues(b, t)) = SumOver(LeftOn(b, t), DigestOf(b, t))
<1> DEFINE K == DigestOf(b, t)
           m == [k \in 1..Len(b.dues) |-> [k |-> k, left |-> Left(b, k, t)]]
           U == DigestDues(b, t)
           f == Lefts(U)
           h == LeftOn(b, t)
<1>1. K \subseteq 1..Len(b.dues) BY DEF DigestOf
<1>2. IsFiniteSet(K) BY <1>1, Lengths, FS_Subset
<1>3. U = Values(m, K) BY <1>1 DEF DigestDues, DigestOf, Values
<1>4. \A k \in 1..Len(b.dues) : /\ h[k] = Left(b, k, t) /\ h[k] \in Nat
                                /\ m[k].k = k /\ m[k].left = Left(b, k, t)
  BY SettledTyped DEF LeftOn
<1> HIDE DEF K, m, U, h
<1>5. OneOrigin(m, K)
  <2>1. \A x, y \in K : m[x] = m[y] => x = y BY <1>1, <1>4
  <2> QED BY <2>1 DEF OneOrigin
<1>6. Along(f, m, h, K)
  <2> SUFFICES ASSUME NEW k \in K PROVE f[m[k]] \in Int /\ h[k] = f[m[k]] BY DEF Along
  <2>1. k \in 1..Len(b.dues) /\ m[k] \in U BY <1>1, <1>3 DEF Values
  <2>2. f[m[k]] = m[k].left BY <2>1 DEF Lefts
  <2> HIDE DEF f
  <2> QED BY <1>4, <2>1, <2>2
<1>7. Amounts(U) = SumOver(f, U)
  <2> DEFINE x == [i \in U |-> i.left]
  <2>1. x = f /\ DOMAIN x = U BY DEF Lefts
  <2>2. Amounts(U) = SumFunction(x) BY DEF Amounts
  <2> HIDE DEF x, f
  <2>3. SumFunction(x) = SumOver(x, DOMAIN x) BY SumFunctionIs
  <2> QED BY <2>1, <2>2, <2>3
<1> HIDE DEF f
<1>8. SumOver(f, Values(m, K)) = SumOver(h, K) BY <1>2, <1>5, <1>6, SumImage
<1> QED BY <1>3, <1>7, <1>8 DEF U, K, h

LEMMA DigestAgrees ==
  ASSUME NEW t \in Days, NEW b \in BooksType(t), NEW u, u = t + 1
  PROVE  Amounts(DigestDues(b, t)) + Cardinality(DigestPlans(b, t)) * b.plan.amount
           = InflowOn(b, u, Before(u)) + OutflowOn(b, u, Before(u))
<1> DEFINE D == Before(u)
           A == DuesIn(b, "receivable", D)
           B == DuesIn(b, "contribution", D)
           C == DuesIn(b, "card", D)
           T == DuesIn(b, "tax", D)
           K == DigestOf(b, t)
           f == LeftOn(b, t)
           g == LeftOn(b, u)
           W == A \cup B \cup C \cup T
<1>1. b \in BooksType(MaxDay) /\ t \in Int /\ u \in Int /\ t <= u /\ t <= MaxDay /\ t \in Nat
  BY ByTheEnd, DaysAre
<1>2. \A k \in 1..Len(b.dues) : /\ f[k] = Left(b, k, t) /\ f[k] \in Nat /\ f[k] \in Int
                                /\ g[k] = Left(b, k, u)
  BY <1>1, LeftsTyped
<1>3. \A k \in 1..Len(b.dues) : g[k] = f[k] BY <1>1, <1>2, SettledStays
<1>4. ASSUME NEW kind
      PROVE  IsFiniteSet(DuesIn(b, kind, D)) /\ DuesIn(b, kind, D) \subseteq 1..Len(b.dues)
  BY <1>1, LeftsTyped
<1>5. /\ IsFiniteSet(A) /\ IsFiniteSet(B) /\ IsFiniteSet(C) /\ IsFiniteSet(T)
      /\ A \subseteq 1..Len(b.dues) /\ B \subseteq 1..Len(b.dues)
      /\ C \subseteq 1..Len(b.dues) /\ T \subseteq 1..Len(b.dues)
  BY <1>4
<1>6. A \cap B = {} /\ (A \cup B) \cap C = {} /\ (A \cup B \cup C) \cap T = {}
  <2>1. /\ \A k \in A : b.dues[k].kind = "receivable"
        /\ \A k \in B : b.dues[k].kind = "contribution"
        /\ \A k \in C : b.dues[k].kind = "card"
        /\ \A k \in T : b.dues[k].kind = "tax"
    BY DEF DuesIn, Live
  <2> HIDE DEF A, B, C, T
  <2> QED BY <2>1
<1>7. \A k \in 1..Len(b.dues) : /\ b.dues[k].due \in D <=> b.dues[k].due <= t
                                /\ b.dues[k].kind \in {"receivable", "contribution", "card", "tax", "other"}
  <2> SUFFICES ASSUME NEW k \in 1..Len(b.dues)
               PROVE  /\ b.dues[k].due \in D <=> b.dues[k].due <= t
                      /\ b.dues[k].kind \in {"receivable", "contribution", "card", "tax", "other"}
    OBVIOUS
  <2>1. b.dues[k].due \in Nat BY DueParts, DaysAre
  <2>2. b.dues[k].kind \in {"receivable", "contribution", "card", "tax", "other"} BY DueParts
  <2> DEFINE d == b.dues[k].due
  <2>3. d \in D <=> d <= t
    <3>1. d \in Nat BY <2>1
    <3> HIDE DEF d
    <3> QED BY <1>1, <3>1 DEF Before
  <2> QED BY <2>2, <2>3
<1>8. \A k \in 1..Len(b.dues) :
        k \in W <=> b.dues[k].live /\ b.dues[k].kind # "other" /\ b.dues[k].due <= t
  BY <1>7 DEF DuesIn, Live
<1>9. K \in SUBSET W /\ \A k \in W \ K : f[k] = 0
  <2>1. \A k \in 1..Len(b.dues) :
          k \in K <=> /\ b.dues[k].live /\ b.dues[k].kind # "other" /\ b.dues[k].due <= t
                      /\ f[k] > 0
    BY <1>2 DEF DigestOf
  <2>2. K \subseteq 1..Len(b.dues) /\ W \subseteq 1..Len(b.dues) BY <1>5 DEF DigestOf
  <2> HIDE DEF K, W, f
  <2> QED BY <1>2, <1>8, <2>1, <2>2
<1>10. PlansOn(b, D) = DigestPlans(b, t)
  <2>1. \A n \in Days : Event(b, n) \in Nat /\ Event(b, n) >= n /\ n \in Nat
    BY <1>1, EventIs, DaysAre
  <2>2. \A n \in Days : Event(b, n) \in D <=> Event(b, n) <= t
    BY <1>1, <2>1 DEF Before
  <2>3. MaxDay \in Nat BY DaysAre
  <2>4. ASSUME NEW n \in Days
        PROVE  n \in PlansOn(b, D) <=> n \in DigestPlans(b, t)
    <3> DEFINE e == Event(b, n)
    <3>1. e \in Nat /\ e >= n /\ n \in Nat /\ (e \in D <=> e <= t) /\ n <= MaxDay
      BY <2>1, <2>2, DaysAre
    <3> DEFINE open == /\ b.plan.active
                       /\ b.plan.ends # 0 => n <= b.plan.ends
                       /\ n >= b.plan.next /\ (n - b.plan.next) % PlanEvery = 0
    <3>2. n \in PlansOn(b, D) <=> open /\ n <= MaxDay /\ e <= MaxDay /\ e \in D
      BY DEF PlansOn, Occurrences
    <3>3. n \in DigestPlans(b, t) <=> open /\ n <= t /\ e <= t
      BY DEF DigestPlans, Occurrences
    <3> HIDE DEF open, e, D
    <3>4. e \in D <=> e <= t BY <3>1
    <3> QED BY <1>1, <2>3, <3>1, <3>2, <3>3, <3>4
  <2>5. PlansOn(b, D) \subseteq Days /\ DigestPlans(b, t) \subseteq Days
    BY DEF PlansOn, DigestPlans, Occurrences
  <2> QED BY <2>4, <2>5
<1>11. OthersOn(b, u, D) = {} BY <1>1 DEF OthersOn, DuesIn, Before
<1>12. Amounts(DigestDues(b, t)) = SumOver(f, K) BY <1>1, DigestAmounts
<1>13. OutflowOn(b, u, D) = SumOver(g, C) + SumOver(g, T) + SumOver(AmountsDue(b), {})
                              + Cardinality(DigestPlans(b, t)) * b.plan.amount
  BY <1>10, <1>11 DEF OutflowOn
<1>14. InflowOn(b, u, D) = SumOver(g, A) + SumOver(g, B) BY DEF InflowOn
<1>15. Cardinality(DigestPlans(b, t)) \in Nat /\ b.plan.amount \in Nat
  <2>1. IsFiniteSet(Days) BY DaysAre, FS_Interval
  <2>2. DigestPlans(b, t) \subseteq Days BY DEF DigestPlans, Occurrences
  <2>3. IsFiniteSet(DigestPlans(b, t)) BY <2>1, <2>2, FS_Subset
  <2> QED BY <2>3, FS_CardinalityType, PlanParts
<1> DEFINE p == Cardinality(DigestPlans(b, t)) * b.plan.amount
           E == A \cup B
           F == E \cup C
<1>16. p \in Nat
  <2> DEFINE x == Cardinality(DigestPlans(b, t))
             y == b.plan.amount
  <2>1. x \in Nat /\ y \in Nat BY <1>15
  <2> HIDE DEF x, y
  <2>2. x * y \in Nat BY <2>1
  <2> QED BY <2>2 DEF x, y
<1> HIDE DEF D, A, B, C, T, K, f, g, p
<1>17. SumOver(AmountsDue(b), {}) = 0 BY SumEmpty
<1>18. /\ IsFiniteSet(E) /\ IsFiniteSet(F) /\ IsFiniteSet(W)
       /\ W = F \cup T /\ W \subseteq 1..Len(b.dues) /\ F \subseteq 1..Len(b.dues) /\ E \subseteq 1..Len(b.dues)
  <2>1. IsFiniteSet(E) BY <1>5, FS_Union
  <2>2. IsFiniteSet(F) BY <1>5, <2>1, FS_Union
  <2>3. IsFiniteSet(F \cup T) BY <1>5, <2>2, FS_Union
  <2> QED BY <1>5, <2>1, <2>2, <2>3
<1>19. /\ SumOver(g, A) = SumOver(f, A) /\ SumOver(g, B) = SumOver(f, B)
       /\ SumOver(g, C) = SumOver(f, C) /\ SumOver(g, T) = SumOver(f, T)
  <2>1. ASSUME NEW S, S \subseteq 1..Len(b.dues), IsFiniteSet(S)
        PROVE  SumOver(g, S) = SumOver(f, S)
    <3>1. \A k \in S : g[k] = f[k] BY <1>3, <2>1
    <3> QED BY <2>1, <3>1, SumSame
  <2> QED BY <1>5, <2>1
<1>20. \A S : S \subseteq 1..Len(b.dues) => \A k \in S : f[k] \in Int BY <1>2
<1>21. SumOver(f, E) = SumOver(f, A) + SumOver(f, B)
  <2>1. \A k \in A \cup B : f[k] \in Int BY <1>5, <1>20
  <2> QED BY <1>5, <1>6, <2>1, SumUnion
<1>22. SumOver(f, F) = SumOver(f, E) + SumOver(f, C)
  <2>1. \A k \in E \cup C : f[k] \in Int BY <1>18, <1>20
  <2> HIDE DEF E
  <2>2. E \cap C = {} BY <1>6 DEF E
  <2> QED BY <1>5, <1>18, <2>1, <2>2, SumUnion
<1>23. SumOver(f, W) = SumOver(f, F) + SumOver(f, T)
  <2>1. \A k \in F \cup T : f[k] \in Int BY <1>18, <1>20
  <2>2. F \cap T = {} BY <1>6
  <2> HIDE DEF F, W
  <2>3. SumOver(f, F \cup T) = SumOver(f, F) + SumOver(f, T) BY <1>5, <1>18, <2>1, <2>2, SumUnion
  <2> QED BY <1>18, <2>3
<1>24. SumOver(f, W) = SumOver(f, K)
  <2>1. \A k \in W : f[k] \in Int BY <1>18, <1>20
  <2> HIDE DEF W
  <2> QED BY <1>9, <1>18, <2>1, SumNothing
<1>25. /\ SumOver(f, A) \in Int /\ SumOver(f, B) \in Int /\ SumOver(f, C) \in Int
       /\ SumOver(f, T) \in Int
  <2>1. ASSUME NEW S, S \subseteq 1..Len(b.dues), IsFiniteSet(S)
        PROVE  SumOver(f, S) \in Int
    <3>1. \A k \in S : f[k] \in Int BY <1>20, <2>1
    <3> QED BY <2>1, <3>1, SumType
  <2> QED BY <1>5, <2>1
<1> DEFINE d == Amounts(DigestDues(b, t))
           i == InflowOn(b, u, D)
           o == OutflowOn(b, u, D)
<1>26. d + p = i + o
  <2>1. d = SumOver(f, K) /\ i = SumOver(f, A) + SumOver(f, B) BY <1>12, <1>14, <1>19
  <2>2. o = SumOver(f, C) + SumOver(f, T) + 0 + p BY <1>13, <1>17, <1>19 DEF p
  <2> HIDE DEF d, i, o, E, F, W
  <2> QED BY <1>16, <1>21, <1>22, <1>23, <1>24, <1>25, <2>1, <2>2
<1> QED BY <1>26 DEF p, D

LEMMA ReportsAgreeWhen ==
  ASSUME NEW day \in Days, NEW b \in BooksType(day), NEW from, from = 1, NEW u, u = day + 1,
         NEW late, late = Overdue(AllItems(b, from, MaxDay, day), day),
         NEW next, next = Overdue(AllItems(b, from, MaxDay, u), u)
  PROVE  /\ SumFunction([m \in Months |-> ProjectsOverdue(b, m, day)]) = Amounts(InflowOf(late))
         /\ ReceivablesOverdue(b, day) = Amounts({i \in late : i.kind = "receivable"})
         /\ Amounts(DigestDues(b, day)) + Cardinality(DigestPlans(b, day)) * b.plan.amount
              = Amounts(next)
<1>1. b \in BooksType(MaxDay) /\ day \in Int /\ u \in Int BY ByTheEnd
<1>2. /\ Amounts(InflowOf(late)) = InflowOn(b, day, Before(day))
      /\ Amounts({i \in late : i.kind = "receivable"})
           = SumOver(LeftOn(b, day), DuesIn(b, "receivable", Before(day)))
  <2>1. from = 1 /\ late = Overdue(AllItems(b, from, MaxDay, day), day) OBVIOUS
  <2> QED BY ONLY <1>1, <2>1, OverdueAmounts
<1>3. Amounts(next) = InflowOn(b, u, Before(u)) + OutflowOn(b, u, Before(u))
  <2>1. from = 1 /\ next = Overdue(AllItems(b, from, MaxDay, u), u) OBVIOUS
  <2> QED BY ONLY <1>1, <2>1, OverdueAmounts
<1>4. /\ SumFunction([m \in Months |-> ProjectsOverdue(b, m, day)]) = InflowOn(b, day, Before(day))
      /\ ReceivablesOverdue(b, day) = SumOver(LeftOn(b, day), DuesIn(b, "receivable", Before(day)))
      /\ Amounts(DigestDues(b, day)) + Cardinality(DigestPlans(b, day)) * b.plan.amount
           = InflowOn(b, u, Before(u)) + OutflowOn(b, u, Before(u))
  BY ProjectsAgree, PageAgrees, DigestAgrees
<1> QED BY <1>2, <1>3, <1>4

\* The reports agree about the same books, whatever these have come to: what is overdue in
\* all months of the project reports is what is overdue in the cash flow report
\* (project-reporting-repository.ts), of which the receivables page has the part of the
\* customers, and the digest of a day is what is overdue on the next.
THEOREM ReportsAgreeHolds == ReportSpec => []ReportsAgree
<1>1. ReportsInv => ReportsAgree
  <2> SUFFICES ASSUME ReportsInv PROVE ReportsAgree OBVIOUS
  <2> DEFINE from == 1
             u == today + 1
             late == Overdue(AllItems(books, from, MaxDay, today), today)
             next == Overdue(AllItems(books, from, MaxDay, u), u)
  <2>1. today \in Days /\ books \in BooksType(today) BY DEF ReportsInv, Sound
  <2>2. /\ from = 1 /\ u = today + 1
        /\ late = Overdue(AllItems(books, from, MaxDay, today), today)
        /\ next = Overdue(AllItems(books, from, MaxDay, u), u)
    OBVIOUS
  <2> HIDE DEF from, u, late, next
  <2>3. /\ SumFunction([m \in Months |-> ProjectsOverdue(books, m, today)]) = Amounts(InflowOf(late))
        /\ ReceivablesOverdue(books, today) = Amounts({i \in late : i.kind = "receivable"})
        /\ Amounts(DigestDues(books, today))
             + Cardinality(DigestPlans(books, today)) * books.plan.amount = Amounts(next)
    BY ONLY <2>1, <2>2, ReportsAgreeWhen
  <2> QED BY <2>3 DEF ReportsAgree, AllItems, from, u, late, next
<1> QED BY <1>1, ReportsInvariant, PTL

-----------------------------------------------------------------------------
(* What is settled with a movement, and without.                           *)

EffectiveOf(b, type) == {i \in Effective(b) : b.moves[i].type = type}
Settling(b, type) == {e \in 1..Len(b.entries) : b.entries[e].move \in EffectiveOf(b, type)}
LinkedIn(b, k) == {e \in Active(b, k) : b.entries[e].move # 0}
LinkedOf(b) == [k \in 1..Len(b.dues) |-> SumOver(WorthOf(b), LinkedIn(b, k))]

\* A movement that settles something counts just when what it settles is not taken back.
LEMMA SettlesWhen ==
  ASSUME NEW b, Sound(b, MaxDay), NEW e \in 1..Len(b.entries)
  PROVE  LET k == b.entries[e].of
             i == b.entries[e].move
         IN /\ i \in Effective(b) <=> i # 0 /\ e \in Active(b, k)
            /\ i \in Effective(b) =>
                 /\ i \in 1..Len(b.moves) /\ b.moves[i].type = SideOf(b.dues[k].kind)
                 /\ k \in 1..Len(b.dues) /\ b.dues[k].kind \in {"receivable", "card"}
                 /\ Worth(b, e) = b.moves[i].amount /\ b.moves[i].amount \in Nat
<1> DEFINE k == b.entries[e].of
           i == b.entries[e].move
<1>1. /\ b \in BooksType(MaxDay) /\ EntriesApart(b) /\ MovesFollow(b)
      /\ \A x \in 1..Len(b.entries) : EntrySound(b, x)
  BY DEF Sound
<1>2. \A x \in 1..Len(b.entries) :
        /\ b.entries[x].of \in 1..Len(b.dues)
        /\ b.dues[b.entries[x].of].kind \in {"receivable", "card", "contribution"}
        /\ b.entries[x].back # 0 =>
             /\ b.entries[x].back \in 1..Len(b.entries)
             /\ b.entries[b.entries[x].back].of = b.entries[x].of
             /\ (b.entries[b.entries[x].back].move = 0) = (b.entries[x].move = 0)
             /\ b.entries[x].move # 0 =>
                  b.moves[b.entries[x].move].back = b.entries[b.entries[x].back].move
        /\ b.entries[x].move # 0 =>
             /\ b.entries[x].move \in 1..Len(b.moves)
             /\ b.dues[b.entries[x].of].kind # "contribution"
             /\ b.moves[b.entries[x].move].managed
             /\ b.moves[b.entries[x].move].amount = b.entries[x].amount
             /\ b.entries[x].back = 0 =>
                  /\ b.moves[b.entries[x].move].back = 0
                  /\ b.moves[b.entries[x].move].type = SideOf(b.dues[b.entries[x].of].kind)
  BY <1>1 DEF EntrySound
<1>3. \A x, y \in 1..Len(b.entries) :
        b.entries[x].move # 0 /\ b.entries[x].move = b.entries[y].move => x = y
  BY <1>1 DEF EntriesApart
<1>4. Effective(b) = {j \in 1..Len(b.moves) : /\ b.moves[j].back = 0
                                              /\ \A n \in 1..Len(b.moves) : b.moves[n].back # j}
  BY DEF Effective
<1>5. Active(b, k) = {x \in Entries(b, k) : /\ b.entries[x].back = 0
                                            /\ \A y \in Entries(b, k) : b.entries[y].back # x}
  BY DEF Active
<1>6. e \in Entries(b, k) BY DEF Entries
<1>7. 0 \notin 1..Len(b.moves) OBVIOUS
<1>8. ASSUME i \in Effective(b)
      PROVE  i # 0 /\ e \in Active(b, k) /\ b.entries[e].back = 0
  <2>1. i \in 1..Len(b.moves) /\ i # 0 /\ b.moves[i].back = 0
        /\ \A n \in 1..Len(b.moves) : b.moves[n].back # i
    BY <1>4, <1>7, <1>8
  <2>2. b.entries[e].back = 0 BY <1>2, <2>1
  <2>3. ASSUME NEW y \in Entries(b, k), b.entries[y].back = e PROVE FALSE
    <3>1. y \in 1..Len(b.entries) /\ e # 0 BY DEF Entries
    <3>2. b.entries[y].move # 0 BY <1>2, <2>1, <2>3, <3>1
    <3>3. b.entries[y].move \in 1..Len(b.moves) /\ b.moves[b.entries[y].move].back = i
      BY <1>2, <2>3, <3>1, <3>2
    <3> QED BY <2>1, <3>3
  <2> QED BY <1>5, <1>6, <2>1, <2>2, <2>3
<1>9. ASSUME i # 0, e \in Active(b, k)
      PROVE  i \in Effective(b)
  <2>1. b.entries[e].back = 0 /\ \A y \in Entries(b, k) : b.entries[y].back # e BY <1>5, <1>9
  <2>2. i \in 1..Len(b.moves) /\ b.moves[i].back = 0 /\ b.moves[i].managed BY <1>2, <1>9, <2>1
  <2>3. ASSUME NEW n \in 1..Len(b.moves), b.moves[n].back = i PROVE FALSE
    <3>1. b.moves[n].back # 0 /\ b.moves[b.moves[n].back].managed BY <1>9, <2>2, <2>3
    <3>2. PICK f \in 1..Len(b.entries) : b.entries[f].back # 0 /\ b.entries[f].move = n
      BY <1>1, <3>1 DEF MovesFollow
    <3>3. n # 0 BY <1>7
    <3>4. /\ b.entries[f].back \in 1..Len(b.entries)
          /\ b.entries[b.entries[f].back].of = b.entries[f].of
          /\ b.entries[b.entries[f].back].move = i
      BY <1>2, <2>3, <3>2, <3>3
    <3>5. b.entries[f].back = e BY <1>3, <1>9, <3>4
    <3>6. f \in Entries(b, k) BY <3>4, <3>5 DEF Entries
    <3> QED BY <2>1, <3>5, <3>6
  <2> QED BY <1>4, <2>2, <2>3
<1>10. ASSUME i \in Effective(b)
       PROVE  /\ i \in 1..Len(b.moves) /\ b.moves[i].type = SideOf(b.dues[k].kind)
              /\ k \in 1..Len(b.dues) /\ b.dues[k].kind \in {"receivable", "card"}
              /\ Worth(b, e) = b.moves[i].amount /\ b.moves[i].amount \in Nat
  <2>1. i # 0 /\ b.entries[e].back = 0 BY <1>8, <1>10
  <2>2. /\ i \in 1..Len(b.moves) /\ b.moves[i].type = SideOf(b.dues[k].kind)
        /\ k \in 1..Len(b.dues) /\ b.dues[k].kind \in {"receivable", "card"}
        /\ b.moves[i].amount = b.entries[e].amount
    BY <1>2, <2>1
  <2>3. Worth(b, e) = b.entries[e].amount BY <2>1 DEF Worth
  <2>4. b.moves[i].amount \in Nat BY <1>1, <2>2, MoveParts
  <2> QED BY <2>2, <2>3, <2>4
<1>11. i \in Effective(b) <=> i # 0 /\ e \in Active(b, k) BY <1>8, <1>9
<1> QED BY <1>10, <1>11

MovesOfEntries(b) == [e \in 1..Len(b.entries) |-> b.entries[e].move]
DuesOfEntries(b) == [e \in 1..Len(b.entries) |-> b.entries[e].of]
DaysOfMoves(b) == [i \in 1..Len(b.moves) |-> b.moves[i].day]

LEMMA EffectiveTyped ==
  ASSUME NEW b \in BooksType(MaxDay), NEW type
  PROVE  /\ EffectiveOf(b, type) \subseteq 1..Len(b.moves) /\ IsFiniteSet(EffectiveOf(b, type))
         /\ Settling(b, type) \subseteq 1..Len(b.entries) /\ IsFiniteSet(Settling(b, type))
         /\ \A i \in 1..Len(b.moves) : /\ MoveAmounts(b)[i] = b.moves[i].amount
                                       /\ MoveAmounts(b)[i] \in Nat
         /\ \A e \in 1..Len(b.entries) : WorthOf(b)[e] = Worth(b, e) /\ WorthOf(b)[e] \in Int
<1>1. EffectiveOf(b, type) \subseteq 1..Len(b.moves) BY DEF EffectiveOf, Effective
<1>2. Settling(b, type) \subseteq 1..Len(b.entries) BY DEF Settling
<1>3. IsFiniteSet(EffectiveOf(b, type)) /\ IsFiniteSet(Settling(b, type))
  BY <1>1, <1>2, Lengths, FS_Subset
<1>4. \A i \in 1..Len(b.moves) : MoveAmounts(b)[i] = b.moves[i].amount /\ MoveAmounts(b)[i] \in Nat
  BY MoveParts DEF MoveAmounts
<1>5. \A e \in 1..Len(b.entries) : WorthOf(b)[e] = Worth(b, e) /\ WorthOf(b)[e] \in Int
  BY WorthTyped
<1> QED BY <1>1, <1>2, <1>3, <1>4, <1>5

\* A movement settles something, or nothing.
LEMMA MovesSplit ==
  ASSUME NEW b, Sound(b, MaxDay), NEW type
  PROVE  /\ SumOver(MoveAmounts(b), EffectiveOf(b, type))
              = Plain(b, type) + SumOver(WorthOf(b), Settling(b, type))
         /\ Plain(b, type) \in Int /\ SumOver(WorthOf(b), Settling(b, type)) \in Int
<1> DEFINE E == EffectiveOf(b, type)
           P == PlainMoves(b, type)
           S == Settling(b, type)
           m == MovesOfEntries(b)
           f == MoveAmounts(b)
           h == WorthOf(b)
           V == Values(m, S)
           x == [i \in P |-> b.moves[i].amount]
<1>0. b \in BooksType(MaxDay) BY DEF Sound
<1>1. /\ E \subseteq 1..Len(b.moves) /\ IsFiniteSet(E)
      /\ S \subseteq 1..Len(b.entries) /\ IsFiniteSet(S)
      /\ \A i \in 1..Len(b.moves) : f[i] = b.moves[i].amount /\ f[i] \in Nat
      /\ \A e \in 1..Len(b.entries) : h[e] = Worth(b, e) /\ h[e] \in Int
  BY <1>0, EffectiveTyped
<1>2. \A e \in S : m[e] = b.entries[e].move /\ m[e] \in E BY <1>1 DEF Settling, MovesOfEntries
<1>3. P \subseteq E /\ x = [i \in P |-> b.moves[i].amount] BY DEF PlainMoves, EffectiveOf
<1>4. V = E \ P
  <2>1. \A i \in E : i \notin P <=> \E e \in 1..Len(b.entries) : b.entries[e].move = i
    BY DEF PlainMoves, EffectiveOf
  <2>2. \A i \in E : \A e \in 1..Len(b.entries) : b.entries[e].move = i => e \in S
    BY DEF Settling
  <2>3. V = {m[e] : e \in S} BY DEF Values
  <2> HIDE DEF V, E, P, S, m
  <2>4. ASSUME NEW i \in V PROVE i \in E \ P
    <3>1. PICK e \in S : i = m[e] BY ONLY <2>3, <2>4
    <3>2. m[e] = b.entries[e].move /\ m[e] \in E BY ONLY <1>2, <3>1
    <3>3. e \in 1..Len(b.entries) BY ONLY <1>1, <3>1
    <3>4. i \in E /\ b.entries[e].move = i BY ONLY <3>1, <3>2
    <3>5. i \notin P BY ONLY <2>1, <3>3, <3>4
    <3> QED BY ONLY <3>4, <3>5
  <2>5. \A i \in E \ P : i \in V BY <1>1, <1>2, <2>1, <2>2, <2>3
  <2> QED BY <2>4, <2>5
<1>5. OneOrigin(m, S)
  <2> SUFFICES ASSUME NEW e \in S, NEW g \in S, m[e] = m[g] PROVE e = g BY DEF OneOrigin
  <2>1. e \in 1..Len(b.entries) /\ g \in 1..Len(b.entries) /\ b.entries[e].move = b.entries[g].move
    BY <1>1, <1>2
  <2>2. b.entries[e].move \in 1..Len(b.moves) BY <1>1, <1>2
  <2>3. b.entries[e].move # 0 BY <2>2
  <2> QED BY <2>1, <2>3 DEF Sound, EntriesApart
<1>6. \A e \in S : f[m[e]] \in Int /\ h[e] = f[m[e]]
  <2> SUFFICES ASSUME NEW e \in S PROVE f[m[e]] \in Int /\ h[e] = f[m[e]] OBVIOUS
  <2> DEFINE i == b.entries[e].move
  <2>1. e \in 1..Len(b.entries) /\ m[e] = i /\ i \in E BY <1>1, <1>2
  <2>2. i \in Effective(b) BY <2>1 DEF EffectiveOf
  <2>3. i \in 1..Len(b.moves) /\ Worth(b, e) = b.moves[i].amount /\ b.moves[i].amount \in Nat
    BY <2>1, <2>2, SettlesWhen
  <2> HIDE DEF i, m, f, h, E, S
  <2> QED BY <1>1, <2>1, <2>3
<1>7. Along(f, m, h, S) BY <1>6 DEF Along
<1>8. Plain(b, type) = SumOver(x, P) BY SumFunctionIs DEF Plain
<1> HIDE DEF E, P, S, m, f, h, V, x
<1>9. IsFiniteSet(P) /\ IsFiniteSet(V) /\ V \subseteq E /\ P \cap V = {} /\ E = P \cup V
  BY <1>1, <1>3, <1>4, FS_Subset
<1>10. \A i \in P \cup V : f[i] \in Nat /\ f[i] \in Int /\ f[i] = b.moves[i].amount BY <1>1, <1>9
<1>11. SumOver(x, P) = SumOver(f, P)
  <2>1. \A i \in P : x[i] = f[i] BY <1>3, <1>10
  <2> QED BY <1>9, <2>1, SumSame
<1>12. SumOver(f, V) = SumOver(h, S) BY <1>1, <1>5, <1>7, SumImage DEF V
<1>13. SumOver(f, P \cup V) = SumOver(f, P) + SumOver(f, V)
  <2>1. \A i \in P \cup V : f[i] \in Int BY <1>10
  <2> QED BY <1>9, <2>1, SumUnion
<1>14. SumOver(f, P) \in Int /\ SumOver(h, S) \in Int
  <2>1. (\A i \in P : f[i] \in Int) /\ \A e \in S : h[e] \in Int BY <1>1, <1>10
  <2> QED BY <1>1, <1>9, <2>1, SumType
<1> QED BY <1>8, <1>9, <1>11, <1>12, <1>13, <1>14 DEF E, S, f, h

\* What moved on all days is what the report has of each.
LEMMA TurnoverOfDays ==
  ASSUME NEW b \in BooksType(MaxDay), NEW t \in Days,
         \A i \in 1..Len(b.moves) : b.moves[i].day <= t, NEW type,
         NEW x, DOMAIN x = Until(t), \A d \in Until(t) : x[d] = Turnover(b, d, type)
  PROVE  SumFunction(x) = SumOver(MoveAmounts(b), EffectiveOf(b, type))
<1> DEFINE E == EffectiveOf(b, type)
           f == MoveAmounts(b)
           m == DaysOfMoves(b)
           R == Until(t)
<1>1. E \subseteq 1..Len(b.moves) /\ IsFiniteSet(E) /\ \A i \in E : f[i] \in Int BY EffectiveTyped
<1>2. \A i \in E : m[i] = b.moves[i].day /\ m[i] \in R
  <2> SUFFICES ASSUME NEW i \in E PROVE m[i] = b.moves[i].day /\ m[i] \in R OBVIOUS
  <2>1. i \in 1..Len(b.moves) BY <1>1
  <2>2. b.moves[i].day \in Until(MaxDay) /\ b.moves[i].day <= t BY <2>1, MoveParts
  <2> QED BY <2>1, <2>2 DEF Until, DaysOfMoves
<1>3. \A d \in R : x[d] = SumOver(f, Group(m, E, d))
  <2> SUFFICES ASSUME NEW d \in R PROVE x[d] = SumOver(f, Group(m, E, d)) OBVIOUS
  <2> DEFINE S == OfType(b, d, type)
  <2>1. S = OfType(b, d, type) OBVIOUS
  <2>2. \A i \in E : m[i] = b.moves[i].day BY <1>2
  <2>3. S = Group(m, E, d) BY <2>2 DEF OfType, MovesOn, EffectiveOf, Group
  <2> HIDE DEF S
  <2>4. Turnover(b, d, type) = SumOver(f, S) BY <2>1, TurnoverIs
  <2> QED BY <2>3, <2>4
<1>4. IsFiniteSet(R)
  <2>1. IsFiniteSet(Days) /\ R \subseteq Days BY DaysAre, FS_Interval DEF Until
  <2> QED BY <2>1, FS_Subset
<1>5. SumFunction(x) = SumOver(x, R) BY SumFunctionIs
<1> HIDE DEF E, f, m, R
<1>6. (\A i \in E : f[i] \in Int) /\ (\A i \in E : m[i] \in R) /\ IsFiniteSet(E) BY <1>1, <1>2
<1>7. SumOver(x, R) = SumOver(f, E) BY ONLY <1>3, <1>4, <1>6, SumGroups
<1> QED BY <1>5, <1>7 DEF E, f

LEMMA LinkedTyped ==
  ASSUME NEW b, Sound(b, MaxDay), NEW k
  PROVE  /\ LinkedIn(b, k) \subseteq Active(b, k) /\ IsFiniteSet(LinkedIn(b, k))
         /\ IsFiniteSet(Active(b, k)) /\ Active(b, k) \subseteq 1..Len(b.entries)
         /\ \A e \in Active(b, k) : WorthOf(b)[e] \in Nat
         /\ SumOver(WorthOf(b), LinkedIn(b, k)) \in Nat
         /\ Net(b, k, MaxDay) = SumOver(WorthOf(b), Active(b, k))
<1> DEFINE A == Active(b, k)
           L == LinkedIn(b, k)
           f == WorthOf(b)
<1>1. MaxDay \in Days BY DaysAre
<1>2. /\ Net(b, k, MaxDay) = SumOver(f, A) /\ IsFiniteSet(A) /\ \A e \in A : f[e] \in Nat
  BY <1>1, NetIsActive
<1>3. L \subseteq A /\ A \subseteq 1..Len(b.entries) BY DEF LinkedIn, Active, Entries
<1> HIDE DEF A, L, f
<1>4. IsFiniteSet(L) BY <1>2, <1>3, FS_Subset
<1>5. \A e \in L : f[e] \in Nat BY <1>2, <1>3
<1>6. SumOver(f, L) \in Nat BY <1>4, <1>5, SumNat
<1> QED BY <1>2, <1>3, <1>4, <1>6 DEF A, L, f

\* What settled a due without a movement: what takes such an entry back has none either.
OldOf(b, k) == SumFunction([e \in Old(b, k) |-> Worth(b, e)])

LEMMA OldIsActive ==
  ASSUME NEW b, Sound(b, MaxDay), NEW k
  PROVE  /\ Net(b, k, MaxDay) = SumOver(WorthOf(b), LinkedIn(b, k)) + OldOf(b, k)
         /\ OldOf(b, k) \in Nat
<1> DEFINE A == Active(b, k)
           L == LinkedIn(b, k)
           O == A \ L
           Q == Old(b, k) \ O
           f == WorthOf(b)
           x == [e \in Old(b, k) |-> Worth(b, e)]
           m == [e \in Q |-> PartnerIn(b, k, e)]
<1>1. b \in BooksType(MaxDay) /\ MaxDay \in Days /\ \A e \in 1..Len(b.entries) : EntrySound(b, e)
  BY DaysAre DEF Sound
<1>2. /\ L \subseteq A /\ IsFiniteSet(L) /\ IsFiniteSet(A) /\ A \subseteq 1..Len(b.entries)
      /\ \A e \in A : f[e] \in Nat
      /\ Net(b, k, MaxDay) = SumOver(f, A)
  BY LinkedTyped
<1>3. /\ IsFiniteSet(Entries(b, k)) /\ Entries(b, k) \subseteq 1..Len(b.entries)
      /\ \A e \in 1..Len(b.entries) : f[e] = Worth(b, e) /\ f[e] \in Int
  BY <1>1, WorthTyped
<1>4. O \subseteq Old(b, k) /\ Old(b, k) \subseteq Entries(b, k) /\ Q = Old(b, k) \cap Paired(b, k)
  BY DEF LinkedIn, Old, Paired, Active
<1>5. ASSUME NEW e \in Q
      PROVE  /\ PartnerIn(b, k, e) \in Q /\ PartnerIn(b, k, e) # e
             /\ PartnerIn(b, k, PartnerIn(b, k, e)) = e
             /\ f[e] + f[PartnerIn(b, k, e)] = 0
  <2> DEFINE p == PartnerIn(b, k, e)
  <2>1. e \in Paired(b, k) /\ b.entries[e].move = 0 BY <1>4 DEF Old
  <2>2. /\ p \in Paired(b, k) /\ p # e /\ PartnerIn(b, k, p) = e
        /\ Worth(b, e) + Worth(b, p) = 0
    BY <1>1, <2>1, Partners
  <2>3. p \in Entries(b, k) /\ e \in Entries(b, k) /\ e \in 1..Len(b.entries)
        /\ p \in 1..Len(b.entries)
    BY <1>3, <2>1, <2>2 DEF Paired
  <2>4. b.entries[p].move = 0
    <3>1. CASE b.entries[e].back # 0
      <4>1. p = b.entries[e].back BY <3>1 DEF PartnerIn
      <4>2. (b.entries[p].move = 0) = (b.entries[e].move = 0)
        BY <1>1, <2>3, <3>1, <4>1 DEF EntrySound
      <4> QED BY <2>1, <4>2
    <3>2. CASE b.entries[e].back = 0
      <4>1. b.entries[p].back # 0 /\ b.entries[p].back = e
        <5>1. PICK g \in Entries(b, k) : b.entries[g].back = e
          BY <2>1, <2>3, <3>2 DEF Paired, Active
        <5>2. p = CHOOSE y \in Entries(b, k) : b.entries[y].back = e BY <3>2 DEF PartnerIn
        <5>3. b.entries[p].back = e BY <5>1, <5>2
        <5>4. e # 0 BY <2>3
        <5> QED BY <5>3, <5>4
      <4>2. (b.entries[e].move = 0) = (b.entries[p].move = 0)
        BY <1>1, <2>3, <4>1 DEF EntrySound
      <4> QED BY <2>1, <4>2
    <3> QED BY <3>1, <3>2
  <2>5. p \in Q BY <1>4, <2>2, <2>3, <2>4 DEF Old
  <2>6. f[e] = Worth(b, e) /\ f[p] = Worth(b, p) BY <1>3, <2>3
  <2> HIDE DEF p, Q, f
  <2> QED BY <2>2, <2>5, <2>6 DEF p
<1>6. m \in [Q -> Q] /\ \A e \in Q : m[m[e]] = e /\ m[e] # e /\ f[e] + f[m[e]] = 0
  <2> HIDE DEF Q, f
  <2> QED BY <1>5
<1>7. OldOf(b, k) = SumOver(x, Old(b, k)) BY SumFunctionIs DEF OldOf
<1>8. IsFiniteSet(Old(b, k)) /\ (\A e \in Old(b, k) : x[e] = f[e] /\ f[e] \in Int)
      /\ O \cap Q = {} /\ Old(b, k) = O \cup Q
  BY <1>3, <1>4, FS_Subset
<1>9. IsFiniteSet(O) /\ IsFiniteSet(Q) BY <1>4, <1>8, FS_Subset
<1> HIDE DEF A, L, f, x, m
<1>10. SumOver(x, Old(b, k)) = SumOver(f, Old(b, k)) BY <1>8, SumSame
<1> HIDE DEF O, Q
<1>11. (\A e \in O \cup Q : f[e] \in Int) /\ \A e \in Q : f[e] \in Int BY <1>8
<1>12. SumOver(f, Q) = 0 BY <1>6, <1>9, <1>11, SumPairs
<1>13. SumOver(f, O \cup Q) = SumOver(f, O) + SumOver(f, Q) BY <1>8, <1>9, <1>11, SumUnion
<1>14. L \cap O = {} /\ A = L \cup O BY <1>2 DEF O
<1>15. \A e \in L \cup O : f[e] \in Int BY <1>2, <1>14
<1>16. SumOver(f, L \cup O) = SumOver(f, L) + SumOver(f, O) BY <1>2, <1>9, <1>14, <1>15, SumUnion
<1>17. SumOver(f, O) \in Nat
  <2>1. \A e \in O : f[e] \in Nat BY <1>2, <1>14
  <2> QED BY <1>9, <2>1, SumNat
<1>18. OldOf(b, k) = SumOver(f, O) BY <1>7, <1>8, <1>10, <1>12, <1>13, <1>17
<1>19. Net(b, k, MaxDay) = SumOver(f, L) + SumOver(f, O) BY <1>2, <1>14, <1>16
<1> QED BY <1>17, <1>18, <1>19 DEF f, L

\* What a due was settled by, with a movement or without, and what is left make up its amount.
LEMMA DueSplit ==
  ASSUME NEW b, Sound(b, MaxDay), NEW t \in Days, t >= FirstDay,
         \A e \in 1..Len(b.entries) : b.entries[e].day <= t,
         NEW k \in 1..Len(b.dues), b.dues[k].live, b.dues[k].kind # "other"
  PROVE  /\ b.dues[k].amount = Left(b, k, t) + LinkedOf(b)[k] + WithoutMove(b, k)
         /\ WithoutMove(b, k) \in Int
<1> DEFINE a == b.dues[k].amount
           n == Net(b, k, MaxDay)
           l == LinkedOf(b)[k]
           o == OldOf(b, k)
           paid == b.dues[k].paid
           mark == MarkedPaid(b, k)
           kind == b.dues[k].kind
           w == WithoutMove(b, k)
           left == Left(b, k, t)
           s == Settled(b, k, t)
<1>1. /\ b \in BooksType(MaxDay) /\ MaxDay \in Days /\ t \in Int
      /\ \A e \in 1..Len(b.entries) : EntrySound(b, e)
      /\ DueSound(b, k)
  BY DaysAre DEF Sound
<1>2. n = l + o /\ l \in Nat /\ o \in Nat BY OldIsActive, LinkedTyped DEF LinkedOf
<1>3. /\ a \in Nat /\ n \in 0..a
      /\ paid # 0 => kind = "tax" \/ (kind = "card" /\ paid <= FirstDay)
      /\ paid \in Nat
  <2>1. a \in Nat /\ paid \in Until(MaxDay) \cup {0} BY <1>1, DueParts
  <2>2. paid \in Nat BY <2>1, DaysAre DEF Until
  <2> QED BY <1>1, <2>1, <2>2 DEF DueSound
<1>4. kind \in {"receivable", "contribution", "card", "tax"} BY <1>1, DueParts
<1>5. Net(b, k, t) = n
  <2>1. Until2(b, k, t) = Entries(b, k) BY DEF Until2, Entries
  <2>2. Net(b, k, t) = SumOver(WorthOf(b), Entries(b, k)) BY <1>1, <2>1, NetIs
  <2>3. n = SumOver(WorthOf(b), Entries(b, k)) BY <1>1, NetIs, AllByTheEnd
  <2> QED BY <2>2, <2>3
<1>6. left = IF a - s > 0 THEN a - s ELSE 0 BY <1>1, SettledTyped
<1>7. mark = IF paid # 0 THEN a ELSE 0 BY DEF MarkedPaid
<1>8. w = IF kind = "contribution" THEN n
          ELSE o + IF Entries(b, k) = {} THEN mark ELSE 0
  BY DEF WithoutMove, OldOf
<1>9. Entries(b, k) = {} => n = 0 /\ l = 0 /\ o = 0
  <2>1. n = SumOver(WorthOf(b), Entries(b, k)) BY <1>1, NetIs, AllByTheEnd
  <2>2. SumOver(WorthOf(b), {}) = 0 BY SumEmpty
  <2> HIDE DEF n, l, o
  <2>3. Entries(b, k) = {} => n = 0 BY <2>1, <2>2
  <2> QED BY <1>2, <2>3
<1>10. CASE kind = "receivable"
  <2>1. s = n BY <1>5, <1>10 DEF Settled
  <2>2. paid = 0 BY <1>3, <1>10
  <2> HIDE DEF a, n, l, o, paid, mark, kind, w, left, s
  <2>3. w = o BY <1>2, <1>7, <1>8, <1>10, <2>2
  <2>4. a = left + l + w BY <1>2, <1>3, <1>6, <2>1, <2>3
  <2> QED BY <1>2, <2>3, <2>4 DEF a, l, w, left
<1>11. CASE kind = "contribution"
  <2>1. s = n BY <1>11 DEF Settled
  <2>2. l = 0
    <3>1. LinkedIn(b, k) = {}
      <4> SUFFICES ASSUME NEW e \in LinkedIn(b, k) PROVE FALSE OBVIOUS
      <4>1. e \in 1..Len(b.entries) /\ b.entries[e].of = k /\ b.entries[e].move # 0
        BY DEF LinkedIn, Active, Entries
      <4> QED BY <1>1, <1>11, <4>1 DEF EntrySound
    <3> QED BY <3>1, SumEmpty DEF LinkedOf
  <2> HIDE DEF a, n, l, o, paid, mark, kind, w, left, s
  <2>3. w = n BY <1>8, <1>11
  <2>4. a = left + l + w BY <1>2, <1>3, <1>6, <2>1, <2>2, <2>3
  <2> QED BY <1>2, <2>3, <2>4 DEF a, l, w, left
<1>12. CASE kind = "card"
  <2> DEFINE c == CardSettled(b, k, t)
  <2>1. s = Clipped(c, a) BY <1>12 DEF Settled
  <2>2. c = IF Entries(b, k) # {} THEN n ELSE IF paid <= t THEN mark ELSE 0
    BY <1>5 DEF CardSettled
  <2> HIDE DEF a, n, l, o, paid, mark, kind, w, left, s, c
  <2>3. paid <= t BY <1>3, <1>12, DaysAre DEF FirstDay
  <2>4. mark \in Nat /\ mark <= a BY <1>3, <1>7
  <2>5. c \in Nat /\ c <= a BY <1>3, <2>2, <2>3, <2>4
  <2>6. s = c BY <1>3, <2>1, <2>5 DEF Clipped, AtMost, AtLeast
  <2>7. left = a - c BY <1>3, <1>6, <2>5, <2>6
  <2>8. c = l + w /\ w \in Nat
    <3>1. CASE Entries(b, k) = {} BY <1>2, <1>8, <1>9, <1>12, <2>2, <2>3, <2>4, <3>1
    <3>2. CASE Entries(b, k) # {} BY <1>2, <1>8, <1>12, <2>2, <3>2
    <3> QED BY <3>1, <3>2
  <2>9. a = left + l + w BY <1>2, <1>3, <2>5, <2>7, <2>8
  <2> QED BY <2>8, <2>9 DEF a, l, w, left
<1>13. CASE kind = "tax"
  <2>1. s = mark BY <1>13 DEF Settled
  <2>2. Entries(b, k) = {}
    <3> SUFFICES ASSUME NEW e \in Entries(b, k) PROVE FALSE OBVIOUS
    <3>1. e \in 1..Len(b.entries) /\ b.entries[e].of = k BY DEF Entries
    <3> QED BY <1>1, <1>13, <3>1 DEF EntrySound
  <2> HIDE DEF a, n, l, o, paid, mark, kind, w, left, s
  <2>3. mark \in Nat /\ mark <= a BY <1>3, <1>7
  <2>4. left = a - mark /\ w = mark /\ l = 0 BY <1>3, <1>6, <1>8, <1>9, <1>13, <2>1, <2>2, <2>3
  <2>5. a = left + l + w BY <1>3, <2>3, <2>4
  <2> QED BY <2>3, <2>4, <2>5 DEF a, l, w, left
<1> QED BY <1>4, <1>10, <1>11, <1>12, <1>13

\* Only receivables and instalments are settled by movements, and only while they count.
LEMMA NotLinked ==
  ASSUME NEW b, Sound(b, MaxDay), NEW k \in 1..Len(b.dues),
         ~b.dues[k].live \/ b.dues[k].kind \notin {"receivable", "card"}
  PROVE  LinkedOf(b)[k] = 0
<1>1. /\ \A e \in 1..Len(b.entries) : EntrySound(b, e)
      /\ DueSound(b, k)
  BY DEF Sound
<1>2. CASE b.dues[k].kind \notin {"receivable", "card"}
  <2>1. LinkedIn(b, k) = {}
    <3> SUFFICES ASSUME NEW e \in LinkedIn(b, k) PROVE FALSE OBVIOUS
    <3>1. e \in 1..Len(b.entries) /\ b.entries[e].of = k /\ b.entries[e].move # 0
      BY DEF LinkedIn, Active, Entries
    <3> QED BY <1>1, <1>2, <3>1 DEF EntrySound
  <2> QED BY <2>1, SumEmpty DEF LinkedOf
<1>3. CASE ~b.dues[k].live
  <2> DEFINE n == Net(b, k, MaxDay)
             l == LinkedOf(b)[k]
             o == OldOf(b, k)
  <2>1. n = l + o /\ l \in Nat /\ o \in Nat BY OldIsActive, LinkedTyped DEF LinkedOf
  <2>2. n = 0 BY <1>1, <1>3 DEF DueSound
  <2> HIDE DEF n, l, o
  <2>3. l = 0 BY <2>1, <2>2
  <2> QED BY <2>3 DEF l
<1> QED BY <1>2, <1>3

LEMMA AmountOfIs ==
  ASSUME NEW b \in BooksType(MaxDay), NEW S, S \subseteq 1..Len(b.dues)
  PROVE  /\ AmountOf(b, S) = SumOver(AmountsDue(b), S) /\ IsFiniteSet(S)
         /\ \A k \in S : AmountsDue(b)[k] = b.dues[k].amount /\ AmountsDue(b)[k] \in Int
         /\ AmountOf(b, S) \in Nat
<1> DEFINE x == [k \in S |-> b.dues[k].amount]
           f == AmountsDue(b)
<1>1. IsFiniteSet(S) BY Lengths, FS_Subset
<1>2. \A k \in S : f[k] = b.dues[k].amount /\ x[k] = f[k] /\ f[k] \in Nat BY DueParts DEF AmountsDue
<1>3. AmountOf(b, S) = SumOver(x, S) BY SumFunctionIs DEF AmountOf
<1> HIDE DEF x, f
<1>4. SumOver(x, S) = SumOver(f, S) BY <1>1, <1>2, SumSame
<1>5. SumOver(f, S) \in Nat BY <1>1, <1>2, SumNat
<1> QED BY <1>1, <1>2, <1>3, <1>4, <1>5 DEF f

\* The movements that settle something belong to receivables, or to instalments.
LEMMA LinkedByDue ==
  ASSUME NEW b, Sound(b, MaxDay), NEW type, NEW kind,
         (type = "income" /\ kind = "receivable") \/ (type = "expense" /\ kind = "card")
  PROVE  SumOver(WorthOf(b), Settling(b, type)) = SumOver(LinkedOf(b), Live(b, kind))
<1> DEFINE S == Settling(b, type)
           f == WorthOf(b)
           m == DuesOfEntries(b)
           h == LinkedOf(b)
           R == {k \in 1..Len(b.dues) : b.dues[k].kind = kind}
           T == Live(b, kind)
<1>0. b \in BooksType(MaxDay) BY DEF Sound
<1>1. /\ S \subseteq 1..Len(b.entries) /\ IsFiniteSet(S)
      /\ \A e \in 1..Len(b.entries) : f[e] \in Int
  BY <1>0, EffectiveTyped
<1>2. SideOf("card") = "expense" /\ SideOf("receivable") = "income" BY DEF SideOf
<1>3. kind \in {"receivable", "card"} /\ SideOf(kind) = type BY <1>2
<1>4. ASSUME NEW e \in S
      PROVE  m[e] \in R /\ m[e] = b.entries[e].of /\ e \in LinkedIn(b, m[e])
  <2> DEFINE k == b.entries[e].of
             i == b.entries[e].move
  <2>1. e \in 1..Len(b.entries) /\ i \in Effective(b) /\ b.moves[i].type = type
    BY DEF Settling, EffectiveOf
  <2>2. /\ i # 0 /\ e \in Active(b, k) /\ k \in 1..Len(b.dues)
        /\ b.dues[k].kind \in {"receivable", "card"} /\ b.moves[i].type = SideOf(b.dues[k].kind)
    BY <2>1, SettlesWhen
  <2>3. b.dues[k].kind = kind BY <1>2, <1>3, <2>1, <2>2
  <2>4. m[e] = k BY <2>1 DEF DuesOfEntries
  <2>5. k \in R BY <2>2, <2>3
  <2>6. e \in LinkedIn(b, k) BY <2>2 DEF LinkedIn
  <2> HIDE DEF m, k, R
  <2> QED BY <2>4, <2>5, <2>6 DEF k
<1>5. ASSUME NEW k \in R, NEW e \in LinkedIn(b, k)
      PROVE  e \in S /\ m[e] = k
  <2>1. e \in 1..Len(b.entries) /\ b.entries[e].of = k /\ b.entries[e].move # 0 /\ e \in Active(b, k)
    BY DEF LinkedIn, Active, Entries
  <2>2. /\ b.entries[e].move \in Effective(b)
        /\ b.moves[b.entries[e].move].type = SideOf(b.dues[k].kind)
    BY <2>1, SettlesWhen
  <2>3. b.dues[k].kind = kind OBVIOUS
  <2>4. e \in S BY <1>3, <2>1, <2>2, <2>3 DEF Settling, EffectiveOf
  <2> QED BY <2>1, <2>4 DEF DuesOfEntries
<1>6. T \subseteq R /\ R \subseteq 1..Len(b.dues) BY DEF Live
<1>7. IsFiniteSet(R) BY <1>0, <1>6, Lengths, FS_Subset
<1>8. \A k \in 1..Len(b.dues) : h[k] = SumOver(f, LinkedIn(b, k)) /\ h[k] \in Int
  BY LinkedTyped DEF LinkedOf
<1>9. \A k \in R \ T : h[k] = 0
  <2>1. \A k \in R \ T : k \in 1..Len(b.dues) /\ ~b.dues[k].live BY DEF Live
  <2> HIDE DEF h, R, T
  <2> QED BY <2>1, NotLinked DEF h
<1> HIDE DEF S, f, m, h, R, T
<1>10. \A k \in R : h[k] = SumOver(f, Group(m, S, k))
  <2> SUFFICES ASSUME NEW k \in R PROVE h[k] = SumOver(f, Group(m, S, k)) OBVIOUS
  <2>1. Group(m, S, k) = LinkedIn(b, k) BY <1>4, <1>5 DEF Group
  <2> QED BY <1>6, <1>8, <2>1
<1>11. (\A e \in S : f[e] \in Int) /\ (\A e \in S : m[e] \in R) /\ IsFiniteSet(S) BY <1>1, <1>4
<1>12. SumOver(h, R) = SumOver(f, S) BY ONLY <1>7, <1>10, <1>11, SumGroups
<1>13. (\A k \in R : h[k] \in Int) /\ T \in SUBSET R BY <1>6, <1>8
<1>14. SumOver(h, R) = SumOver(h, T) BY ONLY <1>7, <1>9, <1>13, SumNothing
<1> QED BY <1>12, <1>14 DEF S, f, h, T

Unmoved(b) == [k \in 1..Len(b.dues) |-> WithoutMove(b, k)]

\* All dues of a kind.
LEMMA KindSplit ==
  ASSUME NEW b, Sound(b, MaxDay), NEW t \in Days, t >= FirstDay,
         \A e \in 1..Len(b.entries) : b.entries[e].day <= t,
         NEW kind, kind \in {"receivable", "contribution", "card", "tax"}
  PROVE  /\ AmountOf(b, Live(b, kind))
              = SumOver(LeftOn(b, t), Live(b, kind)) + SumOver(LinkedOf(b), Live(b, kind))
                  + Unposted(b, kind)
         /\ SumOver(LeftOn(b, t), Live(b, kind)) \in Nat
         /\ SumOver(LinkedOf(b), Live(b, kind)) \in Int /\ Unposted(b, kind) \in Int
         /\ kind \notin {"receivable", "card"} => SumOver(LinkedOf(b), Live(b, kind)) = 0
<1> DEFINE T == Live(b, kind)
           a == AmountsDue(b)
           x == LeftOn(b, t)
           y == LinkedOf(b)
           z == Unmoved(b)
           xy == [k \in T |-> x[k] + y[k]]
           u == [k \in T |-> WithoutMove(b, k)]
<1>1. b \in BooksType(MaxDay) /\ t \in Int BY DaysAre DEF Sound
<1>2. T \subseteq 1..Len(b.dues) /\ IsFiniteSet(T) BY <1>1, LiveAre
<1>3. AmountOf(b, T) = SumOver(a, T) /\ \A k \in T : a[k] = b.dues[k].amount
  <2> HIDE DEF T
  <2> QED BY <1>1, <1>2, AmountOfIs
<1>4. \A k \in T : /\ a[k] = x[k] + y[k] + z[k] /\ x[k] \in Nat /\ y[k] \in Nat /\ z[k] \in Int
                   /\ u[k] = z[k] /\ xy[k] = x[k] + y[k]
                   /\ kind \notin {"receivable", "card"} => y[k] = 0
  <2> SUFFICES ASSUME NEW k \in T
               PROVE  /\ a[k] = x[k] + y[k] + z[k] /\ x[k] \in Nat /\ y[k] \in Nat /\ z[k] \in Int
                      /\ u[k] = z[k] /\ xy[k] = x[k] + y[k]
                      /\ kind \notin {"receivable", "card"} => y[k] = 0
    OBVIOUS
  <2>1. k \in 1..Len(b.dues) /\ b.dues[k].live /\ b.dues[k].kind = kind BY DEF Live
  <2>2. b.dues[k].kind # "other" BY <2>1
  <2>3. /\ b.dues[k].amount = Left(b, k, t) + y[k] + WithoutMove(b, k)
        /\ WithoutMove(b, k) \in Int
    BY <2>1, <2>2, DueSplit
  <2>4. x[k] = Left(b, k, t) /\ x[k] \in Nat BY <1>1, <2>1, LeftsTyped
  <2>5. y[k] \in Nat BY <2>1, LinkedTyped DEF LinkedOf
  <2>6. z[k] = WithoutMove(b, k) /\ u[k] = WithoutMove(b, k) BY <2>1 DEF Unmoved
  <2>7. kind \notin {"receivable", "card"} => y[k] = 0 BY <2>1, NotLinked
  <2>8. xy[k] = x[k] + y[k] OBVIOUS
  <2>9. a[k] = b.dues[k].amount BY <1>3
  <2> HIDE DEF a, x, y, z, u, xy, T
  <2> QED BY <2>3, <2>4, <2>5, <2>6, <2>7, <2>8, <2>9
<1>5. Unposted(b, kind) = SumOver(u, T) BY SumFunctionIs DEF Unposted
<1> HIDE DEF T, a, x, y, z, xy, u
<1>6. SumOver(u, T) = SumOver(z, T) BY <1>2, <1>4, SumSame
<1>7. \A k \in T : x[k] \in Int /\ y[k] \in Int /\ xy[k] = x[k] + y[k] BY <1>4
<1>8. \A k \in T : xy[k] \in Int /\ z[k] \in Int /\ a[k] = xy[k] + z[k] BY <1>4
<1>9. IsFiniteSet(T) BY <1>2
<1>10. SumOver(xy, T) = SumOver(x, T) + SumOver(y, T) BY ONLY <1>7, <1>9, SumPlus
<1>11. SumOver(a, T) = SumOver(xy, T) + SumOver(z, T) BY ONLY <1>8, <1>9, SumPlus
<1>12. SumOver(x, T) \in Nat BY <1>2, <1>4, SumNat
<1>13. SumOver(y, T) \in Int /\ SumOver(z, T) \in Int
  <2>1. (\A k \in T : y[k] \in Int) /\ \A k \in T : z[k] \in Int BY <1>4
  <2> QED BY <1>2, <2>1, SumType
<1>14. kind \notin {"receivable", "card"} => SumOver(y, T) = 0
  <2> SUFFICES ASSUME kind \notin {"receivable", "card"} PROVE SumOver(y, T) = 0 OBVIOUS
  <2> DEFINE none == {}
  <2>1. none \in SUBSET T /\ (\A k \in T \ none : y[k] = 0) /\ \A k \in T : y[k] \in Int BY <1>4
  <2>2. SumOver(y, none) = 0 BY SumEmpty
  <2> HIDE DEF none
  <2>3. SumOver(y, T) = SumOver(y, none) BY ONLY <1>9, <2>1, SumNothing
  <2> QED BY <2>2, <2>3
<1>15. SumOver(a, T) = SumOver(x, T) + SumOver(y, T) + SumOver(z, T) BY <1>10, <1>11
<1> QED BY <1>3, <1>5, <1>6, <1>12, <1>13, <1>14, <1>15 DEF T, x, y

\* Expenses of other kinds are ahead, or not classified.
LEMMA OthersSplit ==
  ASSUME NEW b \in BooksType(MaxDay), NEW from, from = 1, NEW t \in Int
  PROVE  /\ AmountOf(b, Live(b, "other"))
              = SumOver(AmountsDue(b), OthersOn(b, t, Nat)) + Unclassified(b, from, MaxDay, t)
         /\ SumOver(AmountsDue(b), OthersOn(b, t, Nat)) \in Int
         /\ Unclassified(b, from, MaxDay, t) \in Int
<1> DEFINE T == Live(b, "other")
           A == OthersOn(b, t, Nat)
           B == {k \in T : b.dues[k].due \in from..MaxDay /\ b.dues[k].due <= t}
           f == AmountsDue(b)
<1>1. T \subseteq 1..Len(b.dues) BY DEF Live
<1>2. \A k \in T : b.dues[k].due \in Nat /\ b.dues[k].due \in from..MaxDay
  BY <1>1, DueParts, DaysAre
<1>3. A = {k \in T : b.dues[k].due > t}
  BY <1>2 DEF OthersOn, DuesIn
<1>4. B = T \ A
  <2>1. \A k \in T : b.dues[k].due <= t <=> ~(b.dues[k].due > t)
    <3> SUFFICES ASSUME NEW k \in T PROVE b.dues[k].due <= t <=> ~(b.dues[k].due > t) OBVIOUS
    <3> DEFINE d == b.dues[k].due
    <3>1. d \in Nat BY <1>2
    <3> HIDE DEF d
    <3>2. d <= t <=> ~(d > t) BY <3>1
    <3> QED BY <3>2 DEF d
  <2> HIDE DEF T, A
  <2> QED BY <1>2, <1>3, <2>1
<1>5. Unclassified(b, from, MaxDay, t) = AmountOf(b, B) BY DEF Unclassified
<1> HIDE DEF T, A, B, f
<1>6. A \subseteq 1..Len(b.dues) /\ B \subseteq 1..Len(b.dues) /\ A \cap B = {} /\ T = A \cup B
  BY <1>1, <1>3, <1>4
<1>7. /\ AmountOf(b, T) = SumOver(f, T) /\ \A k \in T : f[k] \in Int
  BY <1>1, AmountOfIs DEF f
<1>8. AmountOf(b, A) = SumOver(f, A) /\ IsFiniteSet(A) /\ AmountOf(b, A) \in Nat
  BY <1>6, AmountOfIs DEF f
<1>9. AmountOf(b, B) = SumOver(f, B) /\ IsFiniteSet(B) /\ AmountOf(b, B) \in Nat
  BY <1>6, AmountOfIs DEF f
<1>10. SumOver(f, A \cup B) = SumOver(f, A) + SumOver(f, B)
  <2>1. \A k \in A \cup B : f[k] \in Int BY <1>6, <1>7
  <2> QED BY <1>6, <1>8, <1>9, <2>1, SumUnion
<1>11. /\ AmountOf(b, T) = SumOver(f, A) + Unclassified(b, from, MaxDay, t)
       /\ SumOver(f, A) \in Int /\ Unclassified(b, from, MaxDay, t) \in Int
  BY <1>5, <1>6, <1>7, <1>8, <1>9, <1>10
<1> QED BY <1>11 DEF T, A, f

\* What is forecast by a report of all days.
LEMMA ForecastAmounts ==
  ASSUME NEW b \in BooksType(MaxDay), NEW from, from = 1, NEW day \in Int,
         NEW U, U = AllItems(b, from, MaxDay, day)
  PROVE  /\ Amounts(InflowOf(U)) = SumOver(LeftOn(b, day), Live(b, "receivable"))
                                    + SumOver(LeftOn(b, day), Live(b, "contribution"))
         /\ Amounts(OutflowOf(U))
              = SumOver(LeftOn(b, day), Live(b, "card")) + SumOver(LeftOn(b, day), Live(b, "tax"))
                  + SumOver(AmountsDue(b), OthersOn(b, day, Nat))
                  + Cardinality({n \in Occurrences(b, MaxDay) : Event(b, n) <= MaxDay}) * b.plan.amount
<1>10. PICK D : D = Nat OBVIOUS
<1> DEFINE A == ReceivableItems(b, from, MaxDay, day)
           B == ContributionItems(b, from, MaxDay, day)
           C == CardItems(b, from, MaxDay, day)
           T == TaxItems(b, from, MaxDay, day)
           E == OtherItems(b, from, MaxDay, day)
           F == PlanItems(b, from, MaxDay, day)
           In == InflowItemsOn(b, from, day, D)
           Out == OutflowItemsOn(b, from, day, D)
<1>0. b \in BooksType(MaxDay) /\ from = 1 /\ day \in Int OBVIOUS
<1>1. \A i \in U : i.due \in D
  <2>1. from \in Days /\ MaxDay \in Days BY DaysAre
  <2> QED BY <1>10, <2>1, ItemsSound DEF ItemSound
<1>2. U = A \cup B \cup C \cup T \cup E \cup F BY DEF AllItems, DueItems
<1>3. /\ \A i \in A : i.side = "inflow"
      /\ \A i \in B : i.side = "inflow"
      /\ \A i \in C : i.side = "outflow"
      /\ \A i \in T : i.side = "outflow"
      /\ \A i \in E : i.side = "outflow"
      /\ \A i \in F : i.side = "outflow"
  BY <1>0, ArmTags
<1>4. /\ In = ItemsOn(A, D) \cup ItemsOn(B, D)
      /\ Out = ItemsOn(C, D) \cup ItemsOn(T, D) \cup ItemsOn(E, D) \cup ItemsOn(F, D)
  BY DEF InflowItemsOn, OutflowItemsOn, ReceivablesOn, ContributionsOn, CardLinesOn, TaxesOn,
         OtherLinesOn, PlanLinesOn
<1>5. Amounts(In) = InflowOn(b, day, D) /\ Amounts(Out) = OutflowOn(b, day, D)
  BY ONLY <1>0, WholeAmounts
<1>6. ASSUME NEW kind
      PROVE  DuesIn(b, kind, D) = Live(b, kind)
  <2>1. \A k \in Live(b, kind) : b.dues[k].due \in D
    <3>1. \A k \in Live(b, kind) : k \in 1..Len(b.dues) BY DEF Live
    <3> QED BY <1>10, <3>1, DueParts, DaysAre
  <2> QED BY <2>1 DEF DuesIn
<1>7. PlansOn(b, D) = {n \in Occurrences(b, MaxDay) : Event(b, n) <= MaxDay}
  <2>1. \A n \in Occurrences(b, MaxDay) : Event(b, n) \in D
    <3>1. \A n \in Occurrences(b, MaxDay) : n \in Days BY DEF Occurrences
    <3> QED BY <1>10, <3>1, EventIs
  <2> QED BY <2>1 DEF PlansOn
<1>8. OutflowOn(b, day, D)
        = SumOver(LeftOn(b, day), DuesIn(b, "card", D)) + SumOver(LeftOn(b, day), DuesIn(b, "tax", D))
            + SumOver(AmountsDue(b), OthersOn(b, day, D)) + Cardinality(PlansOn(b, D)) * b.plan.amount
  BY DEF OutflowOn
<1>9. InflowOn(b, day, D) = SumOver(LeftOn(b, day), DuesIn(b, "receivable", D))
                              + SumOver(LeftOn(b, day), DuesIn(b, "contribution", D))
  BY DEF InflowOn
<1> HIDE DEF A, B, C, T, E, F, In, Out
<1>11. \A S \in SUBSET U : ItemsOn(S, D) = S BY <1>1 DEF ItemsOn
<1>12. In = A \cup B /\ Out = C \cup T \cup E \cup F
  <2>1. /\ A \in SUBSET U /\ B \in SUBSET U /\ C \in SUBSET U /\ T \in SUBSET U
        /\ E \in SUBSET U /\ F \in SUBSET U
    BY <1>2
  <2> QED BY <1>4, <1>11, <2>1
<1>13. InflowOf(U) = In BY <1>2, <1>3, <1>12 DEF InflowOf
<1>14. OutflowOf(U) = Out BY <1>2, <1>3, <1>12 DEF OutflowOf
<1>15. /\ DuesIn(b, "receivable", D) = Live(b, "receivable")
       /\ DuesIn(b, "contribution", D) = Live(b, "contribution")
       /\ DuesIn(b, "card", D) = Live(b, "card") /\ DuesIn(b, "tax", D) = Live(b, "tax")
  BY <1>6
<1>16. Amounts(InflowOf(U)) = SumOver(LeftOn(b, day), Live(b, "receivable"))
                                + SumOver(LeftOn(b, day), Live(b, "contribution"))
  BY <1>5, <1>9, <1>13, <1>15
<1>17. Amounts(OutflowOf(U))
         = SumOver(LeftOn(b, day), Live(b, "card")) + SumOver(LeftOn(b, day), Live(b, "tax"))
             + SumOver(AmountsDue(b), OthersOn(b, day, D)) + Cardinality(PlansOn(b, D)) * b.plan.amount
  BY <1>5, <1>8, <1>14, <1>15
<1> QED BY <1>7, <1>10, <1>16, <1>17

\* Dues of different kinds are different dues.
LEMMA KindsApart ==
  ASSUME NEW b \in BooksType(MaxDay), NEW S, S \subseteq 1..Len(b.dues),
         NEW T, T \subseteq 1..Len(b.dues), S \cap T = {}
  PROVE  AmountOf(b, S \cup T) = AmountOf(b, S) + AmountOf(b, T)
         /\ AmountOf(b, S) \in Nat /\ AmountOf(b, T) \in Nat
<1> DEFINE R == S \cup T
           f == AmountsDue(b)
<1>1. R \subseteq 1..Len(b.dues) OBVIOUS
<1>2. AmountOf(b, S) = SumOver(f, S) /\ IsFiniteSet(S) /\ AmountOf(b, S) \in Nat BY AmountOfIs
<1>3. AmountOf(b, T) = SumOver(f, T) /\ IsFiniteSet(T) /\ AmountOf(b, T) \in Nat BY AmountOfIs
<1>4. AmountOf(b, R) = SumOver(f, R) /\ \A k \in R : f[k] \in Int
  <2> HIDE DEF R
  <2> QED BY <1>1, AmountOfIs
<1> HIDE DEF f
<1>5. IsFiniteSet(S) /\ IsFiniteSet(T) /\ S \cap T = {} /\ \A k \in S \cup T : f[k] \in Int
  BY <1>2, <1>3, <1>4
<1>6. SumOver(f, S \cup T) = SumOver(f, S) + SumOver(f, T) BY ONLY <1>5, SumUnion
<1> QED BY <1>2, <1>3, <1>4, <1>6

AheadOf(b) ==
  Cardinality({n \in Occurrences(b, MaxDay) : Event(b, n) <= MaxDay}) * b.plan.amount

\* Both sides of the account of a report, given what moved and what is forecast.
Balanced(b, from, t, U, in, out) ==
  /\ in + Amounts(InflowOf(U)) + Unposted(b, "receivable") + Unposted(b, "contribution")
       = AmountOf(b, Live(b, "receivable") \cup Live(b, "contribution")) + Plain(b, "income")
  /\ out + Amounts(OutflowOf(U)) + Unclassified(b, from, MaxDay, t)
       + Unposted(b, "card") + Unposted(b, "tax")
       = AmountOf(b, Live(b, "card") \cup Live(b, "tax") \cup Live(b, "other"))
           + AheadOf(b) + Plain(b, "expense")

LEMMA CountedWhen ==
  ASSUME NEW b, Sound(b, MaxDay), NEW t \in Days, t >= FirstDay,
         \A i \in 1..Len(b.moves) : b.moves[i].day <= t,
         \A e \in 1..Len(b.entries) : b.entries[e].day <= t,
         NEW from, from = 1, NEW U, U = AllItems(b, from, MaxDay, t),
         NEW in, in = SumOver(MoveAmounts(b), EffectiveOf(b, "income")),
         NEW out, out = SumOver(MoveAmounts(b), EffectiveOf(b, "expense"))
  PROVE  Balanced(b, from, t, U, in, out)
<1> DEFINE ahead == AheadOf(b)
           rec == Live(b, "receivable")
           con == Live(b, "contribution")
           card == Live(b, "card")
           tax == Live(b, "tax")
           other == Live(b, "other")
           x == LeftOn(b, t)
           y == LinkedOf(b)
           unlike == SumOver(AmountsDue(b), OthersOn(b, t, Nat))
           rest == Unclassified(b, from, MaxDay, t)
<1>1. b \in BooksType(MaxDay) /\ t \in Int /\ from = 1 /\ U = AllItems(b, from, MaxDay, t)
  BY DaysAre DEF Sound
<1>2. /\ Amounts(InflowOf(U)) = SumOver(x, rec) + SumOver(x, con)
      /\ Amounts(OutflowOf(U)) = SumOver(x, card) + SumOver(x, tax) + unlike + ahead
  <2>1. /\ Amounts(InflowOf(U)) = SumOver(LeftOn(b, t), Live(b, "receivable"))
                                    + SumOver(LeftOn(b, t), Live(b, "contribution"))
        /\ Amounts(OutflowOf(U))
             = SumOver(LeftOn(b, t), Live(b, "card")) + SumOver(LeftOn(b, t), Live(b, "tax"))
                 + SumOver(AmountsDue(b), OthersOn(b, t, Nat))
                 + Cardinality({n \in Occurrences(b, MaxDay) : Event(b, n) <= MaxDay}) * b.plan.amount
    BY ONLY <1>1, ForecastAmounts
  <2> QED BY <2>1 DEF AheadOf
<1>3. ASSUME NEW kind, kind \in {"receivable", "contribution", "card", "tax"}
      PROVE  /\ AmountOf(b, Live(b, kind))
                  = SumOver(x, Live(b, kind)) + SumOver(y, Live(b, kind)) + Unposted(b, kind)
             /\ SumOver(x, Live(b, kind)) \in Nat
             /\ SumOver(y, Live(b, kind)) \in Int /\ Unposted(b, kind) \in Int
             /\ kind \notin {"receivable", "card"} => SumOver(y, Live(b, kind)) = 0
  BY <1>3, KindSplit
<1>4. /\ AmountOf(b, rec) = SumOver(x, rec) + SumOver(y, rec) + Unposted(b, "receivable")
      /\ SumOver(x, rec) \in Nat /\ SumOver(y, rec) \in Int /\ Unposted(b, "receivable") \in Int
  BY <1>3
<1>5. /\ AmountOf(b, con) = SumOver(x, con) + Unposted(b, "contribution")
      /\ SumOver(x, con) \in Nat /\ Unposted(b, "contribution") \in Int
  <2>1. /\ AmountOf(b, con) = SumOver(x, con) + SumOver(y, con) + Unposted(b, "contribution")
        /\ SumOver(x, con) \in Nat /\ Unposted(b, "contribution") \in Int /\ SumOver(y, con) = 0
    BY <1>3
  <2> HIDE DEF con, x, y
  <2> QED BY <2>1
<1>6. /\ AmountOf(b, card) = SumOver(x, card) + SumOver(y, card) + Unposted(b, "card")
      /\ SumOver(x, card) \in Nat /\ SumOver(y, card) \in Int /\ Unposted(b, "card") \in Int
  BY <1>3
<1>7. /\ AmountOf(b, tax) = SumOver(x, tax) + Unposted(b, "tax")
      /\ SumOver(x, tax) \in Nat /\ Unposted(b, "tax") \in Int
  <2>1. /\ AmountOf(b, tax) = SumOver(x, tax) + SumOver(y, tax) + Unposted(b, "tax")
        /\ SumOver(x, tax) \in Nat /\ Unposted(b, "tax") \in Int /\ SumOver(y, tax) = 0
    BY <1>3
  <2> HIDE DEF tax, x, y
  <2> QED BY <2>1
<1>8. AmountOf(b, other) = unlike + rest /\ unlike \in Int /\ rest \in Int
  <2>1. /\ AmountOf(b, Live(b, "other"))
             = SumOver(AmountsDue(b), OthersOn(b, t, Nat)) + Unclassified(b, from, MaxDay, t)
        /\ SumOver(AmountsDue(b), OthersOn(b, t, Nat)) \in Int
        /\ Unclassified(b, from, MaxDay, t) \in Int
    BY ONLY <1>1, OthersSplit
  <2> QED BY <2>1
<1>9. ASSUME NEW type, NEW kind,
             (type = "income" /\ kind = "receivable") \/ (type = "expense" /\ kind = "card")
      PROVE  /\ SumOver(MoveAmounts(b), EffectiveOf(b, type)) = Plain(b, type) + SumOver(y, Live(b, kind))
             /\ Plain(b, type) \in Int
  <2>1. SumOver(WorthOf(b), Settling(b, type)) = SumOver(LinkedOf(b), Live(b, kind))
    BY <1>9, LinkedByDue
  <2> QED BY <2>1, MovesSplit
<1>10. in = Plain(b, "income") + SumOver(y, rec) /\ Plain(b, "income") \in Int BY <1>9
<1>11. out = Plain(b, "expense") + SumOver(y, card) /\ Plain(b, "expense") \in Int BY <1>9
<1>12. /\ rec \subseteq 1..Len(b.dues) /\ con \subseteq 1..Len(b.dues) /\ card \subseteq 1..Len(b.dues)
       /\ tax \subseteq 1..Len(b.dues) /\ other \subseteq 1..Len(b.dues)
       /\ rec \cap con = {} /\ card \cap tax = {} /\ (card \cup tax) \cap other = {}
  BY DEF Live
<1>13. ahead \in Int
  <2>1. IsFiniteSet(Days) BY DaysAre, FS_Interval
  <2> DEFINE S == {n \in Occurrences(b, MaxDay) : Event(b, n) <= MaxDay}
             a == b.plan.amount
  <2>2. S \subseteq Days BY DEF Occurrences
  <2>3. a \in Nat BY <1>1, PlanParts
  <2>4. ahead = Cardinality(S) * a BY DEF AheadOf
  <2> HIDE DEF S, a
  <2>5. IsFiniteSet(S) BY <2>1, <2>2, FS_Subset
  <2>6. Cardinality(S) \in Nat BY <2>5, FS_CardinalityType
  <2> QED BY <2>3, <2>4, <2>6
<1> HIDE DEF ahead, rec, con, card, tax, other, x, y, unlike, rest
<1>14. AmountOf(b, rec \cup con) = AmountOf(b, rec) + AmountOf(b, con)
  BY <1>1, <1>12, KindsApart
<1>15. AmountOf(b, card \cup tax) = AmountOf(b, card) + AmountOf(b, tax)
  BY <1>1, <1>12, KindsApart
<1>16. AmountOf(b, card \cup tax \cup other) = AmountOf(b, card \cup tax) + AmountOf(b, other)
  <2>1. card \cup tax \subseteq 1..Len(b.dues) BY <1>12
  <2> QED BY <1>1, <1>12, <2>1, KindsApart
<1>17. in + Amounts(InflowOf(U)) + Unposted(b, "receivable") + Unposted(b, "contribution")
         = AmountOf(b, rec \cup con) + Plain(b, "income")
  BY <1>2, <1>4, <1>5, <1>10, <1>14
<1>18. out + Amounts(OutflowOf(U)) + rest + Unposted(b, "card") + Unposted(b, "tax")
         = AmountOf(b, card \cup tax \cup other) + ahead + Plain(b, "expense")
  <2> DEFINE all == AmountOf(b, card \cup tax \cup other)
             due == Amounts(OutflowOf(U))
             c == SumOver(x, card)
             d == SumOver(x, tax)
             l == SumOver(y, card)
             uc == Unposted(b, "card")
             ut == Unposted(b, "tax")
             p == Plain(b, "expense")
  <2>1. all = ((c + l + uc) + (d + ut)) + (unlike + rest) BY <1>6, <1>7, <1>8, <1>15, <1>16
  <2>2. due = c + d + unlike + ahead /\ out = p + l BY <1>2, <1>11
  <2>3. /\ c \in Int /\ d \in Int /\ l \in Int /\ uc \in Int /\ ut \in Int /\ p \in Int
        /\ unlike \in Int /\ rest \in Int /\ ahead \in Int
    BY <1>6, <1>7, <1>8, <1>11, <1>13
  <2> HIDE DEF all, due, c, d, l, uc, ut, p
  <2>4. out + due + rest + uc + ut = all + ahead + p BY ONLY <2>1, <2>2, <2>3
  <2> QED BY <2>4 DEF all, due, uc, ut, p
<1> QED BY <1>17, <1>18 DEF Balanced, ahead, rec, con, card, tax, other, rest

LEMMA CountedOnceHolds == ReportsInv => CountedOnce
<1> SUFFICES ASSUME ReportsInv, Finished, Whole, SameDay(r.view[1]) PROVE CountedOnce
  BY DEF CountedOnce
<1> DEFINE b == r.view[1]
           t == r.today
           from == 1
           U == AllItems(b, from, MaxDay, t)
           in == SumOver(MoveAmounts(b), EffectiveOf(b, "income"))
           out == SumOver(MoveAmounts(b), EffectiveOf(b, "expense"))
           ahead == AheadOf(b)
<1>1. CashSound(r) /\ r.step = "done" /\ r.kind = "cash" /\ r.today \in Until(today)
      /\ r.today >= FirstDay /\ r.from = 1 /\ r.to = MaxDay
  BY DEF ReportsInv, ReportSound, Finished, Whole
<1>2. /\ DueIn(r, r.view[1]) /\ PlansIn(r, r.view[1]) /\ ActualIn(r, r.view[1])
      /\ UnclassifiedIn(r, r.view[1]) /\ Sound(r.view[1], MaxDay)
  BY <1>1 DEF CashSound
<1>3. /\ Sound(b, MaxDay) /\ t \in Days /\ t >= FirstDay
      /\ \A i \in 1..Len(b.moves) : b.moves[i].day <= t
      /\ \A e \in 1..Len(b.entries) : b.entries[e].day <= t
      /\ b \in BooksType(MaxDay)
  BY <1>1, <1>2 DEF SameDay, Until, Sound
<1>4. /\ from = 1 /\ U = AllItems(b, from, MaxDay, t)
      /\ in = SumOver(MoveAmounts(b), EffectiveOf(b, "income"))
      /\ out = SumOver(MoveAmounts(b), EffectiveOf(b, "expense"))
      /\ ahead = AheadOf(b)
  OBVIOUS
<1>5. r.due \cup r.plans = U BY <1>1, <1>2 DEF DueIn, PlansIn, AllItems
<1>6. r.unclassified = Unclassified(b, from, MaxDay, t) BY <1>1, <1>2 DEF UnclassifiedIn
<1>7. ShownDays(r) = Until(t)
  <2>1. r.from = 1 /\ r.to = MaxDay BY <1>1
  <2>2. ShownDays(r) = {d \in 1..MaxDay : d <= t} BY <2>1 DEF ShownDays
  <2> QED BY <2>2, DaysAre DEF Until
<1>8. r.actual = [d \in Until(t) |-> [inflow |-> Turnover(b, d, "income"),
                                      outflow |-> Turnover(b, d, "expense")]]
  BY <1>2, <1>7 DEF ActualIn
<1> HIDE DEF b, t, from, U, in, out, ahead
<1> DEFINE xi == [d \in DOMAIN r.actual |-> r.actual[d]["inflow"]]
           xo == [d \in DOMAIN r.actual |-> r.actual[d]["outflow"]]
<1>9. /\ DOMAIN xi = Until(t) /\ DOMAIN xo = Until(t)
      /\ \A d \in Until(t) : xi[d] = Turnover(b, d, "income") /\ xo[d] = Turnover(b, d, "expense")
  BY <1>8
<1>10. ActualOf("inflow") = SumFunction(xi) /\ ActualOf("outflow") = SumFunction(xo) BY DEF ActualOf
<1> HIDE DEF xi, xo
<1>11. ASSUME NEW type, NEW x, DOMAIN x = Until(t), \A d \in Until(t) : x[d] = Turnover(b, d, type)
       PROVE  SumFunction(x) = SumOver(MoveAmounts(b), EffectiveOf(b, type))
  BY <1>3, <1>11, TurnoverOfDays
<1>12. ActualOf("inflow") = in /\ ActualOf("outflow") = out BY <1>4, <1>9, <1>10, <1>11
<1>13. Balanced(b, from, t, U, in, out) BY ONLY <1>3, <1>4, CountedWhen
<1> DEFINE forecast == r.due \cup r.plans
<1>14. /\ ActualOf("inflow") + Amounts(InflowOf(forecast))
            + Unposted(b, "receivable") + Unposted(b, "contribution")
            = AmountOf(b, Live(b, "receivable") \cup Live(b, "contribution")) + Plain(b, "income")
       /\ ActualOf("outflow") + Amounts(OutflowOf(forecast)) + r.unclassified
            + Unposted(b, "card") + Unposted(b, "tax")
            = AmountOf(b, Live(b, "card") \cup Live(b, "tax") \cup Live(b, "other"))
                + ahead + Plain(b, "expense")
  BY <1>4, <1>5, <1>6, <1>12, <1>13 DEF Balanced
<1> QED BY ONLY <1>14 DEF CountedOnce, b, ahead, forecast, AheadOf

\* The totals of a report of all days have every amount of the books once, and the list
\* under the forecast says what the totals above it say
\* (composeCashFlowReport, src/src/features/finance/cash-flow-service.ts).
THEOREM TotalsCompleteHolds == ReportSpec => []TotalsComplete
<1>1. ReportsInv => TotalsComplete BY CountedOnceHolds, ListMatchesTotalsHolds DEF TotalsComplete
<1> QED BY <1>1, ReportsInvariant, PTL

-----------------------------------------------------------------------------
(* The outbox.                                                             *)

USE EventsAssumption, CapAssumption, GrantedAssumption, HorizonAssumption

-----------------------------------------------------------------------------
(* Type correctness.                                                       *)

\* A sum of instants is an instant, whatever the summands.
LEMMA LaterType == \A t, d : Later(t, d) \in 0..Horizon
  BY DEF Later

LEMMA RowAttempts == \A x \in Rows : x.attempts \in Nat
<1> SUFFICES ASSUME NEW x \in Rows PROVE x.attempts \in Nat OBVIOUS
<1>1. x.attempts \in 0..AttemptCap BY DEF Rows
<1> QED BY <1>1

\* An event keeps within the attempts it was granted, and one that was never
\* written has had none.
AttemptBounds ==
  \A e \in Events :
    /\ event[e].attempts <= event[e].max
    /\ event[e].status = "absent" => event[e].attempts = 0

\* No dispatcher decides on an instant that is still to come.
ClockRead == \A w \in Dispatchers : at[w] <= now

Typed == TypeOK /\ AttemptBounds /\ ClockRead

LEMMA FirstDueSubset == \A S, n : FirstDue(S, n) \subseteq S
  BY DEF FirstDue

LEMMA InitTyped == Init => Typed
  BY DEF Init, Typed, TypeOK, AttemptBounds, ClockRead, Rows, Statuses, NoRow

\* What writing an event again makes of its row.
LEMMA EnqueueRows ==
  ASSUME Typed, NEW e \in Events, Enqueue(e)
  PROVE  /\ event' \in [Events -> Rows]
         /\ \A f \in Events \ {e} : event'[f] = event[f]
         /\ event[e].status # "absent" => event'[e] = event[e]
         /\ event[e].status = "absent" =>
              event'[e].attempts = 0 /\ event'[e].status = "pending"
<1>1. event \in [Events -> Rows] /\ now \in 0..Horizon
  BY DEF Typed, TypeOK
<1>2. [status |-> "pending", avail |-> now, attempts |-> 0,
       max |-> Granted[e], token |-> 0, expires |-> 0] \in Rows
  BY <1>1 DEF Rows, Statuses
<1>3. event' = [event EXCEPT ![e] =
         IF event[e].status = "absent"
         THEN [status |-> "pending", avail |-> now, attempts |-> 0,
               max |-> Granted[e], token |-> 0, expires |-> 0]
         ELSE event[e]]
  BY DEF Enqueue
<1> QED
  BY <1>1, <1>2, <1>3

LEMMA ReleasedType ==
  ASSUME Typed, NEW e \in Events, NEW status \in Statuses,
         NEW avail \in 0..Horizon
  PROVE  /\ ReleasedRow(e, status, avail) \in Rows
         /\ ReleasedRow(e, status, avail).status = status
         /\ ReleasedRow(e, status, avail).attempts = event[e].attempts
         /\ ReleasedRow(e, status, avail).max = event[e].max
<1>1. event[e] \in Rows
  BY DEF Typed, TypeOK
<1>2. ReleasedRow(e, status, avail) =
        [status |-> status, avail |-> avail, attempts |-> event[e].attempts,
         max |-> event[e].max, token |-> 0, expires |-> 0]
  BY DEF ReleasedRow
<1> QED
  BY <1>1, <1>2 DEF Rows

LEMMA ClaimedType ==
  ASSUME Typed, NEW t, NEW e \in Claimable(t)
  PROVE  /\ e \in Events
         /\ AttemptNo(e) \in Attempts
         /\ AttemptNo(e) = event[e].attempts + 1
         /\ AttemptNo(e) <= event[e].max
         /\ ClaimedRow(e, t) \in Rows
         /\ ClaimedRow(e, t).status = "leased"
         /\ ClaimedRow(e, t).attempts = AttemptNo(e)
         /\ ClaimedRow(e, t).max = event[e].max
<1>1. Later(t, Lease) \in 0..Horizon
  BY LaterType
<1>2. e \in Events /\ event[e] \in Rows /\ lastToken + 1 \in Nat
  BY DEF Typed, TypeOK, Claimable
<1>3. event[e].attempts < event[e].max
  BY DEF Claimable
<1>4. /\ AttemptNo(e) \in Attempts
      /\ AttemptNo(e) = event[e].attempts + 1
      /\ AttemptNo(e) <= event[e].max
  BY <1>2, <1>3 DEF Rows, Attempts, AttemptNo
<1>5. ClaimedRow(e, t) =
        [status |-> "leased", avail |-> event[e].avail,
         attempts |-> AttemptNo(e), max |-> event[e].max,
         token |-> lastToken + 1, expires |-> Later(t, Lease)]
  BY DEF ClaimedRow
<1>6. ClaimedRow(e, t) \in Rows
  BY <1>1, <1>2, <1>4, <1>5 DEF Rows, Statuses, Attempts
<1> QED
  BY <1>2, <1>4, <1>5, <1>6

\* A claim transaction takes events of the claimable, buries exhausted ones,
\* and leaves the others alone.
LEMMA ClaimRows ==
  ASSUME Typed, NEW w \in Dispatchers, ClaimTxn(w)
  PROVE  LET claimed == FirstDue(Claimable(at[w]), BatchSize(w)) IN
         /\ event' \in [Events -> Rows]
         /\ claimed \subseteq Claimable(at[w])
         /\ \A e \in claimed : /\ event'[e].attempts = AttemptNo(e)
                               /\ event'[e].max = event[e].max
                               /\ event'[e].status = "leased"
         /\ \A e \in Events \ claimed :
              /\ event'[e].attempts = event[e].attempts
              /\ event'[e].max = event[e].max
              /\ \/ event'[e] = event[e]
                 \/ event[e].status = "leased" /\ event'[e].status = "dead_letter"
<1> DEFINE claimed == FirstDue(Claimable(at[w]), BatchSize(w))
<1>1. claimed \subseteq Claimable(at[w])
  BY FirstDueSubset
<1>2. PICK buried \in SUBSET Exhausted(at[w]) :
        event' = [e \in Events |->
                    IF e \in claimed THEN ClaimedRow(e, at[w])
                    ELSE IF e \in buried
                         THEN ReleasedRow(e, "dead_letter", event[e].avail)
                         ELSE event[e]]
  BY DEF ClaimTxn
<1>3. ASSUME NEW e \in Events
      PROVE  event[e] \in Rows /\ event[e].avail \in 0..Horizon
  BY DEF Typed, TypeOK, Rows
<1>4. ASSUME NEW e \in claimed
      PROVE  /\ event'[e] \in Rows
             /\ event'[e].attempts = AttemptNo(e)
             /\ event'[e].max = event[e].max
             /\ event'[e].status = "leased"
  <2>1. e \in Claimable(at[w]) /\ e \in Events
    BY <1>1 DEF Claimable
  <2>2. event'[e] = ClaimedRow(e, at[w])
    BY <1>2, <2>1
  <2> QED
    BY <2>1, <2>2, ClaimedType
<1>5. ASSUME NEW e \in Events \ claimed
      PROVE  /\ event'[e] \in Rows
             /\ event'[e].attempts = event[e].attempts
             /\ event'[e].max = event[e].max
             /\ \/ event'[e] = event[e]
                \/ event[e].status = "leased" /\ event'[e].status = "dead_letter"
  <2>1. CASE e \in buried
    <3>1. event'[e] = ReleasedRow(e, "dead_letter", event[e].avail)
      BY <1>2, <2>1
    <3>2. event[e].status = "leased"
      BY <2>1 DEF Exhausted, Expired
    <3>3. "dead_letter" \in Statuses
      BY DEF Statuses
    <3> QED
      BY <1>3, <3>1, <3>2, <3>3, ReleasedType
  <2>2. CASE e \notin buried
    BY <1>2, <1>3, <2>2
  <2> QED
    BY <2>1, <2>2
<1>6. event' \in [Events -> Rows]
  BY <1>2, <1>4, <1>5
<1> QED
  BY <1>1, <1>4, <1>5, <1>6

\* The claims it leaves with the dispatcher.
LEMMA ClaimBatch ==
  ASSUME Typed, NEW w \in Dispatchers, ClaimTxn(w)
  PROVE  LET claimed == FirstDue(Claimable(at[w]), BatchSize(w)) IN
         /\ batch' \in [Dispatchers -> SUBSET Claims]
         /\ \A v \in Dispatchers \ {w} : batch'[v] = batch[v]
         /\ \A c \in batch'[w] : c.event \in claimed /\ c.attempt = AttemptNo(c.event)
         /\ \A c, d \in batch'[w] : c.event = d.event => c = d
<1> DEFINE claimed == FirstDue(Claimable(at[w]), BatchSize(w))
           Claim(e) == [event |-> e, attempt |-> AttemptNo(e),
                        token |-> lastToken + 1, due |-> Due(e)]
<1>1. claimed \subseteq Claimable(at[w])
  BY FirstDueSubset
<1>2. batch' = [batch EXCEPT ![w] = {Claim(e) : e \in claimed}]
  BY DEF ClaimTxn
<1>3. batch'[w] = {Claim(e) : e \in claimed}
  BY <1>2 DEF Typed, TypeOK
<1>4. ASSUME NEW e \in claimed PROVE Claim(e) \in Claims
  <2>1. e \in Events /\ AttemptNo(e) \in Attempts
    BY <1>1, ClaimedType
  <2>2. event[e] \in Rows /\ lastToken + 1 \in Nat
    BY <2>1 DEF Typed, TypeOK
  <2>3. Due(e) \in 0..Horizon
    BY <2>2 DEF Due, Rows
  <2> QED
    BY <2>1, <2>2, <2>3 DEF Claims
<1>5. {Claim(e) : e \in claimed} \in SUBSET Claims
  BY <1>4
<1>6. batch' \in [Dispatchers -> SUBSET Claims]
  BY <1>2, <1>5 DEF Typed, TypeOK
<1>7. \A v \in Dispatchers \ {w} : batch'[v] = batch[v]
  BY <1>2 DEF Typed, TypeOK
<1> QED
  BY <1>3, <1>6, <1>7

LEMMA ClaimTyped ==
  ASSUME Typed, NEW w \in Dispatchers, ClaimTxn(w)
  PROVE  Typed'
<1>1. event' \in [Events -> Rows] /\ AttemptBounds'
  <2> DEFINE claimed == FirstDue(Claimable(at[w]), BatchSize(w))
  <2>1. ASSUME NEW e \in Events
        PROVE  /\ event'[e].attempts <= event'[e].max
               /\ event'[e].status = "absent" => event'[e].attempts = 0
    <3>1. CASE e \in claimed
      BY <3>1, ClaimRows, ClaimedType
    <3>2. CASE e \notin claimed
      BY <3>2, ClaimRows DEF Typed, AttemptBounds
    <3> QED
      BY <3>1, <3>2
  <2> QED
    BY <2>1, ClaimRows DEF AttemptBounds
<1>2. batch' \in [Dispatchers -> SUBSET Claims]
  BY ClaimBatch
<1>3. /\ pc' \in [Dispatchers -> {"idle", "claiming", "running", "sending",
                                  "answered", "failing"}]
      /\ at' \in [Dispatchers -> 0..Horizon] /\ tries' \in [Dispatchers -> 0..3]
      /\ lastToken' \in Nat
      /\ \A v \in Dispatchers : at'[v] \in {at[v], 0}
      /\ UNCHANGED <<now, requests, enabled, active>>
  BY DEF ClaimTxn, Typed, TypeOK
<1>4. ClockRead'
  BY <1>3 DEF Typed, TypeOK, ClockRead
<1> QED
  BY <1>1, <1>2, <1>3, <1>4 DEF Typed, TypeOK

\* A claim's row is released by the dispatcher that holds its lease, or left
\* alone, and the claim is done with.
LEMMA SettleRows ==
  ASSUME Typed, NEW w \in Dispatchers, NEW c \in batch[w], NEW avail \in 0..Horizon,
         NEW status \in {"delivered", "retry", "dead_letter"},
         Settle(w, c, status, avail)
  PROVE  /\ event' \in [Events -> Rows]
         /\ \A e \in Events :
              /\ event'[e].attempts = event[e].attempts
              /\ event'[e].max = event[e].max
              /\ \/ event'[e] = event[e]
                 \/ event[e].status = "leased" /\ event'[e].status = status
         /\ batch' \in [Dispatchers -> SUBSET Claims]
         /\ batch'[w] = batch[w] \ {c}
         /\ \A v \in Dispatchers \ {w} : batch'[v] = batch[v]
         /\ pc' \in [Dispatchers -> {"idle", "claiming", "running", "sending",
                                     "answered", "failing"}]
<1>1. c.event \in Events /\ status \in Statuses
  BY DEF Typed, TypeOK, Claims, Statuses
<1>2. /\ ReleasedRow(c.event, status, avail) \in Rows
      /\ ReleasedRow(c.event, status, avail).status = status
      /\ ReleasedRow(c.event, status, avail).attempts = event[c.event].attempts
      /\ ReleasedRow(c.event, status, avail).max = event[c.event].max
  BY <1>1, ReleasedType
<1>3. event \in [Events -> Rows]
  BY DEF Typed, TypeOK
<1>0. /\ batch' \in [Dispatchers -> SUBSET Claims]
      /\ batch'[w] = batch[w] \ {c}
      /\ \A v \in Dispatchers \ {w} : batch'[v] = batch[v]
      /\ pc' \in [Dispatchers -> {"idle", "claiming", "running", "sending",
                                  "answered", "failing"}]
  <2>1. batch' = [batch EXCEPT ![w] = batch[w] \ {c}]
    BY DEF Settle, Drop
  <2>2. batch \in [Dispatchers -> SUBSET Claims] /\ batch[w] \ {c} \in SUBSET Claims
    BY DEF Typed, TypeOK
  <2>3. pc' \in [Dispatchers -> {"idle", "claiming", "running", "sending",
                                "answered", "failing"}]
    BY DEF Settle, Drop, Typed, TypeOK
  <2> QED
    BY <2>1, <2>2, <2>3
<1>4. CASE HoldsLease(c)
  <2>1. event' = [event EXCEPT ![c.event] = ReleasedRow(c.event, status, avail)]
    BY <1>4 DEF Settle
  <2>2. event[c.event].status = "leased"
    BY <1>4 DEF HoldsLease
  <2>3. event'[c.event] = ReleasedRow(c.event, status, avail)
    BY <1>1, <1>3, <2>1
  <2>4. \A e \in Events \ {c.event} : event'[e] = event[e]
    BY <1>1, <1>3, <2>1
  <2>5. event' \in [Events -> Rows]
    BY <1>1, <1>2, <1>3, <2>1
  <2> QED
    BY <1>0, <1>1, <1>2, <2>2, <2>3, <2>4, <2>5
<1>5. CASE ~HoldsLease(c)
  <2>1. event' = event
    BY <1>5 DEF Settle
  <2> QED
    BY <1>0, <1>3, <2>1
<1> QED
  BY <1>4, <1>5

\* What each step of a delivery does: it is about the request alone, or it
\* finalises the next claim.
LEMMA DeliverSteps ==
  ASSUME Typed, NEW w \in Dispatchers, Deliver(w)
  PROVE  \/ /\ UNCHANGED <<event, batch>>
            /\ pc[w] \in {"running", "sending"}
            /\ \E step \in {"answered", "failing", "sending"} :
                 pc' = [pc EXCEPT ![w] = step]
            /\ \/ UNCHANGED requests
               \/ /\ pc[w] = "sending" /\ pc'[w] \in {"answered", "failing"}
                  /\ \E c \in batch[w] :
                       /\ IsNext(w, c)
                       /\ requests' = [requests EXCEPT ![c.event] = @ + 1]
         \/ /\ UNCHANGED requests
            /\ pc[w] \in {"answered", "failing"}
            /\ \E c \in batch[w], avail \in 0..Horizon,
                  status \in {"delivered", "retry", "dead_letter"} :
                 Settle(w, c, status, avail)
<1>1. CASE DeliverFails(w)
  BY <1>1 DEF DeliverFails, Proceed
<1>2. CASE DeliverNothing(w)
  BY <1>2 DEF DeliverNothing, Proceed
<1>3. CASE FindRecipient(w)
  BY <1>3 DEF FindRecipient, Proceed
<1>4. CASE SendAccepted(w)
  BY <1>4 DEF SendAccepted, Proceed, Typed, TypeOK
<1>5. CASE SendRefused(w)
  BY <1>5 DEF SendRefused, Proceed, Typed, TypeOK
<1>6. CASE Complete(w)
  <2>1. PICK c \in batch[w] : Settle(w, c, "delivered", event[c.event].avail)
    BY <1>6 DEF Complete
  <2>2. c.event \in Events
    BY DEF Typed, TypeOK, Claims
  <2>3. event[c.event].avail \in 0..Horizon
    BY <2>2 DEF Typed, TypeOK, Rows
  <2> QED
    BY <1>6, <2>1, <2>3 DEF Complete, Settle
<1>7. CASE RecordFailure(w)
  <2>1. PICK c \in batch[w] :
          Settle(w, c, FailureStatus(c),
                 IF FailureStatus(c) = "retry" THEN Later(now, Delay) ELSE now)
    BY <1>7 DEF RecordFailure
  <2>2. (IF FailureStatus(c) = "retry" THEN Later(now, Delay) ELSE now) \in 0..Horizon
    BY LaterType DEF Typed, TypeOK
  <2>3. FailureStatus(c) \in {"retry", "dead_letter"}
    BY DEF FailureStatus
  <2> QED
    BY <1>7, <2>1, <2>2, <2>3 DEF RecordFailure, Settle
<1> QED
  BY <1>1, <1>2, <1>3, <1>4, <1>5, <1>6, <1>7 DEF Deliver

\* Whatever it is, nothing else changes.
LEMMA DeliverKeeps ==
  ASSUME NEW w \in Dispatchers, Deliver(w)
  PROVE  UNCHANGED <<now, lastToken, at, tries, enabled, active>>
BY DEF Deliver, DeliverFails, DeliverNothing, FindRecipient, SendAccepted,
       SendRefused, Complete, RecordFailure, Proceed, Settle

LEMMA DeliverTyped ==
  ASSUME Typed, NEW w \in Dispatchers, Deliver(w)
  PROVE  Typed'
<1>1. UNCHANGED <<now, lastToken, at, tries, enabled, active>>
  BY DeliverKeeps
<1>2. CASE /\ UNCHANGED <<event, batch>>
           /\ \E step \in {"answered", "failing", "sending"} :
                pc' = [pc EXCEPT ![w] = step]
           /\ \/ UNCHANGED requests
              \/ \E c \in batch[w] :
                   requests' = [requests EXCEPT ![c.event] = @ + 1]
  <2>1. requests' \in [Events -> Nat]
    BY <1>2 DEF Typed, TypeOK, Claims
  <2> QED
    BY <1>1, <1>2, <2>1 DEF Typed, TypeOK, AttemptBounds, ClockRead
<1>3. ASSUME NEW c \in batch[w], NEW avail \in 0..Horizon,
             NEW status \in {"delivered", "retry", "dead_letter"},
             Settle(w, c, status, avail), UNCHANGED requests
      PROVE  Typed'
  <2>1. event' \in [Events -> Rows] /\ AttemptBounds'
    BY <1>3, SettleRows DEF Typed, AttemptBounds
  <2>2. /\ batch' \in [Dispatchers -> SUBSET Claims]
        /\ pc' \in [Dispatchers -> {"idle", "claiming", "running", "sending",
                                    "answered", "failing"}]
    BY <1>3, SettleRows
  <2> QED
    BY <1>1, <1>3, <2>1, <2>2 DEF Typed, TypeOK, ClockRead
<1> QED
  BY <1>2, <1>3, DeliverSteps

LEMMA NextTyped == Typed /\ [Next]_vars => Typed'
<1> SUFFICES ASSUME Typed, [Next]_vars PROVE Typed'
  OBVIOUS
<1>1. CASE UNCHANGED vars
  BY <1>1 DEF vars, Typed, TypeOK, AttemptBounds, ClockRead
<1>2. CASE Tick
  BY <1>2 DEF Tick, queue, Typed, TypeOK, AttemptBounds, ClockRead
<1>3. CASE Configure \/ ChangeRecipient
  BY <1>3 DEF Configure, ChangeRecipient, queue, Typed, TypeOK, AttemptBounds, ClockRead
<1>4. ASSUME NEW e \in Events, Enqueue(e) PROVE Typed'
  <2>1. /\ event' \in [Events -> Rows]
        /\ \A f \in Events \ {e} : event'[f] = event[f]
        /\ event[e].status # "absent" => event'[e] = event[e]
        /\ event[e].status = "absent" => event'[e].attempts = 0
    BY <1>4, EnqueueRows
  <2>2. ASSUME NEW f \in Events
        PROVE  /\ event'[f].attempts <= event'[f].max
               /\ event'[f].status = "absent" => event'[f].attempts = 0
    <3>1. event'[f] \in Rows
      BY <2>1
    <3>2. CASE event'[f] = event[f]
      BY <3>2 DEF Typed, AttemptBounds
    <3>3. CASE event'[f].attempts = 0
      BY <3>1, <3>3 DEF Rows
    <3> QED
      BY <2>1, <3>2, <3>3
  <2> QED
    BY <1>4, <2>1, <2>2 DEF Enqueue, Typed, TypeOK, ClockRead, AttemptBounds
<1>5. ASSUME NEW w \in Dispatchers, Start(w) \/ ClaimDeadlock(w) PROVE Typed'
  BY <1>5 DEF Start, ClaimDeadlock, Typed, TypeOK, AttemptBounds, ClockRead
<1>6. ASSUME NEW w \in Dispatchers, Stop(w) PROVE Typed'
  BY <1>6 DEF Stop, Typed, TypeOK, AttemptBounds, ClockRead
<1> QED
  BY <1>1, <1>2, <1>3, <1>4, <1>5, <1>6, ClaimTyped, DeliverTyped DEF Next

-----------------------------------------------------------------------------
(* The claims that are out.                                                *)

\* No two dispatchers hold the same attempt of an event, none two of its
\* attempts, and none an attempt the row does not know of.
ClaimsApart ==
  /\ \A v, w \in Dispatchers : \A c \in batch[v], d \in batch[w] :
       c.event = d.event /\ c.attempt = d.attempt => v = w
  /\ \A w \in Dispatchers : \A c, d \in batch[w] : c.event = d.event => c = d
  /\ \A w \in Dispatchers : \A c \in batch[w] : c.attempt <= event[c.event].attempts

LEMMA InitApart == Init => ClaimsApart
  BY DEF Init, ClaimsApart

\* Fewer claims, or rows with as many attempts, do no harm.
LEMMA FewerApart ==
  ASSUME Typed, ClaimsApart,
         \A w \in Dispatchers : batch'[w] \subseteq batch[w],
         \A e \in Events : event'[e].attempts = event[e].attempts
  PROVE  ClaimsApart'
<1>1. \A w \in Dispatchers : \A c \in batch'[w] : c \in batch[w] /\ c.event \in Events
  BY DEF Typed, TypeOK, Claims
<1> QED
  BY <1>1 DEF ClaimsApart

LEMMA ClaimApart ==
  ASSUME Typed, ClaimsApart, NEW w \in Dispatchers, ClaimTxn(w)
  PROVE  ClaimsApart'
<1> DEFINE claimed == FirstDue(Claimable(at[w]), BatchSize(w))
<1>1. \A v \in Dispatchers : \A c \in batch[v] :
        c.event \in Events /\ c.attempt \in Nat
  BY DEF Typed, TypeOK, Claims, Attempts
<1>2. \A e \in claimed : e \in Events /\ AttemptNo(e) = event[e].attempts + 1
                         /\ event[e].attempts \in Nat
  <2>1. \A e \in claimed : e \in Events /\ AttemptNo(e) = event[e].attempts + 1
    BY ClaimRows, ClaimedType
  <2>2. \A e \in Events : event[e] \in Rows
    BY DEF Typed, TypeOK
  <2>3. \A e \in Events : event[e].attempts \in Nat
    BY <2>2, RowAttempts
  <2> QED
    BY <2>1, <2>3
<1>3. \A c \in batch'[w] : c.event \in claimed /\ c.attempt = AttemptNo(c.event)
  BY ClaimBatch
<1>4. \A v \in Dispatchers \ {w} : batch'[v] = batch[v]
  BY ClaimBatch
<1>5. \A e \in Events : /\ event[e].attempts \in Nat
                        /\ event'[e].attempts = IF e \in claimed THEN AttemptNo(e)
                                                ELSE event[e].attempts
  <2>1. \A e \in Events : event[e] \in Rows
    BY DEF Typed, TypeOK
  <2>2. \A e \in Events : event[e].attempts \in Nat
    BY <2>1, RowAttempts
  <2>3. ASSUME NEW e \in Events
        PROVE  event'[e].attempts = IF e \in claimed THEN AttemptNo(e)
                                    ELSE event[e].attempts
    <3>1. CASE e \in claimed
      BY <3>1, ClaimRows
    <3>2. CASE e \notin claimed
      BY <3>2, ClaimRows
    <3> QED
      BY <3>1, <3>2
  <2> QED
    BY <2>2, <2>3
<1>6. ASSUME NEW v \in Dispatchers \ {w}, NEW c \in batch'[v], NEW d \in batch'[w],
             c.event = d.event
      PROVE  c.attempt # d.attempt
  <2>1. c.attempt <= event[c.event].attempts /\ c.attempt \in Nat
    BY <1>1, <1>4, <1>6 DEF ClaimsApart
  <2>2. d.attempt = event[c.event].attempts + 1 /\ event[c.event].attempts \in Nat
    BY <1>2, <1>3, <1>6
  <2> QED
    BY <2>1, <2>2
<1>7. ASSUME NEW v \in Dispatchers, NEW c \in batch'[v]
      PROVE  c.attempt <= event'[c.event].attempts
  <2>1. CASE v = w
    <3>1. c.event \in claimed /\ c.attempt = AttemptNo(c.event)
      BY <2>1, <1>3
    <3>2. /\ c.event \in Events /\ AttemptNo(c.event) = event[c.event].attempts + 1
          /\ event[c.event].attempts \in Nat
      BY <3>1, <1>2
    <3>3. event'[c.event].attempts = IF c.event \in claimed THEN AttemptNo(c.event)
                                     ELSE event[c.event].attempts
      BY <3>2, <1>5
    <3> HIDE DEF claimed
    <3> QED
      BY <3>1, <3>2, <3>3
  <2>2. CASE v # w
    <3>1. /\ c.event \in Events /\ c.attempt \in Nat
          /\ c.attempt <= event[c.event].attempts
      BY <2>2, <1>1, <1>4 DEF ClaimsApart
    <3>2. event'[c.event].attempts \in {event[c.event].attempts, event[c.event].attempts + 1}
          /\ event[c.event].attempts \in Nat
      BY <3>1, <1>2, <1>5
    <3> QED
      BY <3>1, <3>2
  <2> QED
    BY <2>1, <2>2
<1>8. \A v \in Dispatchers : \A c, d \in batch'[v] : c.event = d.event => c = d
  BY <1>4, ClaimBatch DEF ClaimsApart
<1>9. ASSUME NEW u \in Dispatchers, NEW v \in Dispatchers,
             NEW c \in batch'[u], NEW d \in batch'[v],
             c.event = d.event, c.attempt = d.attempt
      PROVE  u = v
  BY <1>4, <1>6, <1>9 DEF ClaimsApart
<1> QED
  BY <1>7, <1>8, <1>9 DEF ClaimsApart

LEMMA NextApart == Typed /\ ClaimsApart /\ [Next]_vars => ClaimsApart'
<1> SUFFICES ASSUME Typed, ClaimsApart, [Next]_vars PROVE ClaimsApart'
  OBVIOUS
<1>1. CASE UNCHANGED <<event, batch>>
  BY <1>1, FewerApart
<1>2. ASSUME NEW e \in Events, Enqueue(e) PROVE ClaimsApart'
  <2>1. UNCHANGED batch /\ \A f \in Events : event'[f].attempts = event[f].attempts
    BY <1>2, EnqueueRows DEF Enqueue, Typed, AttemptBounds
  <2> QED
    BY <2>1, FewerApart
<1>3. ASSUME NEW w \in Dispatchers, Deliver(w) PROVE ClaimsApart'
  <2>1. ASSUME NEW c \in batch[w], NEW avail \in 0..Horizon,
               NEW status \in {"delivered", "retry", "dead_letter"},
               Settle(w, c, status, avail)
        PROVE  ClaimsApart'
    <3>1. \A v \in Dispatchers : batch'[v] \subseteq batch[v]
      BY <2>1, SettleRows
    <3>2. \A e \in Events : event'[e].attempts = event[e].attempts
      BY <2>1, SettleRows
    <3> QED
      BY <3>1, <3>2, FewerApart
  <2> QED
    BY <1>1, <1>3, <2>1, DeliverSteps
<1>4. ASSUME NEW w \in Dispatchers, Stop(w) PROVE ClaimsApart'
  <2>1. /\ \A v \in Dispatchers : batch'[v] \subseteq batch[v]
        /\ UNCHANGED event
    BY <1>4 DEF Stop, Typed, TypeOK
  <2> QED
    BY <2>1, FewerApart
<1>5. CASE UNCHANGED vars \/ Tick \/ Configure \/ ChangeRecipient
  BY <1>1, <1>5 DEF vars, Tick, queue, Configure, ChangeRecipient
<1>6. ASSUME NEW w \in Dispatchers, Start(w) \/ ClaimDeadlock(w) PROVE ClaimsApart'
  BY <1>1, <1>6 DEF Start, ClaimDeadlock
<1> QED
  BY <1>2, <1>3, <1>4, <1>5, <1>6, ClaimApart DEF Next

-----------------------------------------------------------------------------
(* Requests and the attempts they are charged to.                          *)

\* Has the request of the claim at hand been made?
Sent(w, c) == pc[w] \in {"answered", "failing"} /\ IsNext(w, c)

\* The attempts of e that are out and have made no request yet.
Unsent(e) == {a \in Attempts :
                \E w \in Dispatchers : \E c \in batch[w] :
                  c.event = e /\ c.attempt = a /\ ~Sent(w, c)}

\* What was requested and what may still be requested fits into the attempts.
Charged ==
  \A e \in Events : requests[e] + Cardinality(Unsent(e)) <= event[e].attempts

LEMMA UnsentFinite ==
  \A e : IsFiniteSet(Unsent(e)) /\ Cardinality(Unsent(e)) \in Nat
<1> TAKE e
<1>1. IsFiniteSet(Attempts)
  BY FS_Interval DEF Attempts
<1>2. IsFiniteSet(Unsent(e))
  BY <1>1, FS_Subset DEF Unsent
<1> QED
  BY <1>2, FS_CardinalityType

LEMMA UnsentFiniteNext ==
  \A e : IsFiniteSet(Unsent(e)') /\ Cardinality(Unsent(e)') \in Nat
<1> TAKE e
<1>1. IsFiniteSet(Attempts)
  BY FS_Interval DEF Attempts
<1>2. IsFiniteSet(Unsent(e)')
  BY <1>1, FS_Subset DEF Unsent
<1> QED
  BY <1>2, FS_CardinalityType

\* The charge of an event whose requests stay as they are holds on when nothing
\* is added to what is out, and its row loses no attempt.
LEMMA FewerUnsent ==
  ASSUME Typed, Charged, NEW e \in Events,
         Unsent(e)' \subseteq Unsent(e), requests'[e] = requests[e],
         event'[e].attempts = event[e].attempts
  PROVE  requests'[e] + Cardinality(Unsent(e)') <= event'[e].attempts
<1>1. Cardinality(Unsent(e)') <= Cardinality(Unsent(e))
  BY UnsentFinite, FS_Subset
<1>2. /\ requests[e] \in Nat /\ event[e] \in Rows
      /\ requests[e] + Cardinality(Unsent(e)) <= event[e].attempts
  BY DEF Typed, TypeOK, Charged
<1>3. event[e].attempts \in Nat
  BY <1>2 DEF Rows
<1> QED
  BY <1>1, <1>2, <1>3, UnsentFinite, UnsentFiniteNext

LEMMA InitCharged == Init => Charged
<1> SUFFICES ASSUME Init, NEW e \in Events
             PROVE  requests[e] + Cardinality(Unsent(e)) <= event[e].attempts
  BY DEF Charged
<1>1. Unsent(e) = {}
  BY DEF Init, Unsent
<1> QED
  BY <1>1, FS_EmptySet DEF Init, NoRow

\* A claim transaction puts at most one attempt of an event out, the one it adds.
LEMMA ClaimCharged ==
  ASSUME Typed, Charged, NEW w \in Dispatchers, ClaimTxn(w)
  PROVE  Charged'
<1> DEFINE claimed == FirstDue(Claimable(at[w]), BatchSize(w))
<1>0. /\ pc[w] = "claiming" /\ UNCHANGED requests
      /\ \A v \in Dispatchers \ {w} : pc'[v] = pc[v]
  BY DEF ClaimTxn, Typed, TypeOK
<1>1. \A v \in Dispatchers \ {w} : batch'[v] = batch[v]
  BY ClaimBatch
<1>2. \A c \in batch'[w] : c.event \in claimed /\ c.attempt = AttemptNo(c.event)
  BY ClaimBatch
<1>3. ASSUME NEW v \in Dispatchers \ {w}, NEW c \in batch[v]
      PROVE  Sent(v, c)' <=> Sent(v, c)
  BY <1>0, <1>1 DEF Sent, IsNext
<1> SUFFICES ASSUME NEW e \in Events
             PROVE  requests'[e] + Cardinality(Unsent(e)') <= event'[e].attempts
  BY DEF Charged
<1>4. CASE e \notin claimed
  <2>1. ASSUME NEW a \in Unsent(e)' PROVE a \in Unsent(e)
    <3>1. a \in Attempts
      BY DEF Unsent
    <3>4. PICK v \in Dispatchers :
            \E c \in batch'[v] : c.event = e /\ c.attempt = a /\ ~Sent(v, c)'
      BY DEF Unsent
    <3>2. PICK c \in batch'[v] : c.event = e /\ c.attempt = a /\ ~Sent(v, c)'
      BY <3>4
    <3>3. v # w
      BY <1>2, <1>4, <3>2
    <3> QED
      BY <1>1, <1>3, <3>1, <3>2, <3>3 DEF Unsent
  <2>2. event'[e].attempts = event[e].attempts
    BY <1>4, ClaimRows
  <2> QED
    BY <1>0, <2>1, <2>2, FewerUnsent
<1>5. CASE e \in claimed
  <2>1. /\ event'[e].attempts = AttemptNo(e)
        /\ AttemptNo(e) = event[e].attempts + 1
        /\ AttemptNo(e) \in Attempts
    BY <1>5, ClaimRows, ClaimedType
  <2>2. Unsent(e)' \subseteq Unsent(e) \cup {AttemptNo(e)}
    <3>1. ASSUME NEW a \in Unsent(e)' PROVE a \in Unsent(e) \cup {AttemptNo(e)}
      <4>1. a \in Attempts
        BY DEF Unsent
      <4>5. PICK v \in Dispatchers :
              \E c \in batch'[v] : c.event = e /\ c.attempt = a /\ ~Sent(v, c)'
        BY DEF Unsent
      <4>2. PICK c \in batch'[v] : c.event = e /\ c.attempt = a /\ ~Sent(v, c)'
        BY <4>5
      <4>3. CASE v = w
        BY <1>2, <4>2, <4>3
      <4>4. CASE v # w
        BY <1>1, <1>3, <4>1, <4>2, <4>4 DEF Unsent
      <4> QED
        BY <4>3, <4>4
    <3> QED
      BY <3>1
  <2>3. /\ IsFiniteSet(Unsent(e) \cup {AttemptNo(e)})
        /\ Cardinality(Unsent(e) \cup {AttemptNo(e)}) <= Cardinality(Unsent(e)) + 1
        /\ Cardinality(Unsent(e) \cup {AttemptNo(e)}) \in Nat
    <3>1. /\ IsFiniteSet(Unsent(e) \cup {AttemptNo(e)})
          /\ \/ Cardinality(Unsent(e) \cup {AttemptNo(e)}) = Cardinality(Unsent(e))
             \/ Cardinality(Unsent(e) \cup {AttemptNo(e)}) = Cardinality(Unsent(e)) + 1
      BY UnsentFinite, FS_AddElement
    <3> QED
      BY <3>1, UnsentFinite
  <2>4. Cardinality(Unsent(e)') <= Cardinality(Unsent(e) \cup {AttemptNo(e)})
    BY <2>2, <2>3, FS_Subset
  <2>5. /\ requests[e] \in Nat /\ event[e] \in Rows
        /\ requests[e] + Cardinality(Unsent(e)) <= event[e].attempts
    BY DEF Typed, TypeOK, Charged
  <2>6. event[e].attempts \in Nat
    BY <2>5 DEF Rows
  <2> QED
    BY <1>0, <2>1, <2>3, <2>4, <2>5, <2>6, UnsentFinite, UnsentFiniteNext
<1> QED
  BY <1>4, <1>5

\* Only one claim of a batch is next.
LEMMA NextUnique ==
  ASSUME Typed, ClaimsApart, NEW w \in Dispatchers, NEW c \in batch[w],
         NEW d \in batch[w], IsNext(w, c), IsNext(w, d)
  PROVE  c = d
<1>0. c \in Claims /\ d \in Claims
  BY DEF Typed, TypeOK
<1>1. /\ c.due \in Nat /\ d.due \in Nat
      /\ c.event \in Nat /\ d.event \in Nat
  <2>1. /\ c.due \in 0..Horizon /\ d.due \in 0..Horizon
        /\ c.event \in Events /\ d.event \in Events
    BY <1>0 DEF Claims
  <2>2. c.due \in Nat /\ d.due \in Nat
    BY <2>1
  <2>3. c.event \in Nat /\ d.event \in Nat
    BY <2>1, EventsAssumption
  <2> QED
    BY <2>2, <2>3
<1>2. /\ c.due < d.due \/ (c.due = d.due /\ c.event <= d.event)
      /\ d.due < c.due \/ (d.due = c.due /\ d.event <= c.event)
  BY DEF IsNext
<1>3. c.event = d.event
  BY <1>1, <1>2
<1> QED
  BY <1>3 DEF ClaimsApart

LEMMA DeliverCharged ==
  ASSUME Typed, ClaimsApart, Charged, NEW w \in Dispatchers, Deliver(w)
  PROVE  Charged'
<1>1. ASSUME UNCHANGED <<event, batch>>, pc[w] \in {"running", "sending"},
             NEW step, pc' = [pc EXCEPT ![w] = step]
      PROVE  /\ \A e \in Events : Unsent(e)' \subseteq Unsent(e)
             /\ UNCHANGED requests => Charged'
  <2>1. ASSUME NEW v \in Dispatchers, NEW c \in batch'[v], ~Sent(v, c)'
        PROVE  c \in batch[v] /\ ~Sent(v, c)
    <3>1. c \in batch[v] /\ (v # w => pc'[v] = pc[v])
      BY <1>1, <2>1 DEF Typed, TypeOK
    <3>2. IsNext(v, c)' <=> IsNext(v, c)
      BY <1>1 DEF IsNext
    <3> QED
      BY <1>1, <2>1, <3>1, <3>2 DEF Sent
  <2>2. \A e \in Events : Unsent(e)' \subseteq Unsent(e)
    BY <2>1 DEF Unsent
  <2> QED
    BY <1>1, <2>2, FewerUnsent DEF Charged
<1>2. ASSUME UNCHANGED <<event, batch>>, pc[w] = "sending",
             NEW step \in {"answered", "failing"}, pc' = [pc EXCEPT ![w] = step],
             NEW c \in batch[w], IsNext(w, c),
             requests' = [requests EXCEPT ![c.event] = @ + 1]
      PROVE  Charged'
  <2>1. \A e \in Events : Unsent(e)' \subseteq Unsent(e)
    BY <1>1, <1>2
  <2>2. /\ c.event \in Events /\ c.attempt \in Attempts
        /\ requests \in [Events -> Nat] /\ event \in [Events -> Rows]
    BY DEF Typed, TypeOK, Claims
  <2>3. ASSUME NEW e \in Events, e # c.event
        PROVE  requests'[e] + Cardinality(Unsent(e)') <= event'[e].attempts
    BY <1>2, <2>1, <2>2, <2>3, FewerUnsent
  <2>4. c.attempt \in Unsent(c.event)
    BY <1>2, <2>2 DEF Unsent, Sent
  <2>5. c.attempt \notin Unsent(c.event)'
    <3>1. Sent(w, c)'
      <4>1. pc'[w] \in {"answered", "failing"}
        BY <1>2 DEF Typed, TypeOK
      <4>2. IsNext(w, c)'
        BY <1>2 DEF IsNext
      <4> QED
        BY <4>1, <4>2 DEF Sent
    <3>2. ASSUME NEW v \in Dispatchers, NEW d \in batch'[v],
                 d.event = c.event, d.attempt = c.attempt
          PROVE  Sent(v, d)'
      <4>1. v = w
        BY <1>2, <3>2 DEF ClaimsApart
      <4>2. d = c
        BY <1>2, <3>2, <4>1 DEF ClaimsApart
      <4> QED
        BY <3>1, <4>1, <4>2
    <3> QED
      BY <3>2 DEF Unsent
  <2>6. Cardinality(Unsent(c.event) \ {c.attempt}) = Cardinality(Unsent(c.event)) - 1
        /\ IsFiniteSet(Unsent(c.event) \ {c.attempt})
    BY <2>4, UnsentFinite, FS_RemoveElement
  <2>7. Cardinality(Unsent(c.event)') <= Cardinality(Unsent(c.event)) - 1
    <3>1. Unsent(c.event)' \subseteq Unsent(c.event) \ {c.attempt}
      BY <2>1, <2>2, <2>5
    <3> QED
      BY <2>6, <3>1, FS_Subset
  <2>8. /\ requests[c.event] \in Nat /\ event[c.event].attempts \in Nat
        /\ requests[c.event] + Cardinality(Unsent(c.event)) <= event[c.event].attempts
    <3>1. event[c.event] \in Rows
      BY <2>2
    <3>2. event[c.event].attempts \in Nat
      BY <3>1 DEF Rows
    <3> QED
      BY <2>2, <3>2 DEF Charged
  <2>9. /\ requests'[c.event] = requests[c.event] + 1
        /\ event'[c.event].attempts = event[c.event].attempts
    BY <1>2, <2>2
  <2>10. requests'[c.event] + Cardinality(Unsent(c.event)') <= event'[c.event].attempts
    BY <2>7, <2>8, <2>9, UnsentFinite, UnsentFiniteNext
  <2> QED
    BY <2>3, <2>10 DEF Charged
<1>3. ASSUME NEW c \in batch[w], NEW avail \in 0..Horizon,
             NEW status \in {"delivered", "retry", "dead_letter"},
             Settle(w, c, status, avail), UNCHANGED requests,
             pc[w] \in {"answered", "failing"}
      PROVE  Charged'
  <2>1. /\ IsNext(w, c) /\ batch'[w] = batch[w] \ {c}
        /\ \A v \in Dispatchers \ {w} : batch'[v] = batch[v]
        /\ \A v \in Dispatchers \ {w} : pc'[v] = pc[v]
    BY <1>3, SettleRows DEF Settle, Drop, Typed, TypeOK
  <2>2. ASSUME NEW v \in Dispatchers, NEW d \in batch'[v], ~Sent(v, d)'
        PROVE  d \in batch[v] /\ ~Sent(v, d)
    <3>1. CASE v = w
      <4>1. d \in batch[w] /\ d # c
        BY <2>1, <2>2, <3>1
      <4>2. ~IsNext(w, d)
        BY <2>1, <4>1, NextUnique
      <4> QED
        BY <3>1, <4>1, <4>2 DEF Sent
    <3>2. CASE v # w
      BY <2>1, <2>2, <3>2 DEF Sent, IsNext
    <3> QED
      BY <3>1, <3>2
  <2>3. \A e \in Events : Unsent(e)' \subseteq Unsent(e)
    BY <2>2 DEF Unsent
  <2>4. \A e \in Events : event'[e].attempts = event[e].attempts
    BY <1>3, SettleRows
  <2> QED
    BY <1>3, <2>3, <2>4, FewerUnsent DEF Charged
<1>4. CASE /\ UNCHANGED <<event, batch>>
           /\ pc[w] \in {"running", "sending"}
           /\ \E step \in {"answered", "failing", "sending"} :
                pc' = [pc EXCEPT ![w] = step]
           /\ \/ UNCHANGED requests
              \/ /\ pc[w] = "sending" /\ pc'[w] \in {"answered", "failing"}
                 /\ \E c \in batch[w] :
                      /\ IsNext(w, c)
                      /\ requests' = [requests EXCEPT ![c.event] = @ + 1]
  <2>1. PICK step : pc' = [pc EXCEPT ![w] = step]
    BY <1>4
  <2>2. pc'[w] = step
    BY <2>1 DEF Typed, TypeOK
  <2> QED
    BY <1>1, <1>2, <1>4, <2>1, <2>2
<1> QED
  BY <1>3, <1>4, DeliverSteps

\* A dispatcher that stops gives its claims up, and other steps touch neither
\* claims nor requests.
LEMMA NextCharged == Typed /\ ClaimsApart /\ Charged /\ [Next]_vars => Charged'
<1> SUFFICES ASSUME Typed, ClaimsApart, Charged, [Next]_vars PROVE Charged'
  OBVIOUS
<1>1. ASSUME UNCHANGED <<batch, requests>>,
             \A e \in Events : event'[e].attempts = event[e].attempts,
             pc' = pc
      PROVE  Charged'
  <2>1. \A v \in Dispatchers : \A c \in batch'[v] : Sent(v, c)' <=> Sent(v, c)
    BY <1>1 DEF Sent, IsNext
  <2>2. \A e \in Events : Unsent(e)' \subseteq Unsent(e)
    BY <1>1, <2>1 DEF Unsent
  <2> QED
    BY <1>1, <2>2, FewerUnsent DEF Charged
<1>2. ASSUME NEW e \in Events, Enqueue(e) PROVE Charged'
  <2>1. \A f \in Events : event'[f].attempts = event[f].attempts
    BY <1>2, EnqueueRows DEF Typed, AttemptBounds
  <2> QED
    BY <1>1, <1>2, <2>1 DEF Enqueue
<1>3. ASSUME NEW w \in Dispatchers, Stop(w) PROVE Charged'
  <2>1. /\ batch'[w] = {} /\ UNCHANGED <<event, requests>>
        /\ \A v \in Dispatchers \ {w} : batch'[v] = batch[v] /\ pc'[v] = pc[v]
    BY <1>3 DEF Stop, Typed, TypeOK
  <2>2. ASSUME NEW v \in Dispatchers, NEW c \in batch'[v]
        PROVE  c \in batch[v] /\ (Sent(v, c)' <=> Sent(v, c))
    BY <2>1, <2>2 DEF Sent, IsNext
  <2>3. \A e \in Events : Unsent(e)' \subseteq Unsent(e)
    BY <2>2 DEF Unsent
  <2> QED
    BY <2>1, <2>3, FewerUnsent DEF Charged
<1>4. CASE UNCHANGED vars \/ Tick \/ Configure \/ ChangeRecipient
  BY <1>1, <1>4 DEF vars, Tick, queue, Configure, ChangeRecipient
<1>5. ASSUME NEW w \in Dispatchers, ClaimDeadlock(w) PROVE Charged'
  BY <1>1, <1>5 DEF ClaimDeadlock
<1>6. ASSUME NEW w \in Dispatchers, Start(w) PROVE Charged'
  <2>1. /\ UNCHANGED <<event, batch, requests>>
        /\ pc[w] = "idle" /\ pc'[w] = "claiming"
        /\ \A v \in Dispatchers \ {w} : pc'[v] = pc[v]
    BY <1>6 DEF Start, Typed, TypeOK
  <2>2. ASSUME NEW v \in Dispatchers, NEW c \in batch'[v]
        PROVE  Sent(v, c)' <=> Sent(v, c)
    BY <2>1 DEF Sent, IsNext
  <2>3. \A e \in Events : Unsent(e)' \subseteq Unsent(e)
    BY <2>1, <2>2 DEF Unsent
  <2> QED
    BY <2>1, <2>3, FewerUnsent DEF Charged
<1> QED
  BY <1>2, <1>3, <1>4, <1>5, <1>6, ClaimCharged, DeliverCharged DEF Next

-----------------------------------------------------------------------------
(* Theorems.                                                               *)

IInv == Typed /\ ClaimsApart /\ Charged

LEMMA IInvHolds == Spec => []IInv
<1>1. Init => IInv
  BY InitTyped, InitApart, InitCharged DEF IInv
<1>2. IInv /\ [Next]_vars => IInv'
  BY NextTyped, NextApart, NextCharged DEF IInv
<1> QED
  BY <1>1, <1>2, PTL DEF Spec

\* Every request to the provider is charged to an attempt the event was granted,
\* and no two dispatchers can write to one event, however many dispatchers
\* there are and whatever they lose.
THEOREM DeliverySoundHolds == Spec => []DeliverySound
<1>1. IInv => DeliverySound
  <2> SUFFICES ASSUME IInv PROVE DeliverySound
    OBVIOUS
  <2>1. TypeOK
    BY DEF IInv, Typed
  <2>2. ASSUME NEW e \in Events
        PROVE  requests[e] <= event[e].attempts /\ event[e].attempts <= event[e].max
    <3>1. requests[e] \in Nat /\ event[e] \in Rows
      BY <2>1 DEF TypeOK
    <3>2. event[e].attempts \in Nat
      BY <3>1 DEF Rows
    <3>3. /\ requests[e] + Cardinality(Unsent(e)) <= event[e].attempts
          /\ event[e].attempts <= event[e].max
      BY DEF IInv, Charged, Typed, AttemptBounds
    <3> QED
      BY <3>1, <3>2, <3>3, UnsentFinite
  <2>3. OneHolder
    BY DEF OneHolder, HoldsLease, IInv, ClaimsApart
  <2> QED
    BY <2>1, <2>2, <2>3 DEF DeliverySound, RequestsCharged
<1> QED
  BY <1>1, IInvHolds, PTL

\* A delivered or buried event is never touched again, and none is attempted
\* before its backoff or its lease is over.
THEOREM EventsKeepTimeHolds == Spec => EventsKeepTime
<1> DEFINE Final(e) == event[e].status \in {"delivered", "dead_letter"}
<1>1. ASSUME Typed, [Next]_vars, NEW e \in Events
      PROVE  /\ Final(e) => event'[e] = event[e]
             /\ event'[e].attempts # event[e].attempts => Due(e) <= now
  <2>1. CASE UNCHANGED event
    BY <2>1
  <2>2. ASSUME NEW f \in Events, Enqueue(f)
        PROVE  event'[e] = event[e] \/ (~Final(e) /\ event'[e].attempts = event[e].attempts)
    BY <1>1, <2>2, EnqueueRows DEF Typed, AttemptBounds
  <2>3. ASSUME NEW w \in Dispatchers, ClaimTxn(w)
        PROVE  /\ Final(e) => event'[e] = event[e]
               /\ event'[e].attempts # event[e].attempts => Due(e) <= now
    <3> DEFINE claimed == FirstDue(Claimable(at[w]), BatchSize(w))
    <3>1. CASE e \in claimed
      <4>1. e \in Claimable(at[w])
        BY <1>1, <2>3, <3>1, ClaimRows
      <4>2. ~Final(e) /\ Due(e) <= at[w]
        BY <4>1 DEF Claimable, Ready, Expired, Due
      <4>3. Due(e) \in Nat /\ at[w] \in Nat /\ now \in Nat /\ at[w] <= now
        BY <1>1 DEF Typed, TypeOK, Rows, Due, ClockRead
      <4> QED
        BY <4>2, <4>3
    <3>2. CASE e \notin claimed
      BY <1>1, <2>3, <3>2, ClaimRows
    <3> QED
      BY <3>1, <3>2
  <2>4. ASSUME NEW w \in Dispatchers, Deliver(w)
        PROVE  event'[e] = event[e] \/ (~Final(e) /\ event'[e].attempts = event[e].attempts)
    <3>1. ASSUME NEW c \in batch[w], NEW avail \in 0..Horizon,
                 NEW status \in {"delivered", "retry", "dead_letter"},
                 Settle(w, c, status, avail)
          PROVE  event'[e] = event[e] \/ (~Final(e) /\ event'[e].attempts = event[e].attempts)
      BY <1>1, <3>1, SettleRows
    <3> QED
      BY <1>1, <2>4, <3>1, DeliverSteps
  <2> QED
    BY <1>1, <2>1, <2>2, <2>3, <2>4
       DEF Next, vars, Tick, queue, Configure, ChangeRecipient, Start, ClaimDeadlock, Stop
<1>2. Typed /\ [Next]_vars =>
        /\ [\A e \in Events : event[e].status \in {"delivered", "dead_letter"} =>
              event'[e] = event[e]]_vars
        /\ [\A e \in Events :
              event'[e].attempts # event[e].attempts => Due(e) <= now]_vars
  BY <1>1
<1>3. IInv => Typed
  BY DEF IInv
<1> QED
  BY <1>2, <1>3, IInvHolds, PTL DEF Spec, EventsKeepTime, FinalIsFinal, NoEarlyAttempt
=============================================================================
